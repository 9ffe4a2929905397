--------------------------- MODULE KnowledgeStore ---------------------------
(***************************************************************************)
(* What the knowledge base promises to those who read committed rows,      *)
(* without transactions, batches or failures: a document comes in one step *)
(* with all its chunks and a text that no other document has, stays as it  *)
(* is, and goes in one step with all its chunks, for good.                 *)
(***************************************************************************)
CONSTANTS Documents,   \* the names of documents
          Texts, NoText,
          ChunksOf     \* the chunks of each text

VARIABLES documents,   \* the text of each document, or NoText
          index,       \* the numbers of the chunks that a search may find
          gone         \* documents that were deleted

storeVars == <<documents, index, gone>>

StoreInit ==
  /\ documents = [d \in Documents |-> NoText]
  /\ index = [d \in Documents |-> {}]
  /\ gone = {}

Add(d, text) ==
  /\ d \notin gone /\ documents[d] = NoText
  /\ \A e \in Documents : documents[e] # text
  /\ documents' = [documents EXCEPT ![d] = text]
  /\ index' = [index EXCEPT ![d] = DOMAIN ChunksOf[text]]
  /\ UNCHANGED gone

Remove(d) ==
  /\ documents[d] # NoText
  /\ documents' = [documents EXCEPT ![d] = NoText]
  /\ index' = [index EXCEPT ![d] = {}]
  /\ gone' = gone \cup {d}

StoreNext ==
  \E d \in Documents : (\E text \in Texts : Add(d, text)) \/ Remove(d)

StoreSpec == StoreInit /\ [][StoreNext]_storeVars
=============================================================================
