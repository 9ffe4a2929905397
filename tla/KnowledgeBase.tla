---------------------------- MODULE KnowledgeBase ----------------------------
(***************************************************************************)
(* The knowledge base: uploads that look a checksum up, insert the document*)
(* and embed its chunks in one transaction; deletions; and searches that   *)
(* read it twice and fuse what they read.  A checksum stands for the text  *)
(* it is computed from.  The embedding provider and the database may fail  *)
(* at each call, and the process may die.                                  *)
(***************************************************************************)
EXTENDS Chunking, SequencesExt

CONSTANTS Uploads,        \* POST requests; a document has its upload's name
          Texts,          \* what they upload
          BatchSize,      \* EMBEDDING_BATCH_SIZE
          FullTextLimit, VectorLimit, Limit,  \* of hybrid_search
          NoText

ASSUME KnowledgeBaseAssumption ==
  /\ BatchSize \in Nat \ {0}
  /\ FullTextLimit \in Nat /\ VectorLimit \in Nat /\ Limit \in Nat
  /\ Texts \subseteq Seq(Sections) /\ NoText \notin Texts

VARIABLES
  upload,     \* where each request is, its text and the embeddings it has made
  documents,  \* committed knowledge_documents: id -> text, or NoText
  chunks,     \* committed knowledge_chunks
  deleting,   \* documents a DELETE request has read
  search      \* a search: what it has read, and its answer

vars == <<upload, documents, chunks, deleting, search>>

Stored == {d \in Uploads : documents[d] # NoText}

\* The steps in which a request's transaction holds its uncommitted document.
InTransaction == {"embedding", "writing"}
Answered == {"created", "existing", "error", "lost"}

Embeddings == {"model", "dummy", "none"}
ChunkRows == [document : Uploads, index : Nat, embedding : Embeddings]

ToChunks == [document : Uploads, index : Nat]
Id(row) == [document |-> row.document, index |-> row.index]

NoSearch == [step |-> "idle", fullText |-> <<>>, vector |-> <<>>,
             results |-> <<>>]

TypeOK ==
  /\ upload \in [Uploads ->
       [step : {"new", "inserting"} \cup InTransaction \cup Answered,
        text : Texts \cup {NoText}, embeddings : Seq(Embeddings)]]
  /\ documents \in [Uploads -> Texts \cup {NoText}]
  /\ chunks \subseteq ChunkRows
  /\ deleting \subseteq Uploads
  /\ search.step \in {"idle", "full_text_done", "done"}
  /\ \A r \in {search.fullText, search.vector, search.results} :
       r \in Seq(ToChunks)
  /\ Len(search.results) <= Limit

Init ==
  /\ upload = [u \in Uploads |-> [step |-> "new", text |-> NoText,
                                  embeddings |-> <<>>]]
  /\ documents = [u \in Uploads |-> NoText]
  /\ chunks = {}
  /\ deleting = {}
  /\ search = NoSearch

-----------------------------------------------------------------------------
(* Ingestion.                                                              *)

\* Requests whose uncommitted row has the unique key of a text.
Holding(text) ==
  {u \in Uploads : upload[u].step \in InTransaction /\ upload[u].text = text}

StoredAs(text) == {d \in Stored : documents[d] = text}

\* The look-up by checksum sees committed rows only; a document it finds is
\* the answer, with status 201.
LookUp(u) ==
  /\ upload[u].step = "new"
  /\ \E text \in Texts :
       upload' = [upload EXCEPT
         ![u].text = text,
         ![u].step = IF StoredAs(text) # {} THEN "existing" ELSE "inserting"]
  /\ UNCHANGED <<documents, chunks, deleting, search>>

\* Mutant: no constraint uq_knowledge_documents_checksum.
NoConstraint(text) == "embedding"

\* Mutant: a request whose INSERT meets the constraint tries it again.
RetryInsert(text) == IF StoredAs(text) = {} THEN "embedding" ELSE "inserting"

\* What the unique constraint makes of an INSERT: an IntegrityError, or a row.
InsertResult(text) == IF StoredAs(text) = {} THEN "embedding" ELSE "error"

\* The first flush.  It waits for the transaction that holds the same key.
Insert(u) ==
  /\ upload[u].step = "inserting"
  /\ Holding(upload[u].text) = {}
  /\ upload' = [upload EXCEPT ![u].step = InsertResult(upload[u].text)]
  /\ UNCHANGED <<documents, chunks, deleting, search>>

ChunksOf == [text \in Texts |-> ChunkDocument(text)]

Made(u) == ChunksOf[upload[u].text]

\* Mutant: a last batch that is not full is left out.
FullBatch(u) ==
  LET done == Len(upload[u].embeddings)
  IN IF done + BatchSize <= Len(Made(u))
     THEN (done + 1)..(done + BatchSize) ELSE {}

\* The chunks of the next batch.
NextBatch(u) ==
  LET done == Len(upload[u].embeddings)
  IN (done + 1)..(IF done + BatchSize < Len(Made(u)) THEN done + BatchSize
                  ELSE Len(Made(u)))

\* What becomes of a batch: the provider's vectors are laid on the first chunks, as
\* many as it gives (zip is not strict), and dummy vectors replace a failed call.
BatchEmbeddings(batch) ==
  LET n == Cardinality(batch)
  IN {[i \in 1..n |-> "dummy"]} \cup
     {[i \in 1..n |-> IF i <= given THEN "model" ELSE "none"] : given \in 0..n}

EmbedBatch(u) ==
  /\ upload[u].step = "embedding"
  /\ NextBatch(u) # {}
  /\ \E made \in BatchEmbeddings(NextBatch(u)) :
       upload' = [upload EXCEPT ![u].embeddings = @ \o made]
  /\ UNCHANGED <<documents, chunks, deleting, search>>

\* All batches done: the chunks are added and flushed.
WriteChunks(u) ==
  /\ upload[u].step = "embedding"
  /\ NextBatch(u) = {}
  /\ upload' = [upload EXCEPT ![u].step = "writing"]
  /\ UNCHANGED <<documents, chunks, deleting, search>>

RowsOf(u) == {[document |-> u, index |-> i, embedding |-> upload[u].embeddings[i]] :
                i \in DOMAIN upload[u].embeddings}

Commit(u) ==
  /\ upload[u].step = "writing"
  /\ upload' = [upload EXCEPT ![u].step = "created"]
  /\ documents' = [documents EXCEPT ![u] = upload[u].text]
  /\ chunks' = chunks \cup RowsOf(u)
  /\ UNCHANGED <<deleting, search>>

\* The database fails the request at any of its calls: the exception leaves
\* ingest_document and the session is rolled back.
DatabaseFails(u) ==
  /\ upload[u].step \in {"new", "inserting"} \cup InTransaction
  /\ upload' = [upload EXCEPT ![u].step = "error"]
  /\ UNCHANGED <<documents, chunks, deleting, search>>

UploadStep(u) ==
  LookUp(u) \/ Insert(u) \/ EmbedBatch(u) \/ WriteChunks(u) \/ Commit(u)

-----------------------------------------------------------------------------
(* Deletion.                                                               *)

\* A document that is not there is a 404.
DeleteReads(d) ==
  /\ d \in Stored \ deleting
  /\ deleting' = deleting \cup {d}
  /\ UNCHANGED <<upload, documents, chunks, search>>

\* Mutant: neither the relationship nor the foreign key cascades.
NoCascade(d) == {}

\* The rows that go with a document: cascade="all, delete-orphan", and the
\* foreign key's ondelete.
Cascade(d) == {row \in chunks : row.document = d}

DeleteCommits(d) ==
  /\ d \in deleting
  /\ deleting' = deleting \ {d}
  /\ documents' = [documents EXCEPT ![d] = NoText]
  /\ chunks' = chunks \ Cascade(d)
  /\ UNCHANGED <<upload, search>>

-----------------------------------------------------------------------------
(* Search.                                                                 *)

\* The rankings a query may produce over some of the ids.
Rankings(ids, least, most) ==
  {r \in UNION {[1..n -> ids] : n \in least..most} :
     \A i, j \in DOMAIN r : r[i] = r[j] => i = j}

Smaller(a, b) == IF a < b THEN a ELSE b

Ids == {Id(row) : row \in chunks}

\* Any of the chunks may match the words of the query.
FullTextSearch ==
  /\ search.step = "idle"
  /\ \E r \in Rankings(Ids, 0, Smaller(FullTextLimit, Cardinality(Ids))) :
       search' = [search EXCEPT !.step = "full_text_done", !.fullText = r]
  /\ UNCHANGED <<upload, documents, chunks, deleting>>

K == 60

\* 1 / (K + rank) in units that keep the sums whole.
Unit ==
  LET upTo[n \in 0..(FullTextLimit + VectorLimit)] ==
        IF n = 0 THEN 1 ELSE upTo[n - 1] * (K + n)
  IN upTo[FullTextLimit + VectorLimit]

Position(id, ranking) == CHOOSE i \in DOMAIN ranking : ranking[i] = id

\* Mutant: the score grows with the rank.
GrowingTerm(id, ranking) ==
  IF id \in ToSet(ranking) THEN K + Position(id, ranking) ELSE 0

Term(id, ranking) ==
  IF id \in ToSet(ranking) THEN Unit \div (K + Position(id, ranking)) ELSE 0

Score(id, ft, vec) == Term(id, ft) + Term(id, vec)

Seen(ft, vec) == ToSet(ft) \cup ToSet(vec)

\* The order in which reciprocal_rank_fusion puts the ids into its dict.
FirstSeen(id, ft, vec) ==
  IF id \in ToSet(ft) THEN Position(id, ft) ELSE Len(ft) + Position(id, vec)

\* sorted() by the score, highest first, is stable over that order.
Before(a, b, ft, vec) ==
  \/ Score(a, ft, vec) > Score(b, ft, vec)
  \/ /\ Score(a, ft, vec) = Score(b, ft, vec)
     /\ FirstSeen(a, ft, vec) < FirstSeen(b, ft, vec)

Place(id, ft, vec) ==
  1 + Cardinality({o \in Seen(ft, vec) : Before(o, id, ft, vec)})

\* reciprocal_rank_fusion.
Fused(ft, vec) ==
  [i \in 1..Cardinality(Seen(ft, vec)) |->
     CHOOSE id \in Seen(ft, vec) : Place(id, ft, vec) = i]

\* Mutant: the answer is not cut off.
AllOf(ranking) == ranking

FirstOf(ranking) == SubSeq(ranking, 1, Smaller(Limit, Len(ranking)))

EmbeddedIds == {Id(row) : row \in {r \in chunks : r.embedding # "none"}}

\* Every chunk with an embedding has a distance to the query; without an embedding
\* of the query the answer is the full-text ranking alone.
VectorSearch ==
  /\ search.step = "full_text_done"
  /\ \E vec \in {<<>>} \cup
                LET found == Smaller(VectorLimit, Cardinality(EmbeddedIds))
                IN Rankings(EmbeddedIds, found, found) :
       search' = [search EXCEPT
         !.step = "done", !.vector = vec,
         !.results = FirstOf(IF vec = <<>> THEN search.fullText
                             ELSE Fused(search.fullText, vec))]
  /\ UNCHANGED <<upload, documents, chunks, deleting>>

SearchAgain ==
  /\ search.step = "done"
  /\ search' = NoSearch
  /\ UNCHANGED <<upload, documents, chunks, deleting>>

-----------------------------------------------------------------------------
\* The api process dies: its transactions are rolled back.
Crash ==
  /\ upload' = [u \in Uploads |->
       IF upload[u].step \in {"inserting"} \cup InTransaction
       THEN [upload[u] EXCEPT !.step = "lost"] ELSE upload[u]]
  /\ deleting' = {}
  /\ search' = NoSearch
  /\ UNCHANGED <<documents, chunks>>

Next ==
  \/ \E u \in Uploads : UploadStep(u) \/ DatabaseFails(u)
  \/ \E d \in Uploads : DeleteReads(d) \/ DeleteCommits(d)
  \/ FullTextSearch \/ VectorSearch \/ SearchAgain
  \/ Crash

Spec == Init /\ [][Next]_vars

\* A request's coroutine runs on while its process lives; the embedding
\* client gives up a call by itself, so each batch ends.
FairSpec == Spec /\ \A u \in Uploads : WF_vars(UploadStep(u))

-----------------------------------------------------------------------------
\* Two uploads of one text, each of which looked it up before the other had
\* committed, never leave two documents: a consequence of ImplementsStore.
OneDocumentPerText == \A text \in Texts : Cardinality(StoredAs(text)) <= 1

CoveredTexts == {text \in Texts : Covers(ChunksOf[text], text)}

\* A document is stored with all its chunks or not at all: whatever batch or
\* statement failed, whoever died or deleted it, the rows of chunks are those
\* of chunk_document for a stored text, and together they hold every paragraph of
\* it.  A chunk may lack its embedding: only the full-text search finds it then.
DocumentsAreWhole ==
  /\ \A row \in chunks : row.document \in Stored
  /\ \A d \in Stored :
       /\ {row.index : row \in {r \in chunks : r.document = d}}
            = DOMAIN ChunksOf[documents[d]]
       /\ documents[d] \in CoveredTexts

\* A chunk that one of the two searches ranks higher and the other no lower
\* than a second chunk comes before it in the answer, also when the vector
\* search failed; chunks come and go between the two reads.
NoLower(a, b, ranking) ==
  b \in ToSet(ranking) =>
    a \in ToSet(ranking) /\ Position(a, ranking) <= Position(b, ranking)

SearchRespectsBothRankings ==
  search.step = "done" =>
    \A b \in ToSet(search.results) :
      \A a \in (ToSet(search.fullText) \cup ToSet(search.vector)) \ {b} :
        NoLower(a, b, search.fullText) /\ NoLower(a, b, search.vector) =>
          /\ a \in ToSet(search.results)
          /\ Position(a, search.results) < Position(b, search.results)

\* What the searches may find of a document, and the documents that were there.
Index ==
  [d \in Uploads |-> {row.index : row \in {r \in chunks : r.document = d}}]
Gone == {d \in Uploads : upload[d].step = "created" /\ documents[d] = NoText}

\* Whatever is embedded in batches, rolled back, lost or deleted meanwhile: to
\* a reader of committed rows documents come and go whole, in one step, and
\* what is deleted does not return (KnowledgeStore).
Store == INSTANCE KnowledgeStore
           WITH Documents <- Uploads, index <- Index, gone <- Gone

ImplementsStore == Store!StoreSpec

\* Every upload that reached the look-up is answered or lost, also one whose
\* INSERT waits for another transaction with its key, however that one ends.
UploadsEnd ==
  \A u \in Uploads :
    upload[u].step # "new" ~> upload[u].step \in Answered
=============================================================================
