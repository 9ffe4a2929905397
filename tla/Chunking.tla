------------------------------ MODULE Chunking ------------------------------
(***************************************************************************)
(* chunk_document: how the text of a knowledge document becomes chunks.  A *)
(* text is the sections between its headings, a section the lengths of its *)
(* paragraphs, which two characters separate.  A chunk is told by the      *)
(* paragraphs it holds whole; the tail of the chunk before that it starts  *)
(* with counts only for its length.                                        *)
(***************************************************************************)
EXTENDS Integers, Sequences

CONSTANTS ChunkSize,   \* DEFAULT_CHUNK_SIZE
          Overlap,     \* DEFAULT_CHUNK_OVERLAP
          TitlePrefix  \* characters of the "Document: ..." line

ASSUME ChunkingAssumption ==
  ChunkSize \in Nat /\ Overlap \in Nat /\ TitlePrefix \in Nat

Separator == 2

\* A section is a record of its heading, the length of the heading's line in
\* the prefix or 0 before the first heading, and its paragraphs, the lengths
\* of them; a text is a sequence of sections.
Sections == [heading : Nat, paragraphs : Seq(Nat)]

BodyLength(paragraphs) ==
  LET upTo[n \in 0..Len(paragraphs)] ==
        IF n = 0 THEN 0 ELSE upTo[n - 1] + paragraphs[n] + Separator
  IN upTo[Len(paragraphs)] - Separator

\* Mutant: the paragraph that did not fit is replaced by the overlap.
OverlapOnly(acc, i, length) ==
  [done |-> Append(acc.done, acc.whole), length |-> Overlap, whole |-> {}]

\* The chunk is full: it is emitted, and the next starts with its tail.
StartChunk(acc, i, length) ==
  [done |-> Append(acc.done, acc.whole),
   length |-> IF Overlap > 0 /\ acc.length > Overlap
              THEN Overlap + Separator + length ELSE length,
   whole |-> {i}]

ExtendChunk(acc, i, length) ==
  [acc EXCEPT !.length = IF @ = 0 THEN length ELSE @ + Separator + length,
              !.whole = @ \cup {i}]

\* The loop of _split_text_chunks.  A first paragraph is taken whatever its
\* length, so a chunk may be longer than its size.
AddParagraph(acc, i, length, size) ==
  IF acc.length + length + Separator > size /\ acc.length > 0
  THEN StartChunk(acc, i, length) ELSE ExtendChunk(acc, i, length)

\* _split_text_chunks: the paragraphs each chunk holds whole, in order.
SplitText(paragraphs, size) ==
  LET loop[n \in 0..Len(paragraphs)] ==
        IF n = 0 THEN [done |-> <<>>, length |-> 0, whole |-> {}]
        ELSE AddParagraph(loop[n - 1], n, paragraphs[n], size)
      last == loop[Len(paragraphs)]
  IN IF paragraphs = <<>> THEN <<>>
     ELSE IF BodyLength(paragraphs) <= size THEN <<DOMAIN paragraphs>>
     ELSE Append(last.done, last.whole)

\* What the prefix leaves of the size; it may be nothing, or less.
AdjustedSize(section) == ChunkSize - (TitlePrefix + section.heading)

\* chunk_document; chunk_index is the place in the sequence.  A heading with
\* no body under it is in no chunk.
ChunkDocument(text) ==
  LET pieces(s) == SplitText(text[s].paragraphs, AdjustedSize(text[s]))
      upTo[s \in 0..Len(text)] ==
        IF s = 0 THEN <<>>
        ELSE upTo[s - 1] \o [i \in DOMAIN pieces(s) |->
                               [section |-> s, whole |-> pieces(s)[i]]]
  IN upTo[Len(text)]

\* Every paragraph of the text is, whole, in one of the chunks of its section
\* and the chunks of a section follow its order.
Covers(chunks, text) ==
  /\ \A s \in DOMAIN text : \A p \in DOMAIN text[s].paragraphs :
       \E i \in DOMAIN chunks : chunks[i].section = s /\ p \in chunks[i].whole
  /\ \A i, j \in DOMAIN chunks : i < j =>
       \/ chunks[i].section < chunks[j].section
       \/ /\ chunks[i].section = chunks[j].section
          /\ \A p \in chunks[i].whole, q \in chunks[j].whole : p < q
=============================================================================
