------------------------ MODULE KnowledgeBase_proofs ------------------------
(***************************************************************************)
(* Theorems about KnowledgeBase, for any uploads and texts, any sizes of   *)
(* chunks and batches and any limits of a search.                          *)
(***************************************************************************)
EXTENDS KnowledgeBase, FiniteSetTheorems, SequenceTheorems,
        WellFoundedInduction, TLAPS

(* Numbers: what is needed to reason about the loops that the modules write *)
(* as recursive functions.                                                  *)

\* A set of numbers that has 0 and, with each number, the next has them all.
LEMMA Counting ==
  ASSUME NEW N \in Nat, NEW T, 0 \in T, \A n \in 1..N : n - 1 \in T => n \in T
  PROVE  \A n \in 0..N : n \in T
<1> DEFINE R == OpToRel(<, Nat)
           Missing == {n \in 0..N : n \notin T}
<1> SUFFICES ASSUME Missing # {} PROVE FALSE
  OBVIOUS
<1>1. Missing \subseteq Nat
  OBVIOUS
<1>2. \E x \in Missing : \A y \in Missing : ~(<<y, x>> \in R)
  <2>1. IsWellFoundedOn(R, Nat)
    BY NatLessThanWellFounded
  <2> HIDE DEF R, Missing
  <2> QED BY <1>1, <2>1, WFMin
<1>3. PICK x \in Missing : \A y \in Missing : ~(<<y, x>> \in R)
  BY <1>2
<1>4. x \in 1..N /\ x - 1 \in 0..N
  OBVIOUS
<1>5. x - 1 \in T
  <2>1. <<x - 1, x>> \in R
    BY <1>4 DEF OpToRel
  <2> QED BY <1>3, <1>4, <2>1
<1> QED BY <1>4, <1>5

\* The functions that tell the states of a loop of N turns.
Loops(N, S, first, turn) ==
  {g \in [0..N -> S] : g[0] = first /\ \A n \in 1..N : g[n] = turn[<<g[n - 1], n>>]}

\* A loop that starts in S, and whose turns stay in S, has such a function.
LEMMA LoopExists ==
  ASSUME NEW N \in Nat, NEW S, NEW first \in S,
         NEW turn, \A x \in S, n \in 1..N : turn[<<x, n>>] \in S
  PROVE  Loops(N, S, first, turn) # {}
<1> DEFINE T == {m \in 0..N : \E g \in [0..m -> S] :
                  g[0] = first /\ \A n \in 1..m : g[n] = turn[<<g[n - 1], n>>]}
<1>1. 0 \in T
  <2> DEFINE h == [n \in 0..0 |-> first]
  <2>1. h \in [0..0 -> S] /\ h[0] = first /\ 1..0 = {}
    OBVIOUS
  <2> HIDE DEF h
  <2>2. \E g \in [0..0 -> S] : g[0] = first /\ \A n \in 1..0 : g[n] = turn[<<g[n - 1], n>>]
    BY <2>1
  <2> QED BY <2>2
<1>2. ASSUME NEW m \in 1..N, m - 1 \in T PROVE m \in T
  <2>1. PICK g \in [0..(m - 1) -> S] :
          g[0] = first /\ \A n \in 1..(m - 1) : g[n] = turn[<<g[n - 1], n>>]
    BY <1>2
  <2>2. m - 1 \in 0..(m - 1) /\ g[m - 1] \in S /\ turn[<<g[m - 1], m>>] \in S
    BY <2>1
  <2> DEFINE h == [n \in 0..m |-> IF n = m THEN turn[<<g[m - 1], m>>] ELSE g[n]]
  <2>3. \A n \in 0..(m - 1) : h[n] = g[n]
    OBVIOUS
  <2>4. h[m] = turn[<<g[m - 1], m>>] /\ h \in [0..m -> S]
    BY <2>1, <2>2
  <2> HIDE DEF h
  <2>5. ASSUME NEW n \in 1..m PROVE h[n] = turn[<<h[n - 1], n>>]
    <3>1. n - 1 \in 0..(m - 1) /\ h[n - 1] = g[n - 1]
      BY <2>3
    <3>2. CASE n = m
      BY <2>4, <3>1, <3>2
    <3>3. CASE n # m
      BY <2>1, <2>3, <3>1, <3>3
    <3> QED BY <3>2, <3>3
  <2>6. h[0] = first
    BY <2>1, <2>3
  <2> QED BY <2>4, <2>5, <2>6
<1>3. N \in T
  <2> HIDE DEF T
  <2> QED BY <1>1, <1>2, Counting
<1> QED BY <1>3 DEF Loops

-----------------------------------------------------------------------------
(* chunk_document.                                                         *)

\* P tells, in order, the paragraphs of 1..n that each piece holds whole, and
\* leaves none out.
Pieces(P, n) ==
  /\ P \in Seq(SUBSET (1..n))
  /\ \A p \in 1..n : \E i \in DOMAIN P : p \in P[i]
  /\ \A i, j \in DOMAIN P : i < j => \A p \in P[i], q \in P[j] : p < q

Acc(n) == [done : Seq(SUBSET (1..n)), length : Nat, whole : SUBSET (1..n)]

\* What the loop of _split_text_chunks knows after n paragraphs: those in the
\* pieces that are done and the one that grows, in order, are the first n.
SplitSoFar(acc, n) ==
  /\ acc \in Acc(n)
  /\ Pieces(Append(acc.done, acc.whole), n)

LEMMA SplitMonotone ==
  ASSUME NEW n \in Nat, NEW m \in Nat, n <= m
  PROVE  Acc(n) \subseteq Acc(m)
<1>1. SUBSET (1..n) \subseteq SUBSET (1..m)
  OBVIOUS
<1>2. \A q \in Seq(SUBSET (1..n)) : q \in Seq(SUBSET (1..m))
  BY <1>1, SeqMonotonic
<1> QED BY <1>1, <1>2 DEF Acc

\* One more paragraph: the chunk that was full is emitted, or the paragraph
\* joins it; in neither case is one lost.
LEMMA AddParagraphSplits ==
  ASSUME NEW n \in Nat \ {0}, NEW acc, SplitSoFar(acc, n - 1), NEW length \in Nat, NEW size
  PROVE  SplitSoFar(AddParagraph(acc, n, length, size), n)
<1> DEFINE S == SUBSET (1..n)
<1>1. acc \in Acc(n)
  BY SplitMonotone DEF SplitSoFar
<1>2. /\ acc.done \in Seq(S) /\ acc.whole \in S /\ acc.length \in Nat
      /\ acc.done \in Seq(SUBSET (1..(n - 1))) /\ acc.whole \in SUBSET (1..(n - 1))
  BY <1>1 DEF Acc, SplitSoFar
<1> DEFINE L == Len(acc.done)
           old == Append(acc.done, acc.whole)
<1>3. /\ L \in Nat /\ Len(old) = L + 1 /\ DOMAIN old = 1..(L + 1)
      /\ old \in Seq(S)
      /\ \A i \in 1..L : old[i] = acc.done[i]
      /\ old[L + 1] = acc.whole
  BY <1>2, AppendProperties, LenProperties
<1>4. Pieces(old, n - 1)
  BY DEF SplitSoFar
<1>5. /\ \A p \in 1..(n - 1) : \E i \in 1..(L + 1) : p \in old[i]
      /\ \A i, j \in 1..(L + 1) : i < j => \A p \in old[i], q \in old[j] : p < q
      /\ \A i \in 1..(L + 1) : old[i] \subseteq 1..(n - 1)
  <2>1. \A i \in 1..(L + 1) : old[i] \in SUBSET (1..(n - 1))
    BY <1>3, <1>4, ElementOfSeq DEF Pieces
  <2> QED BY <1>3, <1>4, <2>1 DEF Pieces
<1> HIDE DEF old
<1>6. CASE AddParagraph(acc, n, length, size) = StartChunk(acc, n, length)
  <2> DEFINE new == StartChunk(acc, n, length)
             P == Append(new.done, new.whole)
  <2>1. new.done = old /\ new.whole = {n} /\ new.length \in Nat
    BY <1>2, ChunkingAssumption DEF StartChunk, old, Separator
  <2>2. {n} \in S
    OBVIOUS
  <2>3. new \in Acc(n)
    BY <1>3, <2>1, <2>2 DEF Acc, StartChunk, old
  <2>4. /\ P \in Seq(S) /\ DOMAIN P = 1..(L + 2)
        /\ \A i \in 1..(L + 1) : P[i] = old[i]
        /\ P[L + 2] = {n}
    <3>1. P = Append(old, {n})
      BY <2>1
    <3>2. /\ P \in Seq(S) /\ Len(P) = L + 2
          /\ \A i \in 1..(L + 1) : P[i] = old[i]
          /\ P[L + 2] = {n}
      BY <1>3, <2>2, <3>1, AppendProperties
    <3> QED BY <1>3, <3>2, LenProperties
  <2> HIDE DEF P, new
  <2>5. \A p \in 1..n : \E i \in DOMAIN P : p \in P[i]
    <3> SUFFICES ASSUME NEW p \in 1..n PROVE \E i \in 1..(L + 2) : p \in P[i]
      BY <2>4
    <3>1. CASE p = n
      BY <1>3, <2>4, <3>1
    <3>2. CASE p # n
      <4>1. PICK i \in 1..(L + 1) : p \in old[i]
        BY <1>5, <3>2
      <4> QED BY <1>3, <2>4, <4>1
    <3> QED BY <3>1, <3>2
  <2>6. ASSUME NEW i \in DOMAIN P, NEW j \in DOMAIN P, i < j,
               NEW p \in P[i], NEW q \in P[j]
        PROVE  p < q
    <3>1. i \in 1..(L + 1)
      BY <1>3, <2>4, <2>6
    <3>2. CASE j = L + 2
      BY <1>5, <2>4, <2>6, <3>1, <3>2
    <3>3. CASE j # L + 2
      <4>1. j \in 1..(L + 1)
        BY <1>3, <2>4, <3>3
      <4>2. p \in old[i] /\ q \in old[j]
        BY <2>4, <3>1, <4>1
      <4> QED BY <1>5, <2>6, <3>1, <4>1, <4>2
    <3> QED BY <3>2, <3>3
  <2>7. Pieces(P, n)
    BY <2>4, <2>5, <2>6 DEF Pieces
  <2> QED BY <1>6, <2>3, <2>7 DEF SplitSoFar, P, new
<1>7. CASE AddParagraph(acc, n, length, size) = ExtendChunk(acc, n, length)
  <2> DEFINE new == ExtendChunk(acc, n, length)
             P == Append(new.done, new.whole)
  <2>1. /\ new.done = acc.done /\ new.whole = acc.whole \cup {n} /\ new.length \in Nat
        /\ new \in Acc(n)
    <3> DEFINE sum == IF acc.length = 0 THEN length ELSE acc.length + Separator + length
    <3>1. sum \in Nat
      BY <1>2 DEF Separator
    <3>2. new = [acc EXCEPT !.length = sum, !.whole = acc.whole \cup {n}]
      BY DEF ExtendChunk
    <3>3. acc.whole \cup {n} \in S
      BY <1>2
    <3> HIDE DEF sum
    <3> QED BY <1>1, <3>1, <3>2, <3>3 DEF Acc
  <2>2. acc.whole \cup {n} \in S
    BY <1>2
  <2>3. /\ P \in Seq(S) /\ DOMAIN P = 1..(L + 1)
        /\ \A i \in 1..L : P[i] = old[i]
        /\ P[L + 1] = old[L + 1] \cup {n}
    <3>1. P = Append(acc.done, acc.whole \cup {n})
      BY <2>1
    <3>2. /\ P \in Seq(S) /\ Len(P) = L + 1
          /\ \A i \in 1..L : P[i] = acc.done[i]
          /\ P[L + 1] = acc.whole \cup {n}
      BY <1>2, <1>3, <2>2, <3>1, AppendProperties
    <3> QED BY <1>3, <3>2, LenProperties
  <2> HIDE DEF P, new
  <2>4. \A p \in 1..n : \E i \in DOMAIN P : p \in P[i]
    <3> SUFFICES ASSUME NEW p \in 1..n PROVE \E i \in 1..(L + 1) : p \in P[i]
      BY <2>3
    <3>1. CASE p = n
      BY <1>3, <2>3, <3>1
    <3>2. CASE p # n
      <4>1. PICK i \in 1..(L + 1) : p \in old[i]
        BY <1>5, <3>2
      <4>2. CASE i = L + 1
        BY <2>3, <4>1, <4>2
      <4>3. CASE i # L + 1
        <5>1. i \in 1..L /\ i \in 1..(L + 1)
          BY <1>3, <4>3
        <5>2. p \in P[i]
          BY <2>3, <4>1, <5>1
        <5> QED BY <5>1, <5>2
      <4> QED BY <4>2, <4>3
    <3> QED BY <3>1, <3>2
  <2>5. ASSUME NEW i \in DOMAIN P, NEW j \in DOMAIN P, i < j,
               NEW p \in P[i], NEW q \in P[j]
        PROVE  p < q
    <3>1. i \in 1..L /\ j \in 1..(L + 1)
      BY <1>3, <2>3, <2>5
    <3>2. p \in old[i] /\ p \in 1..(n - 1)
      BY <1>3, <1>5, <2>3, <3>1
    <3>3. q \in old[j] \/ q = n
      BY <1>3, <2>3, <3>1
    <3> QED BY <1>3, <1>5, <2>5, <3>1, <3>2, <3>3
  <2>6. Pieces(P, n)
    BY <2>3, <2>4, <2>5 DEF Pieces
  <2> QED BY <1>7, <2>1, <2>6 DEF SplitSoFar, P, new
<1> QED BY <1>6, <1>7 DEF AddParagraph

\* The loop of _split_text_chunks, as SplitText writes it.
SplitLoop(paragraphs, size) ==
  CHOOSE g : g = [n \in 0..Len(paragraphs) |->
    IF n = 0 THEN [done |-> <<>>, length |-> 0, whole |-> {}]
    ELSE AddParagraph(g[n - 1], n, paragraphs[n], size)]

LEMMA SplitLoopTurns ==
  ASSUME NEW paragraphs \in Seq(Nat), NEW size
  PROVE  LET g == SplitLoop(paragraphs, size)
         IN /\ g[0] = [done |-> <<>>, length |-> 0, whole |-> {}]
            /\ \A n \in 1..Len(paragraphs) :
                 g[n] = AddParagraph(g[n - 1], n, paragraphs[n], size)
<1> DEFINE N == Len(paragraphs)
           S == Acc(N)
           first == [done |-> <<>>, length |-> 0, whole |-> {}]
           turn == [c \in S \X (1..N) |-> AddParagraph(c[1], c[2], paragraphs[c[2]], size)]
<1>1. N \in Nat /\ \A n \in 1..N : paragraphs[n] \in Nat
  BY LenProperties, ElementOfSeq
<1>2. first \in S
  <2>1. <<>> \in Seq(SUBSET (1..N))
    BY EmptySeq
  <2> QED BY <2>1 DEF Acc
<1>3. ASSUME NEW x \in S, NEW n \in 1..N
      PROVE  turn[<<x, n>>] = AddParagraph(x, n, paragraphs[n], size) /\ turn[<<x, n>>] \in S
  <2>1. turn[<<x, n>>] = AddParagraph(x, n, paragraphs[n], size)
    OBVIOUS
  <2>2. {n} \in SUBSET (1..N) /\ paragraphs[n] \in Nat /\ x.whole \in SUBSET (1..N)
          /\ x.length \in Nat /\ x.done \in Seq(SUBSET (1..N))
    BY <1>1 DEF Acc
  <2>3. Append(x.done, x.whole) \in Seq(SUBSET (1..N))
    BY <2>2, AppendProperties
  <2>4. StartChunk(x, n, paragraphs[n]) \in S
    BY <2>2, <2>3, ChunkingAssumption DEF StartChunk, Acc, Separator
  <2>5. ExtendChunk(x, n, paragraphs[n]) \in S
    <3> DEFINE sum == IF x.length = 0 THEN paragraphs[n]
                      ELSE x.length + Separator + paragraphs[n]
    <3>1. sum \in Nat
      BY <2>2 DEF Separator
    <3>2. ExtendChunk(x, n, paragraphs[n])
            = [x EXCEPT !.length = sum, !.whole = x.whole \cup {n}]
      BY DEF ExtendChunk
    <3>3. x.whole \cup {n} \in SUBSET (1..N)
      BY <2>2
    <3> HIDE DEF sum
    <3> QED BY <3>1, <3>2, <3>3 DEF Acc
  <2> QED BY <2>1, <2>4, <2>5 DEF AddParagraph
<1>4. Loops(N, S, first, turn) # {}
  <2>1. \A x \in S, n \in 1..N : turn[<<x, n>>] \in S
    BY <1>3
  <2> HIDE DEF N, S, turn, first
  <2> QED BY <1>1, <1>2, <2>1, LoopExists, Zenon
<1>5. PICK g \in [0..N -> S] : g[0] = first /\ \A n \in 1..N : g[n] = turn[<<g[n - 1], n>>]
  BY <1>4 DEF Loops
<1>6. \A n \in 1..N : g[n] = AddParagraph(g[n - 1], n, paragraphs[n], size)
  <2> SUFFICES ASSUME NEW n \in 1..N
      PROVE  g[n] = AddParagraph(g[n - 1], n, paragraphs[n], size)
    OBVIOUS
  <2>1. g[n - 1] \in S
    BY <1>1
  <2> HIDE DEF S, turn
  <2> QED BY <1>3, <1>5, <2>1
<1>7. g = [n \in 0..N |-> IF n = 0 THEN first
                          ELSE AddParagraph(g[n - 1], n, paragraphs[n], size)]
  <2> DEFINE h == [n \in 0..N |-> IF n = 0 THEN first
                          ELSE AddParagraph(g[n - 1], n, paragraphs[n], size)]
  <2>1. ASSUME NEW n \in 0..N PROVE g[n] = h[n]
    <3>1. n = 0 \/ n \in 1..N
      BY <1>1
    <3> HIDE DEF first, S
    <3> QED BY <1>5, <1>6, <3>1
  <2>2. DOMAIN g = 0..N /\ DOMAIN h = 0..N /\ g = [n \in DOMAIN g |-> g[n]]
    OBVIOUS
  <2> HIDE DEF h
  <2>3. g = h
    <3>1. h = [n \in DOMAIN h |-> h[n]]
      BY DEF h
    <3> QED BY <2>1, <2>2, <3>1
  <2> QED BY <2>3 DEF h
<1> DEFINE G == SplitLoop(paragraphs, size)
<1>8. G = [n \in 0..N |-> IF n = 0 THEN first
                          ELSE AddParagraph(G[n - 1], n, paragraphs[n], size)]
  BY <1>7 DEF SplitLoop
<1> HIDE DEF G, first
<1>9. G[0] = first
  BY <1>1, <1>8
<1>10. ASSUME NEW n \in 1..N
       PROVE  G[n] = AddParagraph(G[n - 1], n, paragraphs[n], size)
  <2>1. n \in 0..N /\ n # 0
    BY <1>1
  <2> QED BY <1>8, <2>1
<1> QED BY <1>9, <1>10 DEF G, first

\* _split_text_chunks leaves out no paragraph and keeps their order.
LEMMA SplitTextPieces ==
  ASSUME NEW paragraphs \in Seq(Nat), NEW size
  PROVE  Pieces(SplitText(paragraphs, size), Len(paragraphs))
<1> DEFINE N == Len(paragraphs)
           g == SplitLoop(paragraphs, size)
<1>1. N \in Nat /\ DOMAIN paragraphs = 1..N /\ \A n \in 1..N : paragraphs[n] \in Nat
  BY LenProperties, ElementOfSeq
<1>2. /\ g[0] = [done |-> <<>>, length |-> 0, whole |-> {}]
      /\ \A n \in 1..N : g[n] = AddParagraph(g[n - 1], n, paragraphs[n], size)
  BY SplitLoopTurns
<1> HIDE DEF g
<1> DEFINE T == {n \in 0..N : SplitSoFar(g[n], n)}
<1>3. 0 \in T
  <2>1. {} \in SUBSET (1..0) /\ <<>> \in Seq(SUBSET (1..0))
    BY EmptySeq
  <2>2. g[0] \in Acc(0)
    BY <1>2, <2>1 DEF Acc
  <2>3. Append(<<>>, {}) = <<{}>> /\ <<{}>> \in Seq(SUBSET (1..0))
    BY <2>1
  <2>4. Pieces(<<{}>>, 0)
    BY <2>3 DEF Pieces
  <2>5. Append(g[0].done, g[0].whole) = <<{}>>
    BY <1>2, <2>3
  <2>6. SplitSoFar(g[0], 0)
    BY <2>2, <2>4, <2>5 DEF SplitSoFar
  <2> QED BY <1>1, <2>6
<1>4. ASSUME NEW n \in 1..N, n - 1 \in T PROVE n \in T
  <2>1. SplitSoFar(g[n - 1], n - 1)
    BY <1>4
  <2>2. SplitSoFar(g[n], n)
    BY <1>1, <1>2, <2>1, AddParagraphSplits
  <2> QED BY <2>2
<1>5. SplitSoFar(g[N], N)
  <2>1. \A n \in 0..N : n \in T
    <3> HIDE DEF T
    <3> QED BY <1>1, <1>3, <1>4, Counting
  <2> QED BY <1>1, <2>1
<1>6. CASE SplitText(paragraphs, size) = <<>> /\ paragraphs = <<>>
  <2>1. N = 0 /\ <<>> \in Seq(SUBSET (1..N)) /\ DOMAIN <<>> = {}
    BY <1>6, EmptySeq
  <2> QED BY <1>6, <2>1 DEF Pieces
<1>7. CASE SplitText(paragraphs, size) = <<DOMAIN paragraphs>>
  <2>1. /\ <<1..N>> \in Seq(SUBSET (1..N)) /\ DOMAIN <<1..N>> = {1}
        /\ <<1..N>>[1] = 1..N
    OBVIOUS
  <2> QED BY <1>1, <1>7, <2>1 DEF Pieces
<1>8. CASE SplitText(paragraphs, size) = Append(g[N].done, g[N].whole)
  BY <1>5, <1>8 DEF SplitSoFar
<1>9. \/ SplitText(paragraphs, size) = <<>> /\ paragraphs = <<>>
      \/ SplitText(paragraphs, size) = <<DOMAIN paragraphs>>
      \/ SplitText(paragraphs, size) = Append(g[N].done, g[N].whole)
  BY DEF SplitText, SplitLoop, g
<1> QED BY <1>6, <1>7, <1>8, <1>9

ChunkType == [section : Nat, whole : SUBSET Nat]

SectionPieces(text, s) == SplitText(text[s].paragraphs, AdjustedSize(text[s]))

SectionChunks(text, s) ==
  [i \in DOMAIN SectionPieces(text, s) |->
     [section |-> s, whole |-> SectionPieces(text, s)[i]]]

\* One chunk comes before another in the document.
InOrder(c, d) ==
  \/ c.section < d.section
  \/ c.section = d.section /\ \A p \in c.whole, q \in d.whole : p < q

LEMMA SectionChunksFit ==
  ASSUME NEW text \in Seq(Sections), NEW s \in 1..Len(text)
  PROVE  LET new == SectionChunks(text, s)
         IN /\ new \in Seq(ChunkType)
            /\ \A i \in DOMAIN new : new[i].section = s
            /\ \A p \in DOMAIN text[s].paragraphs : \E i \in DOMAIN new : p \in new[i].whole
            /\ \A i, j \in DOMAIN new : i < j => InOrder(new[i], new[j])
<1> DEFINE ps == text[s].paragraphs
           P == SectionPieces(text, s)
           new == SectionChunks(text, s)
<1>1. ps \in Seq(Nat) /\ Len(ps) \in Nat /\ DOMAIN ps = 1..Len(ps) /\ s \in Nat
  <2>1. text[s] \in Sections /\ s \in Nat
    BY ElementOfSeq, LenProperties
  <2>2. ps \in Seq(Nat)
    BY <2>1 DEF Sections
  <2> HIDE DEF ps
  <2> QED BY <2>1, <2>2, LenProperties
<1>2. Pieces(P, Len(ps))
  BY <1>1, SplitTextPieces DEF SectionPieces
<1> HIDE DEF ps, P
<1>3. /\ Len(P) \in Nat /\ DOMAIN P = 1..Len(P)
      /\ \A i \in 1..Len(P) : P[i] \in SUBSET (1..Len(ps))
  BY <1>2, LenProperties, ElementOfSeq DEF Pieces
<1>4. new = [i \in 1..Len(P) |-> [section |-> s, whole |-> P[i]]]
  BY <1>3 DEF SectionChunks, P
<1> HIDE DEF new
<1>5. DOMAIN new = 1..Len(P) /\ \A i \in 1..Len(P) :
        new[i].section = s /\ new[i].whole = P[i] /\ new[i] \in ChunkType
  BY <1>1, <1>3, <1>4 DEF ChunkType
<1>6. new \in Seq(ChunkType)
  <2>1. new \in [1..Len(P) -> ChunkType]
    BY <1>4, <1>5
  <2> QED BY <1>3, <2>1
<1>7. \A p \in DOMAIN ps : \E i \in DOMAIN new : p \in new[i].whole
  BY <1>1, <1>2, <1>3, <1>5 DEF Pieces
<1>8. \A i, j \in DOMAIN new : i < j => InOrder(new[i], new[j])
  BY <1>2, <1>3, <1>5 DEF Pieces, InOrder
<1> QED BY <1>5, <1>6, <1>7, <1>8 DEF new, ps

\* The loop of chunk_document, as ChunkDocument writes it.
ChunkLoop(text) ==
  CHOOSE g : g = [s \in 0..Len(text) |->
    IF s = 0 THEN <<>> ELSE g[s - 1] \o SectionChunks(text, s)]

LEMMA ChunkLoopTurns ==
  ASSUME NEW text \in Seq(Sections)
  PROVE  /\ ChunkLoop(text)[0] = <<>>
         /\ \A s \in 1..Len(text) :
              ChunkLoop(text)[s] = ChunkLoop(text)[s - 1] \o SectionChunks(text, s)
<1> DEFINE N == Len(text)
           S == Seq(ChunkType)
           turn == [c \in S \X (1..N) |-> c[1] \o SectionChunks(text, c[2])]
<1>1. N \in Nat
  BY LenProperties
<1>2. <<>> \in S
  BY EmptySeq
<1>3. ASSUME NEW x \in S, NEW s \in 1..N
      PROVE  turn[<<x, s>>] = x \o SectionChunks(text, s) /\ turn[<<x, s>>] \in S
  <2>1. turn[<<x, s>>] = x \o SectionChunks(text, s)
    OBVIOUS
  <2> QED BY <2>1, SectionChunksFit, ConcatProperties
<1>4. Loops(N, S, <<>>, turn) # {}
  <2>1. \A x \in S, n \in 1..N : turn[<<x, n>>] \in S
    BY <1>3
  <2> HIDE DEF N, S, turn
  <2> QED BY <1>1, <1>2, <2>1, LoopExists, Zenon
<1>5. PICK g \in [0..N -> S] : g[0] = <<>> /\ \A n \in 1..N : g[n] = turn[<<g[n - 1], n>>]
  BY <1>4 DEF Loops
<1>6. \A n \in 1..N : g[n] = g[n - 1] \o SectionChunks(text, n)
  <2> SUFFICES ASSUME NEW n \in 1..N PROVE g[n] = g[n - 1] \o SectionChunks(text, n)
    OBVIOUS
  <2>1. g[n - 1] \in S
    BY <1>1
  <2> HIDE DEF S, turn
  <2> QED BY <1>3, <1>5, <2>1
<1>7. g = [n \in 0..N |-> IF n = 0 THEN <<>> ELSE g[n - 1] \o SectionChunks(text, n)]
  <2> DEFINE h == [n \in 0..N |-> IF n = 0 THEN <<>>
                                  ELSE g[n - 1] \o SectionChunks(text, n)]
  <2>1. ASSUME NEW n \in 0..N PROVE g[n] = h[n]
    <3>1. n = 0 \/ n \in 1..N
      BY <1>1
    <3> HIDE DEF S
    <3> QED BY <1>5, <1>6, <3>1
  <2>2. DOMAIN g = 0..N /\ DOMAIN h = 0..N /\ g = [n \in DOMAIN g |-> g[n]]
    OBVIOUS
  <2> HIDE DEF h
  <2>3. g = h
    <3>1. h = [n \in DOMAIN h |-> h[n]]
      BY DEF h
    <3> QED BY <2>1, <2>2, <3>1
  <2> QED BY <2>3 DEF h
<1> DEFINE G == ChunkLoop(text)
<1>8. G = [n \in 0..N |-> IF n = 0 THEN <<>> ELSE G[n - 1] \o SectionChunks(text, n)]
  BY <1>7 DEF ChunkLoop
<1> HIDE DEF G
<1>9. G[0] = <<>>
  BY <1>1, <1>8
<1>10. ASSUME NEW n \in 1..N PROVE G[n] = G[n - 1] \o SectionChunks(text, n)
  <2>1. n \in 0..N /\ n # 0
    BY <1>1
  <2> QED BY <1>8, <2>1
<1> QED BY <1>9, <1>10 DEF G

\* The chunks of the first n sections.
Chunked(made, text, n) ==
  /\ made \in Seq(ChunkType)
  /\ \A i \in DOMAIN made : made[i].section <= n
  /\ \A s \in 1..n : \A p \in DOMAIN text[s].paragraphs :
       \E i \in DOMAIN made : made[i].section = s /\ p \in made[i].whole
  /\ \A i, j \in DOMAIN made : i < j => InOrder(made[i], made[j])

LEMMA SectionAdded ==
  ASSUME NEW text \in Seq(Sections), NEW n \in 1..Len(text), NEW made,
         Chunked(made, text, n - 1)
  PROVE  Chunked(made \o SectionChunks(text, n), text, n)
<1> DEFINE new == SectionChunks(text, n)
           c == made \o new
           L == Len(made)
           M == Len(new)
<1>1. /\ new \in Seq(ChunkType)
      /\ \A i \in DOMAIN new : new[i].section = n
      /\ \A p \in DOMAIN text[n].paragraphs : \E i \in DOMAIN new : p \in new[i].whole
      /\ \A i, j \in DOMAIN new : i < j => InOrder(new[i], new[j])
  BY SectionChunksFit
<1>2. made \in Seq(ChunkType)
  BY DEF Chunked
<1> HIDE DEF new
<1>3. /\ L \in Nat /\ M \in Nat /\ DOMAIN made = 1..L /\ DOMAIN new = 1..M
      /\ \A i \in 1..L : made[i] \in ChunkType
      /\ n \in Nat
  BY <1>1, <1>2, LenProperties, ElementOfSeq
<1>4. /\ c \in Seq(ChunkType) /\ Len(c) = L + M
      /\ \A i \in 1..(L + M) : c[i] = IF i <= L THEN made[i] ELSE new[i - L]
  BY <1>1, <1>2, ConcatProperties
<1> HIDE DEF c, L, M
<1>5. DOMAIN c = 1..(L + M)
  BY <1>4, LenProperties
<1>6. /\ \A i \in 1..L : i \in DOMAIN c /\ c[i] = made[i]
      /\ \A i \in 1..M : L + i \in DOMAIN c /\ c[L + i] = new[i]
      /\ \A i \in DOMAIN c : i \in 1..L \/ (i - L \in 1..M /\ c[i] = new[i - L])
  BY <1>3, <1>4, <1>5
<1>7. \A i \in 1..L : made[i].section <= n - 1 /\ made[i].section \in Nat
  BY <1>3 DEF Chunked, ChunkType
<1>8. \A i \in DOMAIN c : c[i].section <= n
  BY <1>1, <1>3, <1>6, <1>7
<1>9. ASSUME NEW s \in 1..n, NEW p \in DOMAIN text[s].paragraphs
      PROVE  \E i \in DOMAIN c : c[i].section = s /\ p \in c[i].whole
  <2>1. CASE s = n
    <3>1. PICK i \in 1..M : p \in new[i].whole
      BY <1>1, <1>3, <2>1
    <3>2. L + i \in DOMAIN c /\ c[L + i] = new[i]
      BY <1>6
    <3>3. new[i].section = s
      BY <1>1, <1>3, <2>1
    <3> QED BY <3>1, <3>2, <3>3
  <2>2. CASE s # n
    <3>1. s \in 1..(n - 1)
      BY <1>3, <2>2
    <3>2. PICK i \in 1..L : made[i].section = s /\ p \in made[i].whole
      BY <1>3, <3>1 DEF Chunked
    <3> QED BY <1>6, <3>2
  <2> QED BY <2>1, <2>2
<1>10. ASSUME NEW i \in DOMAIN c, NEW j \in DOMAIN c, i < j
       PROVE  InOrder(c[i], c[j])
  <2>1. CASE i \in 1..L /\ j \in 1..L
    BY <1>3, <1>6, <1>10, <2>1 DEF Chunked
  <2>2. CASE i \in 1..L /\ j \notin 1..L
    <3>1. j - L \in 1..M /\ c[j] = new[j - L] /\ c[i] = made[i]
      BY <1>6, <2>2
    <3>2. c[j].section = n /\ c[i].section <= n - 1 /\ c[i].section \in Nat
      BY <1>1, <1>3, <1>7, <2>2, <3>1
    <3> QED BY <1>3, <3>2 DEF InOrder
  <2>3. CASE i \notin 1..L
    <3>1. i - L \in 1..M /\ j - L \in 1..M /\ i - L < j - L
            /\ c[i] = new[i - L] /\ c[j] = new[j - L]
      BY <1>3, <1>5, <1>6, <1>10, <2>3
    <3> QED BY <1>1, <1>3, <3>1
  <2> QED BY <2>1, <2>2, <2>3
<1> QED BY <1>4, <1>8, <1>9, <1>10 DEF Chunked, c, new

\* chunk_document makes a sequence of chunks that holds every paragraph, whole
\* and in order, whatever the lengths, the overlap and the room for the title.
THEOREM DocumentCovered ==
  ASSUME NEW text \in Seq(Sections)
  PROVE  /\ ChunkDocument(text) \in Seq(ChunkType)
         /\ Covers(ChunkDocument(text), text)
<1> DEFINE N == Len(text)
           g == ChunkLoop(text)
           T == {n \in 0..N : Chunked(g[n], text, n)}
<1>1. N \in Nat /\ DOMAIN text = 1..N
  BY LenProperties
<1>2. g[0] = <<>> /\ \A n \in 1..N : g[n] = g[n - 1] \o SectionChunks(text, n)
  BY ChunkLoopTurns
<1>3. ChunkDocument(text) = g[N]
  BY DEF ChunkDocument, ChunkLoop, SectionChunks, SectionPieces
<1> HIDE DEF g
<1>4. 0 \in T
  <2>1. <<>> \in Seq(ChunkType) /\ DOMAIN <<>> = {}
    BY EmptySeq
  <2>2. Chunked(<<>>, text, 0)
    BY <2>1 DEF Chunked
  <2> QED BY <1>1, <1>2, <2>2
<1>5. ASSUME NEW n \in 1..N, n - 1 \in T PROVE n \in T
  <2>1. Chunked(g[n - 1], text, n - 1)
    BY <1>5
  <2>2. Chunked(g[n], text, n)
    BY <1>2, <2>1, SectionAdded
  <2> QED BY <2>2
<1>6. Chunked(g[N], text, N)
  <2>1. \A n \in 0..N : n \in T
    <3> HIDE DEF T
    <3> QED BY <1>1, <1>4, <1>5, Counting
  <2> QED BY <1>1, <2>1
<1> QED BY <1>1, <1>3, <1>6 DEF Chunked, Covers, InOrder

-----------------------------------------------------------------------------
(* reciprocal_rank_fusion.                                                 *)

LEMMA Quotient ==
  ASSUME NEW x \in Nat, NEW d \in Nat \ {0}
  PROVE  /\ x \div d \in Nat
         /\ d * (x \div d) <= x
         /\ \A y \in Nat : d * y <= x => y <= x \div d
<1>1. x \div d \in Int /\ d * (x \div d) <= x /\ x < d * (x \div d) + d
  OBVIOUS
<1>2. x \div d >= 0
  BY <1>1
<1>3. ASSUME NEW y \in Nat, d * y <= x PROVE y <= x \div d
  <2>1. d * y < d * (x \div d + 1)
    BY <1>1, <1>3
  <2> QED BY <1>1, <2>1
<1> QED BY <1>1, <1>2, <1>3

LEMMA QuotientFalls ==
  ASSUME NEW x \in Nat, NEW d \in Nat \ {0}, NEW e \in Nat \ {0}, d <= e
  PROVE  x \div e <= x \div d
<1> DEFINE y == x \div e
<1>1. y \in Nat /\ e * y <= x
  BY Quotient
<1> HIDE DEF y
<1>2. d * y <= e * y
  BY <1>1
<1>3. d * y <= x
  BY <1>1, <1>2
<1> QED BY <1>1, <1>3, Quotient DEF y

\* The loop of Unit.
UnitLoop ==
  CHOOSE g : g = [n \in 0..(FullTextLimit + VectorLimit) |->
    IF n = 0 THEN 1 ELSE g[n - 1] * (K + n)]

LEMMA UnitType == Unit \in Nat
<1> DEFINE N == FullTextLimit + VectorLimit
           turn == [c \in Nat \X (1..N) |-> c[1] * (K + c[2])]
           first == 1
           G == UnitLoop
<1>1. N \in Nat /\ first \in Nat /\ K \in Nat
  BY KnowledgeBaseAssumption DEF K
<1>2. ASSUME NEW x \in Nat, NEW n \in 1..N
      PROVE  turn[<<x, n>>] = x * (K + n) /\ turn[<<x, n>>] \in Nat
  <2>1. turn[<<x, n>>] = x * (K + n)
    OBVIOUS
  <2>2. K + n \in Nat
    BY <1>1
  <2>3. x * (K + n) \in Nat
    BY <2>2
  <2> QED BY <2>1, <2>3
<1>3. Loops(N, Nat, first, turn) # {}
  <2>1. \A x \in Nat, n \in 1..N : turn[<<x, n>>] \in Nat
    BY <1>2
  <2> HIDE DEF N, turn, first
  <2> QED BY <1>1, <2>1, LoopExists, Zenon
<1>4. PICK g \in [0..N -> Nat] : g[0] = 1 /\ \A n \in 1..N : g[n] = turn[<<g[n - 1], n>>]
  BY <1>3 DEF Loops
<1>5. ASSUME NEW n \in 1..N PROVE g[n] = g[n - 1] * (K + n)
  <2>1. g[n - 1] \in Nat
    BY <1>1
  <2> HIDE DEF turn, N
  <2> QED BY <1>2, <1>4, <2>1
<1>6. g = [n \in 0..N |-> IF n = 0 THEN 1 ELSE g[n - 1] * (K + n)]
  <2> DEFINE h == [n \in 0..N |-> IF n = 0 THEN 1 ELSE g[n - 1] * (K + n)]
  <2>1. ASSUME NEW n \in 0..N PROVE g[n] = h[n]
    <3>1. n = 0 \/ n \in 1..N
      BY <1>1
    <3> QED BY <1>4, <1>5, <3>1
  <2>2. DOMAIN g = 0..N /\ DOMAIN h = 0..N /\ g = [n \in DOMAIN g |-> g[n]]
    OBVIOUS
  <2> HIDE DEF h
  <2>3. g = h
    <3>1. h = [n \in DOMAIN h |-> h[n]]
      BY DEF h
    <3> QED BY <2>1, <2>2, <3>1
  <2> QED BY <2>3 DEF h
<1>7. G = [n \in 0..N |-> IF n = 0 THEN 1 ELSE G[n - 1] * (K + n)]
  BY <1>6 DEF UnitLoop
<1>8. Unit = G[N]
  BY DEF Unit, UnitLoop
<1> HIDE DEF G, N
<1> DEFINE T == {n \in 0..N : G[n] \in Nat}
<1>9. 0 \in T
  BY <1>1, <1>7
<1>10. ASSUME NEW n \in 1..N, n - 1 \in T PROVE n \in T
  <2>1. n \in 0..N /\ n # 0 /\ G[n - 1] \in Nat /\ K + n \in Nat
    BY <1>1, <1>10
  <2>2. G[n] = G[n - 1] * (K + n)
    BY <1>7, <2>1
  <2>3. G[n] \in Nat
    BY <2>1, <2>2
  <2> QED BY <2>1, <2>3
<1>11. G[N] \in Nat
  <2>1. \A n \in 0..N : n \in T
    <3> HIDE DEF T
    <3> QED BY <1>1, <1>9, <1>10, Counting
  <2>2. N \in 0..N
    BY <1>1
  <2> QED BY <2>1, <2>2
<1> QED BY <1>8, <1>11


\* A ranking of chunks names none of them twice.
IsRanking(r) ==
  r \in Seq(ToChunks) /\ \A i, j \in DOMAIN r : r[i] = r[j] => i = j

LEMMA PositionIs ==
  ASSUME NEW r, IsRanking(r)
  PROVE  /\ Len(r) \in Nat /\ DOMAIN r = 1..Len(r)
         /\ ToSet(r) \subseteq ToChunks
         /\ \A i \in 1..Len(r) : r[i] \in ToSet(r) /\ Position(r[i], r) = i
         /\ \A id \in ToSet(r) :
              Position(id, r) \in 1..Len(r) /\ r[Position(id, r)] = id
<1>1. Len(r) \in Nat /\ DOMAIN r = 1..Len(r) /\ \A i \in 1..Len(r) : r[i] \in ToChunks
  BY LenProperties, ElementOfSeq DEF IsRanking
<1>2. ToSet(r) \subseteq ToChunks /\ \A i \in 1..Len(r) : r[i] \in ToSet(r)
  BY <1>1 DEF ToSet
<1>3. ASSUME NEW id \in ToSet(r)
      PROVE  Position(id, r) \in 1..Len(r) /\ r[Position(id, r)] = id
  <2>1. \E i \in DOMAIN r : r[i] = id
    BY DEF ToSet
  <2> QED BY <1>1, <2>1 DEF Position
<1>4. ASSUME NEW i \in 1..Len(r) PROVE Position(r[i], r) = i
  <2>1. Position(r[i], r) \in 1..Len(r) /\ r[Position(r[i], r)] = r[i]
    BY <1>2, <1>3
  <2> QED BY <1>1, <2>1 DEF IsRanking
<1> QED BY <1>1, <1>2, <1>3, <1>4

LEMMA TermType ==
  ASSUME NEW r, IsRanking(r), NEW id
  PROVE  Term(id, r) \in Nat
<1>1. CASE id \in ToSet(r)
  <2> DEFINE p == Position(id, r)
  <2>1. p \in Nat \ {0}
    BY <1>1, PositionIs
  <2> HIDE DEF p
  <2>2. K + p \in Nat \ {0}
    BY <2>1 DEF K
  <2>3. Unit \div (K + p) \in Nat
    BY <2>2, UnitType, Quotient
  <2> QED BY <1>1, <2>3 DEF Term, p
<1>2. CASE id \notin ToSet(r)
  BY <1>2 DEF Term
<1> QED BY <1>1, <1>2

\* A higher rank never counts for less.
LEMMA TermFalls ==
  ASSUME NEW r, IsRanking(r), NEW a, NEW b, NoLower(a, b, r)
  PROVE  Term(b, r) <= Term(a, r)
<1>1. CASE b \in ToSet(r)
  <2> DEFINE p == Position(a, r)
             q == Position(b, r)
  <2>1. a \in ToSet(r) /\ p <= q
    BY <1>1 DEF NoLower
  <2>2. p \in Nat \ {0} /\ q \in Nat \ {0}
    BY <1>1, <2>1, PositionIs
  <2>3. Term(a, r) = Unit \div (K + p) /\ Term(b, r) = Unit \div (K + q)
    BY <1>1, <2>1 DEF Term
  <2> HIDE DEF p, q
  <2>4. K + p \in Nat \ {0} /\ K + q \in Nat \ {0} /\ K + p <= K + q
    BY <2>1, <2>2 DEF K
  <2>5. Unit \div (K + q) <= Unit \div (K + p)
    BY <2>4, UnitType, QuotientFalls
  <2> QED BY <2>3, <2>5
<1>2. CASE b \notin ToSet(r)
  <2>1. Term(b, r) = 0 /\ Term(a, r) \in Nat
    BY <1>2, TermType DEF Term
  <2> QED BY <2>1
<1> QED BY <1>1, <1>2

\* The dict of reciprocal_rank_fusion has each id once.
LEMMA FirstSeenOnce ==
  ASSUME NEW ft, NEW vec, IsRanking(ft), IsRanking(vec)
  PROVE  /\ \A a \in Seen(ft, vec) : FirstSeen(a, ft, vec) \in Nat
         /\ \A a, b \in Seen(ft, vec) :
              FirstSeen(a, ft, vec) = FirstSeen(b, ft, vec) => a = b
<1>1. ASSUME NEW a \in Seen(ft, vec)
      PROVE  \/ a \in ToSet(ft) /\ FirstSeen(a, ft, vec) = Position(a, ft)
                  /\ Position(a, ft) \in 1..Len(ft) /\ ft[Position(a, ft)] = a
             \/ a \in ToSet(vec) /\ FirstSeen(a, ft, vec) = Len(ft) + Position(a, vec)
                  /\ Position(a, vec) \in 1..Len(vec) /\ vec[Position(a, vec)] = a
  BY PositionIs DEF Seen, FirstSeen
<1>2. Len(ft) \in Nat /\ Len(vec) \in Nat
  BY PositionIs
<1>3. \A a \in Seen(ft, vec) : FirstSeen(a, ft, vec) \in Nat
  BY <1>1, <1>2
<1>4. ASSUME NEW a \in Seen(ft, vec), NEW b \in Seen(ft, vec),
             FirstSeen(a, ft, vec) = FirstSeen(b, ft, vec)
      PROVE  a = b
  <2> DEFINE pa == Position(a, ft)  va == Position(a, vec)
             pb == Position(b, ft)  vb == Position(b, vec)
  <2>1. \/ FirstSeen(a, ft, vec) = pa /\ pa \in 1..Len(ft) /\ ft[pa] = a
        \/ FirstSeen(a, ft, vec) = Len(ft) + va /\ va \in 1..Len(vec) /\ vec[va] = a
    BY <1>1
  <2>2. \/ FirstSeen(b, ft, vec) = pb /\ pb \in 1..Len(ft) /\ ft[pb] = b
        \/ FirstSeen(b, ft, vec) = Len(ft) + vb /\ vb \in 1..Len(vec) /\ vec[vb] = b
    BY <1>1
  <2> HIDE DEF pa, va, pb, vb
  <2>3. (pa = pb /\ ft[pa] = a /\ ft[pb] = b) \/ (va = vb /\ vec[va] = a /\ vec[vb] = b)
    BY <1>2, <1>4, <2>1, <2>2
  <2> QED BY <2>3
<1> QED BY <1>3, <1>4

\* What neither ranking puts below another chunk is sorted before it.
LEMMA NoLowerIsBefore ==
  ASSUME NEW ft, NEW vec, IsRanking(ft), IsRanking(vec),
         NEW b \in Seen(ft, vec), NEW a, a # b,
         NoLower(a, b, ft), NoLower(a, b, vec)
  PROVE  a \in Seen(ft, vec) /\ Before(a, b, ft, vec)
<1>1. a \in Seen(ft, vec)
  BY DEF Seen, NoLower
<1>2. /\ Term(a, ft) \in Nat /\ Term(a, vec) \in Nat
      /\ Term(b, ft) \in Nat /\ Term(b, vec) \in Nat
      /\ Term(b, ft) <= Term(a, ft) /\ Term(b, vec) <= Term(a, vec)
  BY TermType, TermFalls
<1>3. Score(a, ft, vec) > Score(b, ft, vec) \/ Score(a, ft, vec) = Score(b, ft, vec)
  BY <1>2 DEF Score
<1>4. FirstSeen(a, ft, vec) < FirstSeen(b, ft, vec)
  <2>1. FirstSeen(a, ft, vec) \in Nat /\ FirstSeen(b, ft, vec) \in Nat
          /\ FirstSeen(a, ft, vec) # FirstSeen(b, ft, vec)
    BY <1>1, FirstSeenOnce
  <2>2. FirstSeen(a, ft, vec) <= FirstSeen(b, ft, vec)
    <3>1. CASE b \in ToSet(ft)
      BY <3>1 DEF FirstSeen, NoLower
    <3>2. CASE b \notin ToSet(ft)
      <4>1. /\ b \in ToSet(vec) /\ a \in ToSet(vec)
            /\ Position(a, vec) <= Position(b, vec)
            /\ FirstSeen(b, ft, vec) = Len(ft) + Position(b, vec)
        BY <3>2 DEF Seen, NoLower, FirstSeen
      <4>2. /\ Position(a, vec) \in Nat /\ Position(b, vec) \in Nat /\ Len(ft) \in Nat
            /\ a \in ToSet(ft) => Position(a, ft) \in 1..Len(ft)
        BY <4>1, PositionIs
      <4> QED BY <4>1, <4>2 DEF FirstSeen
    <3> QED BY <3>1, <3>2
  <2> QED BY <2>1, <2>2
<1> QED BY <1>1, <1>3, <1>4 DEF Before

\* The sort puts the ids in a line.
LEMMA BeforeIsAnOrder ==
  ASSUME NEW ft, NEW vec, IsRanking(ft), IsRanking(vec)
  PROVE  /\ \A a \in Seen(ft, vec) : ~Before(a, a, ft, vec)
         /\ \A a, b \in Seen(ft, vec) :
              a # b => Before(a, b, ft, vec) \/ Before(b, a, ft, vec)
         /\ \A a, b, c \in Seen(ft, vec) :
              Before(a, b, ft, vec) /\ Before(b, c, ft, vec) => Before(a, c, ft, vec)
<1>1. \A a : Score(a, ft, vec) \in Nat
  BY TermType DEF Score
<1>2. /\ \A a \in Seen(ft, vec) : FirstSeen(a, ft, vec) \in Nat
      /\ \A a, b \in Seen(ft, vec) :
           FirstSeen(a, ft, vec) = FirstSeen(b, ft, vec) => a = b
  BY FirstSeenOnce
<1> QED BY <1>1, <1>2 DEF Before


LEMMA FewEntries ==
  ASSUME NEW n \in Nat, NEW f, DOMAIN f = 1..n
  PROVE  IsFiniteSet({f[i] : i \in 1..n})
<1> DEFINE S == {f[i] : i \in 1..n}
           g == [i \in 1..n |-> f[i]]
<1>1. g \in Surjection(1..n, S)
  BY DEF Surjection
<1> HIDE DEF g, S
<1>2. ExistsSurjection(1..n, S)
  BY <1>1 DEF ExistsSurjection
<1>3. IsFiniteSet(S)
  BY <1>2, FS_NatSurjection
<1> QED BY <1>3 DEF S

LEMMA SeenFinite ==
  ASSUME NEW ft, NEW vec, IsRanking(ft), IsRanking(vec)
  PROVE  /\ IsFiniteSet(Seen(ft, vec)) /\ Cardinality(Seen(ft, vec)) \in Nat
         /\ Seen(ft, vec) \subseteq ToChunks
<1>1. ASSUME NEW r, IsRanking(r) PROVE IsFiniteSet(ToSet(r)) /\ ToSet(r) \subseteq ToChunks
  <2>1. Len(r) \in Nat /\ DOMAIN r = 1..Len(r) /\ ToSet(r) \subseteq ToChunks
    BY <1>1, PositionIs
  <2>2. IsFiniteSet({r[i] : i \in 1..Len(r)})
    BY <2>1, FewEntries
  <2> QED BY <2>1, <2>2 DEF ToSet
<1>2. IsFiniteSet(ToSet(ft)) /\ IsFiniteSet(ToSet(vec))
  BY <1>1
<1>3. IsFiniteSet(Seen(ft, vec))
  BY <1>2, FS_Union DEF Seen
<1>4. Seen(ft, vec) \subseteq ToChunks
  BY <1>1 DEF Seen
<1> QED BY <1>3, <1>4, FS_CardinalityType

\* A chunk sorted before another has a smaller place.
LEMMA PlaceGrows ==
  ASSUME NEW ft, NEW vec, IsRanking(ft), IsRanking(vec)
  PROVE  /\ \A a \in Seen(ft, vec) :
              Place(a, ft, vec) \in 1..Cardinality(Seen(ft, vec))
         /\ \A a, b \in Seen(ft, vec) :
              Before(a, b, ft, vec) => Place(a, ft, vec) < Place(b, ft, vec)
<1> DEFINE S == Seen(ft, vec)
           Below(x) == {o \in S : Before(o, x, ft, vec)}
<1>1. IsFiniteSet(S)
  BY SeenFinite
<1>2. /\ \A a \in S : ~Before(a, a, ft, vec)
      /\ \A a, b, c \in S :
           Before(a, b, ft, vec) /\ Before(b, c, ft, vec) => Before(a, c, ft, vec)
  BY BeforeIsAnOrder
<1> HIDE DEF S
<1>3. ASSUME NEW T \in SUBSET S, NEW R \in SUBSET T, R # T
      PROVE  Cardinality(R) \in Nat /\ Cardinality(T) \in Nat
               /\ Cardinality(R) < Cardinality(T)
  <2>1. IsFiniteSet(T)
    BY <1>1, FS_Subset
  <2>2. IsFiniteSet(R) /\ Cardinality(R) <= Cardinality(T)
          /\ Cardinality(R) # Cardinality(T)
    BY <1>3, <2>1, FS_Subset
  <2> QED BY <2>1, <2>2, FS_CardinalityType
<1>4. ASSUME NEW a \in S PROVE Place(a, ft, vec) \in 1..Cardinality(S)
  <2>1. Below(a) \in SUBSET S /\ Below(a) # S
    BY <1>2
  <2>2. Cardinality(Below(a)) \in Nat /\ Cardinality(S) \in Nat
          /\ Cardinality(Below(a)) < Cardinality(S)
    BY <1>3, <2>1
  <2>3. Place(a, ft, vec) = 1 + Cardinality(Below(a))
    BY DEF Place, S
  <2> QED BY <2>2, <2>3
<1>5. ASSUME NEW a \in S, NEW b \in S, Before(a, b, ft, vec)
      PROVE  Place(a, ft, vec) < Place(b, ft, vec)
  <2>1. Below(b) \in SUBSET S /\ Below(a) \in SUBSET Below(b) /\ Below(a) # Below(b)
    BY <1>2, <1>5
  <2>2. Cardinality(Below(a)) \in Nat /\ Cardinality(Below(b)) \in Nat
          /\ Cardinality(Below(a)) < Cardinality(Below(b))
    BY <1>3, <2>1
  <2>3. /\ Place(a, ft, vec) = 1 + Cardinality(Below(a))
        /\ Place(b, ft, vec) = 1 + Cardinality(Below(b))
    BY DEF Place, S
  <2> QED BY <2>2, <2>3
<1> QED BY <1>4, <1>5 DEF S

\* reciprocal_rank_fusion answers each id it has seen, once, at its place.
LEMMA FusedRanks ==
  ASSUME NEW ft, NEW vec, IsRanking(ft), IsRanking(vec)
  PROVE  /\ IsRanking(Fused(ft, vec))
         /\ ToSet(Fused(ft, vec)) = Seen(ft, vec)
         /\ \A id \in Seen(ft, vec) : Position(id, Fused(ft, vec)) = Place(id, ft, vec)
<1> DEFINE S == Seen(ft, vec)
           N == Cardinality(S)
           P == [id \in S |-> Place(id, ft, vec)]
           F == Fused(ft, vec)
<1>1. IsFiniteSet(S) /\ N \in Nat /\ S \subseteq ToChunks
  BY SeenFinite
<1>2. /\ \A a \in S : Place(a, ft, vec) \in 1..N
      /\ \A a, b \in S : Place(a, ft, vec) = Place(b, ft, vec) => a = b
  <2>1. \A a \in S : Place(a, ft, vec) \in 1..N
    BY PlaceGrows
  <2>2. ASSUME NEW a \in S, NEW b \in S, Place(a, ft, vec) = Place(b, ft, vec), a # b
        PROVE  FALSE
    <3>1. Before(a, b, ft, vec) \/ Before(b, a, ft, vec)
      BY <2>2, BeforeIsAnOrder
    <3>2. Place(a, ft, vec) < Place(b, ft, vec) \/ Place(b, ft, vec) < Place(a, ft, vec)
      BY <3>1, PlaceGrows
    <3> QED BY <1>1, <2>1, <2>2, <3>2
  <2> QED BY <2>1, <2>2
<1>3. F = [i \in 1..N |-> CHOOSE id \in S : Place(id, ft, vec) = i]
  BY DEF Fused
<1> HIDE DEF S, N, F
<1>4. ASSUME NEW i \in 1..N PROVE \E id \in S : Place(id, ft, vec) = i
  <2>1. P \in Injection(S, 1..N)
    BY <1>2 DEF Injection, IsInjective
  <2>2. IsFiniteSet(1..N) /\ Cardinality(1..N) = N
    BY <1>1, FS_Interval
  <2> HIDE DEF P
  <2>3. P \in Surjection(S, 1..N)
    BY <2>1, <2>2, FS_Injection DEF N
  <2>4. \E id \in S : P[id] = i
    BY <2>3 DEF Surjection
  <2> QED BY <2>4 DEF P
<1>5. \A i \in 1..N : F[i] \in S /\ Place(F[i], ft, vec) = i
  BY <1>3, <1>4
<1>6. \A id \in S : Place(id, ft, vec) \in 1..N /\ F[Place(id, ft, vec)] = id
  BY <1>2, <1>5
<1>7. F \in Seq(ToChunks) /\ DOMAIN F = 1..N
  <2>1. DOMAIN F = 1..N /\ \A i \in 1..N : F[i] \in ToChunks
    BY <1>1, <1>3, <1>5
  <2>2. F \in [1..N -> ToChunks]
    BY <1>3, <2>1
  <2> QED BY <1>1, <2>1, <2>2
<1>8. IsRanking(F)
  BY <1>5, <1>7 DEF IsRanking
<1>9. ToSet(F) = S
  BY <1>5, <1>6, <1>7 DEF ToSet
<1>10. \A id \in S : Position(id, F) = Place(id, ft, vec)
  BY <1>6, <1>7, <1>8, PositionIs
<1> QED BY <1>8, <1>9, <1>10 DEF S, F

\* reciprocal_rank_fusion puts a chunk before every other that it precedes in
\* each list the other is in, whatever the lists.
THEOREM FusedRespects ==
  ASSUME NEW ft, NEW vec, IsRanking(ft), IsRanking(vec),
         NEW b \in ToSet(Fused(ft, vec)), NEW a, a # b,
         NoLower(a, b, ft), NoLower(a, b, vec)
  PROVE  /\ a \in ToSet(Fused(ft, vec))
         /\ Position(a, Fused(ft, vec)) < Position(b, Fused(ft, vec))
<1>1. b \in Seen(ft, vec)
  BY FusedRanks
<1>2. a \in Seen(ft, vec) /\ Before(a, b, ft, vec)
  BY <1>1, NoLowerIsBefore
<1>3. Place(a, ft, vec) < Place(b, ft, vec)
  BY <1>1, <1>2, PlaceGrows
<1> QED BY <1>1, <1>2, <1>3, FusedRanks

\* The first of a ranking, as many as the limit lets through.
LEMMA FirstOfRanks ==
  ASSUME NEW r, IsRanking(r)
  PROVE  /\ IsRanking(FirstOf(r)) /\ Len(FirstOf(r)) <= Limit
         /\ ToSet(FirstOf(r)) \subseteq ToSet(r)
         /\ \A id \in ToSet(FirstOf(r)) : Position(id, FirstOf(r)) = Position(id, r)
         /\ \A a \in ToSet(r), b \in ToSet(FirstOf(r)) :
              Position(a, r) < Position(b, r) => a \in ToSet(FirstOf(r))
<1> DEFINE f == FirstOf(r)
           N == Smaller(Limit, Len(r))
<1>1. /\ Len(r) \in Nat /\ DOMAIN r = 1..Len(r)
      /\ \A i \in 1..Len(r) : r[i] \in ToChunks
  BY LenProperties, ElementOfSeq DEF IsRanking
<1>2. N \in Nat /\ N <= Limit /\ N <= Len(r)
  BY <1>1, KnowledgeBaseAssumption DEF Smaller
<1>3. f = SubSeq(r, 1, N)
  BY DEF FirstOf
<1> HIDE DEF f, N
<1>4. f \in Seq(ToChunks) /\ Len(f) = N /\ \A i \in 1..N : f[i] = r[i]
  <2>1. \A i \in 1..N : r[i] \in ToChunks
    BY <1>1, <1>2
  <2>2. /\ SubSeq(r, 1, N) \in Seq(ToChunks)
        /\ Len(SubSeq(r, 1, N)) = IF 1 <= N THEN N - 1 + 1 ELSE 0
        /\ \A i \in 1..(N - 1 + 1) : SubSeq(r, 1, N)[i] = r[1 + i - 1]
    BY <1>2, <2>1, SubSeqProperties
  <2> QED BY <1>2, <1>3, <2>2
<1>5. DOMAIN f = 1..N
  BY <1>4, LenProperties
<1>6. IsRanking(f)
  BY <1>1, <1>2, <1>4, <1>5 DEF IsRanking
<1>7. ASSUME NEW id \in ToSet(f)
      PROVE  id \in ToSet(r) /\ Position(id, f) = Position(id, r) /\ Position(id, r) <= N
  <2>1. PICK i \in 1..N : f[i] = id
    BY <1>5 DEF ToSet
  <2>2. i \in 1..Len(r) /\ r[i] = id /\ Len(f) = N
    BY <1>1, <1>2, <1>4, <2>1
  <2>3. Position(id, f) = i /\ Position(id, r) = i /\ id \in ToSet(r)
    BY <1>6, <2>1, <2>2, PositionIs
  <2> QED BY <1>2, <2>3
<1>8. ASSUME NEW a \in ToSet(r), NEW b \in ToSet(f), Position(a, r) < Position(b, r)
      PROVE  a \in ToSet(f)
  <2> DEFINE i == Position(a, r)
  <2>1. i \in 1..Len(r) /\ r[i] = a
    BY PositionIs
  <2>2. Position(b, r) <= N /\ Position(b, r) \in Nat
    BY <1>7, PositionIs
  <2>3. i \in 1..N
    BY <1>2, <1>8, <2>1, <2>2
  <2> HIDE DEF i
  <2> QED BY <1>4, <1>5, <2>1, <2>3 DEF ToSet
<1> QED BY <1>2, <1>4, <1>6, <1>7, <1>8 DEF f


-----------------------------------------------------------------------------
(* The inductive invariant.                                                *)

\* The last search, as the two queries and the fusion left it.
SearchTold ==
  /\ search \in [step : {"idle", "full_text_done", "done"}, fullText : Seq(ToChunks),
                 vector : Seq(ToChunks), results : Seq(ToChunks)]
  /\ IsRanking(search.fullText) /\ IsRanking(search.vector)
  /\ Len(search.results) <= Limit
  /\ search.step = "done" =>
       search.results = FirstOf(IF search.vector = <<>> THEN search.fullText
                                ELSE Fused(search.fullText, search.vector))

\* A request works on a text from its look-up on, and has embedded no more
\* chunks than the text has, and all of them when it writes them.
WorkInProgress ==
  \A u \in Uploads :
    /\ upload[u].step \in {"inserting"} \cup InTransaction => upload[u].text \in Texts
    /\ upload[u].step \in {"new", "inserting"} => upload[u].embeddings = <<>>
    /\ upload[u].step = "embedding" => Len(upload[u].embeddings) <= Len(Made(u))
    /\ upload[u].step = "writing" => Len(upload[u].embeddings) = Len(Made(u))

CreatedIfStored == \A d \in Stored : upload[d].step = "created"

\* The unique constraint: no two documents, no document and transaction, no
\* two transactions have one text.
TextsDiffer ==
  /\ \A d, e \in Stored : documents[d] = documents[e] => d = e
  /\ \A u \in Uploads : upload[u].step \in InTransaction =>
       /\ \A d \in Stored : documents[d] # upload[u].text
       /\ \A v \in Uploads :
            upload[v].step \in InTransaction /\ upload[v].text = upload[u].text => v = u

\* The rows of chunks are those of the stored documents.
RowsAreWhole ==
  /\ \A row \in chunks : row.document \in Stored
  /\ \A d \in Stored :
       {row.index : row \in {r \in chunks : r.document = d}} = DOMAIN ChunksOf[documents[d]]

StoreTold ==
  /\ IsFiniteSet(chunks)
  /\ WorkInProgress
  /\ CreatedIfStored
  /\ TextsDiffer
  /\ RowsAreWhole

IInv == TypeOK /\ SearchTold /\ StoreTold

StepNames == {"new", "inserting"} \cup InTransaction \cup Answered

Works == [step : StepNames, text : Texts \cup {NoText}, embeddings : Seq(Embeddings)]

LEMMA TextsFit ==
  ASSUME NEW text \in Texts
  PROVE  /\ ChunksOf[text] \in Seq(ChunkType) /\ Covers(ChunksOf[text], text)
         /\ Len(ChunksOf[text]) \in Nat
         /\ DOMAIN ChunksOf[text] = 1..Len(ChunksOf[text])
         /\ text # NoText
<1>1. text \in Seq(Sections) /\ text # NoText
  BY KnowledgeBaseAssumption
<1>2. ChunksOf[text] = ChunkDocument(text)
  BY DEF ChunksOf
<1> QED BY <1>1, <1>2, DocumentCovered, LenProperties

LEMMA RankingsRank ==
  ASSUME NEW ids \in SUBSET ToChunks, NEW least \in Nat, NEW most \in Nat,
         NEW r \in Rankings(ids, least, most)
  PROVE  IsRanking(r)
<1>1. PICK n \in least..most : r \in [1..n -> ids]
  BY DEF Rankings
<1>2. n \in Nat /\ \A i, j \in DOMAIN r : r[i] = r[j] => i = j
  BY DEF Rankings
<1>3. r \in [1..n -> ToChunks]
  BY <1>1
<1>4. r \in Seq(ToChunks)
  BY <1>2, <1>3
<1> QED BY <1>2, <1>4 DEF IsRanking

LEMMA NothingRanked == IsRanking(<<>>) /\ Len(<<>>) = 0 /\ <<>> \in Seq(ToChunks)
  BY EmptySeq DEF IsRanking

LEMMA IdsFit ==
  ASSUME chunks \subseteq ChunkRows, IsFiniteSet(chunks)
  PROVE  /\ Ids \subseteq ToChunks /\ Cardinality(Ids) \in Nat
         /\ EmbeddedIds \subseteq ToChunks /\ Cardinality(EmbeddedIds) \in Nat
<1>1. Ids \subseteq ToChunks
  BY DEF Ids, Id, ChunkRows, ToChunks
<1> DEFINE f == [row \in chunks |-> Id(row)]
<1>2. f \in Surjection(chunks, Ids)
  BY DEF Surjection, Ids
<1> HIDE DEF f
<1>3. IsFiniteSet(Ids)
  BY <1>2, FS_Surjection
<1>4. EmbeddedIds \subseteq Ids
  BY DEF EmbeddedIds, Ids
<1>5. IsFiniteSet(EmbeddedIds)
  BY <1>3, <1>4, FS_Subset
<1> QED BY <1>1, <1>3, <1>4, <1>5, FS_CardinalityType

LEMMA Initial == Init => IInv
<1> SUFFICES ASSUME Init PROVE IInv
  OBVIOUS
<1> USE DEF Init
<1>1. <<>> \in Seq(Embeddings) /\ <<>> \in Seq(ToChunks)
  BY EmptySeq
<1>2. search = NoSearch /\ SearchTold
  BY <1>1, NothingRanked, KnowledgeBaseAssumption DEF SearchTold, NoSearch
<1>3. TypeOK
  BY <1>1, NothingRanked, KnowledgeBaseAssumption DEF TypeOK, NoSearch
<1>4. Stored = {}
  BY DEF Stored
<1>5. StoreTold
  <2>1. IsFiniteSet(chunks)
    BY FS_EmptySet
  <2>2. WorkInProgress
    BY DEF WorkInProgress, InTransaction
  <2>3. TextsDiffer
    BY <1>4 DEF TextsDiffer, InTransaction
  <2> QED BY <1>4, <2>1, <2>2, <2>3 DEF StoreTold, CreatedIfStored, RowsAreWhole
<1> QED BY <1>2, <1>3, <1>5 DEF IInv

-----------------------------------------------------------------------------
(* Search.                                                                 *)

LEMMA FullTextSearchTells ==
  ASSUME IInv, FullTextSearch
  PROVE  SearchTold'
<1>1. Ids \subseteq ToChunks /\ Cardinality(Ids) \in Nat
  BY IdsFit DEF IInv, TypeOK, StoreTold
<1>2. PICK r \in Rankings(Ids, 0, Smaller(FullTextLimit, Cardinality(Ids))) :
        search' = [search EXCEPT !.step = "full_text_done", !.fullText = r]
  BY DEF FullTextSearch
<1>3. Smaller(FullTextLimit, Cardinality(Ids)) \in Nat
  BY <1>1, KnowledgeBaseAssumption DEF Smaller
<1>4. IsRanking(r) /\ r \in Seq(ToChunks)
  BY <1>1, <1>2, <1>3, RankingsRank DEF IsRanking
<1>5. SearchTold
  BY DEF IInv
<1> QED BY <1>2, <1>4, <1>5 DEF SearchTold

LEMMA VectorSearchTells ==
  ASSUME IInv, VectorSearch
  PROVE  SearchTold'
<1> DEFINE n == Smaller(VectorLimit, Cardinality(EmbeddedIds))
           ft == search.fullText
           answer(vec) == FirstOf(IF vec = <<>> THEN ft ELSE Fused(ft, vec))
<1>1. EmbeddedIds \subseteq ToChunks /\ Cardinality(EmbeddedIds) \in Nat
  BY IdsFit DEF IInv, TypeOK, StoreTold
<1>2. PICK vec \in {<<>>} \cup Rankings(EmbeddedIds, n, n) :
        search' = [search EXCEPT !.step = "done", !.vector = vec, !.results = answer(vec)]
  BY DEF VectorSearch
<1>3. n \in Nat
  BY <1>1, KnowledgeBaseAssumption DEF Smaller
<1>4. IsRanking(vec) /\ vec \in Seq(ToChunks)
  BY <1>1, <1>2, <1>3, RankingsRank, NothingRanked DEF IsRanking
<1>5. SearchTold /\ IsRanking(ft)
  BY DEF IInv, SearchTold
<1>6. IsRanking(Fused(ft, vec))
  BY <1>4, <1>5, FusedRanks
<1>7. IsRanking(answer(vec)) /\ Len(answer(vec)) <= Limit
  BY <1>5, <1>6, FirstOfRanks
<1>8. answer(vec) \in Seq(ToChunks)
  BY <1>7 DEF IsRanking
<1> DEFINE ans == answer(vec)
<1>9. ans = FirstOf(IF vec = <<>> THEN ft ELSE Fused(ft, vec))
  OBVIOUS
<1> HIDE DEF ans
<1>10. search' = [search EXCEPT !.step = "done", !.vector = vec, !.results = ans]
  BY <1>2 DEF ans
<1>11. /\ search'.step = "done" /\ search'.fullText = search.fullText
       /\ search'.vector = vec /\ search'.results = ans
       /\ search' \in [step : {"idle", "full_text_done", "done"}, fullText : Seq(ToChunks),
                       vector : Seq(ToChunks), results : Seq(ToChunks)]
  BY <1>4, <1>5, <1>8, <1>10 DEF SearchTold, ans
<1>12. Len(search'.results) <= Limit
  BY <1>7, <1>11 DEF ans
<1>13. search'.results = FirstOf(IF search'.vector = <<>> THEN search'.fullText
                                 ELSE Fused(search'.fullText, search'.vector))
  BY <1>9, <1>11
<1>14. IsRanking(search'.fullText) /\ IsRanking(search'.vector)
  BY <1>4, <1>5, <1>11
<1> QED BY <1>11, <1>12, <1>13, <1>14 DEF SearchTold

LEMMA NoSearchTells ==
  ASSUME search' = NoSearch
  PROVE  SearchTold'
  BY NothingRanked, KnowledgeBaseAssumption DEF SearchTold, NoSearch


LEMMA SearchKept ==
  ASSUME SearchTold, UNCHANGED search
  PROVE  SearchTold'
  BY DEF SearchTold

LEMMA TypedNext ==
  ASSUME SearchTold', upload' \in [Uploads -> Works],
         documents' \in [Uploads -> Texts \cup {NoText}],
         chunks' \subseteq ChunkRows, deleting' \subseteq Uploads
  PROVE  TypeOK'
  BY DEF SearchTold, TypeOK, Works, StepNames

-----------------------------------------------------------------------------
(* Ingestion.                                                              *)

\* A request goes on with a text that it has the key of, or that nobody has.
LEMMA UploadMoves ==
  ASSUME IInv, NEW u \in Uploads, NEW new \in Works,
         upload' = [upload EXCEPT ![u] = new],
         UNCHANGED <<documents, chunks, deleting, search>>,
         upload[u].step # "created",
         new.step \in {"inserting"} \cup InTransaction => new.text \in Texts,
         new.step \in {"new", "inserting"} => new.embeddings = <<>>,
         new.step = "embedding" => Len(new.embeddings) <= Len(ChunksOf[new.text]),
         new.step = "writing" => Len(new.embeddings) = Len(ChunksOf[new.text]),
         new.step \in InTransaction =>
           \/ upload[u].step \in InTransaction /\ new.text = upload[u].text
           \/ StoredAs(new.text) = {} /\ Holding(new.text) = {}
  PROVE  IInv'
<1> USE DEF IInv, StoreTold
<1>1. upload \in [Uploads -> Works] /\ documents \in [Uploads -> Texts \cup {NoText}]
        /\ chunks \subseteq ChunkRows /\ deleting \subseteq Uploads
  BY DEF TypeOK, Works, StepNames
<1>2. upload' \in [Uploads -> Works] /\ upload'[u] = new
        /\ \A v \in Uploads \ {u} : upload'[v] = upload[v]
  BY <1>1
<1>3. Stored' = Stored /\ u \notin Stored
  BY DEF CreatedIfStored, Stored
<1>4. SearchTold'
  BY SearchKept
<1>5. TypeOK'
  <2>1. /\ documents' \in [Uploads -> Texts \cup {NoText}]
        /\ chunks' \subseteq ChunkRows /\ deleting' \subseteq Uploads
    BY <1>1
  <2> QED BY <1>2, <1>4, <2>1, TypedNext
<1>6. WorkInProgress'
  <2> SUFFICES ASSUME NEW v \in Uploads
      PROVE  /\ upload'[v].step \in {"inserting"} \cup InTransaction => upload'[v].text \in Texts
             /\ upload'[v].step \in {"new", "inserting"} => upload'[v].embeddings = <<>>
             /\ upload'[v].step = "embedding" =>
                  Len(upload'[v].embeddings) <= Len(ChunksOf[upload'[v].text])
             /\ upload'[v].step = "writing" =>
                  Len(upload'[v].embeddings) = Len(ChunksOf[upload'[v].text])
    BY DEF WorkInProgress, Made
  <2>1. CASE v = u
    BY <1>2, <2>1
  <2>2. CASE v # u
    BY <1>2, <2>2 DEF WorkInProgress, Made
  <2> QED BY <2>1, <2>2
<1>7. CreatedIfStored'
  BY <1>2, <1>3 DEF CreatedIfStored, Stored
<1>8. TextsDiffer'
  <2>1. \A d, e \in Stored' : documents'[d] = documents'[e] => d = e
    BY <1>3 DEF TextsDiffer
  <2>2. ASSUME new.step \in InTransaction
        PROVE  /\ \A d \in Stored : documents[d] # new.text
               /\ \A v \in Uploads \ {u} :
                    ~(upload[v].step \in InTransaction /\ upload[v].text = new.text)
    <3>1. CASE upload[u].step \in InTransaction /\ new.text = upload[u].text
      BY <3>1 DEF TextsDiffer
    <3>2. CASE StoredAs(new.text) = {} /\ Holding(new.text) = {}
      BY <3>2 DEF StoredAs, Holding
    <3> QED BY <2>2, <3>1, <3>2
  <2>3. ASSUME NEW w \in Uploads, upload'[w].step \in InTransaction
        PROVE  /\ \A d \in Stored' : documents'[d] # upload'[w].text
               /\ \A v \in Uploads :
                    upload'[v].step \in InTransaction /\ upload'[v].text = upload'[w].text
                      => v = w
    <3>1. CASE w = u
      BY <1>2, <1>3, <2>2, <2>3, <3>1
    <3>2. CASE w # u
      <4>1. /\ upload'[w] = upload[w]
            /\ \A d \in Stored : documents[d] # upload[w].text
            /\ \A v \in Uploads :
                 upload[v].step \in InTransaction /\ upload[v].text = upload[w].text => v = w
        BY <1>2, <2>3, <3>2 DEF TextsDiffer
      <4>2. ~(new.step \in InTransaction /\ new.text = upload[w].text)
        BY <1>2, <2>2, <2>3, <3>2
      <4> QED BY <1>2, <1>3, <4>1, <4>2
    <3> QED BY <3>1, <3>2
  <2> QED BY <2>1, <2>3 DEF TextsDiffer
<1>9. RowsAreWhole'
  BY <1>3 DEF RowsAreWhole
<1> QED BY <1>4, <1>5, <1>6, <1>7, <1>8, <1>9

LEMMA WorkOf ==
  ASSUME IInv, NEW u \in Uploads
  PROVE  /\ upload \in [Uploads -> Works] /\ upload[u] \in Works
         /\ upload[u].embeddings \in Seq(Embeddings) /\ Len(upload[u].embeddings) \in Nat
         /\ upload[u].text \in Texts \cup {NoText}
<1>1. upload \in [Uploads -> Works]
  BY DEF IInv, TypeOK, Works, StepNames
<1>2. upload[u].embeddings \in Seq(Embeddings) /\ upload[u].text \in Texts \cup {NoText}
  BY <1>1 DEF Works
<1> QED BY <1>1, <1>2, LenProperties

LEMMA LookUpKeeps ==
  ASSUME IInv, NEW u \in Uploads, LookUp(u)
  PROVE  IInv'
<1>1. PICK text \in Texts : upload' = [upload EXCEPT
        ![u].text = text,
        ![u].step = IF StoredAs(text) # {} THEN "existing" ELSE "inserting"]
  BY DEF LookUp
<1> DEFINE next == IF StoredAs(text) # {} THEN "existing" ELSE "inserting"
           new == [upload[u] EXCEPT !.text = text, !.step = next]
<1>2. upload' = [upload EXCEPT ![u] = new]
  BY <1>1
<1>3. next \in {"existing", "inserting"}
  OBVIOUS
<1> HIDE DEF next
<1>4. /\ new \in Works /\ new.text = text /\ new.step = next
      /\ new.embeddings = upload[u].embeddings
  BY <1>3, WorkOf DEF Works, StepNames, Answered
<1>5. upload[u].step = "new" /\ upload[u].embeddings = <<>>
  BY DEF LookUp, IInv, StoreTold, WorkInProgress
<1> HIDE DEF new
<1> QED BY <1>2, <1>3, <1>4, <1>5, UploadMoves DEF LookUp, InTransaction

LEMMA InsertKeeps ==
  ASSUME IInv, NEW u \in Uploads, Insert(u)
  PROVE  IInv'
<1> DEFINE text == upload[u].text
           next == InsertResult(text)
           new == [upload[u] EXCEPT !.step = next]
<1>1. upload' = [upload EXCEPT ![u] = new]
  BY DEF Insert
<1>2. /\ next = "error" \/ (next = "embedding" /\ StoredAs(text) = {})
      /\ Holding(text) = {} /\ upload[u].step = "inserting"
  BY DEF Insert, InsertResult
<1>3. text \in Texts /\ upload[u].embeddings = <<>>
  BY <1>2 DEF IInv, StoreTold, WorkInProgress
<1> HIDE DEF next
<1>4. /\ new \in Works /\ new.text = text /\ new.step = next /\ new.embeddings = <<>>
  BY <1>2, <1>3, WorkOf DEF Works, StepNames, Answered, InTransaction
<1>5. Len(new.embeddings) <= Len(ChunksOf[new.text])
  <2>1. Len(<<>>) = 0 /\ Len(ChunksOf[text]) \in Nat
    BY <1>3, TextsFit
  <2> HIDE DEF new, text
  <2> QED BY <1>4, <2>1
<1> HIDE DEF new, text
<1>6. new.step \in {"error", "embedding"} /\ upload[u].step # "created"
  BY <1>2, <1>4
<1>7. new.step \in InTransaction => StoredAs(new.text) = {} /\ Holding(new.text) = {}
  BY <1>2, <1>4 DEF InTransaction
<1> QED BY <1>1, <1>3, <1>4, <1>5, <1>6, <1>7, UploadMoves DEF Insert


LEMMA BatchBounds ==
  ASSUME IInv, NEW u \in Uploads, upload[u].step = "embedding"
  PROVE  LET done == Len(upload[u].embeddings)
             all == Len(Made(u))
         IN /\ upload[u].text \in Texts /\ all \in Nat /\ done \in Nat /\ done <= all
            /\ NextBatch(u) = {} => done = all
            /\ NextBatch(u) # {} => /\ Cardinality(NextBatch(u)) \in Nat
                                    /\ done + Cardinality(NextBatch(u)) <= all
<1> DEFINE done == Len(upload[u].embeddings)
           all == Len(Made(u))
           last == IF done + BatchSize < all THEN done + BatchSize ELSE all
<1>1. upload[u].text \in Texts /\ done <= all /\ done \in Nat
  BY WorkOf DEF IInv, StoreTold, WorkInProgress, InTransaction
<1>2. all \in Nat
  BY <1>1, TextsFit DEF Made
<1>3. NextBatch(u) = (done + 1)..last
  BY DEF NextBatch
<1> HIDE DEF done, all
<1>4. BatchSize \in Nat \ {0} /\ last \in Nat /\ last <= all
  BY <1>1, <1>2, KnowledgeBaseAssumption
<1>5. NextBatch(u) = {} => done = all
  <2> SUFFICES ASSUME NextBatch(u) = {}, done < all PROVE FALSE
    BY <1>1, <1>2
  <2>1. done + 1 <= last
    BY <1>1, <1>2, <1>4
  <2> HIDE DEF last
  <2>2. done + 1 \in (done + 1)..last
    BY <1>1, <1>4, <2>1
  <2> QED BY <1>3, <2>2
<1> HIDE DEF last
<1>6. ASSUME NextBatch(u) # {}
      PROVE  Cardinality(NextBatch(u)) \in Nat /\ done + Cardinality(NextBatch(u)) <= all
  <2>1. done + 1 <= last
    BY <1>1, <1>3, <1>4, <1>6
  <2>2. Cardinality((done + 1)..last) = last - (done + 1) + 1
    BY <1>1, <1>4, <2>1, FS_Interval
  <2> QED BY <1>1, <1>2, <1>3, <1>4, <2>1, <2>2
<1> QED BY <1>1, <1>2, <1>5, <1>6 DEF done, all

LEMMA EmbedBatchKeeps ==
  ASSUME IInv, NEW u \in Uploads, EmbedBatch(u)
  PROVE  IInv'
<1>1. PICK made \in BatchEmbeddings(NextBatch(u)) :
        upload' = [upload EXCEPT ![u].embeddings = @ \o made]
  BY DEF EmbedBatch
<1> DEFINE n == Cardinality(NextBatch(u))
           grown == upload[u].embeddings \o made
           new == [upload[u] EXCEPT !.embeddings = grown]
<1>2. upload[u].step = "embedding" /\ NextBatch(u) # {}
  BY DEF EmbedBatch
<1>3. /\ upload[u].text \in Texts /\ Len(Made(u)) \in Nat /\ n \in Nat
      /\ Len(upload[u].embeddings) + n <= Len(Made(u))
  BY <1>2, BatchBounds
<1>4. upload' = [upload EXCEPT ![u] = new]
  BY <1>1
<1>5. made \in Seq(Embeddings) /\ Len(made) = n
  <2>1. \/ made = [i \in 1..n |-> "dummy"]
        \/ \E given \in 0..n :
             made = [i \in 1..n |-> IF i <= given THEN "model" ELSE "none"]
    BY <1>1 DEF BatchEmbeddings
  <2> HIDE DEF n
  <2>2. made \in [1..n -> Embeddings]
    BY <2>1 DEF Embeddings
  <2> QED BY <1>3, <2>2, LenProperties
<1> HIDE DEF n
<1>6. grown \in Seq(Embeddings) /\ Len(grown) = Len(upload[u].embeddings) + n
  BY <1>5, WorkOf, ConcatProperties
<1> HIDE DEF grown
<1>7. /\ new \in Works /\ new.text = upload[u].text /\ new.step = "embedding"
      /\ new.embeddings = grown
  BY <1>2, <1>6, WorkOf DEF Works
<1>8. Len(new.embeddings) <= Len(ChunksOf[new.text])
  BY <1>3, <1>6, <1>7 DEF Made
<1> HIDE DEF new
<1> QED BY <1>2, <1>3, <1>4, <1>7, <1>8, UploadMoves DEF EmbedBatch, InTransaction

LEMMA WriteChunksKeeps ==
  ASSUME IInv, NEW u \in Uploads, WriteChunks(u)
  PROVE  IInv'
<1> DEFINE new == [upload[u] EXCEPT !.step = "writing"]
<1>1. upload' = [upload EXCEPT ![u] = new]
  BY DEF WriteChunks
<1>2. upload[u].step = "embedding" /\ NextBatch(u) = {}
  BY DEF WriteChunks
<1>3. upload[u].text \in Texts /\ Len(upload[u].embeddings) = Len(Made(u))
  BY <1>2, BatchBounds
<1>4. /\ new \in Works /\ new.text = upload[u].text /\ new.step = "writing"
      /\ new.embeddings = upload[u].embeddings
  BY WorkOf DEF Works, StepNames, InTransaction
<1> HIDE DEF new
<1> QED BY <1>1, <1>2, <1>3, <1>4, UploadMoves DEF WriteChunks, InTransaction, Made

LEMMA DatabaseFailsKeeps ==
  ASSUME IInv, NEW u \in Uploads, DatabaseFails(u)
  PROVE  IInv'
<1> DEFINE new == [upload[u] EXCEPT !.step = "error"]
<1>1. upload' = [upload EXCEPT ![u] = new] /\ upload[u].step # "created"
  BY DEF DatabaseFails, InTransaction
<1>2. new \in Works /\ new.step = "error"
  BY WorkOf DEF Works, StepNames, Answered
<1> HIDE DEF new
<1> QED BY <1>1, <1>2, UploadMoves DEF DatabaseFails, InTransaction

LEMMA RowsOfFit ==
  ASSUME IInv, NEW u \in Uploads
  PROVE  /\ RowsOf(u) \subseteq ChunkRows /\ IsFiniteSet(RowsOf(u))
         /\ \A row \in RowsOf(u) : row.document = u
         /\ {row.index : row \in RowsOf(u)} = 1..Len(upload[u].embeddings)
<1> DEFINE e == upload[u].embeddings
           f == [i \in 1..Len(e) |-> [document |-> u, index |-> i, embedding |-> e[i]]]
<1>1. /\ Len(e) \in Nat /\ DOMAIN e = 1..Len(e)
      /\ \A i \in 1..Len(e) : i \in Nat /\ e[i] \in Embeddings
  BY WorkOf, LenProperties, ElementOfSeq
<1>2. RowsOf(u) = {f[i] : i \in 1..Len(e)}
  BY <1>1 DEF RowsOf
<1>3. \A i \in 1..Len(e) : /\ f[i].document = u /\ f[i].index = i
                           /\ f[i] \in ChunkRows
  BY <1>1 DEF ChunkRows
<1>4. DOMAIN f = 1..Len(e)
  OBVIOUS
<1> HIDE DEF e, f
<1>5. IsFiniteSet(RowsOf(u))
  BY <1>1, <1>2, <1>4, FewEntries
<1> QED BY <1>1, <1>2, <1>3, <1>5 DEF e

LEMMA CommitKeeps ==
  ASSUME IInv, NEW u \in Uploads, Commit(u)
  PROVE  IInv'
<1> USE DEF IInv, StoreTold
<1> DEFINE text == upload[u].text
           new == [upload[u] EXCEPT !.step = "created"]
<1>1. /\ upload[u].step = "writing" /\ upload' = [upload EXCEPT ![u] = new]
      /\ documents' = [documents EXCEPT ![u] = text]
      /\ chunks' = chunks \cup RowsOf(u) /\ UNCHANGED <<deleting, search>>
  BY DEF Commit
<1>2. /\ upload \in [Uploads -> Works] /\ documents \in [Uploads -> Texts \cup {NoText}]
      /\ chunks \subseteq ChunkRows /\ deleting \subseteq Uploads
  BY DEF TypeOK, Works, StepNames
<1>3. text \in Texts /\ text # NoText /\ Len(upload[u].embeddings) = Len(ChunksOf[text])
  BY <1>1, TextsFit DEF WorkInProgress, Made, InTransaction
<1>4. new \in Works /\ new.step = "created"
  BY WorkOf DEF Works, StepNames, Answered
<1> HIDE DEF new
<1>5. /\ upload' \in [Uploads -> Works] /\ upload'[u].step = "created"
      /\ \A v \in Uploads \ {u} : upload'[v] = upload[v]
  BY <1>1, <1>2, <1>4
<1>6. /\ documents' \in [Uploads -> Texts \cup {NoText}] /\ documents'[u] = text
      /\ \A d \in Uploads \ {u} : documents'[d] = documents[d]
  BY <1>1, <1>2, <1>3
<1> HIDE DEF text
<1>7. u \notin Stored /\ Stored' = Stored \cup {u}
  BY <1>1, <1>3, <1>6 DEF CreatedIfStored, Stored
<1>8. SearchTold'
  BY <1>1, SearchKept
<1>9. TypeOK'
  <2>1. chunks' \subseteq ChunkRows /\ deleting' \subseteq Uploads
    BY <1>1, <1>2, RowsOfFit
  <2> QED BY <1>5, <1>6, <1>8, <2>1, TypedNext
<1>10. IsFiniteSet(chunks')
  BY <1>1, RowsOfFit, FS_Union
<1>11. WorkInProgress'
  <2> SUFFICES ASSUME NEW v \in Uploads
      PROVE  /\ upload'[v].step \in {"inserting"} \cup InTransaction => upload'[v].text \in Texts
             /\ upload'[v].step \in {"new", "inserting"} => upload'[v].embeddings = <<>>
             /\ upload'[v].step = "embedding" =>
                  Len(upload'[v].embeddings) <= Len(ChunksOf[upload'[v].text])
             /\ upload'[v].step = "writing" =>
                  Len(upload'[v].embeddings) = Len(ChunksOf[upload'[v].text])
    BY DEF WorkInProgress, Made
  <2>1. CASE v = u
    BY <1>5, <2>1 DEF InTransaction
  <2>2. CASE v # u
    BY <1>5, <2>2 DEF WorkInProgress, Made
  <2> QED BY <2>1, <2>2
<1>12. CreatedIfStored'
  <2> SUFFICES ASSUME NEW d \in Stored' PROVE upload'[d].step = "created"
    BY DEF CreatedIfStored
  <2> QED BY <1>5, <1>7 DEF CreatedIfStored, Stored
<1>13. TextsDiffer'
  <2>1. /\ \A d \in Stored : documents[d] # text
        /\ \A v \in Uploads :
             upload[v].step \in InTransaction /\ upload[v].text = text => v = u
    BY <1>1 DEF TextsDiffer, InTransaction, text
  <2>2. ASSUME NEW d \in Stored', NEW e \in Stored', documents'[d] = documents'[e]
        PROVE  d = e
    <3>1. CASE d \in Stored /\ e \in Stored
      BY <1>6, <1>7, <2>2, <3>1 DEF TextsDiffer, Stored
    <3>2. CASE d = u \/ e = u
      BY <1>6, <1>7, <2>1, <2>2, <3>2 DEF Stored
    <3> QED BY <1>7, <3>1, <3>2
  <2>3. ASSUME NEW w \in Uploads, upload'[w].step \in InTransaction
        PROVE  /\ \A d \in Stored' : documents'[d] # upload'[w].text
               /\ \A v \in Uploads :
                    upload'[v].step \in InTransaction /\ upload'[v].text = upload'[w].text
                      => v = w
    <3>1. w # u /\ upload'[w] = upload[w]
      BY <1>5, <2>3 DEF InTransaction
    <3>2. /\ \A d \in Stored : documents[d] # upload[w].text
          /\ \A v \in Uploads :
               upload[v].step \in InTransaction /\ upload[v].text = upload[w].text => v = w
          /\ upload[w].text # text
      BY <2>1, <2>3, <3>1 DEF TextsDiffer
    <3>3. \A d \in Stored' : documents'[d] # upload'[w].text
      BY <1>6, <1>7, <3>1, <3>2 DEF Stored
    <3>4. \A v \in Uploads : upload'[v].step \in InTransaction => v # u /\ upload'[v] = upload[v]
      BY <1>5 DEF InTransaction
    <3> QED BY <3>1, <3>2, <3>3, <3>4
  <2> QED BY <2>2, <2>3 DEF TextsDiffer
<1>14. RowsAreWhole'
  <2>1. \A row \in chunks' : row.document \in Stored'
    BY <1>1, <1>7, RowsOfFit DEF RowsAreWhole
  <2>2. ASSUME NEW d \in Stored'
        PROVE  {row.index : row \in {r \in chunks' : r.document = d}}
                 = DOMAIN ChunksOf[documents'[d]]
    <3>1. CASE d = u
      <4>1. {r \in chunks' : r.document = d} = RowsOf(u)
        BY <1>1, <1>7, <3>1, RowsOfFit DEF RowsAreWhole
      <4>2. DOMAIN ChunksOf[documents'[d]] = 1..Len(upload[u].embeddings)
        BY <1>3, <1>6, <3>1, TextsFit
      <4> QED BY <4>1, <4>2, RowsOfFit
    <3>2. CASE d # u
      <4>1. {r \in chunks' : r.document = d} = {r \in chunks : r.document = d}
        BY <1>1, <3>2, RowsOfFit
      <4>2. d \in Stored /\ documents'[d] = documents[d]
        BY <1>6, <1>7, <3>2 DEF Stored
      <4> QED BY <4>1, <4>2 DEF RowsAreWhole
    <3> QED BY <3>1, <3>2
  <2> QED BY <2>1, <2>2 DEF RowsAreWhole
<1> QED BY <1>8, <1>9, <1>10, <1>11, <1>12, <1>13, <1>14


-----------------------------------------------------------------------------
(* Deletion, and the death of the process.                                 *)

LEMMA DeleteReadsKeeps ==
  ASSUME IInv, NEW d \in Uploads, DeleteReads(d)
  PROVE  IInv'
<1> USE DEF IInv, StoreTold
<1>1. UNCHANGED <<upload, documents, chunks, search>> /\ deleting' \subseteq Uploads
  BY DEF DeleteReads, TypeOK
<1>2. SearchTold' /\ Stored' = Stored
  BY <1>1, SearchKept DEF Stored
<1>3. TypeOK'
  BY <1>1 DEF TypeOK
<1>4. WorkInProgress'
  BY <1>1 DEF WorkInProgress, Made
<1>5. CreatedIfStored' /\ TextsDiffer' /\ RowsAreWhole'
  BY <1>1, <1>2 DEF CreatedIfStored, TextsDiffer, RowsAreWhole
<1> QED BY <1>1, <1>2, <1>3, <1>4, <1>5

LEMMA DeleteCommitsKeeps ==
  ASSUME IInv, NEW d \in Uploads, DeleteCommits(d)
  PROVE  IInv'
<1> USE DEF IInv, StoreTold
<1>1. /\ UNCHANGED <<upload, search>> /\ deleting' \subseteq Uploads
      /\ documents' = [documents EXCEPT ![d] = NoText]
      /\ chunks' = {row \in chunks : row.document # d}
  BY DEF DeleteCommits, TypeOK, Cascade
<1>2. /\ upload \in [Uploads -> Works] /\ documents \in [Uploads -> Texts \cup {NoText}]
      /\ chunks \subseteq ChunkRows
  BY DEF TypeOK, Works, StepNames
<1>3. /\ documents' \in [Uploads -> Texts \cup {NoText}] /\ documents'[d] = NoText
      /\ \A e \in Uploads \ {d} : documents'[e] = documents[e]
  BY <1>1, <1>2
<1>4. Stored' = Stored \ {d}
  BY <1>3 DEF Stored
<1>5. SearchTold'
  BY <1>1, SearchKept
<1>6. TypeOK'
  <2>1. upload' \in [Uploads -> Works] /\ chunks' \subseteq ChunkRows
    BY <1>1, <1>2
  <2> QED BY <1>1, <1>3, <1>5, <2>1, TypedNext
<1>7. IsFiniteSet(chunks')
  BY <1>1, FS_Subset
<1>8. WorkInProgress'
  BY <1>1 DEF WorkInProgress, Made
<1>9. CreatedIfStored' /\ TextsDiffer'
  BY <1>1, <1>3, <1>4 DEF CreatedIfStored, TextsDiffer, Stored
<1>10. RowsAreWhole'
  <2>1. \A row \in chunks' : row.document \in Stored'
    BY <1>1, <1>4 DEF RowsAreWhole
  <2>2. ASSUME NEW e \in Stored'
        PROVE  {row.index : row \in {r \in chunks' : r.document = e}}
                 = DOMAIN ChunksOf[documents'[e]]
    <3>1. e \in Stored /\ e # d /\ documents'[e] = documents[e]
      BY <1>3, <1>4 DEF Stored
    <3>2. {r \in chunks' : r.document = e} = {r \in chunks : r.document = e}
      BY <1>1, <3>1
    <3> QED BY <3>1, <3>2 DEF RowsAreWhole
  <2> QED BY <2>1, <2>2 DEF RowsAreWhole
<1> QED BY <1>5, <1>6, <1>7, <1>8, <1>9, <1>10

LEMMA CrashKeeps ==
  ASSUME IInv, Crash
  PROVE  IInv'
<1> USE DEF IInv, StoreTold
<1>1. /\ UNCHANGED <<documents, chunks>> /\ deleting' = {} /\ search' = NoSearch
      /\ upload' = [u \in Uploads |->
           IF upload[u].step \in {"inserting"} \cup InTransaction
           THEN [upload[u] EXCEPT !.step = "lost"] ELSE upload[u]]
  BY DEF Crash
<1>2. /\ upload \in [Uploads -> Works] /\ documents \in [Uploads -> Texts \cup {NoText}]
      /\ chunks \subseteq ChunkRows
  BY DEF TypeOK, Works, StepNames
<1>3. ASSUME NEW u \in Uploads
      PROVE  /\ upload'[u] \in Works /\ upload'[u].step \notin {"inserting"} \cup InTransaction
             /\ upload'[u].step # "lost" => upload'[u] = upload[u]
             /\ upload[u].step = "created" => upload'[u] = upload[u]
  <2> DEFINE gone == [upload[u] EXCEPT !.step = "lost"]
  <2>1. gone \in Works /\ gone.step = "lost"
    BY WorkOf DEF Works, StepNames, Answered
  <2> HIDE DEF gone
  <2>2. upload'[u] = IF upload[u].step \in {"inserting"} \cup InTransaction
                     THEN gone ELSE upload[u]
    BY <1>1 DEF gone
  <2> QED BY <1>2, <2>1, <2>2 DEF InTransaction
<1>4. upload' \in [Uploads -> Works]
  BY <1>1, <1>3
<1>5. SearchTold' /\ Stored' = Stored
  BY <1>1, NoSearchTells DEF Stored
<1>6. TypeOK'
  <2>1. /\ documents' \in [Uploads -> Texts \cup {NoText}] /\ chunks' \subseteq ChunkRows
        /\ deleting' \subseteq Uploads
    BY <1>1, <1>2
  <2> QED BY <1>4, <1>5, <2>1, TypedNext
<1>7. WorkInProgress'
  <2> SUFFICES ASSUME NEW v \in Uploads
      PROVE  /\ upload'[v].step \notin {"inserting"} \cup InTransaction
             /\ upload'[v].step = "new" => upload'[v].embeddings = <<>>
    BY DEF WorkInProgress, Made, InTransaction
  <2> QED BY <1>3 DEF WorkInProgress
<1>8. CreatedIfStored'
  <2> SUFFICES ASSUME NEW d \in Stored PROVE upload'[d].step = "created"
    BY <1>5 DEF CreatedIfStored
  <2> QED BY <1>3 DEF CreatedIfStored, Stored
<1>9. TextsDiffer'
  <2>1. \A u \in Uploads : upload'[u].step \notin InTransaction
    BY <1>3
  <2> QED BY <1>1, <1>5, <2>1 DEF TextsDiffer
<1>10. RowsAreWhole'
  BY <1>1, <1>5 DEF RowsAreWhole
<1> QED BY <1>1, <1>5, <1>6, <1>7, <1>8, <1>9, <1>10

LEMMA SearchStepKeeps ==
  ASSUME IInv, FullTextSearch \/ VectorSearch \/ SearchAgain
  PROVE  IInv'
<1> USE DEF IInv, StoreTold
<1>1. UNCHANGED <<upload, documents, chunks, deleting>>
  BY DEF FullTextSearch, VectorSearch, SearchAgain
<1>2. SearchTold'
  <2>1. CASE FullTextSearch
    BY <2>1, FullTextSearchTells
  <2>2. CASE VectorSearch
    BY <2>2, VectorSearchTells
  <2>3. CASE SearchAgain
    BY <2>3, NoSearchTells DEF SearchAgain
  <2> QED BY <2>1, <2>2, <2>3
<1>3. TypeOK'
  <2>1. /\ upload \in [Uploads -> Works] /\ documents \in [Uploads -> Texts \cup {NoText}]
        /\ chunks \subseteq ChunkRows /\ deleting \subseteq Uploads
    BY DEF TypeOK, Works, StepNames
  <2> QED BY <1>1, <1>2, <2>1, TypedNext
<1>4. Stored' = Stored
  BY <1>1 DEF Stored
<1>5. WorkInProgress'
  BY <1>1 DEF WorkInProgress, Made
<1>6. CreatedIfStored' /\ TextsDiffer' /\ RowsAreWhole'
  BY <1>1, <1>4 DEF CreatedIfStored, TextsDiffer, RowsAreWhole
<1> QED BY <1>1, <1>2, <1>3, <1>5, <1>6

LEMMA StutterKeeps ==
  ASSUME IInv, UNCHANGED vars
  PROVE  IInv'
<1> USE DEF IInv, StoreTold, vars
<1>1. SearchTold' /\ Stored' = Stored
  BY SearchKept DEF Stored
<1>2. TypeOK'
  BY DEF TypeOK
<1>3. WorkInProgress'
  BY DEF WorkInProgress, Made
<1>4. CreatedIfStored' /\ TextsDiffer' /\ RowsAreWhole'
  BY <1>1 DEF CreatedIfStored, TextsDiffer, RowsAreWhole
<1> QED BY <1>1, <1>2, <1>3, <1>4

LEMMA Inductive == IInv /\ [Next]_vars => IInv'
<1> SUFFICES ASSUME IInv, [Next]_vars PROVE IInv'
  OBVIOUS
<1>1. ASSUME NEW u \in Uploads, UploadStep(u) PROVE IInv'
  BY <1>1, LookUpKeeps, InsertKeeps, EmbedBatchKeeps, WriteChunksKeeps, CommitKeeps
     DEF UploadStep
<1>2. ASSUME NEW u \in Uploads, DatabaseFails(u) PROVE IInv'
  BY <1>2, DatabaseFailsKeeps
<1>3. ASSUME NEW d \in Uploads, DeleteReads(d) \/ DeleteCommits(d) PROVE IInv'
  BY <1>3, DeleteReadsKeeps, DeleteCommitsKeeps
<1>4. CASE FullTextSearch \/ VectorSearch \/ SearchAgain
  BY <1>4, SearchStepKeeps
<1>5. CASE Crash
  BY <1>5, CrashKeeps
<1>6. CASE UNCHANGED vars
  BY <1>6, StutterKeeps
<1> QED BY <1>1, <1>2, <1>3, <1>4, <1>5, <1>6 DEF Next

\* The invariant of every behaviour, on which the theorems rest.
LEMMA Invariant == Spec => []IInv
<1> QED BY Initial, Inductive, PTL DEF Spec

\* The variables keep their types, whatever fails: an answer is never longer
\* than the limit of the search that gave it.
THEOREM TypeCorrect == Spec => []TypeOK
<1>1. IInv => TypeOK
  BY DEF IInv
<1> QED BY <1>1, Invariant, PTL

\* ingest_document stores no text twice, however many requests looked its
\* checksum up before the first of them committed.
THEOREM UniqueDocuments == Spec => []OneDocumentPerText
<1>1. IInv => OneDocumentPerText
  <2> SUFFICES ASSUME IInv, NEW text \in Texts PROVE Cardinality(StoredAs(text)) <= 1
    BY DEF OneDocumentPerText
  <2>1. \A d, e \in StoredAs(text) : d = e
    BY DEF IInv, StoreTold, TextsDiffer, StoredAs
  <2>2. CASE StoredAs(text) = {}
    BY <2>2, FS_EmptySet
  <2>3. CASE StoredAs(text) # {}
    <3>1. PICK d : StoredAs(text) = {d}
      BY <2>1, <2>3
    <3>2. Cardinality({d}) = 1
      BY FS_Singleton
    <3> QED BY <3>1, <3>2
  <2> QED BY <2>2, <2>3
<1> QED BY <1>1, Invariant, PTL

\* Whatever batch failed, whoever died or deleted: a stored document has all
\* the chunks that chunk_document made of its text, nothing else has chunks,
\* and the chunks hold every paragraph of the text, whole and in order.
THEOREM WholeDocuments == Spec => []DocumentsAreWhole
<1>1. IInv => DocumentsAreWhole
  <2> SUFFICES ASSUME IInv PROVE DocumentsAreWhole
    OBVIOUS
  <2>1. ASSUME NEW d \in Stored PROVE documents[d] \in CoveredTexts
    <3>1. documents[d] \in Texts
      BY DEF IInv, TypeOK, Stored
    <3> QED BY <3>1, TextsFit DEF CoveredTexts
  <2> QED BY <2>1 DEF DocumentsAreWhole, IInv, StoreTold, RowsAreWhole
<1> QED BY <1>1, Invariant, PTL

\* hybrid_search puts a chunk that one of its queries ranks higher than a
\* second, and the other no lower, before it, whatever they read, also when the
\* vector search failed, and at whatever limits.
THEOREM RankingsRespected == Spec => []SearchRespectsBothRankings
<1>1. IInv => SearchRespectsBothRankings
  <2> DEFINE ft == search.fullText
             vec == search.vector
             ranked == IF vec = <<>> THEN ft ELSE Fused(ft, vec)
  <2> SUFFICES ASSUME IInv, search.step = "done",
                      NEW b \in ToSet(search.results),
                      NEW a \in (ToSet(ft) \cup ToSet(vec)) \ {b},
                      NoLower(a, b, ft), NoLower(a, b, vec)
               PROVE  /\ a \in ToSet(search.results)
                      /\ Position(a, search.results) < Position(b, search.results)
    BY DEF SearchRespectsBothRankings
  <2>1. IsRanking(ft) /\ IsRanking(vec) /\ search.results = FirstOf(ranked)
    BY DEF IInv, SearchTold
  <2>2. IsRanking(ranked)
    BY <2>1, FusedRanks
  <2>3. b \in ToSet(ranked)
    BY <2>1, <2>2, FirstOfRanks
  <2>4. a \in ToSet(ranked) /\ Position(a, ranked) < Position(b, ranked)
    <3>1. CASE vec = <<>>
      <4>1. a \in ToSet(ft) /\ Position(a, ft) <= Position(b, ft) /\ b \in ToSet(ft)
        BY <2>3, <3>1 DEF NoLower
      <4>2. Position(a, ft) \in Nat /\ Position(b, ft) \in Nat
              /\ Position(a, ft) # Position(b, ft)
        BY <2>1, <4>1, PositionIs
      <4> QED BY <3>1, <4>1, <4>2
    <3>2. CASE vec # <<>>
      BY <2>1, <2>3, <3>2, FusedRespects
    <3> QED BY <3>1, <3>2
  <2> HIDE DEF ranked
  <2>5. a \in ToSet(FirstOf(ranked))
    BY <2>1, <2>2, <2>3, <2>4, FirstOfRanks
  <2>6. /\ Position(a, FirstOf(ranked)) = Position(a, ranked)
        /\ Position(b, FirstOf(ranked)) = Position(b, ranked)
    BY <2>1, <2>2, <2>5, FirstOfRanks
  <2> QED BY <2>1, <2>4, <2>5, <2>6
<1> QED BY <1>1, Invariant, PTL


-----------------------------------------------------------------------------
(* The refinement.                                                         *)

\* What Index says under the invariant.
IndexTold ==
  \A d \in Uploads :
    Index[d] = IF d \in Stored THEN DOMAIN ChunksOf[documents[d]] ELSE {}

LEMMA IndexIs == IInv => IndexTold
<1> SUFFICES ASSUME IInv PROVE IndexTold
  OBVIOUS
<1>1. ASSUME NEW d \in Uploads, d \notin Stored PROVE Index[d] = {}
  BY <1>1 DEF Index, IInv, StoreTold, RowsAreWhole
<1>2. ASSUME NEW d \in Uploads, d \in Stored
      PROVE  Index[d] = DOMAIN ChunksOf[documents[d]]
  BY <1>2 DEF Index, IInv, StoreTold, RowsAreWhole
<1> QED BY <1>1, <1>2 DEF IndexTold

LEMMA IndexIsNext == IInv' => IndexTold'
BY IndexIs, PTL

LEMMA RefineInit == Init => Store!StoreInit
<1> SUFFICES ASSUME Init PROVE Store!StoreInit
  OBVIOUS
<1>1. Index = [d \in Uploads |-> {}] /\ Gone = {}
  BY DEF Init, Index, Gone
<1> QED BY <1>1 DEF Init, Store!StoreInit

LEMMA RefineNext ==
  ASSUME IInv, IInv', [Next]_vars
  PROVE  [Store!StoreNext]_(Store!storeVars)
<1> DEFINE Step == [Store!StoreNext]_(Store!storeVars)
<1>1. /\ Index = [d \in Uploads |-> Index[d]] /\ Index' = [d \in Uploads |-> Index'[d]]
      /\ documents \in [Uploads -> Texts \cup {NoText}]
      /\ documents' \in [Uploads -> Texts \cup {NoText}]
      /\ upload \in [Uploads -> Works] /\ upload' \in [Uploads -> Works]
  BY DEF Index, IInv, TypeOK, Works, StepNames
<1>2. /\ \A d \in Uploads :
           Index[d] = IF d \in Stored THEN DOMAIN ChunksOf[documents[d]] ELSE {}
      /\ \A d \in Uploads :
           Index'[d] = IF d \in Stored' THEN DOMAIN ChunksOf[documents'[d]] ELSE {}
  BY IndexIs, IndexIsNext DEF IndexTold
<1> HIDE DEF Index
<1>3. ASSUME documents' = documents,
             \A u \in Uploads : upload'[u].step = "created" <=> upload[u].step = "created"
      PROVE  Step
  <2>1. Gone' = Gone /\ Stored' = Stored
    BY <1>3 DEF Gone, Stored
  <2>2. \A d \in Uploads : Index'[d] = Index[d]
    BY <1>2, <1>3, <2>1
  <2>3. Index' = Index
    BY <1>1, <2>2
  <2> QED BY <1>3, <2>1, <2>3 DEF Store!storeVars
<1>4. ASSUME NEW u \in Uploads, Commit(u) PROVE Step
  <2> DEFINE text == upload[u].text
  <2>1. /\ upload[u].step = "writing" /\ documents' = [documents EXCEPT ![u] = text]
        /\ upload' = [upload EXCEPT ![u].step = "created"]
    BY <1>4 DEF Commit
  <2>2. text \in Texts /\ text # NoText
    BY <2>1, TextsFit DEF IInv, StoreTold, WorkInProgress, InTransaction
  <2>3. u \notin Stored /\ documents[u] = NoText
    BY <2>1 DEF IInv, StoreTold, CreatedIfStored, Stored
  <2>4. \A d \in Uploads : documents[d] # text
    <3>1. \A d \in Stored : documents[d] # text
      BY <2>1 DEF IInv, StoreTold, TextsDiffer, InTransaction
    <3> QED BY <2>2, <3>1 DEF Stored
  <2> HIDE DEF text
  <2>5. /\ documents'[u] = text /\ \A d \in Uploads \ {u} : documents'[d] = documents[d]
        /\ upload'[u].step = "created" /\ \A d \in Uploads \ {u} : upload'[d] = upload[d]
    BY <1>1, <2>1 DEF Works
  <2>6. Stored' = Stored \cup {u}
    BY <2>2, <2>5 DEF Stored
  <2>7. u \notin Gone /\ Gone' = Gone
    BY <2>1, <2>2, <2>5 DEF Gone
  <2>8. Index' = [Index EXCEPT ![u] = DOMAIN ChunksOf[text]]
    <3>1. Index'[u] = DOMAIN ChunksOf[text]
      BY <1>2, <2>5, <2>6
    <3>2. \A d \in Uploads \ {u} : Index'[d] = Index[d]
      BY <1>2, <2>5, <2>6
    <3> QED BY <1>1, <3>1, <3>2
  <2>9. Store!Add(u, text)
    BY <2>1, <2>3, <2>4, <2>7, <2>8 DEF Store!Add
  <2> QED BY <2>2, <2>9 DEF Store!StoreNext
<1>5. ASSUME NEW d \in Uploads, DeleteCommits(d) PROVE Step
  <2>1. documents' = [documents EXCEPT ![d] = NoText] /\ upload' = upload
    BY <1>5 DEF DeleteCommits
  <2>2. CASE d \notin Stored
    <3>1. documents' = documents
      BY <1>1, <2>1, <2>2 DEF Stored
    <3> QED BY <1>3, <2>1, <3>1
  <2>3. CASE d \in Stored
    <3>1. documents'[d] = NoText /\ \A e \in Uploads \ {d} : documents'[e] = documents[e]
      BY <1>1, <2>1
    <3>2. Stored' = Stored \ {d}
      BY <3>1 DEF Stored
    <3>3. Gone' = Gone \cup {d}
      BY <2>1, <2>3, <3>1 DEF Gone, IInv, StoreTold, CreatedIfStored
    <3>4. Index' = [Index EXCEPT ![d] = {}]
      <4>1. Index'[d] = {} /\ \A e \in Uploads \ {d} : Index'[e] = Index[e]
        BY <1>2, <3>1, <3>2
      <4> QED BY <1>1, <4>1
    <3>5. Store!Remove(d)
      BY <2>1, <2>3, <3>3, <3>4 DEF Store!Remove, Stored
    <3> QED BY <3>5 DEF Store!StoreNext
  <2> QED BY <2>2, <2>3
<1>6. ASSUME NEW u \in Uploads,
             LookUp(u) \/ Insert(u) \/ EmbedBatch(u) \/ WriteChunks(u) \/ DatabaseFails(u)
      PROVE  Step
  <2>1. documents' = documents
    BY <1>6 DEF LookUp, Insert, EmbedBatch, WriteChunks, DatabaseFails
  <2>2. /\ upload[u].step # "created" /\ upload'[u].step # "created"
        /\ \A v \in Uploads \ {u} : upload'[v] = upload[v]
    BY <1>1, <1>6 DEF LookUp, Insert, InsertResult, EmbedBatch, WriteChunks,
                      DatabaseFails, Works, InTransaction
  <2> QED BY <1>3, <2>1, <2>2
<1>7. CASE Crash
  <2>1. documents' = documents
    BY <1>7 DEF Crash
  <2>2. \A u \in Uploads : upload'[u].step = "created" <=> upload[u].step = "created"
    BY <1>1, <1>7 DEF Crash, Works, InTransaction
  <2> QED BY <1>3, <2>1, <2>2
<1>8. ASSUME UNCHANGED <<upload, documents>> PROVE Step
  BY <1>3, <1>8
<1>9. ASSUME NEW d \in Uploads, DeleteReads(d) PROVE Step
  BY <1>8, <1>9 DEF DeleteReads
<1>10. CASE FullTextSearch \/ VectorSearch \/ SearchAgain \/ UNCHANGED vars
  BY <1>8, <1>10 DEF FullTextSearch, VectorSearch, SearchAgain, vars
<1> QED BY <1>4, <1>5, <1>6, <1>7, <1>9, <1>10 DEF Next, UploadStep

\* ingest_document and delete_document, with their batches, races, failures and
\* deaths, implement a store in which documents come and go whole.
THEOREM Refinement == Spec => ImplementsStore
<1>1. Init => Store!StoreInit
  BY RefineInit
<1>2. IInv /\ IInv' /\ [Next]_vars => [Store!StoreNext]_(Store!storeVars)
  BY RefineNext
<1> QED BY <1>1, <1>2, Invariant, PTL DEF Spec, ImplementsStore, Store!StoreSpec
=============================================================================
