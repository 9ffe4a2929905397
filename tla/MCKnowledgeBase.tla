--------------------------- MODULE MCKnowledgeBase ---------------------------
(***************************************************************************)
(* Texts for KnowledgeBase, in chunks of ten characters: one that is split *)
(* with an overlap and has a paragraph longer than a chunk and a heading   *)
(* with nothing under it; and one whose title and heading leave no room.   *)
(***************************************************************************)
EXTENDS KnowledgeBase

Section(h, ps) == [heading |-> h, paragraphs |-> ps]

Split == <<Section(0, <<2, 1, 4, 12>>), Section(3, <<>>)>>
Narrow == <<Section(0, <<>>), Section(9, <<3>>)>>

MCTexts == {Split, Narrow}
=============================================================================
