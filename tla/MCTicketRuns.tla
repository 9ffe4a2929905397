----------------------------- MODULE MCTicketRuns -----------------------------
(***************************************************************************)
(* Small instances of TicketRuns.                                          *)
(***************************************************************************)
EXTENDS TicketRuns, TLC

PostSymmetry == Permutations(Posts)
=============================================================================
