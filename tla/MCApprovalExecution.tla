------------------------ MODULE MCApprovalExecution ------------------------
(***************************************************************************)
(* Small instances of ApprovalExecution.                                   *)
(***************************************************************************)
EXTENDS ApprovalExecution, TLC

SessionSymmetry == Permutations(Sessions)
=============================================================================
