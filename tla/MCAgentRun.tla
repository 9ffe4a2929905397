------------------------------ MODULE MCAgentRun ------------------------------
(***************************************************************************)
(* Small instances of AgentRun.                                            *)
(***************************************************************************)
EXTENDS AgentRun, TLC

RunSymmetry ==
  Permutations(Approvals) \cup Permutations(Sessions) \cup Permutations(Getters)
=============================================================================
