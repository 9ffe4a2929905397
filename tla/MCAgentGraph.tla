---------------------------- MODULE MCAgentGraph ----------------------------
(* Two well-formed addresses, so that a wrong one can be chosen, and plans  *)
(* of up to two items, so that a note can stand before or after an email.   *)
EXTENDS AgentGraph
=============================================================================
