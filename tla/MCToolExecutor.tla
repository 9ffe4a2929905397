---------------------------- MODULE MCToolExecutor ----------------------------
(***************************************************************************)
(* Small instances of ToolExecutor: two tools, one with an attempt of its  *)
(* own as the mock tools have, one left to the default.                    *)
(***************************************************************************)
EXTENDS ToolExecutor

CONSTANT Once

MCDefinedAttempts == [t \in Tools |-> IF t = Once THEN 1 ELSE 0]
=============================================================================
