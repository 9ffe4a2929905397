------------------------------ MODULE MCRealtime ------------------------------
(***************************************************************************)
(* Small instances of Realtime.                                            *)
(***************************************************************************)
EXTENDS Realtime, TLC

CONSTANTS p1, p2

\* One page may reconnect once; the other stays with its first connection.
OneReconnects == p1 :> 2 @@ p2 :> 1

\* A page alone that never has to reconnect.
Once == p1 :> 1
=============================================================================
