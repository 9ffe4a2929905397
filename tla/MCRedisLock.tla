----------------------------- MODULE MCRedisLock -----------------------------
(***************************************************************************)
(* Small instance of RedisLock: three lock objects on one name, two polls  *)
(* before the deadline.                                                    *)
(***************************************************************************)
EXTENDS RedisLock

=============================================================================
