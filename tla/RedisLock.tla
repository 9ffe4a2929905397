----------------------------- MODULE RedisLock -----------------------------
(***************************************************************************)
(* The distributed lock of app/services/redis_lock.py, seen by the Redis   *)
(* key and by the clients that use it.  A client is one RedisLock object:  *)
(* it is created with a fresh uuid4 token, acquires at most once and       *)
(* releases at most once, so the client itself stands for its token.       *)
(*                                                                         *)
(* The TTL runs on the Redis server and nothing bounds the time a client   *)
(* spends in its critical section: the key may expire at any moment.       *)
(***************************************************************************)
EXTENDS Naturals

CONSTANTS Clients,   \* the RedisLock objects
          NoClient,  \* no token: the key does not exist
          MaxPolls   \* failed SET NX polls that fit in acquire_timeout_seconds

ASSUME RedisLockAssumption ==
  /\ NoClient \notin Clients
  /\ MaxPolls \in Nat

VARIABLES key,      \* the token stored under the lock's name, or NoClient
          phase,    \* where each client is in acquire() / release()
          polls,    \* failed polls of each client so far
          expired   \* history: the clients whose key the TTL has removed

lockVars == <<key, phase, polls, expired>>

Phases == {"new", "polling", "held", "released", "error", "crashed"}

LockTypeOK ==
  /\ key \in Clients \cup {NoClient}
  /\ phase \in [Clients -> Phases]
  /\ polls \in [Clients -> 0..MaxPolls]
  /\ expired \subseteq Clients

LockInit ==
  /\ key = NoClient
  /\ phase = [c \in Clients |-> "new"]
  /\ polls = [c \in Clients |-> 0]
  /\ expired = {}

\* __aenter__ calls acquire(), which computes the deadline and starts polling.
BeginAcquire(c) ==
  /\ phase[c] = "new"
  /\ phase' = [phase EXCEPT ![c] = "polling"]
  /\ UNCHANGED <<key, polls, expired>>

\* Mutant: SET NX is tried once, before the loop.
AcquireOnlyAtOnce(c) ==
  /\ phase[c] = "polling" /\ key = NoClient /\ polls[c] = 0
  /\ key' = c
  /\ phase' = [phase EXCEPT ![c] = "held"]
  /\ UNCHANGED <<polls, expired>>

\* SET name token NX EX ttl succeeds: the key did not exist.
Acquire(c) ==
  /\ phase[c] = "polling"
  /\ key = NoClient
  /\ key' = c
  /\ phase' = [phase EXCEPT ![c] = "held"]
  /\ UNCHANGED <<polls, expired>>

\* Mutant: the loop does not look at its deadline.
PollPastDeadline(c) ==
  /\ phase[c] = "polling" /\ key # NoClient
  /\ polls' = [polls EXCEPT ![c] = @ + 1]
  /\ UNCHANGED <<key, phase, expired>>

\* SET NX finds the key, the deadline has not passed: sleep and poll again.
PollAgain(c) ==
  /\ phase[c] = "polling"
  /\ key # NoClient
  /\ polls[c] < MaxPolls
  /\ polls' = [polls EXCEPT ![c] = @ + 1]
  /\ UNCHANGED <<key, phase, expired>>

\* SET NX finds the key after the deadline: RedisLockError, nothing acquired.
AcquireTimeout(c) ==
  /\ phase[c] = "polling"
  /\ key # NoClient
  /\ polls[c] = MaxPolls
  /\ phase' = [phase EXCEPT ![c] = "error"]
  /\ UNCHANGED <<key, polls, expired>>

\* Redis does not answer the SET: the client's exception propagates.
AcquireUnavailable(c) ==
  /\ phase[c] = "polling"
  /\ phase' = [phase EXCEPT ![c] = "error"]
  /\ UNCHANGED <<key, polls, expired>>

\* Mutant: a plain DEL.
KeyDeleted(c) == NoClient

\* RELEASE_LOCK_SCRIPT: delete the key only while it still holds our token.
KeyAfterRelease(c) == IF key = c THEN NoClient ELSE key

Release(c) ==
  /\ phase[c] = "held"
  /\ key' = KeyAfterRelease(c)
  /\ phase' = [phase EXCEPT ![c] = "released"]
  /\ UNCHANGED <<polls, expired>>

\* Redis does not answer the EVAL: the key stays until its TTL.
ReleaseUnavailable(c) ==
  /\ phase[c] = "held"
  /\ phase' = [phase EXCEPT ![c] = "error"]
  /\ UNCHANGED <<key, polls, expired>>

\* Mutant: SET NX without EX.
NeverExpire == FALSE /\ UNCHANGED lockVars

\* The TTL set by EX removes the key, whatever its owner is doing.
Expire ==
  /\ key # NoClient
  /\ expired' = expired \cup {key}
  /\ key' = NoClient
  /\ UNCHANGED <<phase, polls>>

\* The process of the clients in C dies: no __aexit__ runs, the key stays.
CrashClients(C) ==
  /\ phase' = [c \in Clients |->
                 IF c \in C /\ phase[c] \in {"polling", "held"}
                   THEN "crashed" ELSE phase[c]]
  /\ UNCHANGED <<key, polls, expired>>

CrashAny ==
  /\ \E c \in Clients : phase[c] \in {"polling", "held"}
  /\ CrashClients(Clients)

ClientStep(c) ==
  \/ BeginAcquire(c)
  \/ Acquire(c)
  \/ PollAgain(c)
  \/ AcquireTimeout(c)
  \/ Release(c)

LockNext ==
  \/ \E c \in Clients :
       \/ ClientStep(c)
       \/ AcquireUnavailable(c)
       \/ ReleaseUnavailable(c)
  \/ Expire
  \/ CrashAny

\* A client that has begun is driven by the event loop; the TTL always ends.
LockFairness ==
  /\ \A c \in Clients :
       WF_lockVars(Acquire(c) \/ PollAgain(c) \/ AcquireTimeout(c) \/ Release(c))
  /\ WF_lockVars(Expire)

LockSpec == LockInit /\ [][LockNext]_lockVars /\ LockFairness

-----------------------------------------------------------------------------
\* An owner whose TTL has not run out owns the key: what release() deletes is
\* never the lease of another client, even of one that took over after a TTL.
LeaseOwnsKey ==
  \A c \in Clients : phase[c] = "held" /\ c \notin expired => key = c

\* Two clients are inside the critical section together only after a TTL ran
\* out under one of them: without an expiry the lock is mutual exclusion.
OverlapNeedsExpiry ==
  \A c, d \in Clients :
    phase[c] = "held" /\ phase[d] = "held" /\ c # d
      => c \in expired \/ d \in expired

\* acquire() never hangs: it returns, or raises once its deadline has passed.
AcquireEnds ==
  \A c \in Clients : phase[c] = "polling" ~> phase[c] # "polling"

\* A key whose owner crashed or could not reach Redis does not block the name
\* for good: the TTL frees it.
KeyIsFreed == \A c \in Clients : key = c ~> key # c
=============================================================================
