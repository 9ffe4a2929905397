--------------------------- MODULE RedisLock_proofs ---------------------------
(***************************************************************************)
(* What the Redis lock guarantees for any number of clients and any        *)
(* deadline: as long as no TTL runs out it is mutual exclusion, and a      *)
(* release never deletes the lease of another client.                      *)
(***************************************************************************)
EXTENDS RedisLock, TLAPS

IInv == LockTypeOK /\ LeaseOwnsKey

LEMMA InitIInv == LockInit => IInv
BY RedisLockAssumption DEF LockInit, IInv, LockTypeOK, Phases, LeaseOwnsKey

\* Each step keeps the types; the counter of polls is the only arithmetic.
LEMMA NextType == LockTypeOK /\ [LockNext]_lockVars => LockTypeOK'
<1> SUFFICES ASSUME LockTypeOK, [LockNext]_lockVars PROVE LockTypeOK'
  OBVIOUS
<1> USE RedisLockAssumption DEF LockTypeOK, Phases
<1>1. ASSUME NEW c \in Clients, BeginAcquire(c) PROVE LockTypeOK'
  BY <1>1 DEF BeginAcquire
<1>2. ASSUME NEW c \in Clients, Acquire(c) PROVE LockTypeOK'
  BY <1>2 DEF Acquire
<1>3. ASSUME NEW c \in Clients, PollAgain(c) PROVE LockTypeOK'
  BY <1>3 DEF PollAgain
<1>4. ASSUME NEW c \in Clients, AcquireTimeout(c) PROVE LockTypeOK'
  BY <1>4 DEF AcquireTimeout
<1>5. ASSUME NEW c \in Clients, Release(c) PROVE LockTypeOK'
  BY <1>5 DEF Release, KeyAfterRelease
<1>6. ASSUME NEW c \in Clients, AcquireUnavailable(c) \/ ReleaseUnavailable(c)
      PROVE LockTypeOK'
  BY <1>6 DEF AcquireUnavailable, ReleaseUnavailable
<1>7. CASE Expire
  BY <1>7 DEF Expire
<1>8. CASE CrashAny
  BY <1>8 DEF CrashAny, CrashClients
<1>9. CASE UNCHANGED lockVars
  BY <1>9 DEF lockVars
<1> QED
  BY <1>1, <1>2, <1>3, <1>4, <1>5, <1>6, <1>7, <1>8, <1>9
  DEF LockNext, ClientStep

\* Only Acquire makes a client an owner, and it finds the key absent; only
\* Release and Expire remove the key, and each ends the lease it stands for.
LEMMA NextLease == IInv /\ [LockNext]_lockVars => LeaseOwnsKey'
<1> SUFFICES ASSUME IInv, [LockNext]_lockVars,
                    NEW d \in Clients, phase'[d] = "held", d \notin expired'
             PROVE  key' = d
  BY DEF LeaseOwnsKey
<1> USE RedisLockAssumption DEF IInv, LockTypeOK, LeaseOwnsKey
<1>1. ASSUME NEW c \in Clients, Acquire(c) PROVE key' = d
  <2>1. CASE c = d
    BY <1>1, <2>1 DEF Acquire
  <2>2. CASE c # d
    BY <1>1, <2>2 DEF Acquire
  <2> QED BY <2>1, <2>2
<1>2. ASSUME NEW c \in Clients, Release(c) PROVE key' = d
  BY <1>2 DEF Release, KeyAfterRelease
<1>3. ASSUME NEW c \in Clients,
             \/ BeginAcquire(c) \/ PollAgain(c) \/ AcquireTimeout(c)
             \/ AcquireUnavailable(c) \/ ReleaseUnavailable(c)
      PROVE  key' = d
  BY <1>3 DEF BeginAcquire, PollAgain, AcquireTimeout, AcquireUnavailable,
              ReleaseUnavailable
<1>4. CASE Expire
  BY <1>4 DEF Expire
<1>5. CASE CrashAny
  BY <1>5 DEF CrashAny, CrashClients
<1>6. CASE UNCHANGED lockVars
  BY <1>6 DEF lockVars
<1> QED
  BY <1>1, <1>2, <1>3, <1>4, <1>5, <1>6 DEF LockNext, ClientStep

\* The lock's variables keep their types for any number of clients and polls.
THEOREM LockTypeCorrect == LockSpec => []LockTypeOK
BY InitIInv, NextType, PTL DEF LockSpec, IInv

\* An owner whose TTL has not run out owns the key.
THEOREM LeaseIsOwned == LockSpec => []LeaseOwnsKey
<1>1. IInv /\ [LockNext]_lockVars => IInv'
  BY NextType, NextLease DEF IInv
<1> QED BY <1>1, InitIInv, PTL DEF LockSpec, IInv

\* Two owners at a time: a TTL has run out under one of them.
THEOREM ExclusionUntilExpiry == LockSpec => []OverlapNeedsExpiry
<1>1. LeaseOwnsKey => OverlapNeedsExpiry
  BY DEF LeaseOwnsKey, OverlapNeedsExpiry
<1> QED BY <1>1, LeaseIsOwned, PTL
=============================================================================
