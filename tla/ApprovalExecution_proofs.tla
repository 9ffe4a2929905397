---------------------- MODULE ApprovalExecution_proofs ----------------------
(***************************************************************************)
(* Theorems about ApprovalExecution, for any number of sessions, any set of*)
(* edits and any combination of faults.                                    *)
(***************************************************************************)
EXTENDS ApprovalExecution, TLAPS

(* What the pure functions of ApprovalData return.                         *)
LEMMA FinalPayloadType ==
  ASSUME NEW a \in Approvals
  PROVE  FinalPayload(a) \in Payloads
BY DEF Approvals, FinalPayload, Payloads

LEMMA DecideType ==
  ASSUME NEW r \in ReviewRequests, NEW a \in Approvals
  PROVE  /\ Decide(r, a) \in Approvals
         /\ r.op = "approve" => Decide(r, a) = [a EXCEPT !.status = "approved"]
         /\ r.op = "edit" => Decide(r, a) = [status |-> "edited", edited |-> r.payload]
         /\ r.op = "reject" => Decide(r, a) = [a EXCEPT !.status = "rejected"]
         /\ r.op \in {"approve", "edit", "reject"}
<1>1. r.op \in {"approve", "edit", "reject"}
  BY DEF ReviewRequests
<1>2. r.op = "edit" => r.payload \in Edits
  BY DEF ReviewRequests
<1>3. CASE r.op = "approve"
  BY <1>3 DEF Decide, Approvals, ApprovalStatuses
<1>4. CASE r.op = "edit"
  BY <1>2, <1>4 DEF Decide, Approvals, ApprovalStatuses
<1>5. CASE r.op = "reject"
  BY <1>5 DEF Decide, Approvals, ApprovalStatuses
<1> QED BY <1>1, <1>3, <1>4, <1>5

LEMMA EndorsedType ==
  ASSUME NEW r \in ReviewRequests, NEW a \in Approvals
  PROVE  /\ Endorsed(r, a) \subseteq Payloads
         /\ r.op = "approve" => Endorsed(r, a) = {FinalPayload(a)}
         /\ r.op = "edit" => Endorsed(r, a) = {r.payload}
         /\ r.op = "reject" => Endorsed(r, a) = {}
<1>1. r.op \in {"approve", "edit", "reject"}
  BY DEF ReviewRequests
<1>2. r.op = "edit" => r.payload \in Edits
  BY DEF ReviewRequests
<1>3. FinalPayload(a) \in Payloads
  BY FinalPayloadType
<1> QED BY <1>1, <1>2, <1>3 DEF Endorsed, Payloads

-----------------------------------------------------------------------------
\* What the requests leave in a session, beyond the types: the part of the
\* invariant that TypeOK itself needs.
SessionsLoaded ==
  \A s \in Sessions :
    /\ pc[s] = "idle" => seen[s] = None
    /\ pc[s] = "reviewed" => /\ request[s] \in ReviewRequests
                             /\ seen[s] \in Approvals
                             /\ tool[s] \in ToolStatuses
    /\ pc[s] \in {"acquiring", "selecting"} \cup ExecutingPCs => seen[s] \in Approvals
    /\ pc[s] \in ExecutingPCs => tool[s] \in ToolStatuses

TInv == TypeOK /\ SessionsLoaded

LEMMA InitTInv == Init => TInv
BY ApprovalExecutionAssumption
   DEF Init, TInv, TypeOK, SessionsLoaded, NewApproval, Approvals, ApprovalStatuses,
       ToolStatuses, PCs, ExecutingPCs, ReviewingPCs, LockedPCs, Lock!LockInit,
       Lock!LockTypeOK, Lock!Phases

LEMMA NextTInv == TInv /\ [Next]_vars => TInv'
<1> SUFFICES ASSUME TInv, [Next]_vars PROVE TInv'
  OBVIOUS
<1> USE ApprovalExecutionAssumption
    DEF TInv, TypeOK, SessionsLoaded, PCs, ReviewingPCs, ExecutingPCs, LockedPCs,
        Goto, Lock!LockTypeOK, Lock!Phases, rowVars, sessionVars, lockVars,
        historyVars, CanLockRow, UnlockRow
<1>1. ASSUME NEW s \in Sessions, Review(s) PROVE TInv'
  <2>1. PICK r \in ReviewRequests :
          /\ request' = [request EXCEPT ![s] = r]
          /\ seen' = [seen EXCEPT ![s] = Decide(r, approval)]
          /\ tool' = [tool EXCEPT ![s] = ReviewedTool(r)]
    BY <1>1 DEF Review, GetForUpdate
  <2>2. Decide(r, approval) \in Approvals
    BY DecideType
  <2>3. ReviewedTool(r) \in ToolStatuses /\ r \in Requests
    BY DEF ReviewedTool, ToolStatuses, Requests
  <2> QED BY <1>1, <2>1, <2>2, <2>3 DEF Review
<1>2. ASSUME NEW s \in Sessions, ReviewRefused(s) PROVE TInv'
  BY <1>2 DEF ReviewRefused, Requests
<1>3. ASSUME NEW s \in Sessions, CommitReview(s) PROVE TInv'
  <2>1. Endorsed(request[s], seen[s]) \subseteq Payloads
    BY <1>3, EndorsedType DEF CommitReview
  <2> QED BY <1>3, <2>1 DEF CommitReview
<1>4. ASSUME NEW s \in Sessions, PreRead(s) PROVE TInv'
  BY <1>4 DEF PreRead, Requests, Lock!BeginAcquire
<1>5. ASSUME NEW s \in Sessions, PreReadRefused(s) PROVE TInv'
  BY <1>5 DEF PreReadRefused, Requests
<1>6. ASSUME NEW s \in Sessions, AcquireLock(s) PROVE TInv'
  BY <1>6 DEF AcquireLock, Lock!Acquire
<1>7. ASSUME NEW s \in Sessions, WaitForLock(s) PROVE TInv'
  BY <1>7 DEF WaitForLock, Lock!PollAgain
<1>8. ASSUME NEW s \in Sessions, AcquireFails(s) PROVE TInv'
  BY <1>8 DEF AcquireFails, Lock!AcquireTimeout, Lock!AcquireUnavailable
<1>9. ASSUME NEW s \in Sessions, SelectForUpdate(s) PROVE TInv'
  BY <1>9 DEF SelectForUpdate, GetForUpdate
<1>10. ASSUME NEW s \in Sessions, StartTool(s) PROVE TInv'
  BY <1>10 DEF StartTool, Approvals, ApprovalStatuses, ToolStatuses
<1>11. ASSUME NEW s \in Sessions, ToolCompletes(s) PROVE TInv'
  BY <1>11, FinalPayloadType DEF ToolCompletes, Invoked, ToolStatuses
<1>12. ASSUME NEW s \in Sessions, ToolFails(s) PROVE TInv'
  BY <1>12, FinalPayloadType DEF ToolFails, Invoked, ToolStatuses
<1>13. ASSUME NEW s \in Sessions, MarkResult(s) PROVE TInv'
  BY <1>13 DEF MarkResult, Approvals, ApprovalStatuses
<1>14. ASSUME NEW s \in Sessions, ReleaseLock(s) PROVE TInv'
  BY <1>14 DEF ReleaseLock, Lock!Release, Lock!ReleaseUnavailable, Lock!KeyAfterRelease
<1>15. ASSUME NEW s \in Sessions, CommitExecution(s) PROVE TInv'
  BY <1>15 DEF CommitExecution, WrittenApproval, Approvals
<1>16. ASSUME NEW s \in Sessions, SessionFails(s) PROVE TInv'
  BY <1>16 DEF SessionFails, Active, Lock!Release, Lock!KeyAfterRelease
<1>17. CASE Crash
  BY <1>17 DEF Crash, Active, Lock!CrashClients
<1>18. CASE LockExpires
  BY <1>18 DEF LockExpires, Lock!Expire
<1>19. CASE UNCHANGED vars
  BY <1>19 DEF vars
<1> QED
  BY <1>1, <1>2, <1>3, <1>4, <1>5, <1>6, <1>7, <1>8, <1>9, <1>10, <1>11, <1>12,
     <1>13, <1>14, <1>15, <1>16, <1>17, <1>18, <1>19
  DEF Next, ReviewStep, ExecuteStep

\* Every committed row, identity map, lock and history stays well formed,
\* through every interleaving of requests, faults and expiries.
THEOREM TypeCorrect == Spec => []TypeOK
<1>1. TInv => TypeOK
  BY DEF TInv
<1> QED BY <1>1, InitTInv, NextTInv, PTL DEF Spec

-----------------------------------------------------------------------------
(* The inductive invariant.                                                 *)

\* The row lock is held exactly between FOR UPDATE and the end of the
\* transaction.
RowLockHeld == \A s \in Sessions : pc[s] \in LockedPCs <=> rowLock = s

\* A review that is not yet committed is a decision on the row as it is: while
\* its session holds the lock nobody changes the row.
ReviewsCurrent ==
  \A s \in Sessions :
    pc[s] = "reviewed" => /\ Accepts(request[s], approval.status)
                          /\ seen[s] = Decide(request[s], approval)
                          /\ tool[s] = ReviewedTool(request[s])

\* Whatever an execution has loaded, before or under the lock, was executable
\* when it was loaded, and its payload permitted.
CopiesPermitted ==
  /\ approval.status \in Executable => Permitted(FinalPayload(approval))
  /\ \A s \in Sessions :
       pc[s] \in {"acquiring", "selecting", "locked", "started"}
         => seen[s].status \in Executable /\ Permitted(FinalPayload(seen[s]))

\* An execution has run the tool at most once, and only a run of its own lets it
\* claim a completed tool call.
ResultsEarned ==
  /\ \A e \in effects : pc[e.session] \in {"ran", "exiting", "committing", "done"}
  /\ \A s \in Sessions :
       /\ pc[s] = "ran" => tool[s] \in {"completed", "failed"}
       /\ pc[s] \in {"exiting", "committing"} =>
            /\ seen[s].status \in {"executed", "failed"}
            /\ seen[s].status = "executed" => tool[s] = "completed"
            /\ tool[s] \in {"running", "failed", "completed"}
       /\ pc[s] \in {"ran", "exiting", "committing"} /\ tool[s] = "completed"
            => \E e \in effects : e.session = s

IInv ==
  /\ TInv
  /\ RowLockHeld
  /\ ReviewsCurrent
  /\ CopiesPermitted
  /\ ResultsEarned
  /\ EffectsPermitted
  /\ RowsAgree

-----------------------------------------------------------------------------
(* Preservation of the invariant: one lemma per action, one step per   *)
(* conjunct.                                                               *)

LEMMA ReviewPreserves ==
  ASSUME IInv, NEW s \in Sessions, Review(s)
  PROVE  IInv'
<1>1. TInv'
  BY NextTInv DEF IInv, Next, ReviewStep, ExecuteStep
<1> USE DEF IInv, TInv, TypeOK, SessionsLoaded, Review, GetForUpdate,
            rowVars, sessionVars, lockVars, historyVars
<1>2. RowLockHeld'
  BY ApprovalExecutionAssumption DEF RowLockHeld, Goto, CanLockRow, UnlockRow, PCs, LockedPCs, ReviewingPCs, ExecutingPCs
<1>3. ReviewsCurrent'
  BY ApprovalExecutionAssumption DEF ReviewsCurrent, RowLockHeld, Goto, CanLockRow, ReviewedTool, LockedPCs, ReviewingPCs, ExecutingPCs
<1>4. CopiesPermitted'
  BY ApprovalExecutionAssumption DEF CopiesPermitted, Permitted, Goto, FinalPayload
<1>5. ResultsEarned'
  BY ApprovalExecutionAssumption DEF ResultsEarned, Goto
<1>6. EffectsPermitted'
  BY ApprovalExecutionAssumption DEF EffectsPermitted, CopiesPermitted, Permitted, FinalPayload
<1>7. RowsAgree'
  BY ApprovalExecutionAssumption DEF RowsAgree, ResultsEarned
<1> QED BY <1>1, <1>2, <1>3, <1>4, <1>5, <1>6, <1>7

LEMMA ReviewRefusedPreserves ==
  ASSUME IInv, NEW s \in Sessions, ReviewRefused(s)
  PROVE  IInv'
<1>1. TInv'
  BY NextTInv DEF IInv, Next, ReviewStep, ExecuteStep
<1> USE DEF IInv, TInv, TypeOK, SessionsLoaded, ReviewRefused,
            rowVars, sessionVars, lockVars, historyVars
<1>2. RowLockHeld'
  BY ApprovalExecutionAssumption DEF RowLockHeld, Goto, CanLockRow, UnlockRow, PCs, LockedPCs, ReviewingPCs, ExecutingPCs
<1>3. ReviewsCurrent'
  BY ApprovalExecutionAssumption DEF ReviewsCurrent, RowLockHeld, Goto, CanLockRow, ReviewedTool, LockedPCs, ReviewingPCs, ExecutingPCs
<1>4. CopiesPermitted'
  BY ApprovalExecutionAssumption DEF CopiesPermitted, Permitted, Goto, FinalPayload
<1>5. ResultsEarned'
  BY ApprovalExecutionAssumption DEF ResultsEarned, Goto
<1>6. EffectsPermitted'
  BY ApprovalExecutionAssumption DEF EffectsPermitted, CopiesPermitted, Permitted, FinalPayload
<1>7. RowsAgree'
  BY ApprovalExecutionAssumption DEF RowsAgree, ResultsEarned
<1> QED BY <1>1, <1>2, <1>3, <1>4, <1>5, <1>6, <1>7

LEMMA CommitReviewPreserves ==
  ASSUME IInv, NEW s \in Sessions, CommitReview(s)
  PROVE  IInv'
<1>1. TInv'
  BY NextTInv DEF IInv, Next, ReviewStep, ExecuteStep
<1> USE DEF IInv, TInv, TypeOK, SessionsLoaded, CommitReview,
            rowVars, sessionVars, lockVars, historyVars
<1>2. RowLockHeld'
  BY ApprovalExecutionAssumption DEF RowLockHeld, Goto, CanLockRow, UnlockRow, PCs, LockedPCs, ReviewingPCs, ExecutingPCs
<1>3. ReviewsCurrent'
  BY ApprovalExecutionAssumption DEF ReviewsCurrent, RowLockHeld, Goto, CanLockRow, ReviewedTool, LockedPCs, ReviewingPCs, ExecutingPCs
<1>4. CopiesPermitted'
  <2> DEFINE r == request[s]
  <2>1. /\ r \in ReviewRequests /\ seen[s] \in Approvals
        /\ approval' = seen[s] /\ seen[s] = Decide(r, approval)
        /\ endorsed' = endorsed \cup Endorsed(r, seen[s])
    BY DEF ReviewsCurrent
  <2>2. \A p : Permitted(p) => Permitted(p)'
    BY DEF Permitted
  <2>3. approval'.status \in Executable => Permitted(FinalPayload(approval))'
    <3>1. CASE r.op = "approve"
      BY <2>1, <3>1, EndorsedType DEF Permitted, FinalPayload
    <3>2. CASE r.op = "edit"
      <4>1. Decide(r, approval) = [status |-> "edited", edited |-> r.payload]
        BY <2>1, <3>2, DecideType
      <4>2. r.payload \in Edits
        BY <2>1, <3>2 DEF ReviewRequests
      <4>3. r.payload \in endorsed'
        BY <2>1, <3>2, EndorsedType
      <4> QED BY <2>1, <4>1, <4>2, <4>3, ApprovalDataAssumption
              DEF Permitted, FinalPayload
    <3>3. CASE r.op = "reject"
      <4>1. Decide(r, approval).status = "rejected"
        BY <2>1, <3>3, DecideType DEF Approvals
      <4> QED BY <2>1, <4>1 DEF Executable
    <3> QED BY <2>1, <3>1, <3>2, <3>3, DecideType
  <2>4. ASSUME NEW t \in Sessions,
               pc'[t] \in {"acquiring", "selecting", "locked", "started"}
        PROVE  seen'[t].status \in Executable /\ Permitted(FinalPayload(seen[t]))'
    BY <2>2, <2>4 DEF CopiesPermitted, Goto, FinalPayload
  <2> QED BY <2>3, <2>4 DEF CopiesPermitted
<1>5. ResultsEarned'
  BY ApprovalExecutionAssumption DEF ResultsEarned, Goto
<1>6. EffectsPermitted'
  BY ApprovalExecutionAssumption DEF EffectsPermitted, CopiesPermitted, Permitted, FinalPayload
<1>7. RowsAgree'
  <2> DEFINE r == request[s]
  <2>1. /\ r \in ReviewRequests
        /\ approval' = Decide(r, approval) /\ toolCall' = ReviewedTool(r)
        /\ Accepts(r, approval.status)
    BY DEF ReviewsCurrent
  <2>2. toolCall = "waiting_for_approval"
    BY <2>1 DEF RowsAgree, Accepts, Approvable, Rejectable, Executable
  <2>3. CASE r.op = "reject"
    <3>1. approval'.status = "rejected"
      BY <2>1, <2>3, DecideType DEF Approvals
    <3> QED BY <2>1, <2>3, <3>1 DEF RowsAgree, ReviewedTool, Approvable, Executable
  <2>4. CASE r.op # "reject"
    <3>1. approval'.status \in Executable
      BY <2>1, <2>4, DecideType DEF Approvals, Executable
    <3> QED BY <2>1, <2>2, <2>4, <3>1 DEF RowsAgree, ReviewedTool, Approvable, Executable
  <2> QED BY <2>3, <2>4
<1> QED BY <1>1, <1>2, <1>3, <1>4, <1>5, <1>6, <1>7

LEMMA PreReadPreserves ==
  ASSUME IInv, NEW s \in Sessions, PreRead(s)
  PROVE  IInv'
<1>1. TInv'
  BY NextTInv DEF IInv, Next, ReviewStep, ExecuteStep
<1> USE DEF IInv, TInv, TypeOK, SessionsLoaded, PreRead, Lock!BeginAcquire,
            rowVars, sessionVars, lockVars, historyVars
<1>2. RowLockHeld'
  BY ApprovalExecutionAssumption DEF RowLockHeld, Goto, CanLockRow, UnlockRow, PCs, LockedPCs, ReviewingPCs, ExecutingPCs
<1>3. ReviewsCurrent'
  BY ApprovalExecutionAssumption DEF ReviewsCurrent, RowLockHeld, Goto, CanLockRow, ReviewedTool, LockedPCs, ReviewingPCs, ExecutingPCs
<1>4. CopiesPermitted'
  BY ApprovalExecutionAssumption DEF CopiesPermitted, Permitted, Goto, FinalPayload
<1>5. ResultsEarned'
  BY ApprovalExecutionAssumption DEF ResultsEarned, Goto
<1>6. EffectsPermitted'
  BY ApprovalExecutionAssumption DEF EffectsPermitted, CopiesPermitted, Permitted, FinalPayload
<1>7. RowsAgree'
  BY ApprovalExecutionAssumption DEF RowsAgree, ResultsEarned
<1> QED BY <1>1, <1>2, <1>3, <1>4, <1>5, <1>6, <1>7

LEMMA PreReadRefusedPreserves ==
  ASSUME IInv, NEW s \in Sessions, PreReadRefused(s)
  PROVE  IInv'
<1>1. TInv'
  BY NextTInv DEF IInv, Next, ReviewStep, ExecuteStep
<1> USE DEF IInv, TInv, TypeOK, SessionsLoaded, PreReadRefused,
            rowVars, sessionVars, lockVars, historyVars
<1>2. RowLockHeld'
  BY ApprovalExecutionAssumption DEF RowLockHeld, Goto, CanLockRow, UnlockRow, PCs, LockedPCs, ReviewingPCs, ExecutingPCs
<1>3. ReviewsCurrent'
  BY ApprovalExecutionAssumption DEF ReviewsCurrent, RowLockHeld, Goto, CanLockRow, ReviewedTool, LockedPCs, ReviewingPCs, ExecutingPCs
<1>4. CopiesPermitted'
  BY ApprovalExecutionAssumption DEF CopiesPermitted, Permitted, Goto, FinalPayload
<1>5. ResultsEarned'
  BY ApprovalExecutionAssumption DEF ResultsEarned, Goto
<1>6. EffectsPermitted'
  BY ApprovalExecutionAssumption DEF EffectsPermitted, CopiesPermitted, Permitted, FinalPayload
<1>7. RowsAgree'
  BY ApprovalExecutionAssumption DEF RowsAgree, ResultsEarned
<1> QED BY <1>1, <1>2, <1>3, <1>4, <1>5, <1>6, <1>7

LEMMA AcquireLockPreserves ==
  ASSUME IInv, NEW s \in Sessions, AcquireLock(s)
  PROVE  IInv'
<1>1. TInv'
  BY NextTInv DEF IInv, Next, ReviewStep, ExecuteStep
<1> USE DEF IInv, TInv, TypeOK, SessionsLoaded, AcquireLock, Lock!Acquire,
            rowVars, sessionVars, lockVars, historyVars
<1>2. RowLockHeld'
  BY ApprovalExecutionAssumption DEF RowLockHeld, Goto, CanLockRow, UnlockRow, PCs, LockedPCs, ReviewingPCs, ExecutingPCs
<1>3. ReviewsCurrent'
  BY ApprovalExecutionAssumption DEF ReviewsCurrent, RowLockHeld, Goto, CanLockRow, ReviewedTool, LockedPCs, ReviewingPCs, ExecutingPCs
<1>4. CopiesPermitted'
  BY ApprovalExecutionAssumption DEF CopiesPermitted, Permitted, Goto, FinalPayload
<1>5. ResultsEarned'
  BY ApprovalExecutionAssumption DEF ResultsEarned, Goto
<1>6. EffectsPermitted'
  BY ApprovalExecutionAssumption DEF EffectsPermitted, CopiesPermitted, Permitted, FinalPayload
<1>7. RowsAgree'
  BY ApprovalExecutionAssumption DEF RowsAgree, ResultsEarned
<1> QED BY <1>1, <1>2, <1>3, <1>4, <1>5, <1>6, <1>7

LEMMA WaitForLockPreserves ==
  ASSUME IInv, NEW s \in Sessions, WaitForLock(s)
  PROVE  IInv'
<1>1. TInv'
  BY NextTInv DEF IInv, Next, ReviewStep, ExecuteStep
<1> USE DEF IInv, TInv, TypeOK, SessionsLoaded, WaitForLock, Lock!PollAgain,
            rowVars, sessionVars, lockVars, historyVars
<1>2. RowLockHeld'
  BY ApprovalExecutionAssumption DEF RowLockHeld, Goto, CanLockRow, UnlockRow, PCs, LockedPCs, ReviewingPCs, ExecutingPCs
<1>3. ReviewsCurrent'
  BY ApprovalExecutionAssumption DEF ReviewsCurrent, RowLockHeld, Goto, CanLockRow, ReviewedTool, LockedPCs, ReviewingPCs, ExecutingPCs
<1>4. CopiesPermitted'
  BY ApprovalExecutionAssumption DEF CopiesPermitted, Permitted, Goto, FinalPayload
<1>5. ResultsEarned'
  BY ApprovalExecutionAssumption DEF ResultsEarned, Goto
<1>6. EffectsPermitted'
  BY ApprovalExecutionAssumption DEF EffectsPermitted, CopiesPermitted, Permitted, FinalPayload
<1>7. RowsAgree'
  BY ApprovalExecutionAssumption DEF RowsAgree, ResultsEarned
<1> QED BY <1>1, <1>2, <1>3, <1>4, <1>5, <1>6, <1>7

LEMMA AcquireFailsPreserves ==
  ASSUME IInv, NEW s \in Sessions, AcquireFails(s)
  PROVE  IInv'
<1>1. TInv'
  BY NextTInv DEF IInv, Next, ReviewStep, ExecuteStep
<1> USE DEF IInv, TInv, TypeOK, SessionsLoaded, AcquireFails, Lock!AcquireTimeout, Lock!AcquireUnavailable,
            rowVars, sessionVars, lockVars, historyVars
<1>2. RowLockHeld'
  BY ApprovalExecutionAssumption DEF RowLockHeld, Goto, CanLockRow, UnlockRow, PCs, LockedPCs, ReviewingPCs, ExecutingPCs
<1>3. ReviewsCurrent'
  BY ApprovalExecutionAssumption DEF ReviewsCurrent, RowLockHeld, Goto, CanLockRow, ReviewedTool, LockedPCs, ReviewingPCs, ExecutingPCs
<1>4. CopiesPermitted'
  BY ApprovalExecutionAssumption DEF CopiesPermitted, Permitted, Goto, FinalPayload
<1>5. ResultsEarned'
  BY ApprovalExecutionAssumption DEF ResultsEarned, Goto
<1>6. EffectsPermitted'
  BY ApprovalExecutionAssumption DEF EffectsPermitted, CopiesPermitted, Permitted, FinalPayload
<1>7. RowsAgree'
  BY ApprovalExecutionAssumption DEF RowsAgree, ResultsEarned
<1> QED BY <1>1, <1>2, <1>3, <1>4, <1>5, <1>6, <1>7

LEMMA SelectForUpdatePreserves ==
  ASSUME IInv, NEW s \in Sessions, SelectForUpdate(s)
  PROVE  IInv'
<1>1. TInv'
  BY NextTInv DEF IInv, Next, ReviewStep, ExecuteStep
<1> USE DEF IInv, TInv, TypeOK, SessionsLoaded, SelectForUpdate, GetForUpdate,
            rowVars, sessionVars, lockVars, historyVars
<1>2. RowLockHeld'
  BY ApprovalExecutionAssumption DEF RowLockHeld, Goto, CanLockRow, UnlockRow, PCs, LockedPCs, ReviewingPCs, ExecutingPCs
<1>3. ReviewsCurrent'
  BY ApprovalExecutionAssumption DEF ReviewsCurrent, RowLockHeld, Goto, CanLockRow, ReviewedTool, LockedPCs, ReviewingPCs, ExecutingPCs
<1>4. CopiesPermitted'
  BY ApprovalExecutionAssumption DEF CopiesPermitted, Permitted, Goto, FinalPayload
<1>5. ResultsEarned'
  <2>1. GetForUpdate(s) = seen[s] /\ seen[s].status \in Executable
    BY ApprovalDataAssumption DEF CopiesPermitted, ExecutingPCs
  <2>2. pc' = [pc EXCEPT ![s] = "locked"]
    BY <2>1 DEF Goto
  <2>3. UNCHANGED effects /\ \A t \in Sessions : t # s => UNCHANGED <<seen[t], tool[t], pc[t]>>
    BY <2>2
  <2> QED BY <2>2, <2>3 DEF ResultsEarned
<1>6. EffectsPermitted'
  BY ApprovalExecutionAssumption DEF EffectsPermitted, CopiesPermitted, Permitted, FinalPayload
<1>7. RowsAgree'
  BY ApprovalExecutionAssumption DEF RowsAgree, ResultsEarned
<1> QED BY <1>1, <1>2, <1>3, <1>4, <1>5, <1>6, <1>7

LEMMA StartToolPreserves ==
  ASSUME IInv, NEW s \in Sessions, StartTool(s)
  PROVE  IInv'
<1>1. TInv'
  BY NextTInv DEF IInv, Next, ReviewStep, ExecuteStep
<1> USE DEF IInv, TInv, TypeOK, SessionsLoaded, StartTool,
            rowVars, sessionVars, lockVars, historyVars
<1>2. RowLockHeld'
  BY ApprovalExecutionAssumption DEF RowLockHeld, Goto, CanLockRow, UnlockRow, PCs, LockedPCs, ReviewingPCs, ExecutingPCs
<1>3. ReviewsCurrent'
  BY ApprovalExecutionAssumption DEF ReviewsCurrent, RowLockHeld, Goto, CanLockRow, ReviewedTool, LockedPCs, ReviewingPCs, ExecutingPCs
<1>4. CopiesPermitted'
  BY ApprovalExecutionAssumption DEF CopiesPermitted, Permitted, Goto, FinalPayload
<1>5. ResultsEarned'
  <2>1. /\ pc[s] = "locked" /\ seen[s] \in Approvals
        /\ tool'[s] = "running" /\ UNCHANGED effects
        /\ pc'[s] \in {"started", "exiting"}
        /\ \A t \in Sessions : t # s => UNCHANGED <<seen[t], tool[t], pc[t]>>
    BY DEF Goto, ExecutingPCs
  <2>2. pc'[s] = "exiting" => seen'[s].status = "failed"
    BY <2>1 DEF Goto, Approvals
  <2>3. \A e \in effects : e.session # s /\ e.session \in Sessions
    BY <2>1 DEF ResultsEarned
  <2> QED BY <2>1, <2>2, <2>3 DEF ResultsEarned
<1>6. EffectsPermitted'
  BY ApprovalExecutionAssumption DEF EffectsPermitted, CopiesPermitted, Permitted, FinalPayload
<1>7. RowsAgree'
  BY ApprovalExecutionAssumption DEF RowsAgree, ResultsEarned
<1> QED BY <1>1, <1>2, <1>3, <1>4, <1>5, <1>6, <1>7

LEMMA ToolCompletesPreserves ==
  ASSUME IInv, NEW s \in Sessions, ToolCompletes(s)
  PROVE  IInv'
<1>1. TInv'
  BY NextTInv DEF IInv, Next, ReviewStep, ExecuteStep
<1> USE DEF IInv, TInv, TypeOK, SessionsLoaded, ToolCompletes, Invoked,
            rowVars, sessionVars, lockVars, historyVars
<1>2. RowLockHeld'
  BY ApprovalExecutionAssumption DEF RowLockHeld, Goto, CanLockRow, UnlockRow, PCs, LockedPCs, ReviewingPCs, ExecutingPCs
<1>3. ReviewsCurrent'
  BY ApprovalExecutionAssumption DEF ReviewsCurrent, RowLockHeld, Goto, CanLockRow, ReviewedTool, LockedPCs, ReviewingPCs, ExecutingPCs
<1>4. CopiesPermitted'
  BY ApprovalExecutionAssumption DEF CopiesPermitted, Permitted, Goto, FinalPayload
<1>5. ResultsEarned'
  <2>1. /\ effects' = effects \cup {Invoked(s)} /\ Invoked(s).session = s
        /\ tool'[s] = "completed" /\ pc'[s] = "ran" /\ UNCHANGED seen
        /\ \A t \in Sessions : t # s => UNCHANGED <<tool[t], pc[t]>>
    BY DEF Goto
  <2>2. \A e \in effects : e.session \in Sessions
    OBVIOUS
  <2>3. \A e \in effects' : pc'[e.session] \in {"ran", "exiting", "committing", "done"}
    BY <2>1, <2>2 DEF ResultsEarned
  <2>4. ASSUME NEW t \in Sessions PROVE ResultsEarned!2!(t)'
    <3>1. CASE t = s
      BY <2>1, <3>1
    <3>2. CASE t # s
      BY <2>1, <3>2 DEF ResultsEarned
    <3> QED BY <3>1, <3>2
  <2> QED BY <2>3, <2>4 DEF ResultsEarned
<1>6. EffectsPermitted'
  BY ApprovalExecutionAssumption DEF EffectsPermitted, CopiesPermitted, Permitted, FinalPayload
<1>7. RowsAgree'
  BY ApprovalExecutionAssumption DEF RowsAgree, ResultsEarned
<1> QED BY <1>1, <1>2, <1>3, <1>4, <1>5, <1>6, <1>7

LEMMA ToolFailsPreserves ==
  ASSUME IInv, NEW s \in Sessions, ToolFails(s)
  PROVE  IInv'
<1>1. TInv'
  BY NextTInv DEF IInv, Next, ReviewStep, ExecuteStep
<1> USE DEF IInv, TInv, TypeOK, SessionsLoaded, ToolFails, Invoked,
            rowVars, sessionVars, lockVars, historyVars
<1>2. RowLockHeld'
  BY ApprovalExecutionAssumption DEF RowLockHeld, Goto, CanLockRow, UnlockRow, PCs, LockedPCs, ReviewingPCs, ExecutingPCs
<1>3. ReviewsCurrent'
  BY ApprovalExecutionAssumption DEF ReviewsCurrent, RowLockHeld, Goto, CanLockRow, ReviewedTool, LockedPCs, ReviewingPCs, ExecutingPCs
<1>4. CopiesPermitted'
  BY ApprovalExecutionAssumption DEF CopiesPermitted, Permitted, Goto, FinalPayload
<1>5. ResultsEarned'
  BY ApprovalExecutionAssumption DEF ResultsEarned, Goto
<1>6. EffectsPermitted'
  BY ApprovalExecutionAssumption DEF EffectsPermitted, CopiesPermitted, Permitted, FinalPayload
<1>7. RowsAgree'
  BY ApprovalExecutionAssumption DEF RowsAgree, ResultsEarned
<1> QED BY <1>1, <1>2, <1>3, <1>4, <1>5, <1>6, <1>7

LEMMA MarkResultPreserves ==
  ASSUME IInv, NEW s \in Sessions, MarkResult(s)
  PROVE  IInv'
<1>1. TInv'
  BY NextTInv DEF IInv, Next, ReviewStep, ExecuteStep
<1> USE DEF IInv, TInv, TypeOK, SessionsLoaded, MarkResult,
            rowVars, sessionVars, lockVars, historyVars
<1>2. RowLockHeld'
  BY ApprovalExecutionAssumption DEF RowLockHeld, Goto, CanLockRow, UnlockRow, PCs, LockedPCs, ReviewingPCs, ExecutingPCs
<1>3. ReviewsCurrent'
  BY ApprovalExecutionAssumption DEF ReviewsCurrent, RowLockHeld, Goto, CanLockRow, ReviewedTool, LockedPCs, ReviewingPCs, ExecutingPCs
<1>4. CopiesPermitted'
  BY ApprovalExecutionAssumption DEF CopiesPermitted, Permitted, Goto, FinalPayload
<1>5. ResultsEarned'
  <2>1. /\ pc[s] = "ran" /\ seen[s] \in Approvals /\ pc'[s] = "exiting"
        /\ UNCHANGED <<effects, tool>>
        /\ \A t \in Sessions : t # s => UNCHANGED <<seen[t], pc[t]>>
    BY DEF Goto, ExecutingPCs
  <2>2. \/ seen'[s].status = "executed" /\ tool[s] = "completed"
        \/ seen'[s].status = "failed"
    BY <2>1 DEF Approvals
  <2>3. \A e \in effects : e.session \in Sessions
    OBVIOUS
  <2> QED BY <2>1, <2>2, <2>3 DEF ResultsEarned
<1>6. EffectsPermitted'
  BY ApprovalExecutionAssumption DEF EffectsPermitted, CopiesPermitted, Permitted, FinalPayload
<1>7. RowsAgree'
  BY ApprovalExecutionAssumption DEF RowsAgree, ResultsEarned
<1> QED BY <1>1, <1>2, <1>3, <1>4, <1>5, <1>6, <1>7

LEMMA ReleaseLockPreserves ==
  ASSUME IInv, NEW s \in Sessions, ReleaseLock(s)
  PROVE  IInv'
<1>1. TInv'
  BY NextTInv DEF IInv, Next, ReviewStep, ExecuteStep
<1> USE DEF IInv, TInv, TypeOK, SessionsLoaded, ReleaseLock, Lock!Release, Lock!ReleaseUnavailable,
            rowVars, sessionVars, lockVars, historyVars
<1>2. RowLockHeld'
  BY ApprovalExecutionAssumption DEF RowLockHeld, Goto, CanLockRow, UnlockRow, PCs, LockedPCs, ReviewingPCs, ExecutingPCs
<1>3. ReviewsCurrent'
  BY ApprovalExecutionAssumption DEF ReviewsCurrent, RowLockHeld, Goto, CanLockRow, ReviewedTool, LockedPCs, ReviewingPCs, ExecutingPCs
<1>4. CopiesPermitted'
  BY ApprovalExecutionAssumption DEF CopiesPermitted, Permitted, Goto, FinalPayload
<1>5. ResultsEarned'
  BY ApprovalExecutionAssumption DEF ResultsEarned, Goto
<1>6. EffectsPermitted'
  BY ApprovalExecutionAssumption DEF EffectsPermitted, CopiesPermitted, Permitted, FinalPayload
<1>7. RowsAgree'
  BY ApprovalExecutionAssumption DEF RowsAgree, ResultsEarned
<1> QED BY <1>1, <1>2, <1>3, <1>4, <1>5, <1>6, <1>7

LEMMA CommitExecutionPreserves ==
  ASSUME IInv, NEW s \in Sessions, CommitExecution(s)
  PROVE  IInv'
<1>1. TInv'
  BY NextTInv DEF IInv, Next, ReviewStep, ExecuteStep
<1> USE DEF IInv, TInv, TypeOK, SessionsLoaded, CommitExecution, WrittenApproval,
            rowVars, sessionVars, lockVars, historyVars
<1>2. RowLockHeld'
  BY ApprovalExecutionAssumption DEF RowLockHeld, Goto, CanLockRow, UnlockRow, PCs, LockedPCs, ReviewingPCs, ExecutingPCs
<1>3. ReviewsCurrent'
  BY ApprovalExecutionAssumption DEF ReviewsCurrent, RowLockHeld, Goto, CanLockRow, ReviewedTool, LockedPCs, ReviewingPCs, ExecutingPCs
<1>4. CopiesPermitted'
  <2>1. approval'.status \in {"executed", "failed"}
    BY DEF ResultsEarned, Approvals
  <2>2. UNCHANGED <<seen, endorsed>> /\ pc' = [pc EXCEPT ![s] = "done"]
    BY DEF Goto
  <2> QED BY <2>1, <2>2 DEF CopiesPermitted, Permitted, FinalPayload, Executable
<1>5. ResultsEarned'
  BY ApprovalExecutionAssumption DEF ResultsEarned, Goto
<1>6. EffectsPermitted'
  BY ApprovalExecutionAssumption DEF EffectsPermitted, CopiesPermitted, Permitted, FinalPayload
<1>7. RowsAgree'
  <2>1. /\ approval'.status = seen[s].status /\ toolCall' = tool[s]
        /\ UNCHANGED effects
    BY DEF Approvals
  <2> QED BY <2>1 DEF RowsAgree, ResultsEarned, Approvable, Executable
<1> QED BY <1>1, <1>2, <1>3, <1>4, <1>5, <1>6, <1>7

LEMMA SessionFailsPreserves ==
  ASSUME IInv, NEW s \in Sessions, SessionFails(s)
  PROVE  IInv'
<1>1. TInv'
  BY NextTInv DEF IInv, Next, ReviewStep, ExecuteStep
<1> USE DEF IInv, TInv, TypeOK, SessionsLoaded, SessionFails, Active, Lock!Release,
            rowVars, sessionVars, lockVars, historyVars
<1>2. RowLockHeld'
  BY ApprovalExecutionAssumption DEF RowLockHeld, Goto, CanLockRow, UnlockRow, PCs, LockedPCs, ReviewingPCs, ExecutingPCs
<1>3. ReviewsCurrent'
  BY ApprovalExecutionAssumption DEF ReviewsCurrent, RowLockHeld, Goto, CanLockRow, ReviewedTool, LockedPCs, ReviewingPCs, ExecutingPCs
<1>4. CopiesPermitted'
  BY ApprovalExecutionAssumption DEF CopiesPermitted, Permitted, Goto, FinalPayload
<1>5. ResultsEarned'
  BY ApprovalExecutionAssumption DEF ResultsEarned, Goto
<1>6. EffectsPermitted'
  BY ApprovalExecutionAssumption DEF EffectsPermitted, CopiesPermitted, Permitted, FinalPayload
<1>7. RowsAgree'
  BY ApprovalExecutionAssumption DEF RowsAgree, ResultsEarned
<1> QED BY <1>1, <1>2, <1>3, <1>4, <1>5, <1>6, <1>7

LEMMA CrashPreserves ==
  ASSUME IInv, Crash
  PROVE  IInv'
<1>1. TInv'
  BY NextTInv DEF IInv, Next
<1> USE DEF IInv, TInv, TypeOK, SessionsLoaded, Crash, Active, rowVars,
            sessionVars, historyVars
<1>2. RowLockHeld'
  BY ApprovalExecutionAssumption
     DEF RowLockHeld, PCs, LockedPCs, ReviewingPCs, ExecutingPCs
<1>3. ReviewsCurrent'
  BY DEF ReviewsCurrent, ReviewedTool
<1>4. CopiesPermitted'
  BY DEF CopiesPermitted, Permitted, FinalPayload
<1>5. ResultsEarned'
  BY DEF ResultsEarned
<1>6. EffectsPermitted'
  BY DEF EffectsPermitted, Permitted
<1>7. RowsAgree'
  BY DEF RowsAgree
<1> QED BY <1>1, <1>2, <1>3, <1>4, <1>5, <1>6, <1>7

LEMMA IdlePreserves ==
  ASSUME IInv, LockExpires \/ UNCHANGED vars
  PROVE  IInv'
<1>1. TInv'
  BY NextTInv DEF IInv, Next
<1>2. UNCHANGED <<approval, toolCall, rowLock, pc, request, seen, tool, effects,
                  endorsed>>
  BY DEF LockExpires, vars, rowVars, sessionVars, historyVars
<1>3. QED
  BY <1>1, <1>2
  DEF IInv, RowLockHeld, ReviewsCurrent, ReviewedTool, CopiesPermitted, Permitted,
      FinalPayload, ResultsEarned, EffectsPermitted, RowsAgree

LEMMA InitIInv == Init => IInv
<1> SUFFICES ASSUME Init PROVE IInv
  OBVIOUS
<1>1. TInv
  BY InitTInv
<1>2. RowLockHeld
  BY ApprovalExecutionAssumption
     DEF Init, RowLockHeld, LockedPCs, ReviewingPCs, ExecutingPCs
<1>3. ReviewsCurrent /\ CopiesPermitted /\ ResultsEarned
  BY DEF Init, ReviewsCurrent, CopiesPermitted, ResultsEarned, NewApproval,
         Executable
<1>4. EffectsPermitted /\ RowsAgree
  BY DEF Init, EffectsPermitted, RowsAgree, NewApproval, Approvable, Executable
<1> QED BY <1>1, <1>2, <1>3, <1>4 DEF IInv

LEMMA NextIInv == IInv /\ [Next]_vars => IInv'
BY ReviewPreserves, ReviewRefusedPreserves, CommitReviewPreserves, PreReadPreserves,
   PreReadRefusedPreserves, AcquireLockPreserves, WaitForLockPreserves,
   AcquireFailsPreserves, SelectForUpdatePreserves, StartToolPreserves,
   ToolCompletesPreserves, ToolFailsPreserves, MarkResultPreserves,
   ReleaseLockPreserves, CommitExecutionPreserves, SessionFailsPreserves,
   CrashPreserves, IdlePreserves
DEF Next, ReviewStep, ExecuteStep

THEOREM Invariance == Spec => []IInv
BY InitIInv, NextIInv, PTL DEF Spec

-----------------------------------------------------------------------------
\* Reviews and executions of the approval take turns from their FOR UPDATE to
\* their commit, for any number of sessions and whatever the Redis lock does.
THEOREM Serialised == Spec => []SerialExecution
<1>1. IInv => SerialExecution
  BY DEF IInv, RowLockHeld, SerialExecution
<1> QED BY <1>1, Invariance, PTL

\* No tool runs on a payload that no reviewer endorsed, the proposal after an
\* empty edit excepted.
THEOREM PayloadsReviewed == Spec => []EffectsPermitted
<1>1. IInv => EffectsPermitted
  BY DEF IInv
<1> QED BY <1>1, Invariance, PTL

\* The approval row and its tool call row agree after every commit.
THEOREM RowsConsistent == Spec => []RowsAgree
<1>1. IInv => RowsAgree
  BY DEF IInv
<1> QED BY <1>1, Invariance, PTL

-----------------------------------------------------------------------------
LEMMA CommitsOnly ==
  ASSUME [Next]_vars, approval' # approval
  PROVE  \E s \in Sessions : CommitReview(s) \/ CommitExecution(s)
BY DEF Next, ReviewStep, ExecuteStep, Review, ReviewRefused, PreRead,
       PreReadRefused, AcquireLock, WaitForLock, AcquireFails, SelectForUpdate,
       StartTool, ToolCompletes, ToolFails, MarkResult, ReleaseLock, SessionFails,
       Crash, LockExpires, vars, rowVars

\* A decided request never returns to its reviewers and keeps its edited payload.
THEOREM DecidedStays == Spec => DecisionsStand
<1>1. ASSUME IInv, [Next]_vars
      PROVE  [approval.status \in Terminal
                => /\ approval'.status \in Terminal
                   /\ approval'.edited = approval.edited]_approval
  <2> SUFFICES ASSUME approval' # approval, approval.status \in Terminal
               PROVE  /\ approval'.status \in Terminal
                      /\ approval'.edited = approval.edited
    OBVIOUS
  <2> PICK s \in Sessions : CommitReview(s) \/ CommitExecution(s)
    BY <1>1, CommitsOnly
  <2>1. CASE CommitReview(s)
    BY <1>1, <2>1
       DEF IInv, ReviewsCurrent, CommitReview, Accepts, Approvable, Rejectable,
           Terminal
  <2>2. CASE CommitExecution(s)
    <3>1. /\ approval'.status = seen[s].status
          /\ approval'.edited = approval.edited
      BY <1>1, <2>2
         DEF IInv, TInv, TypeOK, Approvals, CommitExecution, WrittenApproval
    <3> QED BY <1>1, <2>2, <3>1 DEF IInv, ResultsEarned, CommitExecution, Terminal
  <2> QED BY <2>1, <2>2
<1> QED BY <1>1, Invariance, PTL DEF Spec, DecisionsStand

-----------------------------------------------------------------------------
(* The refinement.                                                          *)

\* Who is executing, in terms of the program counters.
ExecutingMeans ==
  /\ Executing \in Sessions \cup {None}
  /\ \A s \in Sessions : pc[s] \in ExecutingPCs <=> Executing = s
  /\ rowLock = None => Executing = None
  /\ \A s \in Sessions : pc[s] = "reviewed" => Executing = None

LEMMA ExecutingValue == IInv => ExecutingMeans
BY ApprovalExecutionAssumption
   DEF IInv, TInv, TypeOK, RowLockHeld, Executing, LockedPCs, ReviewingPCs,
       ExecutingPCs, ExecutingMeans

\* The same in the next state.
LEMMA ExecutingValueNext == IInv' => ExecutingMeans'
BY ExecutingValue, PTL

\* Executing names the same session when nobody enters or leaves the section.
LEMMA ExecutingStays ==
  ASSUME IInv, IInv',
         \A t \in Sessions : pc[t] \in ExecutingPCs <=> pc'[t] \in ExecutingPCs
  PROVE  Executing' = Executing
<1>1. ExecutingMeans /\ ExecutingMeans'
  BY ExecutingValue, ExecutingValueNext
<1>2. \A t \in Sessions : Executing = t <=> Executing' = t
  BY <1>1 DEF ExecutingMeans
<1>3. Executing \in Sessions \cup {None} /\ Executing' \in Sessions \cup {None}
  BY <1>1 DEF ExecutingMeans
<1> HIDE DEF Executing
<1> QED BY <1>2, <1>3

LEMMA RefineInit == Init => Lifecycle!LifecycleInit
BY DEF Init, Lifecycle!LifecycleInit, Executing, NewApproval, Lifecycle!NewApproval

LEMMA RefineNext ==
  ASSUME IInv, IInv', [Next]_vars
  PROVE  [Lifecycle!LifecycleNext]_(Lifecycle!lifecycleVars)
<1> DEFINE Stutter == UNCHANGED <<approval, toolCall, endorsed, effects, Executing>>
           Step == [Lifecycle!LifecycleNext]_(Lifecycle!lifecycleVars)
<1>0. Stutter => Step
  BY DEF Lifecycle!lifecycleVars
<1>9. ExecutingMeans /\ ExecutingMeans'
  BY ExecutingValue, ExecutingValueNext
<1>1. ASSUME NEW s \in Sessions,
             \/ Review(s) \/ ReviewRefused(s) \/ PreRead(s) \/ PreReadRefused(s)
             \/ AcquireLock(s) \/ WaitForLock(s) \/ AcquireFails(s)
             \/ StartTool(s) \/ MarkResult(s) \/ ReleaseLock(s)
      PROVE  Step
  <2>1. UNCHANGED <<approval, toolCall, endorsed, effects>>
    BY <1>1 DEF Review, ReviewRefused, PreRead, PreReadRefused, AcquireLock,
                WaitForLock, AcquireFails, StartTool, MarkResult, ReleaseLock,
                rowVars, historyVars
  <2>2. \A t \in Sessions : pc[t] \in ExecutingPCs <=> pc'[t] \in ExecutingPCs
    BY <1>1 DEF IInv, TInv, TypeOK, Review, ReviewRefused, PreRead, PreReadRefused,
                AcquireLock, WaitForLock, AcquireFails, StartTool, MarkResult,
                ReleaseLock, Goto, ExecutingPCs
  <2> QED BY <1>0, <2>1, <2>2, ExecutingStays
<1>2. ASSUME NEW s \in Sessions, CommitReview(s) PROVE Step
  <2> DEFINE r == request[s]
  <2>1. /\ r \in ReviewRequests /\ Accepts(r, approval.status)
        /\ approval' = Decide(r, approval) /\ toolCall' = ReviewedTool(r)
        /\ endorsed' = endorsed \cup Endorsed(r, Decide(r, approval))
        /\ UNCHANGED effects
    BY <1>2 DEF IInv, TInv, SessionsLoaded, ReviewsCurrent, CommitReview
  <2>2. Executing = None /\ Executing' = None
    <3>1. \A t \in Sessions : pc[t] \in ExecutingPCs <=> pc'[t] \in ExecutingPCs
      BY <1>2 DEF IInv, TInv, TypeOK, CommitReview, Goto, ExecutingPCs
    <3> QED BY <1>2, <1>9, <3>1, ExecutingStays DEF CommitReview, ExecutingMeans
  <2>3. Endorsed(r, Decide(r, approval)) = Endorsed(r, approval)
    <3>1. approval \in Approvals /\ Decide(r, approval) \in Approvals
      BY <2>1, DecideType DEF IInv, TInv, TypeOK
    <3>2. r.op = "approve" => FinalPayload(Decide(r, approval)) = FinalPayload(approval)
      BY <2>1, <3>1, DecideType DEF Approvals, FinalPayload
    <3> QED BY <2>1, <3>1, <3>2, DecideType, EndorsedType
  <2>4. Lifecycle!ReviewDecision(r)
    BY <2>1, <2>2, <2>3 DEF Lifecycle!ReviewDecision, ReviewedTool, Accepts, Decide,
       Endorsed, Lifecycle!Accepts, Lifecycle!Decide, Lifecycle!Endorsed,
       FinalPayload, Lifecycle!FinalPayload, Approvable, Lifecycle!Approvable,
       Rejectable, Lifecycle!Rejectable
  <2> QED BY <2>1, <2>4 DEF Lifecycle!LifecycleNext, ReviewRequests,
                             Lifecycle!ReviewRequests
<1>3. ASSUME NEW s \in Sessions, SelectForUpdate(s) PROVE Step
  <2>1. GetForUpdate(s) = seen[s] /\ seen[s].status \in Executable
    BY <1>3, ApprovalDataAssumption
       DEF IInv, TInv, SessionsLoaded, CopiesPermitted, SelectForUpdate, GetForUpdate
  <2>2. pc' = [pc EXCEPT ![s] = "locked"] /\ pc[s] = "selecting"
    BY <1>3, <2>1 DEF SelectForUpdate, Goto
  <2>3. Executing = None /\ Executing' = s
    BY <1>3, <1>9, <2>2
       DEF SelectForUpdate, CanLockRow, ExecutingPCs, IInv, TInv, TypeOK,
           ExecutingMeans
  <2>4. endorsed # {}
    BY <1>3 DEF IInv, CopiesPermitted, Permitted, SelectForUpdate
  <2>5. ~Lifecycle!HasRun(s)
    BY <2>2 DEF IInv, ResultsEarned, Lifecycle!HasRun
  <2>6. Lifecycle!BeginExecution(s)
    BY <1>3, <2>3, <2>4, <2>5
       DEF SelectForUpdate, rowVars, historyVars, Lifecycle!BeginExecution
  <2> QED BY <2>6 DEF Lifecycle!LifecycleNext
<1>4. ASSUME NEW s \in Sessions, ToolCompletes(s) \/ ToolFails(s) PROVE Step
  <2>1. /\ pc[s] = "started" /\ pc' = [pc EXCEPT ![s] = "ran"]
        /\ effects' \in {effects, effects \cup {Invoked(s)}}
        /\ UNCHANGED <<approval, toolCall, endorsed>>
    BY <1>4 DEF ToolCompletes, ToolFails, Goto, rowVars
  <2>2. Executing = s /\ Executing' = Executing
    <3>1. \A t \in Sessions : pc[t] \in ExecutingPCs <=> pc'[t] \in ExecutingPCs
      BY <2>1 DEF IInv, TInv, TypeOK, ExecutingPCs
    <3> QED BY <1>9, <2>1, <3>1, ExecutingStays DEF ExecutingPCs, ExecutingMeans
  <2>3. CASE effects' = effects
    BY <1>0, <2>1, <2>2, <2>3
  <2>4. CASE effects' = effects \cup {Invoked(s)}
    <3>1. ~Lifecycle!HasRun(s)
      BY <2>1 DEF IInv, ResultsEarned, Lifecycle!HasRun
    <3>2. /\ FinalPayload(seen[s]) \in Payloads
          /\ Lifecycle!Permitted(FinalPayload(seen[s]))
      BY <2>1, FinalPayloadType
         DEF IInv, TInv, SessionsLoaded, ExecutingPCs, CopiesPermitted, Permitted,
             Lifecycle!Permitted
    <3>3. Lifecycle!Invoke(s)
      BY <2>1, <2>2, <2>4, <3>1, <3>2 DEF Lifecycle!Invoke, Invoked,
                                              Payloads, Lifecycle!Payloads
    <3> QED BY <3>3 DEF Lifecycle!LifecycleNext
  <2> QED BY <2>1, <2>3, <2>4
<1>5. ASSUME NEW s \in Sessions, CommitExecution(s) PROVE Step
  <2>1. /\ pc[s] = "committing" /\ pc' = [pc EXCEPT ![s] = "done"]
        /\ approval' = [approval EXCEPT !.status = seen[s].status]
        /\ toolCall' = tool[s] /\ UNCHANGED <<endorsed, effects>>
    BY <1>5 DEF CommitExecution, Goto, WrittenApproval, historyVars
  <2>2. Executing = s /\ Executing' = None
    <3>1. Executing = s
      BY <1>9, <2>1 DEF ExecutingPCs, ExecutingMeans
    <3>2. rowLock' = None
      BY <1>5, <2>1 DEF CommitExecution, UnlockRow, IInv, RowLockHeld, LockedPCs,
                        ExecutingPCs
    <3> QED BY <1>9, <3>1, <3>2 DEF ExecutingMeans
  <2>3. /\ seen[s].status \in {"executed", "failed"}
        /\ seen[s].status = "executed" => tool[s] = "completed"
        /\ tool[s] \in {"running", "failed", "completed"}
        /\ tool[s] = "completed" => Lifecycle!HasRun(s)
    BY <2>1 DEF IInv, ResultsEarned, Lifecycle!HasRun
  <2>4. Lifecycle!Conclude(s)
    BY <2>1, <2>2, <2>3 DEF Lifecycle!Conclude
  <2> QED BY <2>4 DEF Lifecycle!LifecycleNext
<1>6. ASSUME NEW s \in Sessions, SessionFails(s) PROVE Step
  <2>1. UNCHANGED <<approval, toolCall, endorsed, effects>>
        /\ pc' = [pc EXCEPT ![s] = "done"]
    BY <1>6 DEF SessionFails, Goto, rowVars, historyVars
  <2>2. CASE pc[s] \in ExecutingPCs
    <3>1. Executing = s
      BY <1>9, <2>2 DEF ExecutingMeans
    <3>2. rowLock' = None
      BY <1>6, <2>2 DEF SessionFails, UnlockRow, IInv, RowLockHeld, LockedPCs
    <3>3. Lifecycle!Abandon(s)
      BY <1>9, <2>1, <3>1, <3>2 DEF Lifecycle!Abandon, ExecutingMeans
    <3> QED BY <3>3 DEF Lifecycle!LifecycleNext
  <2>3. CASE pc[s] \notin ExecutingPCs
    <3>1. \A t \in Sessions : pc[t] \in ExecutingPCs <=> pc'[t] \in ExecutingPCs
      BY <2>1, <2>3 DEF IInv, TInv, TypeOK, ExecutingPCs
    <3> QED BY <1>0, <2>1, <3>1, ExecutingStays
  <2> QED BY <2>2, <2>3
<1>7. CASE Crash
  <2>1. UNCHANGED <<approval, toolCall, endorsed, effects>> /\ rowLock' = None
    BY <1>7 DEF Crash, rowVars, historyVars
  <2>2. Executing' = None
    BY <1>9, <2>1 DEF ExecutingMeans
  <2>3. CASE Executing = None
    BY <1>0, <2>1, <2>2, <2>3
  <2>4. CASE Executing # None
    <3>1. Executing \in Sessions
      BY <1>9, <2>4 DEF ExecutingMeans
    <3>2. Lifecycle!Abandon(Executing)
      BY <2>1, <2>2 DEF Lifecycle!Abandon
    <3> QED BY <3>1, <3>2 DEF Lifecycle!LifecycleNext
  <2> QED BY <2>3, <2>4
<1>8. CASE LockExpires \/ UNCHANGED vars
  BY <1>0, <1>8 DEF LockExpires, vars, rowVars, historyVars, Executing
<1> QED
  BY <1>1, <1>2, <1>3, <1>4, <1>5, <1>6, <1>7, <1>8
  DEF Next, ReviewStep, ExecuteStep

\* The endpoints, the service, the executor and their locks implement the
\* promise of ApprovalLifecycle.
THEOREM Refinement == Spec => ImplementsLifecycle
<1>1. Init => Lifecycle!LifecycleInit
  BY RefineInit
<1>2. IInv /\ IInv' /\ [Next]_vars
        => [Lifecycle!LifecycleNext]_(Lifecycle!lifecycleVars)
  BY RefineNext
<1> QED
  BY <1>1, <1>2, Invariance, PTL
  DEF Spec, ImplementsLifecycle, Lifecycle!LifecycleSpec
=============================================================================
