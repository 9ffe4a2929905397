-------------------------- MODULE ApprovalExecution --------------------------
(***************************************************************************)
(* One approval request and the HTTP requests that review and execute it   *)
(* concurrently: app/api/approvals.py, ApprovalService, and                *)
(* ToolExecutor.execute_approved, over PostgreSQL (READ COMMITTED), a      *)
(* SQLAlchemy session per request and the Redis lock.                      *)
(*                                                                         *)
(* What a session has flushed is visible to nobody until it commits, so    *)
(* the model keeps the committed rows (approval, toolCall) apart from the  *)
(* objects in each session's identity map (seen, tool).  SELECT ... FOR    *)
(* UPDATE waits for the row lock, but does not overwrite the attributes of *)
(* an object the session has already loaded: get_for_update does not ask   *)
(* for populate_existing.                                                  *)
(***************************************************************************)
EXTENDS ApprovalData, Naturals

CONSTANTS Sessions,  \* HTTP requests, each with its own database session
          MaxPolls,  \* SET NX polls before RedisLockError
          Faults     \* the kinds of failure that may happen

FaultKinds == {"crash", "database", "audit", "tool", "redis"}

ASSUME ApprovalExecutionAssumption ==
  /\ None \notin Sessions
  /\ MaxPolls \in Nat
  /\ Faults \subseteq FaultKinds

VARIABLES
  approval,  \* committed columns of the approval_requests row
  toolCall,  \* committed status of its tool_calls row
  rowLock,   \* the session holding the row lock of the approval, or None
  pc,        \* where each session is
  request,   \* the request each session serves, None before it arrives
  seen,      \* the approval object in the session's identity map, or None
  tool,      \* the status of its tool call object, None before it is loaded
  effects,   \* history: handler invocations, [session, payload]
  endorsed,  \* history: payloads that a committed review agreed to
  key, phase, polls, expired   \* the Redis lock

rowVars     == <<approval, toolCall>>
sessionVars == <<seen, tool>>
lockVars    == <<key, phase, polls, expired>>
historyVars == <<effects, endorsed>>
vars == <<approval, toolCall, rowLock, pc, request, seen, tool, effects,
          endorsed, key, phase, polls, expired>>

\* The lock named approval-execution:{approval_id}.
Lock == INSTANCE RedisLock WITH Clients <- Sessions, NoClient <- None

\* A session that holds the row lock is at one of these.
ReviewingPCs == {"reviewed"}
ExecutingPCs == {"locked", "started", "ran", "exiting", "committing"}
LockedPCs    == ReviewingPCs \cup ExecutingPCs

PCs == {"idle", "acquiring", "selecting", "done"} \cup LockedPCs

TypeOK ==
  /\ approval \in Approvals
  /\ toolCall \in ToolStatuses
  /\ rowLock \in Sessions \cup {None}
  /\ pc \in [Sessions -> PCs]
  /\ request \in [Sessions -> Requests \cup {None}]
  /\ seen \in [Sessions -> Approvals \cup {None}]
  /\ tool \in [Sessions -> ToolStatuses \cup {None}]
  /\ effects \subseteq [session : Sessions, payload : Payloads]
  /\ endorsed \subseteq Payloads
  /\ Lock!LockTypeOK

Init ==
  /\ approval = NewApproval
  /\ toolCall = "waiting_for_approval"
  /\ rowLock = None
  /\ pc = [s \in Sessions |-> "idle"]
  /\ request = [s \in Sessions |-> None]
  /\ seen = [s \in Sessions |-> None]
  /\ tool = [s \in Sessions |-> None]
  /\ effects = {}
  /\ endorsed = {}
  /\ Lock!LockInit

Goto(s, place) == pc' = [pc EXCEPT ![s] = place]

\* The approval that session s works on after SELECT ... FOR UPDATE: the
\* object it loaded before the lock if there is one, the locked row otherwise.
GetForUpdate(s) == IF seen[s] = None THEN approval ELSE seen[s]

\* Mutant: SELECT without FOR UPDATE.
NeverWaits == TRUE

\* FOR UPDATE waits until no other transaction holds the row.
CanLockRow == rowLock = None

\* Mutant: the transaction is left open.
KeepRowLocked(s) == UNCHANGED rowLock

\* Commit and rollback both end the transaction and its row lock.
UnlockRow(s) == rowLock' = IF rowLock = s THEN None ELSE rowLock

\* Mutant: reject() leaves its tool call alone.
ToolUntouched(r) == toolCall

\* The status of the tool call once the decision r is flushed: reject() denies
\* it, approve() leaves it alone.
ReviewedTool(r) == IF r.op = "reject" THEN "denied" ELSE toolCall

-----------------------------------------------------------------------------
(* POST /approve, /reject, /edit: the first read is the locking one.       *)

\* get_for_update returns, the status admits the decision, and approve() or
\* reject() assigns the columns and flushes.
Review(s) ==
  /\ pc[s] = "idle"
  /\ CanLockRow
  /\ \E r \in ReviewRequests :
       /\ Accepts(r, GetForUpdate(s).status)
       /\ request' = [request EXCEPT ![s] = r]
       /\ seen' = [seen EXCEPT ![s] = Decide(r, GetForUpdate(s))]
       /\ tool' = [tool EXCEPT ![s] = ReviewedTool(r)]
  /\ rowLock' = s
  /\ Goto(s, "reviewed")
  /\ UNCHANGED <<approval, toolCall, historyVars, lockVars>>

\* ApprovalStateError: the session closes without a commit.
ReviewRefused(s) ==
  /\ pc[s] = "idle"
  /\ CanLockRow
  /\ \E r \in ReviewRequests :
       /\ ~Accepts(r, GetForUpdate(s).status)
       /\ request' = [request EXCEPT ![s] = r]
  /\ Goto(s, "done")
  /\ UNCHANGED <<rowVars, rowLock, sessionVars, historyVars, lockVars>>

\* refresh_agent_run_summary and session.commit(): the decision is public.
CommitReview(s) ==
  /\ pc[s] = "reviewed"
  /\ approval' = seen[s]
  /\ toolCall' = tool[s]
  /\ endorsed' = endorsed \cup Endorsed(request[s], seen[s])
  /\ UnlockRow(s)
  /\ Goto(s, "done")
  /\ UNCHANGED <<request, sessionVars, effects, lockVars>>

-----------------------------------------------------------------------------
(* POST /execute.                                                          *)

\* The endpoint loads the approval without a lock, into the session that
\* execute_approved will use, and refuses a status that is not executable.
PreRead(s) ==
  /\ pc[s] = "idle"
  /\ approval.status \in Executable
  /\ request' = [request EXCEPT ![s] = ExecuteRequest]
  /\ seen' = [seen EXCEPT ![s] = approval]
  /\ Goto(s, "acquiring")
  /\ Lock!BeginAcquire(s)
  /\ UNCHANGED <<rowVars, rowLock, tool, historyVars>>

PreReadRefused(s) ==
  /\ pc[s] = "idle"
  /\ approval.status \notin Executable
  /\ request' = [request EXCEPT ![s] = ExecuteRequest]
  /\ seen' = [seen EXCEPT ![s] = approval]
  /\ Goto(s, "done")
  /\ UNCHANGED <<rowVars, rowLock, tool, historyVars, lockVars>>

AcquireLock(s) ==
  /\ pc[s] = "acquiring"
  /\ Lock!Acquire(s)
  /\ Goto(s, "selecting")
  /\ UNCHANGED <<rowVars, rowLock, request, sessionVars, historyVars>>

WaitForLock(s) ==
  /\ pc[s] = "acquiring"
  /\ Lock!PollAgain(s)
  /\ UNCHANGED <<rowVars, rowLock, pc, request, sessionVars, historyVars>>

\* RedisLockError, or a Redis that does not answer: the endpoint's handler
\* commits a transaction that has not touched the approval, and answers 400.
AcquireFails(s) ==
  /\ pc[s] = "acquiring"
  /\ \/ Lock!AcquireTimeout(s)
     \/ "redis" \in Faults /\ Lock!AcquireUnavailable(s)
  /\ Goto(s, "done")
  /\ UNCHANGED <<rowVars, rowLock, request, sessionVars, historyVars>>

\* get_for_update inside the lock, and the re-check of the status.  The tool
\* call is loaded here for the first time, so it is the committed one.
SelectForUpdate(s) ==
  /\ pc[s] = "selecting"
  /\ CanLockRow
  /\ rowLock' = s
  /\ seen' = [seen EXCEPT ![s] = GetForUpdate(s)]
  /\ tool' = [tool EXCEPT ![s] = toolCall]
  /\ Goto(s, IF GetForUpdate(s).status \in Executable
               THEN "locked" ELSE "exiting")
  /\ UNCHANGED <<rowVars, request, historyVars, lockVars>>

\* The tool call is flushed as running and tool_call.started is audited.  That
\* audit (whose event goes to Redis) is outside the try of _execute_tool_call:
\* when it fails, mark_failed runs with the tool call still running.
StartTool(s) ==
  /\ pc[s] = "locked"
  /\ tool' = [tool EXCEPT ![s] = "running"]
  /\ \/ /\ Goto(s, "started")
        /\ UNCHANGED seen
     \/ /\ "audit" \in Faults
        /\ seen' = [seen EXCEPT ![s].status = "failed"]
        /\ Goto(s, "exiting")
  /\ UNCHANGED <<rowVars, rowLock, request, historyVars, lockVars>>

Invoked(s) == [session |-> s, payload |-> FinalPayload(seen[s])]

\* The handler runs on the final payload and the result is recorded.
ToolCompletes(s) ==
  /\ pc[s] = "started"
  /\ effects' = effects \cup {Invoked(s)}
  /\ tool' = [tool EXCEPT ![s] = "completed"]
  /\ Goto(s, "ran")
  /\ UNCHANGED <<rowVars, rowLock, request, seen, endorsed, lockVars>>

\* The input is invalid, the handler raises or times out, before or after it
\* acted, or the audit of its success fails: all end as a failed tool call.
ToolFails(s) ==
  /\ pc[s] = "started"
  /\ \/ "tool" \in Faults /\ effects' \in {effects, effects \cup {Invoked(s)}}
     \/ "audit" \in Faults /\ effects' = effects \cup {Invoked(s)}
  /\ tool' = [tool EXCEPT ![s] = "failed"]
  /\ Goto(s, "ran")
  /\ UNCHANGED <<rowVars, rowLock, request, seen, endorsed, lockVars>>

\* Mutant: the result's status is not looked at.
MarkExecutedAlways(s) ==
  /\ pc[s] = "ran"
  /\ seen' = [seen EXCEPT ![s].status = "executed"]
  /\ Goto(s, "exiting")
  /\ UNCHANGED <<rowVars, rowLock, request, tool, historyVars, lockVars>>

\* mark_executed or mark_failed; an audit failure of mark_executed is caught
\* by execute_approved, which calls mark_failed on the same object.
MarkResult(s) ==
  /\ pc[s] = "ran"
  /\ \/ /\ tool[s] = "completed"
        /\ seen' = [seen EXCEPT ![s].status = "executed"]
     \/ /\ tool[s] = "completed" => "audit" \in Faults
        /\ seen' = [seen EXCEPT ![s].status = "failed"]
  /\ Goto(s, "exiting")
  /\ UNCHANGED <<rowVars, rowLock, request, tool, historyVars, lockVars>>

\* Leaving `async with RedisLock`, before the endpoint commits.
ReleaseLock(s) ==
  /\ pc[s] = "exiting"
  /\ \/ Lock!Release(s)
     \/ "redis" \in Faults /\ Lock!ReleaseUnavailable(s)
  /\ Goto(s, "committing")
  /\ UNCHANGED <<rowVars, rowLock, request, sessionVars, historyVars>>

\* refresh_agent_run_summary and commit.  The UPDATE of the approval names the
\* changed columns only: the status, never edited_payload.
WrittenApproval(s) == [approval EXCEPT !.status = seen[s].status]

CommitExecution(s) ==
  /\ pc[s] = "committing"
  /\ approval' = WrittenApproval(s)
  /\ toolCall' = tool[s]
  /\ UnlockRow(s)
  /\ Goto(s, "done")
  /\ UNCHANGED <<request, sessionVars, historyVars, lockVars>>

-----------------------------------------------------------------------------
(* Failures.                                                               *)

Active(s) == pc[s] \notin {"idle", "done"}

\* A statement of the session fails (or a reviewer's audit does): everything
\* it flushed is rolled back, and an open `async with` releases the lock.
SessionFails(s) ==
  /\ \/ "database" \in Faults /\ Active(s)
     \/ "audit" \in Faults /\ pc[s] = "reviewed"
  /\ pc[s] # "acquiring"
  /\ UnlockRow(s)
  /\ IF phase[s] = "held" THEN Lock!Release(s) ELSE UNCHANGED lockVars
  /\ Goto(s, "done")
  /\ UNCHANGED <<rowVars, request, sessionVars, historyVars>>

\* The process dies: PostgreSQL rolls back, the Redis key stays, and what the
\* handlers did outside the database is done.
Crash ==
  /\ "crash" \in Faults
  /\ \E s \in Sessions : Active(s)
  /\ rowLock' = None
  /\ pc' = [s \in Sessions |-> IF Active(s) THEN "done" ELSE pc[s]]
  /\ Lock!CrashClients(Sessions)
  /\ UNCHANGED <<rowVars, request, sessionVars, historyVars>>

LockExpires ==
  /\ Lock!Expire
  /\ UNCHANGED <<rowVars, rowLock, pc, request, sessionVars, historyVars>>

-----------------------------------------------------------------------------
ReviewStep(s) == Review(s) \/ ReviewRefused(s) \/ CommitReview(s)

ExecuteStep(s) ==
  \/ PreRead(s)
  \/ PreReadRefused(s)
  \/ AcquireLock(s)
  \/ WaitForLock(s)
  \/ AcquireFails(s)
  \/ SelectForUpdate(s)
  \/ StartTool(s)
  \/ ToolCompletes(s)
  \/ ToolFails(s)
  \/ MarkResult(s)
  \/ ReleaseLock(s)
  \/ CommitExecution(s)

Next ==
  \/ \E s \in Sessions : ReviewStep(s) \/ ExecuteStep(s) \/ SessionFails(s)
  \/ Crash
  \/ LockExpires

\* A request that has arrived is driven to its answer by the event loop.  No
\* fairness makes a request arrive, and none is needed for the failures.
Progress(s) ==
  \/ CommitReview(s)
  \/ AcquireLock(s)
  \/ WaitForLock(s)
  \/ AcquireFails(s)
  \/ SelectForUpdate(s)
  \/ StartTool(s)
  \/ ToolCompletes(s)
  \/ MarkResult(s)
  \/ ReleaseLock(s)
  \/ CommitExecution(s)

Spec == Init /\ [][Next]_vars

FairSpec ==
  Spec /\ (\A s \in Sessions : WF_vars(Progress(s))) /\ WF_vars(LockExpires)

-----------------------------------------------------------------------------
\* No two sessions are between their SELECT ... FOR UPDATE and their commit
\* together, even after the Redis lock expired under one of them: the row lock,
\* not the Redis lock, is what serialises executions and reviews.
SerialExecution ==
  \A s, t \in Sessions :
    pc[s] \in LockedPCs /\ pc[t] \in LockedPCs => s = t

Permitted(p) ==
  \/ p \in endorsed
  \/ p = Proposed /\ EmptyPayload \in endorsed

\* The tool never runs on a payload no reviewer agreed to in a committed
\* review, whatever the session had read before the lock; the one exception is
\* the agent's own proposal after a reviewer sent an empty edit.
EffectsPermitted == \A e \in effects : Permitted(e.payload)

\* The approval row and its tool call row, written by different functions in
\* one transaction, tell the same story after every commit and every crash.
RowsAgree ==
  /\ approval.status \in Approvable \cup Executable
       => toolCall = "waiting_for_approval"
  /\ approval.status = "rejected" => toolCall = "denied"
  /\ approval.status = "executed" => toolCall = "completed"
  /\ approval.status = "failed" => toolCall \in {"running", "failed", "completed"}
  /\ toolCall = "completed" => effects # {}

\* Once a request is decided for good it never goes back to the reviewers, and
\* the edited payload a reviewer left is frozen: a session that still holds an
\* older edited_payload does not write it back.
DecisionsStand ==
  [][approval.status \in Terminal
       => /\ approval'.status \in Terminal
          /\ approval'.edited = approval.edited]_approval

\* The code keeps the promises of ApprovalLifecycle.
Executing ==
  IF rowLock # None /\ pc[rowLock] \in ExecutingPCs THEN rowLock ELSE None

Lifecycle == INSTANCE ApprovalLifecycle
               WITH Executions <- Sessions, executing <- Executing

ImplementsLifecycle == Lifecycle!LifecycleSpec

\* Every request that arrived is answered: no interleaving of the Redis lock,
\* the row lock, a crash of their owners or a timeout leaves it waiting.
RequestsAnswered == \A s \in Sessions : Active(s) ~> ~Active(s)

-----------------------------------------------------------------------------
(* What the documentation says of this code and the code does not do.      *)

\* "an approved sensitive action [does not execute] twice under concurrent
\* requests" (docs/ARCHITECTURE.md): one approval, one tool invocation.
ExecutedAtMostOnce == \A e, f \in effects : e = f
=============================================================================
