------------------------------ MODULE AgentRun ------------------------------
(***************************************************************************)
(* The status of one support-agent run and of its ticket, and everybody who*)
(* writes them: the background task of app/api/agent_runs.py, the approval *)
(* endpoints (each refreshes the run before it commits), cancel, and the   *)
(* GETs that give up on a stale run.                                       *)
(*                                                                         *)
(* refresh_agent_run_summary takes no lock when it reads the run and its   *)
(* children; its UPDATE writes the columns that differ from what it read.  *)
(* So reading (Refresh) and writing (Commit) are separate steps, and a     *)
(* transaction sees its own approval and the others' committed ones.       *)
(***************************************************************************)
EXTENDS Naturals

CONSTANTS Approvals,  \* the approval requests the run may create
          Sessions,   \* HTTP requests on those approvals
          Getters,    \* HTTP requests that read the run
          Nothing     \* "not loaded", "no target"

ASSUME AgentRunAssumption == Nothing \notin Approvals \cup Sessions \cup Getters

VARIABLES
  run,       \* committed agent_runs.status
  stale,     \* updated_at is more than STALE_RUN_AFTER ago
  ticket,    \* committed tickets.status
  approval,  \* committed status of each approval, "absent" before creation
  call,      \* committed status of each approval's tool call
  safe,      \* committed outcome of the safe tool calls, in one value
  early,     \* history: the approvals that execute_safe_tools asked for
  task,      \* where the background task is
  taskSeen,  \* the run status the asking or finishing task has loaded
  requested, \* whether the graph's result lists an approval request
  sess,      \* where each approval session is
  target,    \* its approval
  own,       \* its identity map's approval and tool call, [approval, call]
  loaded,    \* what its refresh read and derived
  getter,    \* whether each GET has seen a stale run
  meddled,   \* history: who else set the status, "cancel" or a stale "get"
  overlapped \* history: a commit outdated what an open transaction had read

childVars   == <<approval, call, safe>>
sessionVars == <<sess, target, own, loaded>>
taskVars    == <<early, task, taskSeen, requested>>
vars == <<run, stale, ticket, approval, call, safe, early, task, taskSeen,
          requested, sess, target, own, loaded, getter, meddled, overlapped>>

RunStatuses == {"queued", "running", "waiting_for_approval", "completed",
                "failed", "cancelled"}
TicketStatuses == {"new", "triaged", "in_progress", "waiting_for_approval",
                   "resolved"}
ApprovalStatuses == {"absent", "pending_review", "approved", "edited",
                     "rejected", "executed", "failed"}
CallStatuses == {"absent", "waiting_for_approval", "running", "completed",
                 "failed", "denied"}
SafeOutcomes == {"none", "completed", "delivered", "failed", "running"}
TaskPCs == {"queued", "started", "acted", "asking", "asked", "finishing",
            "done", "raised", "lost"}

\* WAITING_APPROVAL_STATUSES without "proposed", which nothing sets.
WaitingStatuses == {"pending_review", "approved", "edited"}

TypeOK ==
  /\ run \in RunStatuses
  /\ stale \in BOOLEAN
  /\ ticket \in TicketStatuses
  /\ approval \in [Approvals -> ApprovalStatuses]
  /\ call \in [Approvals -> CallStatuses]
  /\ safe \in SafeOutcomes
  /\ early \subseteq Approvals
  /\ task \in TaskPCs
  /\ taskSeen \in RunStatuses \cup {Nothing}
  /\ requested \in BOOLEAN
  /\ sess \in [Sessions -> {"idle", "preread", "decided", "refreshed", "done"}]
  /\ target \in [Sessions -> Approvals \cup {Nothing}]
  /\ own \in [Sessions -> [approval : ApprovalStatuses, call : CallStatuses]
                            \cup {Nothing}]
  /\ loaded \in [Sessions -> [run : RunStatuses, derived : RunStatuses,
                              ticket : TicketStatuses, synced : TicketStatuses,
                              holdsRow : BOOLEAN] \cup {Nothing}]
  /\ getter \in [Getters -> {"idle", "sawStale"}]
  /\ meddled \subseteq {"cancel", "get"}
  /\ overlapped \in BOOLEAN

\* create_support_run has committed the queued run and scheduled the task.
Init ==
  /\ run = "queued"
  /\ stale = FALSE
  /\ ticket = "new"
  /\ approval = [a \in Approvals |-> "absent"]
  /\ call = [a \in Approvals |-> "absent"]
  /\ safe = "none"
  /\ early = {}
  /\ task = "queued"
  /\ taskSeen = Nothing
  /\ requested = FALSE
  /\ sess = [s \in Sessions |-> "idle"]
  /\ target = [s \in Sessions |-> Nothing]
  /\ own = [s \in Sessions |-> Nothing]
  /\ loaded = [s \in Sessions |-> Nothing]
  /\ getter = [g \in Getters |-> "idle"]
  /\ meddled = {}
  /\ overlapped = FALSE

-----------------------------------------------------------------------------
(* app/services/agent_run_summary.py                                       *)

\* Mutant: an edited approval is taken for decided.
AnyWaitingButEdited(ap) ==
  \E a \in Approvals : ap[a] \in WaitingStatuses \ {"edited"}

\* Some approval still needs a reviewer or an execution.
AnyWaiting(ap) == \E a \in Approvals : ap[a] \in WaitingStatuses

AnyFailed(ap, cl, sf) ==
  sf = "failed" \/ \E a \in Approvals : cl[a] = "failed" \/ ap[a] = "failed"

\* Mutant: finished tool calls are looked at, waiting approvals are not.
DeriveFromCalls(status, ap, cl, sf) ==
  IF status = "cancelled" THEN status
  ELSE IF AnyFailed(ap, cl, sf) THEN "failed" ELSE "completed"

\* derive_agent_run_status, its tests in their order.
Derive(status, ap, cl, sf) ==
  IF status = "cancelled" THEN "cancelled"
  ELSE IF sf = "running" \/ \E a \in Approvals : cl[a] = "running"
    THEN "running"
  ELSE IF AnyWaiting(ap) THEN "waiting_for_approval"
  ELSE IF AnyFailed(ap, cl, sf) THEN "failed"
  ELSE "completed"

\* The deliveries of build_agent_run_output: completed emails, reports, notes.
Delivered(cl, sf) == sf = "delivered" \/ \E a \in Approvals : cl[a] = "completed"

OnlyRejected(ap, cl, sf) ==
  (\E a \in Approvals : ap[a] = "rejected") /\ ~Delivered(cl, sf)

\* Mutant: the ticket copies the run's status when no rule applies.
TicketCopiesRun(status, ap, cl, sf) ==
  CASE status = "completed" -> "resolved"
    [] status = "cancelled" -> "triaged"
    [] OTHER -> status

\* ticket_status_for_run.
TicketFor(status, ap, cl, sf) ==
  CASE status = "waiting_for_approval" -> "waiting_for_approval"
    [] status = "completed" ->
         IF OnlyRejected(ap, cl, sf) THEN "in_progress" ELSE "resolved"
    [] status = "cancelled" -> "triaged"
    [] OTHER -> "in_progress"

\* An UPDATE names only the columns whose value differs from the loaded one.
Write(current, read, new) == IF new = read THEN current ELSE new

\* The open transactions whose reads a commit on the run and on approval a
\* outdates.  The task's tag is Nothing.
Readers(a) ==
  {t \in Sessions : \/ sess[t] = "refreshed"
                    \/ sess[t] = "preread" /\ target[t] = a}
    \cup {g \in Getters : getter[g] = "sawStale"}
    \cup (IF task \in {"asking", "finishing"} THEN {Nothing} ELSE {})

\* The sessions in S end, and their identity maps with them.
Close(S) ==
  /\ sess' = [s \in Sessions |-> IF s \in S THEN "done" ELSE sess[s]]
  /\ target' = [s \in Sessions |-> IF s \in S THEN Nothing ELSE target[s]]
  /\ own' = [s \in Sessions |-> IF s \in S THEN Nothing ELSE own[s]]
  /\ loaded' = [s \in Sessions |-> IF s \in S THEN Nothing ELSE loaded[s]]

\* Every commit on the run, by me and on approval a, notes whom it outdates.
NoteOverlap(me, a) == overlapped' = (overlapped \/ Readers(a) \ {me} # {})

-----------------------------------------------------------------------------
(* The background task: _run_support_agent and the graph it runs.          *)

taskUnchanged == UNCHANGED <<sessionVars, getter, meddled>>

\* _mark_run_running: whatever the status is by now, it becomes running.
MarkRunning ==
  /\ task = "queued"
  /\ task' = "started"
  /\ run' = "running"
  /\ ticket' = "in_progress"
  /\ stale' = FALSE
  /\ NoteOverlap(Nothing, Nothing)
  /\ UNCHANGED <<childVars, early, taskSeen, requested>> /\ taskUnchanged

\* What `safe` may be after some more calls of safe tools.  One whose audit of
\* tool_call.started failed is committed as running.
SafeAfter(sf) ==
  CASE sf = "none" -> SafeOutcomes
    [] sf = "completed" -> SafeOutcomes \ {"none"}
    [] sf = "delivered" -> {"delivered", "failed", "running"}
    [] sf = "failed" -> {"failed", "running"}
    [] sf = "running" -> {"running"}

\* ToolExecutor.execute, once per action of a node, which commits them together.
\* It asks the policy again: the actions that become the approvals A wait for a
\* reviewer, others are executed, whatever the gate had made of them.
ExecuteActions(A) ==
  /\ \A a \in A : approval[a] = "absent"
  /\ approval' = [a \in Approvals |->
                    IF a \in A THEN "pending_review" ELSE approval[a]]
  /\ call' = [a \in Approvals |->
                IF a \in A THEN "waiting_for_approval" ELSE call[a]]
  /\ safe' \in SafeAfter(safe)
  /\ stale' = (A = {} /\ stale)
  /\ NoteOverlap(Nothing, Nothing)
  /\ UNCHANGED ticket /\ taskUnchanged

\* The node execute_safe_tools.  create_request sets the run to waiting whatever
\* it was.
ExecuteSafeTools(A) ==
  /\ task = "started"
  /\ task' = "acted"
  /\ ExecuteActions(A)
  /\ run' = IF A = {} THEN run ELSE "waiting_for_approval"
  /\ early' = A
  /\ UNCHANGED <<taskSeen, requested>>

\* The node create_approval_requests: its first create_request loads the run.
LoadRunToAsk ==
  /\ task = "acted"
  /\ task' = "asking"
  /\ taskSeen' = run
  /\ UNCHANGED <<run, stale, ticket, childVars, early, requested, overlapped>>
  /\ taskUnchanged

\* The rest of it.  A run that it has loaded as waiting is not written.  An
\* approval whose audit failed is committed but missing from the result.
CreateApprovals(A) ==
  /\ task = IF A = {} THEN "acted" ELSE "asking"
  /\ task' = "asked"
  /\ ExecuteActions(A)
  /\ run' = IF A = {} THEN run ELSE Write(run, taskSeen, "waiting_for_approval")
  /\ taskSeen' = Nothing
  /\ requested' \in IF A = {} THEN {FALSE} ELSE BOOLEAN
  /\ UNCHANGED early

LoadRunToFinish ==
  /\ task = "asked"
  /\ task' = "finishing"
  /\ taskSeen' = run
  /\ UNCHANGED <<run, stale, ticket, childVars, early, requested, overlapped>>
  /\ taskUnchanged

\* The status the graph's result asks for, before the refresh.
GraphStatus == IF requested THEN "waiting_for_approval" ELSE "completed"

\* The flush of that status takes the run's row lock, so the children that the
\* refresh then reads cannot change before the commit: no approval transaction
\* commits without updating the run.
FinishRun ==
  /\ task = "finishing"
  /\ task' = "done"
  /\ LET status == Derive(GraphStatus, approval, call, safe)
     IN /\ run' = IF {GraphStatus, status} = {taskSeen} THEN run ELSE status
        /\ ticket' = TicketFor(status, approval, call, safe)
  /\ stale' = FALSE
  /\ taskSeen' = Nothing /\ requested' = FALSE
  /\ NoteOverlap(Nothing, Nothing)
  /\ UNCHANGED <<childVars, early>> /\ taskUnchanged

\* Any exception after _mark_run_running: the handler of _run_support_agent.
TaskRaises ==
  /\ task \in {"started", "acted", "asking", "asked", "finishing"}
  /\ task' = "raised"
  /\ run' = "failed"
  /\ ticket' = "in_progress"
  /\ stale' = FALSE
  /\ taskSeen' = Nothing /\ requested' = FALSE
  /\ NoteOverlap(Nothing, Nothing)
  /\ UNCHANGED <<childVars, early>> /\ taskUnchanged

\* The process restarts: the task and the open transactions are gone.
Restart ==
  /\ task \notin {"done", "raised", "lost"}
  /\ task' = "lost"
  /\ taskSeen' = Nothing /\ requested' = FALSE
  /\ Close({s \in Sessions : sess[s] # "idle"})
  /\ getter' = [g \in Getters |-> "idle"]
  /\ UNCHANGED <<run, stale, ticket, childVars, early, meddled, overlapped>>

-----------------------------------------------------------------------------
(* The approval endpoints.  The approval's row lock is held from "decided"  *)
(* until the commit.                                                        *)

RowFree(a) ==
  \A t \in Sessions :
    ~(/\ target[t] = a
      /\ \/ sess[t] = "decided"
         \/ sess[t] = "refreshed" /\ loaded[t].holdsRow)

sessionUnchanged ==
  UNCHANGED <<run, stale, ticket, childVars, taskVars, getter, meddled>>

\* approve, edit or reject.
Review(s, a) ==
  /\ sess[s] = "idle"
  /\ RowFree(a)
  /\ \/ /\ approval[a] \in {"pending_review", "edited"}
        /\ \E st \in {"approved", "edited"} :
             own' = [own EXCEPT ![s] = [approval |-> st, call |-> call[a]]]
     \/ /\ approval[a] \in WaitingStatuses
        /\ own' = [own EXCEPT ![s] = [approval |-> "rejected", call |-> "denied"]]
  /\ sess' = [sess EXCEPT ![s] = "decided"]
  /\ target' = [target EXCEPT ![s] = a]
  /\ UNCHANGED <<loaded, overlapped>> /\ sessionUnchanged

\* The execute endpoint loads the approval without a lock.
PreRead(s, a) ==
  /\ sess[s] = "idle"
  /\ approval[a] \in {"approved", "edited"}
  /\ sess' = [sess EXCEPT ![s] = "preread"]
  /\ target' = [target EXCEPT ![s] = a]
  /\ own' = [own EXCEPT ![s] = [approval |-> approval[a], call |-> call[a]]]
  /\ UNCHANGED <<loaded, overlapped>> /\ sessionUnchanged

\* The results of an execution that the endpoint goes on to commit.
Results ==
  {[approval |-> "executed", call |-> "completed"],
   [approval |-> "failed", call |-> "completed"],
   [approval |-> "failed", call |-> "failed"],
   [approval |-> "failed", call |-> "running"]}

\* execute_approved under the row lock; the status it re-checks is the one it
\* pre-read, so it always goes ahead (module ApprovalExecution).
Execute(s) ==
  /\ sess[s] = "preread"
  /\ RowFree(target[s])
  /\ \E r \in Results : own' = [own EXCEPT ![s] = r]
  /\ sess' = [sess EXCEPT ![s] = "decided"]
  /\ UNCHANGED <<target, loaded, overlapped>> /\ sessionUnchanged

\* Mutant: the decision is not flushed before the children are read.
CommittedApproval(s) == approval

\* The children as session s sees them: its own approval from its identity
\* map, even a stale one; a tool call it has not loaded from the database.
SeenApproval(s) == [approval EXCEPT ![target[s]] = own[s].approval]
SeenCall(s) ==
  IF sess[s] = "decided" THEN [call EXCEPT ![target[s]] = own[s].call] ELSE call

\* refresh_agent_run_summary: read, derive, assign.  A "preread" session gets
\* here when the Redis lock raised: its handler refreshes and commits as well.
Refresh(s) ==
  /\ sess[s] \in {"decided", "preread"}
  /\ LET status == Derive(run, SeenApproval(s), SeenCall(s), safe)
     IN loaded' = [loaded EXCEPT ![s] =
          [run |-> run, derived |-> status, ticket |-> ticket,
           synced |-> TicketFor(status, SeenApproval(s), SeenCall(s), safe),
           holdsRow |-> sess[s] = "decided"]]
  /\ sess' = [sess EXCEPT ![s] = "refreshed"]
  /\ UNCHANGED <<target, own, overlapped>> /\ sessionUnchanged

\* The flush waits for the run's row, then everything is committed.
Commit(s) ==
  /\ sess[s] = "refreshed"
  /\ IF loaded[s].holdsRow
       THEN /\ approval' = [approval EXCEPT ![target[s]] = own[s].approval]
            /\ call' = [call EXCEPT ![target[s]] = own[s].call]
       ELSE UNCHANGED <<approval, call>>
  /\ run' = Write(run, loaded[s].run, loaded[s].derived)
  /\ ticket' = Write(ticket, loaded[s].ticket, loaded[s].synced)
  /\ stale' = FALSE
  /\ NoteOverlap(s, target[s])
  /\ Close({s})
  /\ UNCHANGED <<safe, taskVars, getter, meddled>>

\* A failed statement or audit: the transaction is rolled back.
Rollback(s) ==
  /\ sess[s] \in {"preread", "decided", "refreshed"}
  /\ Close({s})
  /\ UNCHANGED overlapped /\ sessionUnchanged

-----------------------------------------------------------------------------
(* Cancel, and the GETs.                                                    *)

\* cancel_agent_run: unconditional, and the task is not told.
Cancel ==
  /\ "cancel" \notin meddled   \* bound: one cancel per run
  /\ run' = "cancelled"
  /\ meddled' = meddled \cup {"cancel"}
  /\ stale' = FALSE
  /\ NoteOverlap("cancel", Nothing)
  /\ UNCHANGED <<ticket, childVars, taskVars, sessionVars, getter>>

\* STALE_RUN_AFTER passes without a write to the run.
GrowStale ==
  /\ ~stale
  /\ run \in {"queued", "running"}
  /\ stale' = TRUE
  /\ UNCHANGED <<run, ticket, childVars, taskVars, sessionVars, getter,
                 meddled, overlapped>>

\* Mutant: a run whose task never started is not looked at.
FindStaleRunning(g) ==
  /\ getter[g] = "idle" /\ stale /\ run = "running"
  /\ getter' = [getter EXCEPT ![g] = "sawStale"]
  /\ UNCHANGED <<run, stale, ticket, childVars, taskVars, sessionVars,
                 meddled, overlapped>>

\* get_agent_run / list_agent_runs load the run and find it stale.
FindStale(g) ==
  /\ getter[g] = "idle"
  /\ stale /\ run \in {"queued", "running"}
  /\ getter' = [getter EXCEPT ![g] = "sawStale"]
  /\ UNCHANGED <<run, stale, ticket, childVars, taskVars, sessionVars,
                 meddled, overlapped>>

\* _mark_stale_run_failed and the commit of that GET.
FailStale(g) ==
  /\ getter[g] = "sawStale"
  /\ getter' = [getter EXCEPT ![g] = "idle"]
  /\ run' = "failed"
  /\ meddled' = meddled \cup {"get"}
  /\ stale' = FALSE
  /\ NoteOverlap(g, Nothing)
  /\ UNCHANGED <<ticket, childVars, taskVars, sessionVars>>

-----------------------------------------------------------------------------
TaskStep ==
  \/ MarkRunning
  \/ \E A \in SUBSET Approvals : ExecuteSafeTools(A) \/ CreateApprovals(A)
  \/ LoadRunToAsk
  \/ LoadRunToFinish
  \/ FinishRun

SessionStep(s) ==
  \/ \E a \in Approvals : Review(s, a) \/ PreRead(s, a)
  \/ Execute(s)
  \/ Refresh(s)
  \/ Commit(s)
  \/ Rollback(s)

Next ==
  \/ TaskStep
  \/ TaskRaises
  \/ Restart
  \/ \E s \in Sessions : SessionStep(s)
  \/ Cancel
  \/ GrowStale
  \/ \E g \in Getters : FindStale(g) \/ FailStale(g)

Spec == Init /\ [][Next]_vars

\* While somebody keeps the ticket page open, which polls the runs every five
\* seconds, time passes and a GET that saw a stale run finishes.
FairSpec ==
  /\ Spec
  /\ WF_vars(TaskStep)
  /\ WF_vars(GrowStale)
  /\ \A g \in Getters : WF_vars(FindStale(g)) /\ WF_vars(FailStale(g))
  /\ \A s \in Sessions : WF_vars(Refresh(s)) /\ WF_vars(Commit(s))

-----------------------------------------------------------------------------
\* An approval that a reviewer still has to decide, or somebody to execute.
Undecided(a) == approval[a] \in {"pending_review", "approved", "edited"}

\* Asked for after execute_safe_tools had already shown others to the reviewers,
\* which it only does when the settings changed since the gate.
AskedLate(a) == early # {} /\ a \notin early

\* A run is shown as completed only when no reviewer has anything left to do
\* on it, however the task, the reviewers and the executions interleave and
\* whatever stale copies they derive the status from.  The exception are the
\* later ones of approvals that were asked for in two commits.
CompletedMeansDecided ==
  run = "completed" => \A a \in Approvals : Undecided(a) => AskedLate(a)

\* Nor does any of this run's writers (another run of the ticket has rules and
\* approvals of its own) leave the ticket resolved while one of its actions
\* waits for a decision or an execution, with the same exception.
ResolvedMeansDecided ==
  ticket = "resolved" => \A a \in Approvals : Undecided(a) => AskedLate(a)

\* Transactions that do not overlap keep the run and the ticket exactly at what
\* their rules derive from the committed children: only a read outdated before
\* it is used, a cancel or a give-up makes them differ.
SerialRunsAgree ==
  task = "done" /\ ~overlapped /\ meddled = {}
    => /\ run = Derive(run, approval, call, safe)
       /\ ticket = TicketFor(run, approval, call, safe)

\* A run whose task died with the process does not stay queued or running: a
\* page that polls it gives it up, once requests on its approvals, each of
\* which counts as a sign of life, have stopped coming.
LostRunGivenUp ==
  task = "lost" ~> run \notin {"queued", "running"}

\* Nobody is about to write the run, and nobody has cancelled it or given it up.
Quiet ==
  /\ task = "done"
  /\ meddled = {}
  /\ \A s \in Sessions : sess[s] \in {"idle", "done"}

-----------------------------------------------------------------------------
(* What the documentation says and the code does not do.                    *)

\* docs/DATA_MODEL.md derives waiting_for_approval from an approval that still
\* waits: a run that waits when nobody is at work waits for something.
WaitingHasReason ==
  Quiet /\ run = "waiting_for_approval" => \E a \in Approvals : Undecided(a)
=============================================================================
