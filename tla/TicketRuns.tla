----------------------------- MODULE TicketRuns -----------------------------
(***************************************************************************)
(* The support runs of one ticket: who starts a new one.  POST             *)
(* /agent-runs/support looks for the newest live run of the ticket and     *)
(* returns it, or gives it up, or starts another beside it; the look-up and*)
(* the INSERT are one transaction without a lock and without a constraint  *)
(* on the table.  A run is named by the POST that creates it.              *)
(*                                                                         *)
(* Time is what the code tells apart: a run was written less than thirty   *)
(* seconds ago ("fresh"), less than STALE_RUN_AFTER ago ("slow"), or not   *)
(* since ("stale").                                                        *)
(***************************************************************************)
EXTENDS Naturals, Sequences, FiniteSets, FiniteSetsExt

CONSTANTS Posts,  \* the POST requests on the ticket
          NoRun

ASSUME TicketRunsAssumption == NoRun \notin Posts

VARIABLES
  status,     \* agent_runs.status of the run of each POST, or "none"
  age,        \* how long ago it was written
  created,    \* the runs in the order of created_at
  task,       \* its background task
  asked,      \* the runs with an approval request that reviewers see
  post,       \* where each POST is
  givenUp,    \* the run that a POST under way has found stale
  overlapped, \* history: a POST looked while another was about to insert
  slow,       \* history: a task wrote nothing for thirty seconds
  meddled,    \* history: a run was cancelled, or given up by a GET
  revived     \* history: a task or a review took an ended run back to live

vars == <<status, age, created, task, asked, post, givenUp,
          overlapped, slow, meddled, revived>>

Live == {"queued", "running", "waiting_for_approval"}
Statuses == Live \cup {"none", "completed", "failed", "cancelled"}

TypeOK ==
  /\ status \in [Posts -> Statuses]
  /\ age \in [Posts -> {"fresh", "slow", "stale"}]
  /\ created \in Seq(Posts)
  /\ task \in [Posts -> {"none", "queued", "running", "done", "lost"}]
  /\ asked \subseteq Posts
  /\ post \in [Posts -> {"idle", "inserting", "returned", "created", "lost"}]
  /\ givenUp \in [Posts -> Posts \cup {NoRun}]
  /\ overlapped \in BOOLEAN /\ slow \in BOOLEAN
  /\ meddled \in BOOLEAN /\ revived \in BOOLEAN

Init ==
  /\ status = [p \in Posts |-> "none"]
  /\ age = [p \in Posts |-> "fresh"]
  /\ created = <<>>
  /\ task = [p \in Posts |-> "none"]
  /\ asked = {}
  /\ post = [p \in Posts |-> "idle"]
  /\ givenUp = [p \in Posts |-> NoRun]
  /\ overlapped = FALSE /\ slow = FALSE /\ meddled = FALSE /\ revived = FALSE

historyUnchanged == UNCHANGED <<overlapped, slow, meddled, revived>>

-----------------------------------------------------------------------------
(* create_support_run.                                                     *)

\* The places of the live runs in the order of creation.
LivePlaces == {i \in DOMAIN created : status[created[i]] \in Live}

\* ORDER BY created_at DESC LIMIT 1.
NewestLive ==
  IF LivePlaces = {} THEN NoRun ELSE created[Max(LivePlaces)]

\* Mutant: only a waiting run is returned.
ReusableIfWaiting(r) == status[r] = "waiting_for_approval"

\* A waiting run is returned whatever its age, another one while it is fresh.
Reusable(r) == status[r] = "waiting_for_approval" \/ age[r] = "fresh"

Returnable == NewestLive # NoRun /\ Reusable(NewestLive)

NoteLookup(p) ==
  overlapped' = (overlapped \/ \E q \in Posts \ {p} : post[q] = "inserting")

\* _existing_live_ticket_run finds a run to answer with.
Return(p) ==
  /\ post[p] = "idle"
  /\ Returnable
  /\ post' = [post EXCEPT ![p] = "returned"]
  /\ UNCHANGED <<status, age, created, task, asked, givenUp>> /\ historyUnchanged

\* It finds none.  _mark_stale_run_failed gives up a stale one and leaves a
\* slow one alone: both return None.
Decline(p) ==
  /\ post[p] = "idle"
  /\ ~Returnable
  /\ post' = [post EXCEPT ![p] = "inserting"]
  /\ givenUp' = [givenUp EXCEPT ![p] =
                   IF NewestLive # NoRun /\ age[NewestLive] = "stale"
                     THEN NewestLive ELSE NoRun]
  /\ NoteLookup(p)
  /\ UNCHANGED <<status, age, created, task, asked, slow, meddled, revived>>

\* The UPDATE of the run given up, which overwrites whatever it has become, the
\* INSERT and the commit; the background task is scheduled.
Create(p) ==
  /\ post[p] = "inserting"
  /\ post' = [post EXCEPT ![p] = "created"]
  /\ status' = [r \in Posts |-> CASE r = p -> "queued"
                                  [] r = givenUp[p] -> "failed"
                                  [] OTHER -> status[r]]
  /\ age' = [r \in Posts |-> IF r \in {p, givenUp[p]} THEN "fresh" ELSE age[r]]
  /\ created' = Append(created, p)
  /\ task' = [task EXCEPT ![p] = "queued"]
  /\ UNCHANGED <<asked, givenUp>> /\ historyUnchanged

-----------------------------------------------------------------------------
(* Everybody else who writes the status of a run (module AgentRun).         *)

NoteRevival(r, st) ==
  revived' = (revived \/ (status[r] \notin Live /\ st \in Live))

\* Mutant: the run takes the status meant for its ticket.
WrittenForTicket(r, st) ==
  /\ status' = [status EXCEPT ![r] = IF st = "completed" THEN "resolved" ELSE st]
  /\ age' = [age EXCEPT ![r] = "fresh"]
  /\ NoteRevival(r, st)
  /\ UNCHANGED <<created, post, givenUp, overlapped, slow>>

Written(r, st) ==
  /\ status' = [status EXCEPT ![r] = st]
  /\ age' = [age EXCEPT ![r] = "fresh"]
  /\ NoteRevival(r, st)
  /\ UNCHANGED <<created, post, givenUp, overlapped, slow>>

\* What derive_agent_run_status finds in the rows of a run that is not cancelled:
\* a call left as running, an approval that waits (there must be one), a failure.
Derivable(r) ==
  {"running", "completed", "failed"}
    \cup (IF r \in asked THEN {"waiting_for_approval"} ELSE {})

\* _mark_run_running.
Start(r) ==
  /\ task[r] = "queued"
  /\ task' = [task EXCEPT ![r] = "running"]
  /\ Written(r, "running") /\ UNCHANGED <<asked, meddled>>

\* The task commits an approval request (create_request); it is reviewed from
\* now on, also while the task goes on.
Ask(r) ==
  /\ task[r] = "running"
  /\ asked' = asked \cup {r}
  /\ Written(r, "waiting_for_approval") /\ UNCHANGED <<task, meddled>>

\* The end of _run_support_agent: it sets the status and derives it again, or
\* writes "failed" when the graph has raised, whatever was asked before.
Finish(r) ==
  /\ task[r] = "running"
  /\ task' = [task EXCEPT ![r] = "done"]
  /\ \E st \in Derivable(r) : Written(r, st)
  /\ UNCHANGED <<asked, meddled>>

\* An approval endpoint refreshes the run, an ended one too: only "cancelled" is
\* kept.
Reviewed(r) ==
  /\ r \in asked /\ status[r] # "cancelled"
  /\ \E st \in Derivable(r) : Written(r, st)
  /\ UNCHANGED <<task, asked, meddled>>

\* cancel_agent_run asks for no status.
Cancel(r) ==
  /\ status[r] \notin {"none", "cancelled"}
  /\ Written(r, "cancelled")
  /\ meddled' = TRUE
  /\ UNCHANGED <<task, asked>>

\* A GET gives the run up.
GiveUp(r) ==
  /\ status[r] \in {"queued", "running"} /\ age[r] = "stale"
  /\ Written(r, "failed")
  /\ meddled' = TRUE
  /\ UNCHANGED <<task, asked>>

\* Time passes for a run that nobody writes.
Age(r) ==
  /\ status[r] \in Live /\ age[r] # "stale"
  /\ age' = [age EXCEPT ![r] = IF @ = "fresh" THEN "slow" ELSE "stale"]
  /\ slow' = (slow \/ status[r] # "waiting_for_approval")
  /\ UNCHANGED <<status, created, task, asked, post, givenUp>>
  /\ UNCHANGED <<overlapped, meddled, revived>>

\* The process dies with its tasks and its open transactions.
Restart ==
  /\ \E p \in Posts : post[p] = "inserting" \/ task[p] \in {"queued", "running"}
  /\ task' = [p \in Posts |->
                IF task[p] \in {"queued", "running"} THEN "lost" ELSE task[p]]
  /\ post' = [p \in Posts |-> IF post[p] = "inserting" THEN "lost" ELSE post[p]]
  /\ UNCHANGED <<status, age, created, asked, givenUp>> /\ historyUnchanged

Next ==
  \/ \E p \in Posts : Return(p) \/ Decline(p) \/ Create(p)
  \/ \E r \in Posts :
       \/ Start(r) \/ Ask(r) \/ Finish(r) \/ Reviewed(r)
       \/ Cancel(r) \/ GiveUp(r) \/ Age(r)
  \/ Restart

Spec == Init /\ [][Next]_vars

-----------------------------------------------------------------------------
OneLive == Cardinality({r \in Posts : status[r] \in Live}) <= 1

\* A ticket has one live run as long as its POSTs do not overlap, its tasks
\* write at least every thirty seconds, nobody cancels or gives up a run, and
\* neither a review nor a task takes an ended run back to live: a run that failed
\* or was completed early may still have approvals that wait.  However long the
\* reviewers take, a restart, a failed task or a repeated POST makes no second.
OneLiveRunWhenPrompt ==
  ~overlapped /\ ~slow /\ ~meddled /\ ~revived => OneLive

=============================================================================
