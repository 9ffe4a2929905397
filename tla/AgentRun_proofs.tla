--------------------------- MODULE AgentRun_proofs ---------------------------
(***************************************************************************)
(* Theorems about AgentRun, for any sets of approvals, sessions and GETs.  *)
(***************************************************************************)
EXTENDS AgentRun, TLAPS

(* The derivation and its operators.                                       *)

Owns == [approval : ApprovalStatuses, call : CallStatuses]
Loads == [run : RunStatuses, derived : RunStatuses, ticket : TicketStatuses,
          synced : TicketStatuses, holdsRow : BOOLEAN]

LEMMA DeriveType ==
  ASSUME NEW status \in RunStatuses, NEW ap, NEW cl, NEW sf
  PROVE  /\ Derive(status, ap, cl, sf) \in RunStatuses
         /\ Derive(status, ap, cl, sf) = "completed" => ~AnyWaiting(ap)
         /\ Derive(Derive(status, ap, cl, sf), ap, cl, sf) = Derive(status, ap, cl, sf)
BY DEF Derive, RunStatuses

LEMMA TicketForType ==
  ASSUME NEW status \in RunStatuses, NEW ap, NEW cl, NEW sf
  PROVE  /\ TicketFor(status, ap, cl, sf) \in TicketStatuses
         /\ TicketFor(status, ap, cl, sf) = "resolved" => status = "completed"
BY DEF TicketFor, TicketStatuses, RunStatuses

-----------------------------------------------------------------------------
(* The invariant.                                                          *)

Holds(s) == sess[s] = "decided" \/ (sess[s] = "refreshed" /\ loaded[s].holdsRow)

\* What a session has loaded at each place.
SessFits(s) ==
  /\ sess[s] \in {"preread", "decided", "refreshed"} =>
       target[s] \in Approvals /\ own[s] \in Owns /\ own[s].approval # "absent"
  /\ sess[s] = "preread" => own[s].approval \in WaitingStatuses
  /\ sess[s] = "refreshed" => loaded[s] \in Loads

\* Until the task has asked for an approval nobody else is at work.
NothingAsked == early = {} /\ task \in {"queued", "started", "acted", "asking"}

NotAskedYet ==
  /\ task \in {"queued", "started"} => early = {}
  /\ \A a \in early : approval[a] # "absent"
  /\ NothingAsked =>
       /\ \A a \in Approvals : approval[a] = "absent"
       /\ \A s \in Sessions : sess[s] = "idle"
       /\ run # "completed" /\ ticket # "resolved"

RowExclusive ==
  \A s, t \in Sessions : Holds(s) /\ Holds(t) /\ target[s] = target[t] => s = t

\* A decision that leaves an approval waiting has found it waiting: no approval
\* is ever undecided again.
NoRevival(s) ==
  Holds(s) /\ own[s].approval \in WaitingStatuses =>
    approval[target[s]] \in WaitingStatuses

\* However stale a derivation of "completed" is, the children that it did not
\* find waiting do not wait now unless they were asked for late, and it comes from
\* a session that decides its own approval: one that only pre-read it sees it
\* waiting.
DerivedDecided(s) ==
  sess[s] = "refreshed"
    /\ (loaded[s].derived = "completed" \/ loaded[s].synced = "resolved") =>
      /\ loaded[s].holdsRow
      /\ own[s].approval \notin WaitingStatuses
      /\ \A a \in Approvals \ {target[s]} :
           approval[a] \in WaitingStatuses => AskedLate(a)

\* The committed children after a commit of s.
ApprovalAfter(s) ==
  IF loaded[s].holdsRow THEN [approval EXCEPT ![target[s]] = own[s].approval]
  ELSE approval
CallAfter(s) ==
  IF loaded[s].holdsRow THEN [call EXCEPT ![target[s]] = own[s].call] ELSE call

\* What s has read is what is committed now, its own changes apart.
ReadIsCurrent(s) ==
  /\ sess[s] = "preread" => own[s].approval = approval[target[s]]
  /\ sess[s] = "refreshed" =>
       /\ loaded[s].run = run /\ loaded[s].ticket = ticket
       /\ loaded[s].derived = Derive(run, ApprovalAfter(s), CallAfter(s), safe)
       /\ loaded[s].synced =
            TicketFor(loaded[s].derived, ApprovalAfter(s), CallAfter(s), safe)

\* Without overlaps every read is current when it is used.
ReadsCurrent ==
  ~overlapped /\ meddled = {} =>
    /\ task = "finishing" => run = taskSeen
    /\ \A s \in Sessions : ReadIsCurrent(s)

IInv ==
  /\ TypeOK /\ \A s \in Sessions : SessFits(s)
  /\ NotAskedYet
  /\ RowExclusive
  /\ \A s \in Sessions : NoRevival(s) /\ DerivedDecided(s)
  /\ CompletedMeansDecided /\ ResolvedMeansDecided
  /\ ReadsCurrent /\ SerialRunsAgree

-----------------------------------------------------------------------------
LEMMA InitIInv == Init => IInv
<1> SUFFICES ASSUME Init PROVE IInv
  OBVIOUS
<1>1. TypeOK
  BY DEF Init, TypeOK, RunStatuses, TicketStatuses, ApprovalStatuses,
         CallStatuses, SafeOutcomes, TaskPCs
<1>2. \A s \in Sessions : sess[s] = "idle"
  BY DEF Init
<1>3. \A s \in Sessions : SessFits(s) /\ NoRevival(s) /\ DerivedDecided(s)
  BY <1>2 DEF SessFits, NoRevival, DerivedDecided, Holds
<1>4. NotAskedYet /\ RowExclusive
  BY <1>2 DEF Init, NotAskedYet, NothingAsked, RowExclusive, Holds
<1>5. CompletedMeansDecided /\ ResolvedMeansDecided
  BY DEF Init, CompletedMeansDecided, ResolvedMeansDecided
<1>6. ReadsCurrent /\ SerialRunsAgree
  BY <1>2 DEF Init, ReadsCurrent, ReadIsCurrent, SerialRunsAgree
<1> QED BY <1>1, <1>3, <1>4, <1>5, <1>6 DEF IInv

\* What a step leaves when it touches neither the sessions nor the approvals.
LEMMA SessionsUntouched ==
  ASSUME IInv, UNCHANGED <<sessionVars, approval, early>>
  PROVE  /\ (\A s \in Sessions : SessFits(s))'
         /\ RowExclusive'
         /\ (\A s \in Sessions : NoRevival(s) /\ DerivedDecided(s))'
<1>1. (\A s \in Sessions : SessFits(s))'
  BY DEF IInv, SessFits, sessionVars
<1>2. RowExclusive'
  BY DEF IInv, RowExclusive, Holds, sessionVars
<1>3. (\A s \in Sessions : NoRevival(s) /\ DerivedDecided(s))'
  BY DEF IInv, NoRevival, DerivedDecided, AskedLate, Holds, sessionVars
<1> QED BY <1>1, <1>2, <1>3

\* A step that writes neither of the shown statuses nor an approval.
LEMMA ShownUntouched ==
  ASSUME IInv, UNCHANGED <<run, ticket, approval, early>>
  PROVE  CompletedMeansDecided' /\ ResolvedMeansDecided'
BY DEF IInv, CompletedMeansDecided, ResolvedMeansDecided, Undecided, AskedLate

\* A step that changes nothing the reads are about.
LEMMA ReadsUntouched ==
  ASSUME IInv, UNCHANGED <<sessionVars, childVars, run, ticket, task, taskSeen,
                           meddled, overlapped>>
  PROVE  ReadsCurrent' /\ SerialRunsAgree'
<1>1. UNCHANGED <<sess, target, own, loaded, approval, call, safe>>
  BY DEF sessionVars, childVars
<1>2. \A s \in Sessions : ApprovalAfter(s)' = ApprovalAfter(s) /\ CallAfter(s)' = CallAfter(s)
  BY <1>1 DEF ApprovalAfter, CallAfter
<1>3. ReadsCurrent'
  BY <1>1, <1>2 DEF IInv, ReadsCurrent, ReadIsCurrent, Derive, TicketFor,
     AnyWaiting, AnyFailed, OnlyRejected, Delivered
<1>4. SerialRunsAgree'
  BY <1>1 DEF IInv, SerialRunsAgree, Derive, TicketFor, AnyWaiting, AnyFailed,
     OnlyRejected, Delivered
<1> QED BY <1>3, <1>4

\* A commit that outdates nobody finds the other transactions out of its way.
LEMMA NobodyOutdated ==
  ASSUME NEW me, NEW a, NoteOverlap(me, a), ~overlapped'
  PROVE  /\ ~overlapped
         /\ \A t \in Sessions : t # me => /\ sess[t] # "refreshed"
                                          /\ ~(sess[t] = "preread" /\ target[t] = a)
         /\ me # Nothing => task # "finishing"
<1>1. ~(overlapped \/ Readers(a) \ {me} # {})
  BY Zenon DEF NoteOverlap
<1>2. Readers(a) \subseteq {me}
  BY <1>1
<1> QED BY <1>1, <1>2 DEF Readers

\* A commit by somebody who is not a session.
LEMMA CommittedAlone ==
  ASSUME IInv, NEW me, me \notin Sessions, NoteOverlap(me, Nothing),
         UNCHANGED <<sessionVars, approval, early>>, task' # "finishing",
         meddled \subseteq meddled',
         task' = "done" => SerialRunsAgree'
  PROVE  ReadsCurrent' /\ SerialRunsAgree'
<1>1. UNCHANGED <<sess, target, own, loaded>>
  BY DEF sessionVars
<1>2. SerialRunsAgree'
  BY DEF SerialRunsAgree
<1>3. ReadsCurrent'
  <2> SUFFICES ASSUME ~overlapped', meddled' = {}
      PROVE  /\ \A s \in Sessions : sess[s] = "preread" =>
                  own[s].approval = approval[target[s]]
             /\ \A s \in Sessions : sess[s] # "refreshed"
    BY <1>1 DEF ReadsCurrent, ReadIsCurrent
  <2>1. /\ ~overlapped
        /\ \A s \in Sessions : sess[s] # "refreshed"
    BY NobodyOutdated
  <2> QED BY <2>1 DEF IInv, ReadsCurrent, ReadIsCurrent
<1> QED BY <1>2, <1>3

-----------------------------------------------------------------------------
(* The background task.                                                    *)

LEMMA MarkRunningStep ==
  ASSUME IInv, MarkRunning
  PROVE  IInv'
<1> USE DEF MarkRunning, taskUnchanged
<1>1. UNCHANGED <<sessionVars, approval, early>> /\ UNCHANGED <<sess, approval>>
  BY DEF sessionVars, childVars
<1>2. TypeOK'
  BY <1>1 DEF IInv, TypeOK, NoteOverlap, RunStatuses, TicketStatuses, TaskPCs,
              sessionVars, childVars
<1>3. /\ (\A s \in Sessions : SessFits(s))'
      /\ RowExclusive'
      /\ (\A s \in Sessions : NoRevival(s) /\ DerivedDecided(s))'
  BY <1>1, SessionsUntouched
<1>4. NotAskedYet'
  BY <1>1 DEF IInv, NotAskedYet, NothingAsked
<1>5. CompletedMeansDecided' /\ ResolvedMeansDecided'
  BY DEF CompletedMeansDecided, ResolvedMeansDecided
<1>6. ReadsCurrent' /\ SerialRunsAgree'
  <2>1. Nothing \notin Sessions
    BY AgentRunAssumption
  <2> QED BY <1>1, <2>1, CommittedAlone
<1> QED BY <1>2, <1>3, <1>4, <1>5, <1>6 DEF IInv

\* What both nodes commit keeps its types, and no approval is asked for twice.
LEMMA ActionsExecuted ==
  ASSUME TypeOK, NEW A \in SUBSET Approvals, ExecuteActions(A)
  PROVE  /\ approval' \in [Approvals -> ApprovalStatuses]
         /\ call' \in [Approvals -> CallStatuses]
         /\ safe' \in SafeOutcomes /\ stale' \in BOOLEAN /\ overlapped' \in BOOLEAN
         /\ \A a \in Approvals \ A : approval'[a] = approval[a]
         /\ \A a \in A : approval[a] = "absent" /\ approval'[a] = "pending_review"
<1> USE DEF ExecuteActions
<1>1. approval' \in [Approvals -> ApprovalStatuses] /\ call' \in [Approvals -> CallStatuses]
  BY DEF TypeOK, ApprovalStatuses, CallStatuses
<1>2. safe' \in SafeOutcomes
  BY DEF TypeOK, SafeAfter, SafeOutcomes
<1>3. stale' \in BOOLEAN /\ overlapped' \in BOOLEAN
  BY DEF TypeOK, NoteOverlap
<1>4. /\ \A a \in Approvals \ A : approval'[a] = approval[a]
      /\ \A a \in A : approval[a] = "absent" /\ approval'[a] = "pending_review"
  OBVIOUS
<1> QED BY <1>1, <1>2, <1>3, <1>4

LEMMA ExecuteSafeToolsStep ==
  ASSUME IInv, NEW A \in SUBSET Approvals, ExecuteSafeTools(A)
  PROVE  IInv'
<1> USE DEF ExecuteSafeTools
<1>1. UNCHANGED <<sess, target, own, loaded, getter, meddled, ticket>>
  BY DEF ExecuteActions, taskUnchanged, sessionVars
<1>2. /\ \A s \in Sessions : sess[s] = "idle"
      /\ \A a \in Approvals : approval[a] = "absent"
      /\ run # "completed" /\ ticket # "resolved"
  BY DEF IInv, NotAskedYet, NothingAsked
<1>3. /\ approval' \in [Approvals -> ApprovalStatuses] /\ call' \in [Approvals -> CallStatuses]
      /\ safe' \in SafeOutcomes /\ stale' \in BOOLEAN /\ overlapped' \in BOOLEAN
      /\ \A a \in Approvals \ A : approval'[a] = approval[a]
      /\ \A a \in A : approval'[a] = "pending_review"
  BY ActionsExecuted DEF IInv
<1>4. TypeOK'
  BY <1>1, <1>3 DEF IInv, TypeOK, RunStatuses, TaskPCs
<1>5. (\A s \in Sessions : SessFits(s) /\ NoRevival(s) /\ DerivedDecided(s))'
  BY <1>1, <1>2 DEF SessFits, NoRevival, DerivedDecided, Holds
<1>6. RowExclusive'
  BY <1>1, <1>2 DEF RowExclusive, Holds
<1>7. NotAskedYet'
  BY <1>1, <1>2, <1>3 DEF NotAskedYet, NothingAsked
<1>8. CompletedMeansDecided' /\ ResolvedMeansDecided'
  BY <1>1, <1>2 DEF CompletedMeansDecided, ResolvedMeansDecided
<1>9. ReadsCurrent' /\ SerialRunsAgree'
  BY <1>1, <1>2 DEF ReadsCurrent, ReadIsCurrent, SerialRunsAgree
<1> QED BY <1>4, <1>5, <1>6, <1>7, <1>8, <1>9 DEF IInv

LEMMA LoadRunToAskStep ==
  ASSUME IInv, LoadRunToAsk
  PROVE  IInv'
<1> USE DEF LoadRunToAsk, taskUnchanged
<1>1. UNCHANGED <<sessionVars, approval, early, run, ticket, meddled, overlapped>>
        /\ UNCHANGED <<sess, target, own, loaded, approval, call, safe>>
  BY DEF sessionVars, childVars
<1>2. TypeOK'
  BY <1>1 DEF IInv, TypeOK, TaskPCs
<1>3. /\ (\A s \in Sessions : SessFits(s))'
      /\ RowExclusive'
      /\ (\A s \in Sessions : NoRevival(s) /\ DerivedDecided(s))'
  BY <1>1, SessionsUntouched
<1>4. NotAskedYet' /\ SerialRunsAgree'
  BY <1>1 DEF IInv, NotAskedYet, NothingAsked, SerialRunsAgree
<1>5. CompletedMeansDecided' /\ ResolvedMeansDecided'
  BY <1>1, ShownUntouched
<1>6. ReadsCurrent'
  <2>1. \A s \in Sessions : ApprovalAfter(s)' = ApprovalAfter(s)
                              /\ CallAfter(s)' = CallAfter(s)
    BY <1>1 DEF ApprovalAfter, CallAfter
  <2> QED BY <1>1, <2>1 DEF IInv, ReadsCurrent, ReadIsCurrent, Derive, TicketFor,
             AnyWaiting, AnyFailed, OnlyRejected, Delivered
<1> QED BY <1>2, <1>3, <1>4, <1>5, <1>6 DEF IInv

\* Reviewers may be at work on what execute_safe_tools has asked for.  Then what is
\* asked for now is late, and their reads are outdated by it.
LEMMA CreateApprovalsStep ==
  ASSUME IInv, NEW A \in SUBSET Approvals, CreateApprovals(A)
  PROVE  IInv'
<1> USE DEF CreateApprovals
<1>1. UNCHANGED <<sess, target, own, loaded, getter, meddled, ticket, early>>
  BY DEF ExecuteActions, taskUnchanged, sessionVars
<1>2. task \in {"acted", "asking"} /\ task' = "asked"
  OBVIOUS
<1>3. early = {} => /\ \A s \in Sessions : sess[s] = "idle"
                    /\ run # "completed" /\ ticket # "resolved"
  BY <1>2 DEF IInv, NotAskedYet, NothingAsked
<1>4. /\ approval' \in [Approvals -> ApprovalStatuses] /\ call' \in [Approvals -> CallStatuses]
      /\ safe' \in SafeOutcomes /\ stale' \in BOOLEAN /\ overlapped' \in BOOLEAN
      /\ \A a \in Approvals \ A : approval'[a] = approval[a]
      /\ \A a \in A : approval[a] = "absent" /\ approval'[a] = "pending_review"
  BY ActionsExecuted DEF IInv
<1>5. /\ \A a \in Approvals : approval[a] # "absent" => approval'[a] = approval[a]
      /\ \A a \in Approvals : approval'[a] = approval[a]
                                \/ early = {} \/ AskedLate(a)'
  BY <1>1, <1>4 DEF IInv, NotAskedYet, AskedLate
<1>6. run' = run \/ run' = "waiting_for_approval"
  BY DEF Write
<1>7. TypeOK'
  BY <1>1, <1>4, <1>6 DEF IInv, TypeOK, RunStatuses, TaskPCs
<1>8. (\A s \in Sessions : SessFits(s))' /\ RowExclusive'
  BY <1>1 DEF IInv, SessFits, RowExclusive, Holds
<1>9. (\A s \in Sessions : NoRevival(s) /\ DerivedDecided(s))'
  <2> SUFFICES ASSUME NEW s \in Sessions
      PROVE  (NoRevival(s) /\ DerivedDecided(s))'
    OBVIOUS
  <2>1. SessFits(s) /\ NoRevival(s) /\ DerivedDecided(s)
    BY DEF IInv
  <2>2. NoRevival(s)'
    BY <1>1, <1>5, <2>1 DEF NoRevival, Holds, SessFits, WaitingStatuses
  <2>3. DerivedDecided(s)'
    BY <1>1, <1>3, <1>5, <2>1 DEF DerivedDecided, AskedLate
  <2> QED BY <2>2, <2>3
<1>10. NotAskedYet'
  BY <1>1, <1>2, <1>5 DEF IInv, TypeOK, NotAskedYet, NothingAsked
<1>11. CompletedMeansDecided' /\ ResolvedMeansDecided'
  BY <1>1, <1>3, <1>5, <1>6 DEF IInv, CompletedMeansDecided, ResolvedMeansDecided,
     Undecided, AskedLate
<1>12. ReadsCurrent' /\ SerialRunsAgree'
  <2>1. SerialRunsAgree'
    BY <1>2 DEF SerialRunsAgree
  <2> SUFFICES ASSUME ~overlapped', meddled' = {}, NEW s \in Sessions
      PROVE  ReadIsCurrent(s)'
    BY <1>2, <2>1 DEF ReadsCurrent
  <2>2. NoteOverlap(Nothing, Nothing)
    BY DEF ExecuteActions
  <2>3. ~overlapped /\ (s # Nothing => sess[s] # "refreshed")
    BY <2>2, NobodyOutdated
  <2>4. sess[s] # "refreshed" /\ ReadIsCurrent(s) /\ SessFits(s)
    BY <1>1, <2>3, AgentRunAssumption DEF IInv, ReadsCurrent
  <2> QED BY <1>1, <1>5, <2>4 DEF ReadIsCurrent, SessFits, WaitingStatuses
<1> QED BY <1>7, <1>8, <1>9, <1>10, <1>11, <1>12 DEF IInv

LEMMA LoadRunToFinishStep ==
  ASSUME IInv, LoadRunToFinish
  PROVE  IInv'
<1> USE DEF LoadRunToFinish, taskUnchanged
<1>1. UNCHANGED <<sessionVars, approval, early, run, ticket, meddled, overlapped>>
        /\ UNCHANGED <<sess, target, own, loaded, approval, call, safe>>
  BY DEF sessionVars, childVars
<1>2. TypeOK'
  BY <1>1 DEF IInv, TypeOK, TaskPCs
<1>3. /\ (\A s \in Sessions : SessFits(s))'
      /\ RowExclusive'
      /\ (\A s \in Sessions : NoRevival(s) /\ DerivedDecided(s))'
  BY <1>1, SessionsUntouched
<1>4. NotAskedYet' /\ SerialRunsAgree'
  BY <1>1 DEF IInv, NotAskedYet, NothingAsked, SerialRunsAgree
<1>5. CompletedMeansDecided' /\ ResolvedMeansDecided'
  BY <1>1, ShownUntouched
<1>6. ReadsCurrent'
  <2>1. \A s \in Sessions : ApprovalAfter(s)' = ApprovalAfter(s)
                              /\ CallAfter(s)' = CallAfter(s)
    BY <1>1 DEF ApprovalAfter, CallAfter
  <2> QED BY <1>1, <2>1 DEF IInv, ReadsCurrent, ReadIsCurrent, Derive, TicketFor,
             AnyWaiting, AnyFailed, OnlyRejected, Delivered
<1> QED BY <1>2, <1>3, <1>4, <1>5, <1>6 DEF IInv

\* What the task derives from the committed children agrees with them, and with
\* the run it found when nothing has written it since.
LEMMA FinishRunStep ==
  ASSUME IInv, FinishRun
  PROVE  IInv'
<1> USE DEF FinishRun, taskUnchanged
<1>1. UNCHANGED <<sessionVars, approval, early, call, safe, meddled>>
        /\ UNCHANGED <<sess, target, own, loaded, getter>>
  BY DEF sessionVars, childVars
<1> DEFINE status == Derive(GraphStatus, approval, call, safe)
<1>3. GraphStatus \in RunStatuses
  BY DEF GraphStatus, RunStatuses
<1>4. /\ status \in RunStatuses
      /\ status = "completed" => ~AnyWaiting(approval)
      /\ Derive(status, approval, call, safe) = status
  BY <1>3, DeriveType
<1>5. /\ run' = IF {GraphStatus, status} = {taskSeen} THEN run ELSE status
      /\ ticket' = TicketFor(status, approval, call, safe)
  OBVIOUS
<1> HIDE DEF status
<1>6. /\ TicketFor(status, approval, call, safe) \in TicketStatuses
      /\ ticket' = "resolved" => status = "completed"
  BY <1>4, <1>5, TicketForType
<1>7. TypeOK'
  BY <1>1, <1>4, <1>5, <1>6 DEF IInv, TypeOK, TaskPCs, NoteOverlap
<1>8. /\ (\A s \in Sessions : SessFits(s))'
      /\ RowExclusive'
      /\ (\A s \in Sessions : NoRevival(s) /\ DerivedDecided(s))'
  BY <1>1, SessionsUntouched
<1>9. NotAskedYet'
  BY <1>1 DEF IInv, NotAskedYet, NothingAsked
<1>10. CompletedMeansDecided' /\ ResolvedMeansDecided'
  <2>1. run' = "completed" => run = "completed" \/ status = "completed"
    BY <1>5
  <2>2. status = "completed" => \A a \in Approvals : ~Undecided(a)'
    BY <1>1, <1>4 DEF AnyWaiting, Undecided, WaitingStatuses
  <2> QED BY <1>1, <1>6, <2>1, <2>2 DEF IInv, CompletedMeansDecided,
             ResolvedMeansDecided, Undecided, AskedLate
<1>11. SerialRunsAgree'
  <2> SUFFICES ASSUME ~overlapped', meddled' = {}
      PROVE  run' = status
    BY <1>1, <1>4, <1>5 DEF SerialRunsAgree, Derive, TicketFor, AnyWaiting,
       AnyFailed, OnlyRejected, Delivered
  <2>1. ~overlapped
    BY NobodyOutdated
  <2>2. run = taskSeen
    BY <1>1, <2>1 DEF IInv, ReadsCurrent, ReadIsCurrent
  <2> QED BY <1>5, <2>2
<1>12. ReadsCurrent'
  BY <1>1, <1>11, CommittedAlone, AgentRunAssumption
<1> QED BY <1>7, <1>8, <1>9, <1>10, <1>11, <1>12 DEF IInv

LEMMA TaskRaisesStep ==
  ASSUME IInv, TaskRaises
  PROVE  IInv'
<1> USE DEF TaskRaises, taskUnchanged
<1>1. UNCHANGED <<sessionVars, approval, early, call, safe, meddled>>
        /\ UNCHANGED <<sess, target, own, loaded, getter>>
  BY DEF sessionVars, childVars
<1>2. TypeOK'
  BY <1>1 DEF IInv, TypeOK, NoteOverlap, RunStatuses, TicketStatuses, TaskPCs
<1>3. /\ (\A s \in Sessions : SessFits(s))'
      /\ RowExclusive'
      /\ (\A s \in Sessions : NoRevival(s) /\ DerivedDecided(s))'
  BY <1>1, SessionsUntouched
<1>4. NotAskedYet' /\ CompletedMeansDecided' /\ ResolvedMeansDecided'
  BY <1>1 DEF IInv, NotAskedYet, NothingAsked, CompletedMeansDecided, ResolvedMeansDecided
<1>5. ReadsCurrent' /\ SerialRunsAgree'
  BY <1>1, CommittedAlone, AgentRunAssumption
<1> QED BY <1>2, <1>3, <1>4, <1>5 DEF IInv

-----------------------------------------------------------------------------
(* The approval endpoints.                                                 *)

\* The sessions in S end, the others go on.
LEMMA Closed ==
  ASSUME TypeOK, NEW S, Close(S)
  PROVE  /\ \A t \in Sessions : t \in S => sess'[t] = "done"
         /\ \A t \in Sessions : t \notin S =>
              /\ sess'[t] = sess[t] /\ target'[t] = target[t]
              /\ own'[t] = own[t] /\ loaded'[t] = loaded[t]
         /\ sess' \in [Sessions -> {"idle", "preread", "decided", "refreshed", "done"}]
         /\ target' \in [Sessions -> Approvals \cup {Nothing}]
         /\ own' \in [Sessions -> Owns \cup {Nothing}]
         /\ loaded' \in [Sessions -> Loads \cup {Nothing}]
BY DEF Close, TypeOK, Owns, Loads

LEMMA RestartStep ==
  ASSUME IInv, Restart
  PROVE  IInv'
<1> USE DEF Restart
<1>1. UNCHANGED <<run, stale, ticket, approval, call, safe, early, meddled, overlapped>>
  BY DEF childVars
<1>2. TypeOK
  BY DEF IInv
<1>3. \A t \in Sessions : sess'[t] \in {"idle", "done"}
  BY <1>2, Closed
<1>4. TypeOK'
  <2>1. /\ sess' \in [Sessions -> {"idle", "preread", "decided", "refreshed", "done"}]
        /\ target' \in [Sessions -> Approvals \cup {Nothing}]
        /\ own' \in [Sessions -> Owns \cup {Nothing}]
        /\ loaded' \in [Sessions -> Loads \cup {Nothing}]
    BY <1>2, Closed
  <2>2. getter' \in [Getters -> {"idle", "sawStale"}] /\ task' \in TaskPCs
    BY DEF TaskPCs
  <2> QED BY <1>1, <1>2, <2>1, <2>2 DEF TypeOK, Owns, Loads
<1>5. (\A s \in Sessions : SessFits(s) /\ NoRevival(s) /\ DerivedDecided(s))'
  BY <1>3 DEF SessFits, NoRevival, DerivedDecided, Holds
<1>6. RowExclusive' /\ NotAskedYet'
  BY <1>1, <1>3 DEF IInv, RowExclusive, Holds, NotAskedYet, NothingAsked
<1>7. CompletedMeansDecided' /\ ResolvedMeansDecided'
  BY <1>1, ShownUntouched
<1>8. ReadsCurrent' /\ SerialRunsAgree'
  BY <1>3 DEF ReadsCurrent, ReadIsCurrent, SerialRunsAgree
<1> QED BY <1>4, <1>5, <1>6, <1>7, <1>8 DEF IInv

\* Nobody holds the row of an approval that is free.
LEMMA FreeRow ==
  ASSUME NEW a, RowFree(a)
  PROVE  \A t \in Sessions : Holds(t) => target[t] # a
BY DEF RowFree, Holds

\* A step of s that writes nothing to the database.
Private(s) ==
  /\ UNCHANGED <<run, ticket, approval, call, safe, taskVars, meddled, overlapped>>
  /\ UNCHANGED <<early, task, taskSeen, requested>>
  /\ \A t \in Sessions : t # s =>
       /\ sess'[t] = sess[t] /\ target'[t] = target[t]
       /\ own'[t] = own[t] /\ loaded'[t] = loaded[t]

\* Such a step only has to keep the invariant of s itself.
LEMMA PrivateStep ==
  ASSUME IInv, NEW s \in Sessions, Private(s), TypeOK',
         ~NothingAsked,
         SessFits(s)', NoRevival(s)', DerivedDecided(s)',
         Holds(s)' => \A t \in Sessions : t # s /\ Holds(t) => target[t] # target'[s],
         ~overlapped /\ meddled = {} => ReadIsCurrent(s)'
  PROVE  IInv'
<1> USE DEF Private
<1>1. \A t \in Sessions : t # s => Holds(t)' = Holds(t)
  BY DEF Holds
<1>2. (\A t \in Sessions : SessFits(t))'
  <2> SUFFICES ASSUME NEW t \in Sessions, t # s PROVE SessFits(t)'
    OBVIOUS
  <2> QED BY DEF IInv, SessFits
<1>3. (\A t \in Sessions : NoRevival(t) /\ DerivedDecided(t))'
  <2> SUFFICES ASSUME NEW t \in Sessions, t # s PROVE (NoRevival(t) /\ DerivedDecided(t))'
    OBVIOUS
  <2>1. NoRevival(t)'
    BY <1>1 DEF IInv, NoRevival
  <2>2. DerivedDecided(t)'
    BY DEF IInv, DerivedDecided, AskedLate
  <2> QED BY <2>1, <2>2
<1>4. RowExclusive'
  BY <1>1 DEF IInv, RowExclusive
<1>5. NotAskedYet' /\ CompletedMeansDecided' /\ ResolvedMeansDecided'
  BY ShownUntouched DEF IInv, NotAskedYet, NothingAsked
<1>6. SerialRunsAgree'
  BY DEF IInv, SerialRunsAgree, Derive, TicketFor, AnyWaiting, AnyFailed,
     OnlyRejected, Delivered
<1>7. ReadsCurrent'
  <2> SUFFICES ASSUME ~overlapped, meddled = {}, NEW t \in Sessions, t # s
      PROVE  ReadIsCurrent(t)'
    BY DEF IInv, ReadsCurrent
  <2>1. ReadIsCurrent(t)
    BY DEF IInv, ReadsCurrent
  <2>2. ApprovalAfter(t)' = ApprovalAfter(t) /\ CallAfter(t)' = CallAfter(t)
    BY DEF ApprovalAfter, CallAfter
  <2> QED BY <2>1, <2>2 DEF ReadIsCurrent, Derive, TicketFor,
             AnyWaiting, AnyFailed, OnlyRejected, Delivered
<1> QED BY <1>2, <1>3, <1>4, <1>5, <1>6, <1>7 DEF IInv

LEMMA ReviewStep ==
  ASSUME IInv, NEW s \in Sessions, NEW a \in Approvals, Review(s, a)
  PROVE  IInv'
<1> USE DEF Review, sessionUnchanged
<1>1. TypeOK /\ NotAskedYet
  BY DEF IInv
<1>2. approval[a] \in WaitingStatuses
  BY DEF WaitingStatuses
<1>3. Private(s)
  BY <1>1 DEF Private, childVars, taskVars, TypeOK
<1>4. ~NothingAsked
  BY <1>1, <1>2 DEF NotAskedYet, WaitingStatuses
<1>5. /\ sess'[s] = "decided" /\ target'[s] = a
      /\ own'[s] \in Owns /\ own'[s].approval # "absent"
  BY <1>1 DEF TypeOK, Owns, ApprovalStatuses, CallStatuses
<1>6. TypeOK'
  <2>1. own' \in [Sessions -> Owns \cup {Nothing}]
    BY <1>1, <1>5 DEF TypeOK, Owns
  <2> QED BY <1>1, <1>3, <2>1 DEF TypeOK, Owns, Private
<1>7. SessFits(s)' /\ DerivedDecided(s)'
  BY <1>5 DEF SessFits, DerivedDecided
<1>8. NoRevival(s)'
  BY <1>2, <1>3, <1>5 DEF NoRevival, Private
<1>9. \A t \in Sessions : t # s /\ Holds(t) => target[t] # target'[s]
  BY <1>5, FreeRow
<1>10. ReadIsCurrent(s)'
  BY <1>5 DEF ReadIsCurrent
<1> QED BY <1>3, <1>4, <1>6, <1>7, <1>8, <1>9, <1>10, PrivateStep

LEMMA PreReadStep ==
  ASSUME IInv, NEW s \in Sessions, NEW a \in Approvals, PreRead(s, a)
  PROVE  IInv'
<1> USE DEF PreRead, sessionUnchanged
<1>1. TypeOK /\ NotAskedYet
  BY DEF IInv
<1>2. approval[a] \in WaitingStatuses
  BY DEF WaitingStatuses
<1>3. Private(s)
  BY <1>1 DEF Private, childVars, taskVars, TypeOK
<1>4. ~NothingAsked
  BY <1>1, <1>2 DEF NotAskedYet, WaitingStatuses
<1>5. /\ sess'[s] = "preread" /\ target'[s] = a
      /\ own'[s] = [approval |-> approval[a], call |-> call[a]]
      /\ own'[s] \in Owns
  BY <1>1 DEF TypeOK, Owns
<1>6. TypeOK'
  <2>1. own' \in [Sessions -> Owns \cup {Nothing}]
    BY <1>1, <1>5 DEF TypeOK, Owns
  <2> QED BY <1>1, <1>3, <2>1 DEF TypeOK, Owns, Private
<1>7. SessFits(s)' /\ DerivedDecided(s)' /\ NoRevival(s)' /\ ~Holds(s)'
  BY <1>2, <1>5 DEF SessFits, DerivedDecided, NoRevival, Holds
<1>8. ReadIsCurrent(s)'
  BY <1>3, <1>5 DEF ReadIsCurrent, Private
<1> QED BY <1>3, <1>4, <1>6, <1>7, <1>8, PrivateStep

\* Once a session is at work, the task has asked for approvals.
LEMMA AtWork ==
  ASSUME IInv, NEW s \in Sessions, sess[s] # "idle"
  PROVE  ~NothingAsked
BY DEF IInv, NotAskedYet, NothingAsked

LEMMA ExecuteStep ==
  ASSUME IInv, NEW s \in Sessions, Execute(s)
  PROVE  IInv'
<1> USE DEF Execute, sessionUnchanged
<1>1. TypeOK /\ SessFits(s)
  BY DEF IInv
<1>2. Private(s)
  BY <1>1 DEF Private, childVars, taskVars, TypeOK
<1>3. ~NothingAsked
  BY AtWork
<1>4. /\ sess'[s] = "decided" /\ target'[s] = target[s] /\ target[s] \in Approvals
      /\ own'[s] \in Results
  BY <1>1 DEF TypeOK, SessFits
<1>5. own'[s] \in Owns /\ own'[s].approval \notin WaitingStatuses
        /\ own'[s].approval # "absent"
  BY <1>4 DEF Results, Owns, ApprovalStatuses, CallStatuses, WaitingStatuses
<1>6. TypeOK'
  <2>1. own' \in [Sessions -> Owns \cup {Nothing}]
    BY <1>1, <1>5 DEF TypeOK, Owns
  <2> QED BY <1>1, <1>2, <2>1 DEF TypeOK, Owns, Private
<1>7. SessFits(s)' /\ DerivedDecided(s)' /\ NoRevival(s)'
  BY <1>4, <1>5 DEF SessFits, DerivedDecided, NoRevival
<1>8. \A t \in Sessions : t # s /\ Holds(t) => target[t] # target'[s]
  BY <1>4, FreeRow
<1>9. ReadIsCurrent(s)'
  BY <1>4 DEF ReadIsCurrent
<1> QED BY <1>2, <1>3, <1>6, <1>7, <1>8, <1>9, PrivateStep

\* A session that derives "completed" has seen no approval that waits, so it has
\* decided its own: one that it only pre-read it would have seen waiting.
LEMMA RefreshStep ==
  ASSUME IInv, NEW s \in Sessions, Refresh(s)
  PROVE  IInv'
<1> DEFINE ap == SeenApproval(s)
           cl == SeenCall(s)
           status == Derive(run, ap, cl, safe)
           synced == TicketFor(status, ap, cl, safe)
           read == [run |-> run, derived |-> status, ticket |-> ticket,
                    synced |-> synced, holdsRow |-> sess[s] = "decided"]
<1>1. /\ TypeOK /\ SessFits(s) /\ NoRevival(s)
      /\ target[s] \in Approvals /\ own[s] \in Owns /\ own[s].approval # "absent"
  BY DEF IInv, SessFits, Refresh
<1>2. Private(s)
  BY <1>1 DEF Private, childVars, taskVars, TypeOK, Refresh, sessionUnchanged
<1>3. ~NothingAsked
  BY AtWork DEF Refresh
<1>4. /\ sess'[s] = "refreshed" /\ target'[s] = target[s] /\ own'[s] = own[s]
      /\ loaded'[s] = read
  BY <1>1 DEF Refresh, TypeOK
<1>5. /\ status \in RunStatuses /\ synced \in TicketStatuses
      /\ status = "completed" \/ synced = "resolved" => ~AnyWaiting(ap)
  <2>1. run \in RunStatuses
    BY <1>1 DEF TypeOK
  <2>2. status \in RunStatuses /\ (status = "completed" => ~AnyWaiting(ap))
    BY <2>1, DeriveType
  <2>3. synced \in TicketStatuses /\ (synced = "resolved" => status = "completed")
    BY <2>2, TicketForType
  <2> QED BY <2>2, <2>3
<1> HIDE DEF ap, cl, status, synced
<1>6. read \in Loads /\ read.holdsRow = (sess[s] = "decided")
  BY <1>1, <1>5 DEF Loads, TypeOK
<1>7. /\ read.derived = status /\ read.synced = synced
      /\ read.run = run /\ read.ticket = ticket
  OBVIOUS
<1> HIDE DEF read
<1>8. TypeOK'
  <2>1. loaded' \in [Sessions -> Loads \cup {Nothing}]
    BY <1>1, <1>4, <1>6 DEF TypeOK, Loads, Refresh
  <2>2. sess' \in [Sessions -> {"idle", "preread", "decided", "refreshed", "done"}]
    BY <1>1 DEF TypeOK, Refresh
  <2> QED BY <1>1, <1>2, <2>1, <2>2 DEF TypeOK, Loads, Private, Refresh, sessionUnchanged
<1>9. SessFits(s)'
  BY <1>1, <1>4, <1>6 DEF SessFits
<1>10. Holds(s)' = Holds(s)
  BY <1>4, <1>6 DEF Holds, Refresh
<1>11. NoRevival(s)'
  BY <1>1, <1>2, <1>4, <1>10 DEF NoRevival, Private
<1>12. DerivedDecided(s)'
  <2> SUFFICES ASSUME ~AnyWaiting(ap)
      PROVE  /\ sess[s] = "decided"
             /\ own[s].approval \notin WaitingStatuses
             /\ \A b \in Approvals \ {target[s]} : approval[b] \notin WaitingStatuses
    BY <1>2, <1>4, <1>5, <1>6, <1>7 DEF DerivedDecided, Private
  <2>1. /\ ap[target[s]] = own[s].approval
        /\ \A b \in Approvals \ {target[s]} : ap[b] = approval[b]
    BY <1>1 DEF ap, SeenApproval, TypeOK
  <2>2. \A b \in Approvals : ap[b] \notin WaitingStatuses
    BY DEF AnyWaiting
  <2> QED BY <1>1, <2>1, <2>2 DEF SessFits, Refresh
<1>13. \A t \in Sessions : t # s /\ Holds(s)' /\ Holds(t) => target[t] # target'[s]
  BY <1>4, <1>10 DEF IInv, RowExclusive
<1>14. ASSUME ~overlapped, meddled = {} PROVE ReadIsCurrent(s)'
  <2>1. ApprovalAfter(s)' = ap
    <3>1. CASE sess[s] = "decided"
      BY <1>2, <1>4, <1>6, <3>1 DEF ApprovalAfter, ap, SeenApproval, Private
    <3>2. CASE sess[s] # "decided"
      <4>1. own[s].approval = approval[target[s]]
        BY <1>14, <3>2 DEF IInv, ReadsCurrent, ReadIsCurrent, Refresh
      <4>2. ap = approval
        BY <1>1, <4>1 DEF ap, SeenApproval, TypeOK
      <4> QED BY <1>2, <1>4, <1>6, <3>2, <4>2 DEF ApprovalAfter, Private
    <3> QED BY <3>1, <3>2
  <2>2. CallAfter(s)' = cl
    BY <1>2, <1>4, <1>6 DEF CallAfter, cl, SeenCall, Private
  <2>3. run' = run /\ ticket' = ticket /\ safe' = safe
    BY <1>2 DEF Private
  <2>4. /\ status = Derive(run, ap, cl, safe)
        /\ synced = TicketFor(status, ap, cl, safe)
    BY DEF status, synced
  <2>5. /\ loaded'[s].derived = Derive(run', ApprovalAfter(s)', CallAfter(s)', safe')
        /\ loaded'[s].synced = TicketFor(loaded'[s].derived, ApprovalAfter(s)', CallAfter(s)', safe')
    BY <1>4, <1>7, <2>1, <2>2, <2>3, <2>4
  <2> QED BY <1>4, <1>7, <2>3, <2>5 DEF ReadIsCurrent, Derive, TicketFor,
             AnyWaiting, AnyFailed, OnlyRejected, Delivered
<1> QED BY <1>2, <1>3, <1>8, <1>9, <1>11, <1>12, <1>13, <1>14, PrivateStep

\* The row locks keep apart the approvals that two commits write, so the decision
\* of s disturbs no other session; what it leaves waiting it has found waiting.
LEMMA CommitStep ==
  ASSUME IInv, NEW s \in Sessions, Commit(s)
  PROVE  IInv'
<1> USE DEF Commit
<1>1. /\ TypeOK /\ SessFits(s) /\ NoRevival(s) /\ DerivedDecided(s)
      /\ target[s] \in Approvals /\ own[s] \in Owns /\ loaded[s] \in Loads
  BY DEF IInv, SessFits
<1>2. ~NothingAsked
  BY AtWork
<1>3. UNCHANGED <<safe, early, task, taskSeen, requested, getter, meddled>>
  BY DEF taskVars
<1>4. /\ sess'[s] = "done"
      /\ \A t \in Sessions : t # s =>
           /\ sess'[t] = sess[t] /\ target'[t] = target[t]
           /\ own'[t] = own[t] /\ loaded'[t] = loaded[t]
  BY <1>1, Closed
<1>5. approval' = ApprovalAfter(s) /\ call' = CallAfter(s)
  BY DEF ApprovalAfter, CallAfter
<1>6. /\ loaded[s].holdsRow => approval'[target[s]] = own[s].approval
      /\ ~loaded[s].holdsRow => approval' = approval
      /\ \A b \in Approvals \ {target[s]} : approval'[b] = approval[b]
  BY <1>1 DEF TypeOK
<1>7. TypeOK'
  <2>1. /\ sess' \in [Sessions -> {"idle", "preread", "decided", "refreshed", "done"}]
        /\ target' \in [Sessions -> Approvals \cup {Nothing}]
        /\ own' \in [Sessions -> Owns \cup {Nothing}]
        /\ loaded' \in [Sessions -> Loads \cup {Nothing}]
    BY <1>1, Closed
  <2>2. approval' \in [Approvals -> ApprovalStatuses] /\ call' \in [Approvals -> CallStatuses]
    BY <1>1 DEF TypeOK, Owns
  <2>3. run' \in RunStatuses /\ ticket' \in TicketStatuses
    BY <1>1 DEF TypeOK, Loads, Write
  <2>4. stale' \in BOOLEAN /\ overlapped' \in BOOLEAN
    BY <1>1 DEF TypeOK, NoteOverlap
  <2> QED BY <1>1, <1>3, <2>1, <2>2, <2>3, <2>4 DEF TypeOK, Owns, Loads
\* Nothing that waited for nobody waits again.
<1>8. \A b \in Approvals : approval'[b] \in WaitingStatuses => approval[b] \in WaitingStatuses
  BY <1>1, <1>6 DEF NoRevival, Holds
<1>9. \A t \in Sessions : t # s => Holds(t)' = Holds(t)
  BY <1>4 DEF Holds
<1>10. (\A t \in Sessions : SessFits(t))'
  <2> SUFFICES ASSUME NEW t \in Sessions PROVE SessFits(t)'
    OBVIOUS
  <2>1. CASE t = s
    BY <1>4, <2>1 DEF SessFits
  <2>2. CASE t # s
    BY <1>4, <2>2 DEF IInv, SessFits
  <2> QED BY <2>1, <2>2
<1>11. RowExclusive'
  BY <1>4, <1>9 DEF IInv, RowExclusive, Holds
<1>12. (\A t \in Sessions : NoRevival(t) /\ DerivedDecided(t))'
  <2> SUFFICES ASSUME NEW t \in Sessions PROVE (NoRevival(t) /\ DerivedDecided(t))'
    OBVIOUS
  <2>1. CASE t = s
    BY <1>4, <2>1 DEF NoRevival, DerivedDecided, Holds
  <2>2. CASE t # s
    <3>1. SessFits(t) /\ NoRevival(t) /\ DerivedDecided(t)
      BY DEF IInv
    <3>2. NoRevival(t)'
      <4> SUFFICES ASSUME Holds(t), own[t].approval \in WaitingStatuses
          PROVE  approval'[target[t]] = approval[target[t]]
        BY <1>4, <1>9, <2>2, <3>1 DEF NoRevival
      <4>1. CASE loaded[s].holdsRow
        <5>1. target[t] # target[s]
          BY <2>2, <4>1 DEF IInv, RowExclusive, Holds
        <5> QED BY <1>6, <3>1, <5>1 DEF SessFits, Holds
      <4>2. CASE ~loaded[s].holdsRow
        BY <1>6, <4>2
      <4> QED BY <4>1, <4>2
    <3>3. DerivedDecided(t)'
      BY <1>3, <1>4, <1>8, <2>2, <3>1 DEF DerivedDecided, AskedLate
    <3> QED BY <3>2, <3>3
  <2> QED BY <2>1, <2>2
<1>13. NotAskedYet'
  <2>1. \A b \in early : approval[b] # "absent" => approval'[b] # "absent"
    BY <1>1, <1>6 DEF SessFits, TypeOK
  <2> QED BY <1>2, <1>3, <2>1 DEF IInv, NotAskedYet, NothingAsked
<1>14. CompletedMeansDecided' /\ ResolvedMeansDecided'
  <2>1. \/ loaded[s].derived = "completed" \/ loaded[s].synced = "resolved"
        => \A b \in Approvals : approval'[b] \in WaitingStatuses => AskedLate(b)'
    BY <1>1, <1>3, <1>6 DEF DerivedDecided, AskedLate
  <2>2. /\ run' = "completed" => run = "completed" \/ loaded[s].derived = "completed"
        /\ ticket' = "resolved" => ticket = "resolved" \/ loaded[s].synced = "resolved"
    BY DEF Write
  <2>3. ASSUME run' = "completed" \/ ticket' = "resolved",
               NEW b \in Approvals, Undecided(b)'
        PROVE  AskedLate(b)'
    <3>1. approval'[b] \in WaitingStatuses
      BY <2>3 DEF Undecided, WaitingStatuses
    <3>2. CASE loaded[s].derived = "completed" \/ loaded[s].synced = "resolved"
      BY <2>1, <3>1, <3>2
    <3>3. CASE run = "completed" \/ ticket = "resolved"
      <4>1. Undecided(b)
        BY <1>8, <3>1 DEF Undecided, WaitingStatuses
      <4>2. AskedLate(b)
        BY <3>3, <4>1 DEF IInv, CompletedMeansDecided, ResolvedMeansDecided
      <4> QED BY <1>3, <4>2 DEF AskedLate
    <3> QED BY <2>2, <2>3, <3>2, <3>3
  <2> QED BY <2>3 DEF CompletedMeansDecided, ResolvedMeansDecided
<1>15. ASSUME ~overlapped', meddled' = {}
       PROVE  /\ ReadIsCurrent(s) /\ task # "finishing"
              /\ \A t \in Sessions : t # s =>
                   /\ sess[t] # "refreshed"
                   /\ ~(sess[t] = "preread" /\ target[t] = target[s])
                   /\ ReadIsCurrent(t)
  <2>1. /\ ~overlapped /\ (s # Nothing => task # "finishing")
        /\ \A t \in Sessions : t # s => /\ sess[t] # "refreshed"
                                        /\ ~(sess[t] = "preread" /\ target[t] = target[s])
    BY <1>15, NobodyOutdated
  <2> QED BY <1>3, <1>15, <2>1, AgentRunAssumption DEF IInv, ReadsCurrent
<1>16. ReadsCurrent'
  <2> SUFFICES ASSUME ~overlapped', meddled' = {}, NEW t \in Sessions
      PROVE  ReadIsCurrent(t)' /\ task # "finishing"
    BY <1>3 DEF ReadsCurrent
  <2>1. CASE t = s
    BY <1>4, <1>15, <2>1 DEF ReadIsCurrent
  <2>2. CASE t # s
    <3>1. sess[t] = "preread" => target[t] \in Approvals \ {target[s]}
      BY <1>15, <2>2 DEF IInv, SessFits
    <3> QED BY <1>4, <1>6, <1>15, <2>2, <3>1 DEF ReadIsCurrent
  <2> QED BY <2>1, <2>2
<1>17. SerialRunsAgree'
  <2> SUFFICES ASSUME ~overlapped', meddled' = {}
      PROVE  /\ run' = Derive(run', approval', call', safe)
             /\ ticket' = TicketFor(run', approval', call', safe)
    BY <1>3 DEF SerialRunsAgree, Derive, TicketFor, AnyWaiting, AnyFailed,
       OnlyRejected, Delivered
  <2>1. /\ loaded[s].run = run /\ loaded[s].ticket = ticket
        /\ loaded[s].derived = Derive(run, approval', call', safe)
        /\ loaded[s].synced = TicketFor(loaded[s].derived, approval', call', safe)
    BY <1>5, <1>15 DEF ReadIsCurrent
  <2>2. run' = loaded[s].derived /\ ticket' = loaded[s].synced
    BY <2>1 DEF Write
  <2>3. run \in RunStatuses
    BY <1>1 DEF TypeOK
  <2> QED BY <2>1, <2>2, <2>3, DeriveType
<1> QED BY <1>7, <1>10, <1>11, <1>12, <1>13, <1>14, <1>16, <1>17 DEF IInv

LEMMA RollbackStep ==
  ASSUME IInv, NEW s \in Sessions, Rollback(s)
  PROVE  IInv'
<1> USE DEF Rollback, sessionUnchanged
<1>1. TypeOK
  BY DEF IInv
<1>2. sess'[s] = "done"
  BY <1>1, Closed
<1>3. Private(s)
  BY <1>1, Closed DEF Private, childVars, taskVars
<1>4. ~NothingAsked
  BY AtWork
<1>5. TypeOK'
  <2>1. /\ sess' \in [Sessions -> {"idle", "preread", "decided", "refreshed", "done"}]
        /\ target' \in [Sessions -> Approvals \cup {Nothing}]
        /\ own' \in [Sessions -> Owns \cup {Nothing}]
        /\ loaded' \in [Sessions -> Loads \cup {Nothing}]
    BY <1>1, Closed
  <2> QED BY <1>1, <1>3, <2>1 DEF TypeOK, Owns, Loads, Private
<1>6. SessFits(s)' /\ NoRevival(s)' /\ DerivedDecided(s)' /\ ~Holds(s)'
  BY <1>2 DEF SessFits, NoRevival, DerivedDecided, Holds
<1>7. ReadIsCurrent(s)'
  BY <1>2 DEF ReadIsCurrent
<1> QED BY <1>3, <1>4, <1>5, <1>6, <1>7, PrivateStep

-----------------------------------------------------------------------------
(* Cancel, and the GETs.                                                   *)

LEMMA CancelStep ==
  ASSUME IInv, Cancel
  PROVE  IInv'
<1> USE DEF Cancel
<1>1. UNCHANGED <<sessionVars, approval, early>>
        /\ UNCHANGED <<sess, target, own, loaded, call, safe, task, taskSeen, requested>>
  BY DEF sessionVars, childVars, taskVars
<1>2. TypeOK'
  BY <1>1 DEF IInv, TypeOK, NoteOverlap, RunStatuses
<1>3. /\ (\A s \in Sessions : SessFits(s))'
      /\ RowExclusive'
      /\ (\A s \in Sessions : NoRevival(s) /\ DerivedDecided(s))'
  BY <1>1, SessionsUntouched
<1>4. NotAskedYet' /\ CompletedMeansDecided' /\ ResolvedMeansDecided'
  BY <1>1 DEF IInv, NotAskedYet, NothingAsked, CompletedMeansDecided,
     ResolvedMeansDecided, Undecided, AskedLate
<1>5. ReadsCurrent' /\ SerialRunsAgree'
  BY DEF ReadsCurrent, SerialRunsAgree
<1> QED BY <1>2, <1>3, <1>4, <1>5 DEF IInv

LEMMA FailStaleStep ==
  ASSUME IInv, NEW g \in Getters, FailStale(g)
  PROVE  IInv'
<1> USE DEF FailStale
<1>1. UNCHANGED <<sessionVars, approval, early>>
        /\ UNCHANGED <<sess, target, own, loaded, call, safe, task, taskSeen, requested>>
  BY DEF sessionVars, childVars, taskVars
<1>2. TypeOK'
  BY <1>1 DEF IInv, TypeOK, NoteOverlap, RunStatuses
<1>3. /\ (\A s \in Sessions : SessFits(s))'
      /\ RowExclusive'
      /\ (\A s \in Sessions : NoRevival(s) /\ DerivedDecided(s))'
  BY <1>1, SessionsUntouched
<1>4. NotAskedYet' /\ CompletedMeansDecided' /\ ResolvedMeansDecided'
  BY <1>1 DEF IInv, NotAskedYet, NothingAsked, CompletedMeansDecided,
     ResolvedMeansDecided, Undecided, AskedLate
<1>5. ReadsCurrent' /\ SerialRunsAgree'
  BY DEF ReadsCurrent, SerialRunsAgree
<1> QED BY <1>2, <1>3, <1>4, <1>5 DEF IInv

\* Time passes, or a GET looks.
LEMMA LookStep ==
  ASSUME IInv, GrowStale \/ \E g \in Getters : FindStale(g)
  PROVE  IInv'
<1>1. UNCHANGED <<sessionVars, childVars, run, ticket, early, task, taskSeen,
                requested, meddled, overlapped>>
        /\ UNCHANGED <<sess, target, own, loaded, approval, call, safe>>
  BY DEF GrowStale, FindStale, sessionVars, childVars, taskVars
<1>2. TypeOK'
  BY <1>1 DEF IInv, TypeOK, GrowStale, FindStale
<1>3. /\ (\A s \in Sessions : SessFits(s))'
      /\ RowExclusive'
      /\ (\A s \in Sessions : NoRevival(s) /\ DerivedDecided(s))'
  BY <1>1, SessionsUntouched
<1>4. NotAskedYet'
  BY <1>1 DEF IInv, NotAskedYet, NothingAsked
<1>5. CompletedMeansDecided' /\ ResolvedMeansDecided'
  BY <1>1, ShownUntouched
<1>6. ReadsCurrent' /\ SerialRunsAgree'
  BY <1>1, ReadsUntouched
<1> QED BY <1>2, <1>3, <1>4, <1>5, <1>6 DEF IInv

LEMMA StutterStep ==
  ASSUME IInv, UNCHANGED vars
  PROVE  IInv'
<1>1. UNCHANGED <<sessionVars, childVars, run, ticket, early, task, taskSeen,
                requested, meddled, overlapped>>
        /\ UNCHANGED <<sess, target, own, loaded, approval, call, safe, stale, getter>>
  BY DEF vars, sessionVars, childVars, taskVars
<1>2. TypeOK' /\ NotAskedYet'
  BY <1>1 DEF IInv, TypeOK, NotAskedYet, NothingAsked
<1>3. /\ (\A s \in Sessions : SessFits(s))'
      /\ RowExclusive'
      /\ (\A s \in Sessions : NoRevival(s) /\ DerivedDecided(s))'
  BY <1>1, SessionsUntouched
<1>4. CompletedMeansDecided' /\ ResolvedMeansDecided'
  BY <1>1, ShownUntouched
<1>5. ReadsCurrent' /\ SerialRunsAgree'
  BY <1>1, ReadsUntouched
<1> QED BY <1>2, <1>3, <1>4, <1>5 DEF IInv

LEMMA NextIInv == IInv /\ [Next]_vars => IInv'
<1> SUFFICES ASSUME IInv, [Next]_vars PROVE IInv'
  OBVIOUS
<1>1. CASE TaskStep
  BY <1>1, MarkRunningStep, ExecuteSafeToolsStep, CreateApprovalsStep,
     LoadRunToAskStep, LoadRunToFinishStep, FinishRunStep DEF TaskStep
<1>2. CASE TaskRaises
  BY <1>2, TaskRaisesStep
<1>3. CASE Restart
  BY <1>3, RestartStep
<1>4. CASE \E s \in Sessions : SessionStep(s)
  BY <1>4, ReviewStep, PreReadStep, ExecuteStep, RefreshStep, CommitStep,
     RollbackStep DEF SessionStep
<1>5. CASE Cancel
  BY <1>5, CancelStep
<1>6. CASE GrowStale \/ \E g \in Getters : FindStale(g)
  BY <1>6, LookStep
<1>7. CASE \E g \in Getters : FailStale(g)
  BY <1>7, FailStaleStep
<1>8. CASE UNCHANGED vars
  BY <1>8, StutterStep
<1> QED BY <1>1, <1>2, <1>3, <1>4, <1>5, <1>6, <1>7, <1>8 DEF Next

LEMMA Invariant == Spec => []IInv
BY InitIInv, NextIInv, PTL DEF Spec

-----------------------------------------------------------------------------
(* The theorems.                                                           *)

\* Every variable keeps its type, whatever the interleaving of the task, the
\* endpoints and the GETs.
THEOREM TypeCorrect == Spec => []TypeOK
<1>1. IInv => TypeOK
  BY DEF IInv
<1> QED BY <1>1, Invariant, PTL

\* A run is shown as completed only when no reviewer has anything left to do on
\* it, although refresh_agent_run_summary derives it from unlocked reads; what
\* was asked for after other approvals had been shown is the exception.
THEOREM CompletedIsDecided == Spec => []CompletedMeansDecided
<1>1. IInv => CompletedMeansDecided
  BY DEF IInv
<1> QED BY <1>1, Invariant, PTL

\* A ticket that the run's writers resolved has none of the run's actions left to
\* decide or to execute, with the same exception.
THEOREM ResolvedIsDecided == Spec => []ResolvedMeansDecided
<1>1. IInv => ResolvedMeansDecided
  BY DEF IInv
<1> QED BY <1>1, Invariant, PTL

\* When no commit outdated a read and nobody cancelled the run or gave it up,
\* the run and the ticket are what their rules derive from the children.
THEOREM SerialAgreement == Spec => []SerialRunsAgree
<1>1. IInv => SerialRunsAgree
  BY DEF IInv
<1> QED BY <1>1, Invariant, PTL
=============================================================================
