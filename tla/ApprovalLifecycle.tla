-------------------------- MODULE ApprovalLifecycle --------------------------
(***************************************************************************)
(* What the approval subsystem promises, without sessions, locks, identity *)
(* maps or failures: decisions and executions of one approval request take *)
(* turns.  A decision is atomic.  An execution begins only after some      *)
(* reviewer has agreed to some payload, invokes the tool at most once, and *)
(* ends by recording one outcome or by leaving no trace in the database.   *)
(*                                                                         *)
(* It does not promise that an approval is executed once, nor that a       *)
(* rejected approval is not executed: the code breaks both.                *)
(***************************************************************************)
EXTENDS ApprovalData

CONSTANT Executions   \* execution attempts

VARIABLES approval,   \* the approval request's columns
          toolCall,   \* its tool call's status
          endorsed,   \* payloads reviewers have agreed to
          effects,    \* tool invocations, [session, payload]
          executing   \* the attempt under way, or None

lifecycleVars == <<approval, toolCall, endorsed, effects, executing>>

\* A tool may run on an endorsed payload; on the agent's own proposal also when
\* what the reviewer endorsed was an empty edit.
Permitted(p) ==
  \/ p \in endorsed
  \/ p = Proposed /\ EmptyPayload \in endorsed

HasRun(x) == \E e \in effects : e.session = x

LifecycleInit ==
  /\ approval = NewApproval
  /\ toolCall = "waiting_for_approval"
  /\ endorsed = {}
  /\ effects = {}
  /\ executing = None

ReviewDecision(r) ==
  /\ executing = None
  /\ Accepts(r, approval.status)
  /\ approval' = Decide(r, approval)
  /\ toolCall' = IF r.op = "reject" THEN "denied" ELSE toolCall
  /\ endorsed' = endorsed \cup Endorsed(r, approval)
  /\ UNCHANGED <<effects, executing>>

BeginExecution(x) ==
  /\ executing = None
  /\ endorsed # {}
  /\ ~HasRun(x)
  /\ executing' = x
  /\ UNCHANGED <<approval, toolCall, endorsed, effects>>

Invoke(x) ==
  /\ executing = x
  /\ ~HasRun(x)
  /\ \E p \in {q \in Payloads : Permitted(q)} :
       effects' = effects \cup {[session |-> x, payload |-> p]}
  /\ UNCHANGED <<approval, toolCall, endorsed, executing>>

\* "executed" is recorded only together with a completed run of this attempt.
Conclude(x) ==
  /\ executing = x
  /\ executing' = None
  /\ \/ /\ HasRun(x)
        /\ approval' = [approval EXCEPT !.status = "executed"]
        /\ toolCall' = "completed"
     \/ /\ approval' = [approval EXCEPT !.status = "failed"]
        /\ toolCall' \in {"running", "failed"}
     \/ /\ HasRun(x)
        /\ approval' = [approval EXCEPT !.status = "failed"]
        /\ toolCall' = "completed"
  /\ UNCHANGED <<endorsed, effects>>

Abandon(x) ==
  /\ executing = x
  /\ executing' = None
  /\ UNCHANGED <<approval, toolCall, endorsed, effects>>

LifecycleNext ==
  \/ \E r \in ReviewRequests : ReviewDecision(r)
  \/ \E x \in Executions :
       BeginExecution(x) \/ Invoke(x) \/ Conclude(x) \/ Abandon(x)

LifecycleSpec == LifecycleInit /\ [][LifecycleNext]_lifecycleVars
=============================================================================
