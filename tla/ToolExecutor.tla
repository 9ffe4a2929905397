---------------------------- MODULE ToolExecutor ----------------------------
(***************************************************************************)
(* Which planned actions of one agent run reach their tool, and on whose   *)
(* authority: PolicyEngine.decide over the mutable sensitivity catalog, the*)
(* graph nodes policy_gate, execute_safe_tools and create_approval_requests*)
(* and ToolExecutor.execute / execute_approved with its retries.           *)
(*                                                                         *)
(* An action is named by its tool: calls of one tool share nothing but the *)
(* catalog entry.  The catalog is a dict of the process that the settings  *)
(* endpoints write between any two steps of the others.  How concurrent    *)
(* reviews and executions of one approval interleave is the subject of     *)
(* ApprovalExecution; here each approval is executed at most once.         *)
(***************************************************************************)
EXTENDS Naturals, FiniteSets

CONSTANTS Tools,             \* the tool names the plan and the settings use
          DeclaredSensitive, \* those whose definition says approval_required
          DefinedAttempts,   \* ToolDefinition.max_attempts, 0 when unset
          DefaultAttempts,   \* settings.tool_default_max_attempts
          NoEntry            \* a name the catalog does not have

Sensitivities == {"safe", "approval_required", "blocked"}

\* The settings endpoint stores whatever string it is sent.
CatalogValues == Sensitivities \cup {"unknown", NoEntry}

ASSUME ToolExecutorAssumption ==
  /\ DeclaredSensitive \subseteq Tools
  /\ DefinedAttempts \in [Tools -> Nat] /\ DefaultAttempts \in Nat
  /\ NoEntry \notin Sensitivities \cup {"unknown"}

VARIABLES
  registry,  \* the tools that have a ToolDefinition
  catalog,   \* TOOL_SENSITIVITY_CATALOG
  node,      \* the graph node that runs
  class,     \* what policy_gate made of each action
  handled,   \* actions the current plan's nodes are through with
  valid,     \* whether the action's final payload passes its input model
  row,       \* status of each action's tool_calls row, or "none"
  approval,  \* status of its approval request, or "none"
  step,      \* where _execute_tool_call is with it
  attempts,  \* attempts made by RetryPolicy.run
  retries,   \* tool_calls.retry_count
  started,   \* history: sensitivity of the tool when its call was admitted
  effects    \* history: handler invocations

callVars == <<row, approval, step, attempts, retries, started, effects>>
vars == <<registry, catalog, node, class, handled, valid, callVars>>

Nodes == {"policy_gate", "execute_safe_tools", "create_approval_requests", "end"}

Decisions == {"allow", "request_approval", "blocked", "invalid", "unregistered",
              "raises"}

\* RetryPolicy.run: max(definition.max_attempts or the default, 1).
MaxAttempts(t) ==
  LET n == IF DefinedAttempts[t] = 0 THEN DefaultAttempts
           ELSE DefinedAttempts[t]
  IN IF n = 0 THEN 1 ELSE n

TypeOK ==
  /\ registry \subseteq Tools
  /\ catalog \in [Tools -> CatalogValues]
  /\ node \in Nodes
  /\ class \in [Tools -> {"unplanned", "planned", "safe", "approval", "denied"}]
  /\ handled \subseteq Tools
  /\ valid \in [Tools -> BOOLEAN]
  /\ row \in [Tools -> {"none", "running", "completed", "failed", "denied",
                        "waiting_for_approval"}]
  /\ approval \in [Tools -> {"none", "pending_review", "approved", "edited",
                             "rejected", "executed", "failed"}]
  /\ step \in [Tools -> {"idle", "starting", "calling"}]
  /\ attempts \in [Tools -> Nat] /\ retries \in [Tools -> Nat]
  /\ \A t \in Tools :
       attempts[t] <= MaxAttempts(t) /\ retries[t] < MaxAttempts(t)
  /\ started \in [Tools -> CatalogValues]
  /\ effects \subseteq [tool : Tools, attempt : Nat, valid : BOOLEAN,
                        reviewed : BOOLEAN, sensitivity : CatalogValues]

\* A plan over any names, registered or not, with payloads good or bad; the
\* seeded catalog may know a tool or not.
Init ==
  /\ registry \in SUBSET Tools
  /\ catalog \in [Tools -> Sensitivities \cup {NoEntry}]
  /\ node = "policy_gate"
  /\ class \in [Tools -> {"unplanned", "planned"}]
  /\ handled = {}
  /\ valid \in [Tools -> BOOLEAN]
  /\ row = [t \in Tools |-> "none"]
  /\ approval = [t \in Tools |-> "none"]
  /\ step = [t \in Tools |-> "idle"]
  /\ attempts = [t \in Tools |-> 0]
  /\ retries = [t \in Tools |-> 0]
  /\ started = [t \in Tools |-> NoEntry]
  /\ effects = {}

-----------------------------------------------------------------------------
(* The policy.                                                             *)

\* catalog_sensitivity(name) or definition.sensitivity.
Sensitivity(t) ==
  IF catalog[t] # NoEntry THEN catalog[t]
  ELSE IF t \in DeclaredSensitive THEN "approval_required" ELSE "safe"

\* Mutant: the registry is not asked.
DecideByCatalog(t) ==
  CASE Sensitivity(t) = "unknown" -> "raises"
    [] Sensitivity(t) = "blocked" -> "blocked"
    [] OTHER -> IF Sensitivity(t) = "safe" THEN "allow" ELSE "request_approval"

\* PolicyEngine.decide, its tests in their order; a string that is no
\* Sensitivity raises ValueError.
Decide(t) ==
  CASE t \notin registry -> "unregistered"
    [] t \in registry /\ Sensitivity(t) = "unknown" -> "raises"
    [] t \in registry /\ Sensitivity(t) = "blocked" -> "blocked"
    [] t \in registry /\ Sensitivity(t) \in {"safe", "approval_required"} ->
         IF ~valid[t] THEN "invalid"
         ELSE IF Sensitivity(t) = "safe" THEN "allow" ELSE "request_approval"

\* PATCH /settings/tools/{name}: any string, for a registered tool.
UpdateTool(t, value) ==
  /\ t \in registry
  /\ catalog' = [catalog EXCEPT ![t] = value]
  /\ UNCHANGED <<registry, node, class, handled, valid, callVars>>

\* PATCH /settings/guardrail-policies/{policy}: any names, registered or not.
UpdateGuardrailPolicy(names, value) ==
  /\ catalog' = [t \in Tools |-> IF t \in names THEN value ELSE catalog[t]]
  /\ UNCHANGED <<registry, node, class, handled, valid, callVars>>

-----------------------------------------------------------------------------
(* The graph nodes.                                                        *)

Planned == {t \in Tools : class[t] = "planned"}

ClassOf(t) ==
  CASE Decide(t) = "allow" -> "safe"
    [] Decide(t) = "request_approval" -> "approval"
    [] OTHER -> "denied"

\* policy_gate does not await: it classifies the whole plan at once.
PolicyGate ==
  /\ node = "policy_gate"
  /\ \A t \in Planned : Decide(t) # "raises"
  /\ class' = [t \in Tools |-> IF t \in Planned THEN ClassOf(t) ELSE class[t]]
  /\ node' = "execute_safe_tools"
  /\ UNCHANGED <<registry, catalog, handled, valid, callVars>>

\* The exception ends the graph, and the run with it.
PolicyGateRaises ==
  /\ node = "policy_gate"
  /\ \E t \in Planned : Decide(t) = "raises"
  /\ node' = "end"
  /\ UNCHANGED <<registry, catalog, class, handled, valid, callVars>>

\* The actions the current node goes through, one at a time.
NodeActions ==
  CASE node = "execute_safe_tools" -> {t \in Tools : class[t] = "safe"}
    [] node = "create_approval_requests" -> {t \in Tools : class[t] = "approval"}
    [] OTHER -> {}

NodeBusy == \E t \in handled : step[t] # "idle" /\ approval[t] = "none"

\* Mutant: execute() trusts what policy_gate decided.
GateDecision(t) == IF class[t] = "safe" THEN "allow" ELSE "request_approval"

\* ToolExecutor.execute decides again, whatever policy_gate said.
ExecuteDecision(t) == Decide(t)

\* ToolExecutor.execute up to the call: an unregistered tool or an exception
\* leaves no row; a denial, a request for approval and a call leave one.
Execute(t) ==
  /\ t \in NodeActions \ handled
  /\ ~NodeBusy
  /\ handled' = handled \cup {t}
  /\ LET d == ExecuteDecision(t)
     IN \/ /\ d \in {"unregistered", "raises"}
           /\ UNCHANGED <<row, approval, step, started>>
        \/ /\ d \in {"blocked", "invalid"}
           /\ row' = [row EXCEPT ![t] = "denied"]
           /\ UNCHANGED <<approval, step, started>>
        \/ /\ d = "request_approval"
           /\ row' = [row EXCEPT ![t] = "waiting_for_approval"]
           /\ approval' = [approval EXCEPT ![t] = "pending_review"]
           /\ UNCHANGED <<step, started>>
        \/ /\ d = "allow"
           /\ row' = [row EXCEPT ![t] = "running"]
           /\ step' = [step EXCEPT ![t] = "starting"]
           /\ started' = [started EXCEPT ![t] = Sensitivity(t)]
           /\ UNCHANGED approval
  /\ UNCHANGED <<registry, catalog, node, class, valid, attempts, retries,
                 effects>>

\* The node commits and the graph takes its conditional edge.
LeaveNode ==
  /\ node \in {"execute_safe_tools", "create_approval_requests"}
  /\ NodeActions \subseteq handled
  /\ ~NodeBusy
  /\ node' = IF /\ node = "execute_safe_tools"
                /\ \E t \in Tools : class[t] = "approval"
               THEN "create_approval_requests" ELSE "end"
  /\ UNCHANGED <<registry, catalog, class, handled, valid, callVars>>

-----------------------------------------------------------------------------
(* The reviewer, and execute_approved.                                     *)

\* What a node has flushed is public once it has committed.
Committed(t) == t \notin NodeActions

reviewUnchanged ==
  UNCHANGED <<registry, catalog, node, class, handled, step, attempts,
              retries, started, effects>>

Executable == {"approved", "edited"}

Approve(t) ==
  /\ approval[t] \in {"pending_review", "edited"}
  /\ Committed(t) /\ step[t] = "idle"
  /\ approval' = [approval EXCEPT ![t] = "approved"]
  /\ UNCHANGED <<valid, row>> /\ reviewUnchanged

\* The edited payload is any JSON object: nothing validates it here.
Edit(t) ==
  /\ approval[t] \in {"pending_review", "edited"}
  /\ Committed(t) /\ step[t] = "idle"
  /\ approval' = [approval EXCEPT ![t] = "edited"]
  /\ \E ok \in BOOLEAN : valid' = [valid EXCEPT ![t] = ok]
  /\ UNCHANGED row /\ reviewUnchanged

Reject(t) ==
  /\ approval[t] \in {"pending_review", "approved", "edited"}
  /\ Committed(t) /\ step[t] = "idle"
  /\ approval' = [approval EXCEPT ![t] = "rejected"]
  /\ row' = [row EXCEPT ![t] = "denied"]
  /\ UNCHANGED valid /\ reviewUnchanged

\* execute_approved: the status is checked, the policy is not asked.
ExecuteApproved(t) ==
  /\ approval[t] \in Executable
  /\ step[t] = "idle"
  /\ row' = [row EXCEPT ![t] = "running"]
  /\ step' = [step EXCEPT ![t] = "starting"]
  /\ started' = [started EXCEPT ![t] = Sensitivity(t)]
  /\ UNCHANGED <<registry, catalog, node, class, handled, valid, approval,
                 attempts, retries, effects>>

-----------------------------------------------------------------------------
(* _execute_tool_call and RetryPolicy.run.                                 *)

\* mark_executed or mark_failed for an approved action.
Outcome(t, status) ==
  approval' = IF approval[t] \in Executable
                THEN [approval EXCEPT ![t] = status] ELSE approval

\* The audit of tool_call.started raises, outside the try: the row stays as it
\* was flushed.
StartRaises(t) ==
  /\ step[t] = "starting"
  /\ step' = [step EXCEPT ![t] = "idle"]
  /\ Outcome(t, "failed")
  /\ UNCHANGED <<registry, catalog, node, class, handled, valid, row,
                 attempts, retries, started, effects>>

\* Mutant: the input of an approved call is not validated again.
AcceptsAnyInput(t) == TRUE

\* definition.validate_input on the final payload.
AcceptsInput(t) == valid[t]

InputRejected(t) ==
  /\ step[t] = "starting"
  /\ ~AcceptsInput(t)
  /\ step' = [step EXCEPT ![t] = "idle"]
  /\ row' = [row EXCEPT ![t] = "failed"]
  /\ Outcome(t, "failed")
  /\ UNCHANGED <<registry, catalog, node, class, handled, valid, attempts,
                 retries, started, effects>>

BeginAttempts(t) ==
  /\ step[t] = "starting"
  /\ AcceptsInput(t)
  /\ step' = [step EXCEPT ![t] = "calling"]
  /\ UNCHANGED <<registry, catalog, node, class, handled, valid, row,
                 approval, attempts, retries, started, effects>>

\* One more call of the handler.
Attempt(t) ==
  /\ step[t] = "calling"
  /\ attempts' = [attempts EXCEPT ![t] = @ + 1]
  /\ effects' = effects \cup
       {[tool |-> t, attempt |-> attempts[t] + 1, valid |-> valid[t],
         reviewed |-> approval[t] \in Executable, sensitivity |-> started[t]]}

\* Mutant: retry_count counts the attempts.
RetriesAreAttempts(n) == n

\* max(attempts - 1, 0)
RetryCount(n) == IF n = 0 THEN 0 ELSE n - 1

AttemptSucceeds(t) ==
  /\ Attempt(t)
  /\ step' = [step EXCEPT ![t] = "idle"]
  /\ row' = [row EXCEPT ![t] = "completed"]
  /\ retries' = [retries EXCEPT ![t] = RetryCount(attempts[t] + 1)]
  /\ Outcome(t, "executed")
  /\ UNCHANGED <<registry, catalog, node, class, handled, valid, started>>

\* The last attempt raises, times out or breaks its output model, or the audit
\* of a success raises: the handler has been called, the tool call fails.
AttemptUnrecorded(t) ==
  /\ Attempt(t)
  /\ step' = [step EXCEPT ![t] = "idle"]
  /\ row' = [row EXCEPT ![t] = "failed"]
  /\ retries' = [retries EXCEPT ![t] = RetryCount(attempts[t] + 1)]
  /\ Outcome(t, "failed")
  /\ UNCHANGED <<registry, catalog, node, class, handled, valid, started>>

\* Mutant: attempts is compared before it is counted.
HasAttemptsLeft(t, n) == n <= MaxAttempts(t)

\* attempts < max(max_attempts, 1), after n attempts.
AttemptsLeft(t, n) == n < MaxAttempts(t)

\* It raises or times out, and attempts are left: sleep, and go round again.
AttemptRetried(t) ==
  /\ Attempt(t)
  /\ AttemptsLeft(t, attempts[t] + 1)
  /\ UNCHANGED <<registry, catalog, node, class, handled, valid, row,
                 approval, step, retries, started>>

-----------------------------------------------------------------------------
GraphStep ==
  \/ PolicyGate
  \/ PolicyGateRaises
  \/ \E t \in Tools : Execute(t)
  \/ LeaveNode

CallStep(t) ==
  \/ StartRaises(t)
  \/ InputRejected(t)
  \/ BeginAttempts(t)
  \/ AttemptSucceeds(t)
  \/ AttemptUnrecorded(t)
  \/ AttemptRetried(t)

Next ==
  \/ \E t \in Tools, value \in CatalogValues \ {NoEntry} :
       UpdateTool(t, value)
  \/ \E names \in SUBSET Tools, value \in Sensitivities :
       UpdateGuardrailPolicy(names, value)
  \/ GraphStep
  \/ \E t \in Tools :
       \/ Approve(t) \/ Edit(t) \/ Reject(t)
       \/ ExecuteApproved(t)
       \/ CallStep(t)

Spec == Init /\ [][Next]_vars

-----------------------------------------------------------------------------
\* A tool that the catalog, at the moment its call was admitted, did not call
\* safe is invoked for a reviewed approval only: not even when the settings
\* change between policy_gate, execute() and the handler.
SensitiveIsReviewed == \A e \in effects : e.sensitivity = "safe" \/ e.reviewed

\* No handler is called with a payload its input model refuses, neither the
\* planner's nor one that a reviewer edited after the policy accepted another.
OnlyValidInputs == \A e \in effects : e.valid

Calls(t) == {e \in effects : e.tool = t}

\* The tool_calls rows tell what happened: an unregistered tool has none, a
\* denied or waiting call was never made, and a completed one reports as
\* retries exactly the calls of the handler before the last.
RowsTellTheCalls ==
  \A t \in Tools :
    /\ t \notin registry => row[t] = "none"
    /\ row[t] \in {"none", "denied", "waiting_for_approval"} => Calls(t) = {}
    /\ row[t] = "completed" => Cardinality(Calls(t)) = retries[t] + 1
=============================================================================
