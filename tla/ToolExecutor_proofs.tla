------------------------- MODULE ToolExecutor_proofs -------------------------
(***************************************************************************)
(* Theorems about ToolExecutor, for any set of tools, any catalog and any  *)
(* limits of the retries.                                                  *)
(***************************************************************************)
EXTENDS ToolExecutor, FiniteSetTheorems, TLAPS

(* What the helpers return.                                                *)

LEMMA MaxAttemptsType ==
  ASSUME NEW t \in Tools
  PROVE  MaxAttempts(t) \in Nat \ {0}
BY ToolExecutorAssumption DEF MaxAttempts

LEMMA SensitivityType ==
  ASSUME catalog \in [Tools -> CatalogValues], NEW t \in Tools
  PROVE  Sensitivity(t) \in Sensitivities \cup {"unknown"}
BY ToolExecutorAssumption DEF Sensitivity, CatalogValues, Sensitivities

\* What execute() may rely on when the policy has spoken: only a registered
\* tool gets a row, and only one that is safe now is called unreviewed.
LEMMA DecideType ==
  ASSUME catalog \in [Tools -> CatalogValues], NEW t \in Tools
  PROVE  /\ Decide(t) \in Decisions
         /\ Decide(t) \in {"blocked", "invalid", "request_approval", "allow"} =>
              t \in registry
         /\ Decide(t) = "allow" => Sensitivity(t) = "safe"
<1>1. CASE t \notin registry
  BY <1>1 DEF Decide, Decisions
<1>2. CASE t \in registry /\ Sensitivity(t) = "unknown"
  BY <1>2 DEF Decide, Decisions
<1>3. CASE t \in registry /\ Sensitivity(t) = "blocked"
  BY <1>3 DEF Decide, Decisions
<1>4. CASE t \in registry /\ Sensitivity(t) \in {"safe", "approval_required"}
  BY <1>4 DEF Decide, Decisions
<1> QED BY <1>1, <1>2, <1>3, <1>4, SensitivityType DEF Sensitivities

LEMMA RetryCountType ==
  \A n \in Nat : RetryCount(n + 1) = n
BY DEF RetryCount

-----------------------------------------------------------------------------
(* The invariant.                                                          *)

Fresh(t) == attempts[t] = 0 /\ retries[t] = 0

\* The row, the approval and the place of one action fit together.
RowFits(t) ==
  /\ t \notin handled => row[t] = "none" /\ approval[t] = "none"
  /\ approval[t] # "none" => row[t] # "none"
  /\ row[t] # "none" => t \in registry
  /\ approval[t] \in {"pending_review", "approved", "edited"} /\ step[t] = "idle"
       => row[t] = "waiting_for_approval"
  /\ row[t] \in {"none", "denied", "waiting_for_approval"}
       => step[t] = "idle" /\ Fresh(t)
  /\ row[t] = "completed" => attempts[t] = retries[t] + 1

\* What a call under way has been admitted with.
CallAdmitted(t) ==
  /\ step[t] # "idle" => /\ row[t] = "running"
                         /\ approval[t] \in {"none", "approved", "edited"}
                         /\ approval[t] = "none" => started[t] = "safe"
  /\ step[t] = "starting" => Fresh(t)
  /\ step[t] = "calling" => valid[t] /\ attempts[t] < MaxAttempts(t)

\* Each attempt has left one effect of its own.
CallsCounted(t) ==
  /\ IsFiniteSet(Calls(t))
  /\ Cardinality(Calls(t)) = attempts[t]
  /\ \A e \in Calls(t) : e.attempt <= attempts[t]

IInv ==
  /\ TypeOK
  /\ \A t \in Tools : RowFits(t) /\ CallAdmitted(t) /\ CallsCounted(t)
  /\ SensitiveIsReviewed /\ OnlyValidInputs

LEMMA InitIInv == Init => IInv
<1> SUFFICES ASSUME Init PROVE IInv
  OBVIOUS
<1> USE DEF Init
<1>1. \A t \in Tools : MaxAttempts(t) \in Nat \ {0}
  BY MaxAttemptsType
<1>2. TypeOK
  BY <1>1, ToolExecutorAssumption DEF TypeOK, Nodes, CatalogValues, Sensitivities
<1>3. ASSUME NEW t \in Tools
      PROVE  RowFits(t) /\ CallAdmitted(t) /\ CallsCounted(t)
  <2>1. Calls(t) = {}
    BY DEF Calls
  <2> QED BY <2>1, FS_EmptySet DEF RowFits, CallAdmitted, CallsCounted, Fresh
<1> QED BY <1>2, <1>3 DEF IInv, SensitiveIsReviewed, OnlyValidInputs

\* The settings and the graph's own moves touch no call.
LEMMA CallsUntouched ==
  ASSUME IInv, UNCHANGED <<registry, handled, valid, callVars>>,
         catalog' \in [Tools -> CatalogValues], node' \in Nodes,
         class' \in [Tools -> {"unplanned", "planned", "safe", "approval", "denied"}]
  PROVE  IInv'
<1>1. UNCHANGED <<registry, handled, valid, row, approval, step, attempts, retries,
                  started, effects>>
  BY DEF callVars
<1>2. TypeOK'
  BY <1>1 DEF IInv, TypeOK
<1>3. ASSUME NEW t \in Tools
      PROVE  (RowFits(t) /\ CallAdmitted(t) /\ CallsCounted(t))'
  BY <1>1 DEF IInv, RowFits, CallAdmitted, CallsCounted, Fresh, Calls
<1> QED BY <1>1, <1>2, <1>3 DEF IInv, SensitiveIsReviewed, OnlyValidInputs

\* A call of the handler adds one effect to those of its tool, and what it is
\* made with is what the call was admitted with.
LEMMA AttemptCounted ==
  ASSUME IInv, NEW t \in Tools, Attempt(t)
  PROVE  /\ attempts' \in [Tools -> Nat]
         /\ attempts'[t] = attempts[t] + 1
         /\ \A u \in Tools \ {t} : attempts'[u] = attempts[u]
         /\ attempts'[t] <= MaxAttempts(t)
         /\ effects' \subseteq [tool : Tools, attempt : Nat, valid : BOOLEAN,
                                reviewed : BOOLEAN, sensitivity : CatalogValues]
         /\ \A u \in Tools : CallsCounted(u)'
         /\ SensitiveIsReviewed' /\ OnlyValidInputs'
<1> DEFINE new == [tool |-> t, attempt |-> attempts[t] + 1, valid |-> valid[t],
                   reviewed |-> approval[t] \in Executable,
                   sensitivity |-> started[t]]
<1>1. /\ step[t] = "calling"
      /\ attempts' = [attempts EXCEPT ![t] = @ + 1]
      /\ effects' = effects \cup {new}
  BY DEF Attempt
<1>2. attempts \in [Tools -> Nat]
  BY DEF IInv, TypeOK
<1>3. valid[t] /\ attempts[t] < MaxAttempts(t)
  BY <1>1 DEF IInv, CallAdmitted
<1>4. approval[t] \in Executable \/ started[t] = "safe"
  BY <1>1 DEF IInv, CallAdmitted, Executable
<1>5. attempts' \in [Tools -> Nat] /\ attempts'[t] = attempts[t] + 1
  BY <1>1, <1>2
<1>6. \A u \in Tools \ {t} : attempts'[u] = attempts[u]
  BY <1>1, <1>2
<1>7. attempts'[t] <= MaxAttempts(t)
  BY <1>2, <1>3, <1>5, MaxAttemptsType
<1>8. new \in [tool : Tools, attempt : Nat, valid : BOOLEAN, reviewed : BOOLEAN,
               sensitivity : CatalogValues]
  BY <1>2 DEF IInv, TypeOK
<1>9. ASSUME NEW u \in Tools PROVE CallsCounted(u)'
  <2>1. CallsCounted(u)
    BY DEF IInv
  <2>2. CASE u # t
    <3>1. Calls(u)' = Calls(u)
      BY <1>1, <2>2 DEF Calls
    <3> QED BY <1>6, <2>1, <2>2, <3>1 DEF CallsCounted
  <2>3. CASE u = t
    <3>1. Calls(t)' = Calls(t) \cup {new}
      BY <1>1 DEF Calls
    <3>2. new \notin Calls(t)
      <4>1. \A e \in Calls(t) : e.attempt <= attempts[t]
        BY <2>1, <2>3 DEF CallsCounted
      <4>2. ~(new.attempt <= attempts[t])
        BY <1>2
      <4> QED BY <4>1, <4>2
    <3>3. IsFiniteSet(Calls(t)) /\ Cardinality(Calls(t)) = attempts[t]
      BY <2>1, <2>3 DEF CallsCounted
    <3>4. /\ IsFiniteSet(Calls(t) \cup {new})
          /\ Cardinality(Calls(t) \cup {new}) = attempts[t] + 1
      BY <3>2, <3>3, FS_AddElement
    <3>5. \A e \in Calls(t) : e.attempt <= attempts[t] + 1
      <4>1. \A e \in Calls(t) : e.attempt \in Nat /\ e.attempt <= attempts[t]
        BY <2>1, <2>3 DEF CallsCounted, Calls, IInv, TypeOK
      <4> QED BY <1>2, <4>1
    <3>6. \A e \in Calls(t)' : e.attempt <= attempts'[t]
      BY <1>2, <1>5, <3>1, <3>5
    <3> QED BY <1>5, <2>3, <3>1, <3>4, <3>6 DEF CallsCounted
  <2> QED BY <2>2, <2>3
<1>10. SensitiveIsReviewed'
  <2>1. new.sensitivity = "safe" \/ new.reviewed
    BY <1>4
  <2>2. \A e \in effects : e.sensitivity = "safe" \/ e.reviewed
    BY DEF IInv, SensitiveIsReviewed
  <2> HIDE DEF new
  <2> QED BY <1>1, <2>1, <2>2 DEF SensitiveIsReviewed
<1>11. OnlyValidInputs'
  BY <1>1, <1>3 DEF OnlyValidInputs, IInv
<1>12. effects' \subseteq [tool : Tools, attempt : Nat, valid : BOOLEAN,
                           reviewed : BOOLEAN, sensitivity : CatalogValues]
  BY <1>1, <1>8 DEF IInv, TypeOK
<1> QED BY <1>5, <1>6, <1>7, <1>9, <1>10, <1>11, <1>12

\* An action on one tool that calls no handler leaves the others as they are.
LEMMA OthersUntouched ==
  ASSUME IInv, TypeOK', NEW t \in Tools,
         UNCHANGED <<registry, attempts, retries, effects>>,
         handled' \in {handled, handled \cup {t}},
         \A u \in Tools \ {t} : /\ valid'[u] = valid[u] /\ row'[u] = row[u]
                                /\ approval'[u] = approval[u]
                                /\ step'[u] = step[u] /\ started'[u] = started[u],
         RowFits(t)', CallAdmitted(t)'
  PROVE  IInv'
<1>1. ASSUME NEW u \in Tools PROVE CallsCounted(u)'
  BY DEF IInv, CallsCounted, Calls
<1>2. ASSUME NEW u \in Tools \ {t} PROVE (RowFits(u) /\ CallAdmitted(u))'
  <2>1. u \notin handled' => u \notin handled
    OBVIOUS
  <2>2. RowFits(u) /\ CallAdmitted(u)
    BY DEF IInv
  <2> QED BY <2>1, <2>2 DEF RowFits, CallAdmitted, Fresh, MaxAttempts
<1> QED BY <1>1, <1>2 DEF IInv, SensitiveIsReviewed, OnlyValidInputs

\* The same for an action that calls it.
LEMMA OthersAttempted ==
  ASSUME IInv, TypeOK', NEW t \in Tools, Attempt(t),
         UNCHANGED <<registry, handled, valid, started>>,
         \A u \in Tools \ {t} : /\ row'[u] = row[u] /\ approval'[u] = approval[u]
                                /\ step'[u] = step[u] /\ retries'[u] = retries[u],
         RowFits(t)', CallAdmitted(t)'
  PROVE  IInv'
<1>1. ASSUME NEW u \in Tools \ {t} PROVE (RowFits(u) /\ CallAdmitted(u))'
  <2>1. attempts'[u] = attempts[u]
    BY AttemptCounted
  <2>2. RowFits(u) /\ CallAdmitted(u)
    BY DEF IInv
  <2> QED BY <2>1, <2>2 DEF RowFits, CallAdmitted, Fresh, MaxAttempts
<1> QED BY <1>1, AttemptCounted DEF IInv

LEMMA NextIInv == IInv /\ [Next]_vars => IInv'
<1> SUFFICES ASSUME IInv, [Next]_vars PROVE IInv'
  OBVIOUS
<1>0. TypeOK /\ \A t \in Tools : RowFits(t) /\ CallAdmitted(t)
  BY DEF IInv
<1>1. CASE UNCHANGED vars
  BY <1>1, <1>0, CallsUntouched DEF vars, callVars, TypeOK
<1>2. ASSUME NEW t \in Tools, NEW value \in CatalogValues \ {NoEntry},
             UpdateTool(t, value)
      PROVE  IInv'
  BY <1>0, <1>2, CallsUntouched DEF UpdateTool, TypeOK
<1>3. ASSUME NEW names \in SUBSET Tools, NEW value \in Sensitivities,
             UpdateGuardrailPolicy(names, value)
      PROVE  IInv'
  BY <1>0, <1>3, CallsUntouched DEF UpdateGuardrailPolicy, TypeOK, CatalogValues
<1>4. CASE PolicyGate
  <2>1. class' \in [Tools -> {"unplanned", "planned", "safe", "approval", "denied"}]
    <3>1. \A t \in Tools : ClassOf(t) \in {"safe", "approval", "denied"}
      BY DEF ClassOf
    <3> QED BY <1>0, <1>4, <3>1 DEF PolicyGate, TypeOK
  <2> QED BY <1>0, <1>4, <2>1, CallsUntouched DEF PolicyGate, TypeOK, Nodes
<1>5. CASE PolicyGateRaises
  BY <1>0, <1>5, CallsUntouched DEF PolicyGateRaises, TypeOK, Nodes
<1>6. CASE LeaveNode
  BY <1>0, <1>6, CallsUntouched DEF LeaveNode, TypeOK, Nodes
<1>7. ASSUME NEW t \in Tools, Execute(t) PROVE IInv'
  <2>1. t \notin handled /\ row[t] = "none" /\ approval[t] = "none"
    BY <1>0, <1>7 DEF Execute, RowFits
  <2>2. step[t] = "idle" /\ Fresh(t)
    BY <1>0, <2>1 DEF RowFits
  <2>3. /\ Decide(t) \in {"blocked", "invalid", "request_approval", "allow"} =>
             t \in registry
        /\ Decide(t) = "allow" => Sensitivity(t) = "safe"
        /\ Sensitivity(t) \in CatalogValues
    BY <1>0, DecideType, SensitivityType DEF TypeOK, CatalogValues
  <2>4. /\ handled' = handled \cup {t}
        /\ UNCHANGED <<registry, catalog, node, class, valid, attempts, retries,
                       effects>>
    BY <1>7 DEF Execute
  <2>5. CASE UNCHANGED <<row, approval, step, started>>
    <3>1. TypeOK'
      BY <1>0, <2>4, <2>5 DEF TypeOK
    <3>2. RowFits(t)' /\ CallAdmitted(t)'
      BY <1>0, <2>1, <2>2, <2>4, <2>5 DEF RowFits, CallAdmitted, Fresh, MaxAttempts
    <3> QED BY <2>4, <2>5, <3>1, <3>2, OthersUntouched
  <2>6. CASE /\ t \in registry
             /\ row' = [row EXCEPT ![t] = "denied"]
             /\ UNCHANGED <<approval, step, started>>
    <3>1. TypeOK'
      BY <1>0, <2>4, <2>6 DEF TypeOK
    <3>2. row'[t] = "denied" /\ \A u \in Tools \ {t} : row'[u] = row[u]
      BY <1>0, <2>6 DEF TypeOK
    <3>3. RowFits(t)' /\ CallAdmitted(t)'
      BY <2>1, <2>2, <2>4, <2>6, <3>2 DEF RowFits, CallAdmitted, Fresh
    <3> QED BY <2>4, <2>6, <3>1, <3>2, <3>3, OthersUntouched
  <2>7. CASE /\ t \in registry
             /\ row' = [row EXCEPT ![t] = "waiting_for_approval"]
             /\ approval' = [approval EXCEPT ![t] = "pending_review"]
             /\ UNCHANGED <<step, started>>
    <3>1. TypeOK'
      BY <1>0, <2>4, <2>7 DEF TypeOK
    <3>2. /\ row'[t] = "waiting_for_approval" /\ approval'[t] = "pending_review"
          /\ \A u \in Tools \ {t} : row'[u] = row[u] /\ approval'[u] = approval[u]
      BY <1>0, <2>7 DEF TypeOK
    <3>3. RowFits(t)' /\ CallAdmitted(t)'
      BY <2>1, <2>2, <2>4, <2>7, <3>2 DEF RowFits, CallAdmitted, Fresh
    <3> QED BY <2>4, <2>7, <3>1, <3>2, <3>3, OthersUntouched
  <2>8. CASE /\ t \in registry /\ Sensitivity(t) = "safe"
             /\ row' = [row EXCEPT ![t] = "running"]
             /\ step' = [step EXCEPT ![t] = "starting"]
             /\ started' = [started EXCEPT ![t] = Sensitivity(t)]
             /\ UNCHANGED approval
    <3>1. TypeOK'
      BY <1>0, <2>3, <2>4, <2>8 DEF TypeOK
    <3>2. /\ row'[t] = "running" /\ step'[t] = "starting" /\ started'[t] = "safe"
          /\ \A u \in Tools \ {t} : /\ row'[u] = row[u] /\ step'[u] = step[u]
                                    /\ started'[u] = started[u]
      BY <1>0, <2>8 DEF TypeOK
    <3>3. RowFits(t)' /\ CallAdmitted(t)'
      BY <2>1, <2>2, <2>4, <2>8, <3>2 DEF RowFits, CallAdmitted, Fresh
    <3> QED BY <2>4, <2>8, <3>1, <3>2, <3>3, OthersUntouched
  <2> QED BY <1>7, <2>3, <2>5, <2>6, <2>7, <2>8 DEF Execute, ExecuteDecision
<1>8. ASSUME NEW t \in Tools, Approve(t) \/ Edit(t) \/ Reject(t) PROVE IInv'
  <2>1. /\ step[t] = "idle" /\ approval[t] # "none"
        /\ approval'[t] \in {"approved", "edited", "rejected"}
        /\ approval'[t] # "rejected" =>
             row[t] = "waiting_for_approval" /\ row'[t] = row[t]
        /\ approval'[t] = "rejected" => row'[t] = "denied"
        /\ row[t] = "waiting_for_approval" \/ approval'[t] = "rejected"
        /\ \A u \in Tools \ {t} : /\ approval'[u] = approval[u] /\ row'[u] = row[u]
                                  /\ valid'[u] = valid[u]
    BY <1>0, <1>8 DEF Approve, Edit, Reject, TypeOK, RowFits
  <2>2. row[t] = "waiting_for_approval"
    BY <1>0, <1>8 DEF Approve, Edit, Reject, TypeOK, RowFits
  <2>3. /\ UNCHANGED <<registry, catalog, node, class, handled, step, attempts,
                       retries, started, effects>>
        /\ approval' \in [Tools -> {"none", "pending_review", "approved", "edited",
                                    "rejected", "executed", "failed"}]
        /\ valid' \in [Tools -> BOOLEAN]
        /\ row' \in [Tools -> {"none", "running", "completed", "failed", "denied",
                               "waiting_for_approval"}]
    BY <1>0, <1>8 DEF Approve, Edit, Reject, TypeOK, reviewUnchanged
  <2>4. TypeOK'
    BY <1>0, <2>3 DEF TypeOK
  <2>5. RowFits(t)' /\ CallAdmitted(t)'
    BY <1>0, <2>1, <2>2, <2>3 DEF RowFits, CallAdmitted, Fresh
  <2> QED BY <2>1, <2>3, <2>4, <2>5, OthersUntouched
<1>9. ASSUME NEW t \in Tools, ExecuteApproved(t) PROVE IInv'
  <2>1. /\ approval[t] \in {"approved", "edited"} /\ step[t] = "idle"
        /\ row[t] = "waiting_for_approval" /\ Fresh(t) /\ t \in registry
        /\ t \in handled
    BY <1>0, <1>9 DEF ExecuteApproved, Executable, RowFits
  <2>2. /\ row' = [row EXCEPT ![t] = "running"]
        /\ step' = [step EXCEPT ![t] = "starting"]
        /\ started' = [started EXCEPT ![t] = Sensitivity(t)]
        /\ UNCHANGED <<registry, catalog, node, class, handled, valid, approval,
                       attempts, retries, effects>>
    BY <1>9 DEF ExecuteApproved
  <2>3. Sensitivity(t) \in CatalogValues
    BY <1>0, SensitivityType DEF TypeOK, CatalogValues
  <2>4. TypeOK'
    BY <1>0, <2>2, <2>3 DEF TypeOK
  <2>5. /\ row'[t] = "running" /\ step'[t] = "starting"
        /\ \A u \in Tools \ {t} : /\ row'[u] = row[u] /\ step'[u] = step[u]
                                  /\ started'[u] = started[u]
    BY <1>0, <2>2 DEF TypeOK
  <2>6. RowFits(t)' /\ CallAdmitted(t)'
    BY <2>1, <2>2, <2>5 DEF RowFits, CallAdmitted, Fresh
  <2> QED BY <2>2, <2>4, <2>5, <2>6, OthersUntouched
<1>10. ASSUME NEW t \in Tools, StartRaises(t) \/ InputRejected(t) PROVE IInv'
  <2>1. /\ step[t] = "starting" /\ row[t] = "running" /\ Fresh(t)
        /\ approval[t] \in {"none", "approved", "edited"}
        /\ t \in handled /\ t \in registry
    BY <1>0, <1>10 DEF StartRaises, InputRejected, RowFits, CallAdmitted
  <2>2. /\ step' = [step EXCEPT ![t] = "idle"]
        /\ row' \in {row, [row EXCEPT ![t] = "failed"]}
        /\ approval' \in {approval, [approval EXCEPT ![t] = "failed"]}
        /\ approval[t] # "none" => approval' = [approval EXCEPT ![t] = "failed"]
        /\ UNCHANGED <<registry, catalog, node, class, handled, valid, attempts,
                       retries, started, effects>>
    BY <1>10, <2>1 DEF StartRaises, InputRejected, Outcome, Executable
  <2>3. TypeOK'
    BY <1>0, <2>2 DEF TypeOK
  <2>4. /\ step'[t] = "idle" /\ row'[t] \in {"running", "failed"}
        /\ approval'[t] \in {"none", "failed"}
        /\ \A u \in Tools \ {t} : /\ row'[u] = row[u] /\ step'[u] = step[u]
                                  /\ approval'[u] = approval[u]
    BY <1>0, <2>1, <2>2 DEF TypeOK
  <2>5. RowFits(t)' /\ CallAdmitted(t)'
    BY <2>1, <2>2, <2>4 DEF RowFits, CallAdmitted, Fresh
  <2> QED BY <2>2, <2>3, <2>4, <2>5, OthersUntouched
<1>11. ASSUME NEW t \in Tools, BeginAttempts(t) PROVE IInv'
  <2>1. /\ step[t] = "starting" /\ row[t] = "running" /\ Fresh(t) /\ valid[t]
        /\ approval[t] \in {"none", "approved", "edited"}
        /\ approval[t] = "none" => started[t] = "safe"
        /\ t \in handled /\ t \in registry
    BY <1>0, <1>11 DEF BeginAttempts, AcceptsInput, RowFits, CallAdmitted
  <2>2. /\ step' = [step EXCEPT ![t] = "calling"]
        /\ UNCHANGED <<registry, catalog, node, class, handled, valid, row,
                       approval, attempts, retries, started, effects>>
    BY <1>11 DEF BeginAttempts
  <2>3. TypeOK'
    BY <1>0, <2>2 DEF TypeOK
  <2>4. step'[t] = "calling" /\ \A u \in Tools \ {t} : step'[u] = step[u]
    BY <1>0, <2>2 DEF TypeOK
  <2>5. RowFits(t)'
    BY <2>1, <2>2, <2>4 DEF RowFits
  <2>6. attempts[t] < MaxAttempts(t)
    BY <2>1, MaxAttemptsType DEF Fresh
  <2>7. CallAdmitted(t)'
    BY <2>1, <2>2, <2>4, <2>6 DEF CallAdmitted, MaxAttempts
  <2> QED BY <2>2, <2>3, <2>4, <2>5, <2>7, OthersUntouched
<1>12. ASSUME NEW t \in Tools, AttemptSucceeds(t) \/ AttemptUnrecorded(t)
       PROVE  IInv'
  <2>1. Attempt(t) /\ step[t] = "calling"
    BY <1>12 DEF AttemptSucceeds, AttemptUnrecorded, Attempt
  <2>2. /\ row[t] = "running" /\ t \in handled /\ t \in registry
        /\ approval[t] \in {"none", "approved", "edited"}
        /\ attempts[t] \in Nat /\ attempts[t] < MaxAttempts(t)
    BY <1>0, <2>1 DEF RowFits, CallAdmitted, TypeOK
  <2>3. RetryCount(attempts[t] + 1) = attempts[t]
    BY <2>2, RetryCountType
  <2>4. /\ step' = [step EXCEPT ![t] = "idle"]
        /\ row' \in {[row EXCEPT ![t] = "completed"], [row EXCEPT ![t] = "failed"]}
        /\ retries' = [retries EXCEPT ![t] = attempts[t]]
        /\ \/ approval' = approval /\ approval[t] = "none"
           \/ approval' \in {[approval EXCEPT ![t] = "executed"],
                             [approval EXCEPT ![t] = "failed"]}
        /\ UNCHANGED <<registry, catalog, node, class, handled, valid, started>>
    BY <1>12, <2>2, <2>3 DEF AttemptSucceeds, AttemptUnrecorded, Outcome, Executable
  <2>5. /\ attempts' \in [Tools -> Nat]
        /\ attempts'[t] = attempts[t] + 1
        /\ \A u \in Tools \ {t} : attempts'[u] = attempts[u]
        /\ attempts'[t] <= MaxAttempts(t)
        /\ effects' \subseteq [tool : Tools, attempt : Nat, valid : BOOLEAN,
                               reviewed : BOOLEAN, sensitivity : CatalogValues]
    BY <2>1, AttemptCounted
  <2>6. /\ step'[t] = "idle" /\ row'[t] \in {"completed", "failed"}
        /\ retries'[t] = attempts[t]
        /\ approval'[t] \in {"none", "executed", "failed"}
        /\ \A u \in Tools \ {t} : /\ row'[u] = row[u] /\ step'[u] = step[u]
                                  /\ approval'[u] = approval[u]
                                  /\ retries'[u] = retries[u]
    BY <1>0, <2>4 DEF TypeOK
  <2>7. retries' \in [Tools -> Nat]
    BY <1>0, <2>2, <2>4 DEF TypeOK
  <2>8. \A u \in Tools : attempts'[u] <= MaxAttempts(u) /\ retries'[u] < MaxAttempts(u)
    BY <1>0, <2>2, <2>5, <2>6 DEF TypeOK
  <2>9. TypeOK'
    <3>1. /\ step' \in [Tools -> {"idle", "starting", "calling"}]
          /\ row' \in [Tools -> {"none", "running", "completed", "failed", "denied",
                                 "waiting_for_approval"}]
          /\ approval' \in [Tools -> {"none", "pending_review", "approved", "edited",
                                      "rejected", "executed", "failed"}]
      BY <1>0, <2>4 DEF TypeOK
    <3> QED BY <1>0, <2>4, <2>5, <2>7, <2>8, <3>1 DEF TypeOK, MaxAttempts
  <2>10. RowFits(t)'
    BY <2>2, <2>4, <2>5, <2>6 DEF RowFits
  <2>11. CallAdmitted(t)'
    BY <2>6 DEF CallAdmitted
  <2> QED BY <2>1, <2>4, <2>6, <2>9, <2>10, <2>11, OthersAttempted
<1>13. ASSUME NEW t \in Tools, AttemptRetried(t) PROVE IInv'
  <2>1. Attempt(t) /\ step[t] = "calling"
    BY <1>13 DEF AttemptRetried, Attempt
  <2>2. /\ attempts[t] + 1 < MaxAttempts(t)
        /\ UNCHANGED <<registry, catalog, node, class, handled, valid, row,
                       approval, step, retries, started>>
    BY <1>13 DEF AttemptRetried, AttemptsLeft
  <2>3. /\ attempts' \in [Tools -> Nat]
        /\ attempts'[t] = attempts[t] + 1
        /\ \A u \in Tools \ {t} : attempts'[u] = attempts[u]
        /\ effects' \subseteq [tool : Tools, attempt : Nat, valid : BOOLEAN,
                               reviewed : BOOLEAN, sensitivity : CatalogValues]
        /\ attempts'[t] <= MaxAttempts(t)
    BY <2>1, AttemptCounted
  <2>4. TypeOK'
    <3>1. \A u \in Tools : /\ attempts'[u] <= MaxAttempts(u)
                           /\ retries'[u] < MaxAttempts(u)
      BY <1>0, <2>2, <2>3 DEF TypeOK
    <3> QED BY <1>0, <2>2, <2>3, <3>1 DEF TypeOK, MaxAttempts
  <2>5. RowFits(t)'
    BY <1>0, <2>1, <2>2, <2>3 DEF RowFits, CallAdmitted, Fresh
  <2>6. CallAdmitted(t)'
    BY <1>0, <2>1, <2>2, <2>3 DEF CallAdmitted, MaxAttempts
  <2> QED BY <2>1, <2>2, <2>4, <2>5, <2>6, OthersAttempted
<1> QED
  BY <1>1, <1>2, <1>3, <1>4, <1>5, <1>6, <1>7, <1>8, <1>9, <1>10, <1>11, <1>12,
     <1>13
  DEF Next, GraphStep, CallStep

LEMMA IInvAlways == Spec => []IInv
BY InitIInv, NextIInv, PTL DEF Spec

-----------------------------------------------------------------------------
\* The types, and the bound on the attempts of one call.
THEOREM TypeCorrect == Spec => []TypeOK
<1>1. IInv => TypeOK
  BY DEF IInv
<1> QED BY <1>1, IInvAlways, PTL

\* No settings change and no plan gets a sensitive tool called unreviewed.
THEOREM SensitiveCallsReviewed == Spec => []SensitiveIsReviewed
<1>1. IInv => SensitiveIsReviewed
  BY DEF IInv
<1> QED BY <1>1, IInvAlways, PTL

\* What a reviewer edits is validated as what the planner proposed is.
THEOREM InputsValidated == Spec => []OnlyValidInputs
<1>1. IInv => OnlyValidInputs
  BY DEF IInv
<1> QED BY <1>1, IInvAlways, PTL

\* The rows tell the calls, for any number of retries.
THEOREM RowsTruthful == Spec => []RowsTellTheCalls
<1>1. IInv => RowsTellTheCalls
  <2> SUFFICES ASSUME IInv, NEW t \in Tools
               PROVE  /\ t \notin registry => row[t] = "none"
                      /\ row[t] \in {"none", "denied", "waiting_for_approval"} =>
                           Calls(t) = {}
                      /\ row[t] = "completed" =>
                           Cardinality(Calls(t)) = retries[t] + 1
    BY DEF RowsTellTheCalls
  <2>1. RowFits(t) /\ CallsCounted(t)
    BY DEF IInv
  <2>2. attempts[t] = 0 => Calls(t) = {}
    BY <2>1, FS_EmptySet DEF CallsCounted
  <2> QED BY <2>1, <2>2 DEF RowFits, CallsCounted, Fresh
<1> QED BY <1>1, IInvAlways, PTL
=============================================================================
