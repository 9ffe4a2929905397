-------------------------- MODULE AgentGraph_proofs --------------------------
(***************************************************************************)
(* Theorems about ModelRouter and AgentGraph, for any set of addresses and *)
(* plans of any length.                                                    *)
(***************************************************************************)
EXTENDS AgentGraph, SequenceTheorems, TLAPS

(* What the helpers of the normalization return.                           *)

\* The part of the type invariant that the normalization reads.
Known == /\ ticketEmail \in Addresses \cup {Nobody}
         /\ textEmail \in Addresses \cup {Nobody}
         /\ entities \in Addresses \cup {Nobody, NotADict}
         /\ draft \in BOOLEAN

LEMMA RawPlanType ==
  ASSUME NEW raw \in RawPlans
  PROVE  /\ DOMAIN raw = 1..Len(raw)
         /\ Len(raw) \in 0..MaxItems
         /\ \A i \in DOMAIN raw : raw[i] \in Items
<1>1. PICK n \in 0..MaxItems : raw \in [1..n -> Items]
  BY DEF RawPlans
<1>2. n \in Nat
  BY <1>1, AgentGraphAssumption
<1>3. raw \in Seq(Items)
  BY <1>1, <1>2
<1>4. Len(raw) = n
  BY <1>1, <1>2, <1>3
<1> QED BY <1>1, <1>3, <1>4

LEMMA EmptyPlanType == <<>> \in RawPlans
<1>1. <<>> \in [1..0 -> Items]
  OBVIOUS
<1>2. 0 \in 0..MaxItems
  BY AgentGraphAssumption
<1> QED BY <1>1, <1>2 DEF RawPlans

LEMMA WorkflowPlanType ==
  ASSUME NEW raw \in RawPlans
  PROVE  WorkflowPlan(raw) \subseteq Actions
<1> SUFFICES ASSUME NEW i \in DOMAIN raw
             PROVE  [at |-> i, item |-> raw[i]] \in Actions
  BY DEF WorkflowPlan
<1>1. i \in Positions /\ raw[i] \in Items
  BY RawPlanType, AgentGraphAssumption DEF Positions
<1> QED BY <1>1 DEF Actions

LEMMA CustomerEmailType ==
  ASSUME Known
  PROVE  /\ CustomerEmail \in Addresses \cup {Nobody}
         /\ ticketEmail \in Addresses => CustomerEmail = ticketEmail
BY AgentGraphAssumption DEF Known, CustomerEmail, IsEmailLike

LEMMA RecipientType ==
  ASSUME Known, NEW to
  PROVE  /\ Recipient(to) \in Addresses \cup {Nobody}
         /\ ticketEmail \in Addresses => Recipient(to) = ticketEmail
         /\ ticketEmail \in Addresses => Recipient(to) # Nobody
BY CustomerEmailType, AgentGraphAssumption DEF Recipient, IsEmailLike

\* An item of the normalized plan, by its tool.
LEMMA NormalizedItemType ==
  ASSUME Known, NEW raw \in RawPlans, NEW i \in KeptPositions(raw)
  PROVE  /\ i \in DOMAIN raw
         /\ NormalizedItem(raw, i) \in Items
         /\ NormalizedItem(raw, i).tool = raw[i].tool
         /\ raw[i].tool = "send_email" =>
              /\ i \in EmailsIn(raw)
              /\ NormalizedItem(raw, i) = Email(Recipient(raw[i].to))
              /\ Recipient(raw[i].to) \in Addresses
         /\ raw[i].tool = "create_crm_note" /\ HasEmailAction(raw) =>
              NormalizedItem(raw, i).note = "plain"
<1>1. i \in DOMAIN raw
  BY DEF KeptPositions, EmailsIn
<1>2. raw[i] \in Items
  BY <1>1, RawPlanType
<1>3. CASE raw[i].tool = "send_email"
  <2>1. i \in EmailsIn(raw)
    BY <1>3 DEF KeptPositions, SupportActionTools
  <2>2. Recipient(raw[i].to) \in Addresses
    BY <2>1, RecipientType DEF EmailsIn
  <2>3. NormalizedItem(raw, i) = Email(Recipient(raw[i].to))
    BY <1>3 DEF NormalizedItem
  <2> QED BY <1>1, <1>3, <2>1, <2>2, <2>3 DEF Email, Items, Emails
<1>4. CASE raw[i].tool = "create_crm_note"
  <2>1. NormalizedItem(raw, i) = CrmNote(raw[i].note, HasEmailAction(raw))
    BY <1>4 DEF NormalizedItem
  <2> QED BY <1>1, <1>4, <2>1 DEF CrmNote, Items, Notes, NoteTexts
<1>5. CASE raw[i].tool \notin {"send_email", "create_crm_note"}
  <2>1. NormalizedItem(raw, i) = raw[i]
    BY <1>5 DEF NormalizedItem
  <2> QED BY <1>1, <1>2, <1>5, <2>1
<1> QED BY <1>3, <1>4, <1>5

\* The email made of the draft.
LEMMA DraftedEmailType ==
  ASSUME Known, NEW raw \in RawPlans, NEW a \in DraftedEmail(raw)
  PROVE  /\ a \in Actions
         /\ a.item.tool = "send_email" /\ a.item.body
         /\ a.item.to \in Addresses
         /\ ticketEmail \in Addresses => a.item.to = ticketEmail
<1>1. /\ a = [at |-> Len(raw) + 1, item |-> Email(CustomerEmail)]
      /\ CustomerEmail # Nobody
  BY DEF DraftedEmail
<1>2. Len(raw) + 1 \in Positions
  BY RawPlanType, AgentGraphAssumption DEF Positions
<1>3. CustomerEmail \in Addresses
  BY <1>1, CustomerEmailType
<1> QED
  BY <1>1, <1>2, <1>3, CustomerEmailType DEF Actions, Email, Items, Emails

\* What the gate may rely on in a support plan.
GoodEmails(plan) ==
  \A a \in plan : a.item.tool = "send_email" =>
    /\ a.item.to \in Addresses /\ a.item.body
    /\ ticketEmail \in Addresses => a.item.to = ticketEmail

HasEmail(plan) == \E a \in plan : a.item.tool = "send_email"

GoodNotes(plan) ==
  HasEmail(plan) =>
    \A a \in plan : a.item.tool = "create_crm_note" => a.item.note # "sent"

LEMMA NormalizedPlanIsGood ==
  ASSUME Known, NEW raw \in RawPlans
  PROVE  LET plan == NormalizedPlan(raw) IN
         /\ plan \subseteq Actions
         /\ GoodEmails(plan)
         /\ draft /\ ticketEmail \in Addresses => HasEmail(plan)
         /\ GoodNotes(plan)
<1> DEFINE plan == NormalizedPlan(raw)
           kept == {[at |-> i, item |-> NormalizedItem(raw, i)] :
                      i \in KeptPositions(raw)}
<1>1. plan = kept \cup DraftedEmail(raw)
  BY DEF NormalizedPlan
<1>2. kept \subseteq Actions
  <2> SUFFICES ASSUME NEW i \in KeptPositions(raw)
               PROVE  [at |-> i, item |-> NormalizedItem(raw, i)] \in Actions
    OBVIOUS
  <2>1. i \in Positions
    BY NormalizedItemType, RawPlanType, AgentGraphAssumption DEF Positions
  <2> QED BY <2>1, NormalizedItemType DEF Actions
<1>3. GoodEmails(kept)
  <2> SUFFICES ASSUME NEW i \in KeptPositions(raw),
                      NormalizedItem(raw, i).tool = "send_email"
               PROVE  LET e == NormalizedItem(raw, i) IN
                      /\ e.to \in Addresses /\ e.body
                      /\ ticketEmail \in Addresses => e.to = ticketEmail
    BY DEF GoodEmails
  <2>1. /\ NormalizedItem(raw, i) = Email(Recipient(raw[i].to))
        /\ Recipient(raw[i].to) \in Addresses
    BY NormalizedItemType
  <2> QED BY <2>1, RecipientType DEF Email
<1>4. GoodEmails(DraftedEmail(raw))
  BY DraftedEmailType DEF GoodEmails
<1>5. DraftedEmail(raw) # {} => HasEmail(plan)
  BY <1>1, DraftedEmailType DEF HasEmail
<1>6. ASSUME EmailKept(raw) PROVE HasEmail(plan)
  <2>1. PICK i : i \in EmailsIn(raw)
    BY <1>6 DEF EmailKept
  <2>2. i \in KeptPositions(raw) /\ raw[i].tool = "send_email"
    BY <2>1 DEF KeptPositions, EmailsIn
  <2>3. [at |-> i, item |-> NormalizedItem(raw, i)] \in plan
    BY <1>1, <2>2
  <2>4. NormalizedItem(raw, i).tool = "send_email"
    BY <2>2, NormalizedItemType
  <2> QED BY <2>3, <2>4 DEF HasEmail
<1>7. ASSUME draft, ticketEmail \in Addresses PROVE HasEmail(plan)
  <2>1. CustomerEmail # Nobody
    BY <1>7, CustomerEmailType, AgentGraphAssumption
  <2>2. EmailKept(raw) \/ DraftedEmail(raw) # {}
    BY <1>7, <2>1 DEF DraftedEmail
  <2> QED BY <1>5, <1>6, <2>2
<1>8. ASSUME HasEmail(plan) PROVE HasEmailAction(raw)
  <2>1. PICK a \in plan : a.item.tool = "send_email"
    BY <1>8 DEF HasEmail
  <2>2. CASE a \in DraftedEmail(raw)
    BY <2>2 DEF HasEmailAction
  <2>3. CASE a \in kept
    <3>1. PICK i \in KeptPositions(raw) :
            a = [at |-> i, item |-> NormalizedItem(raw, i)]
      BY <2>3
    <3>2. i \in EmailsIn(raw)
      BY <2>1, <3>1, NormalizedItemType
    <3> QED BY <3>2 DEF HasEmailAction, EmailKept
  <2> QED BY <1>1, <2>1, <2>2, <2>3
<1>9. GoodNotes(plan)
  <2> SUFFICES ASSUME HasEmail(plan), NEW a \in plan,
                      a.item.tool = "create_crm_note"
               PROVE  a.item.note # "sent"
    BY DEF GoodNotes
  <2>1. a \in kept
    BY <1>1, DraftedEmailType
  <2>2. PICK i \in KeptPositions(raw) :
          a = [at |-> i, item |-> NormalizedItem(raw, i)]
    BY <2>1
  <2>3. a.item.note = "plain"
    BY <1>8, <2>2, NormalizedItemType
  <2> QED BY <2>3
<1> QED BY <1>1, <1>2, <1>3, <1>4, <1>7, <1>9, DraftedEmailType DEF GoodEmails

-----------------------------------------------------------------------------
(* The router.                                                             *)

LEMMA NextHop ==
  \A at \in 1..4, n \in 1..3 :
    at <= n => at \in 1..3 /\ at + 1 \in 1..4 /\ at + 1 <= n + 1
OBVIOUS

LEMMA RoutingType ==
  ASSUME NEW p \in Purposes
  PROVE  Len(Routing[p]) \in 1..3
BY DEF Purposes, Routing

\* A caller's request is never what an earlier hop made of it.
RouterInv == /\ RouterTypeOK
             /\ call.request = "original"
             /\ OnlyHostedCallsAreRedacted

RouterMoves == \/ \E p \in Purposes : Complete(p)
               \/ RouterStep \/ Returned \/ UNCHANGED routerVars

LEMMA NoCallType ==
  /\ NoCall \in [status : {"idle", "trying", "answered", "failed"},
                 purpose : Purposes, at : 1..4, request : Contents]
  /\ NoCall.request = "original"
  /\ NoCall.at = 1
  /\ NoCall.purpose \in Purposes
BY DEF NoCall, Purposes, Routing, Contents

LEMMA InitRouterInv == RouterInit => RouterInv
BY NoCallType, RoutingType
   DEF RouterInit, RouterInv, RouterTypeOK, OnlyHostedCallsAreRedacted, Providers

LEMMA RouterMovesInv == RouterInv /\ RouterMoves => RouterInv'
<1> SUFFICES ASSUME RouterInv, RouterMoves PROVE RouterInv'
  OBVIOUS
<1> USE DEF RouterInv, RouterTypeOK, OnlyHostedCallsAreRedacted
<1>1. ASSUME NEW p \in Purposes, Complete(p) PROVE RouterInv'
  <2>1. call' = [NoCall EXCEPT !.status = "trying", !.purpose = p]
    BY <1>1 DEF Complete
  <2>2. /\ call' \in [status : {"idle", "trying", "answered", "failed"},
                      purpose : Purposes, at : 1..4, request : Contents]
        /\ call'.request = "original" /\ call'.at = 1 /\ call'.purpose = p
    BY <2>1, NoCallType DEF NoCall
  <2> QED BY <1>1, <2>2, RoutingType DEF Complete
<1>2. CASE SkipProvider
  BY <1>2, RoutingType DEF SkipProvider, Trying, Chain
<1>3. ASSUME ProviderAnswers \/ ProviderFails PROVE RouterInv'
  <2>1. Sent(call.request, Chain[call.at]) \in
          [provider : Providers, content : Contents]
    BY <1>3 DEF ProviderAnswers, ProviderFails, Sent, Contents
  <2>2. /\ sent' = sent \cup {Sent(call.request, Chain[call.at])}
        /\ providers' = providers
    BY <1>3 DEF ProviderAnswers, ProviderFails
  <2>3. LET h == Sent(call.request, Chain[call.at])
        IN  h.content = "redacted" <=> h.provider # "ollama"
    BY DEF Sent
  <2>4. OnlyHostedCallsAreRedacted'
    BY <2>2, <2>3
  <2>5. CASE ProviderAnswers
    BY <2>1, <2>2, <2>4, <2>5 DEF ProviderAnswers
  <2>6. CASE ProviderFails
    <3>1. call.at \in 1..3 /\ call.at <= Len(Chain) /\ Len(Chain) \in 1..3
      <4>1. call.at <= Len(Chain) /\ call.at \in 1..4
        BY <2>6 DEF ProviderFails, Trying
      <4>2. Len(Chain) \in 1..3
        BY RoutingType DEF Chain
      <4> QED BY <4>1, <4>2, NextHop
    <3>2. call' = [status |-> call.status, purpose |-> call.purpose,
                   at |-> call.at + 1, request |-> call.request]
      <4>1. call' = [call EXCEPT !.at = call.at + 1, !.request = call.request]
        BY <2>6 DEF ProviderFails, RequestAfterHop
      <4>2. call = [status |-> call.status, purpose |-> call.purpose,
                    at |-> call.at, request |-> call.request]
        OBVIOUS
      <4> HIDE DEF RouterInv
      <4> QED BY <4>1, <4>2
    <3>3. /\ call'.status = call.status /\ call'.purpose = call.purpose
          /\ call'.at = call.at + 1 /\ call'.request = call.request
          /\ call' \in [status : {"idle", "trying", "answered", "failed"},
                        purpose : Purposes, at : 1..4, request : Contents]
      <4>1. call.at + 1 \in 1..4
        BY <3>1, NextHop
      <4>2. /\ call.status \in {"idle", "trying", "answered", "failed"}
            /\ call.purpose \in Purposes /\ call.request \in Contents
        OBVIOUS
      <4> HIDE DEF RouterInv, RouterTypeOK
      <4> QED BY <3>2, <4>1, <4>2
    <3>4. call'.at <= Len(Routing[call'.purpose]) + 1
      BY <3>1, <3>3 DEF Chain
    <3> QED BY <2>1, <2>2, <2>4, <3>3, <3>4
  <2> QED BY <1>3, <2>5, <2>6
<1>4. CASE AllProvidersFailed
  BY <1>4 DEF AllProvidersFailed
<1>5. CASE Returned
  BY <1>5, NoCallType, RoutingType DEF Returned
<1>6. CASE UNCHANGED routerVars
  BY <1>6 DEF routerVars
<1> QED BY <1>1, <1>2, <1>3, <1>4, <1>5, <1>6 DEF RouterMoves, RouterStep

-----------------------------------------------------------------------------
(* The invariant of the graphs.                                            *)

\* The nodes of one graph are never reached in the other.
ModeFits == node \in WorkflowNodes => mode = "workflow_automation"

\* What policy_gate, or an ended graph, finds in a support plan.
PlanInv == SupportPlan => /\ GoodEmails(planned)
                          /\ draft /\ ticketEmail \in Addresses => HasEmail(planned)
                          /\ GoodNotes(planned)

\* From the gate on each planned action is in a bucket; past the safe tools,
\* where no approval is to be asked, each has a result or was blocked.
Accounted ==
  /\ node = "execute_safe_tools" =>
       PlannedAt = In("safe") \cup In("approval_required") \cup In("blocked")
  /\ node \in {"finalize_output", "generate_final_report"} =>
       PlannedAt = Resulted \cup In("blocked")
  /\ final => node = "end" /\ FinalOutputAccountsForThePlan

IInv == /\ RouterInv /\ TypeOK
        /\ ModeFits /\ PlanInv /\ Accounted
        /\ UnansweredCallsAreReported

LEMMA InitIInv == Init => IInv
<1> SUFFICES ASSUME Init PROVE IInv
  OBVIOUS
<1>1. RouterInv
  BY InitRouterInv DEF Init
<1>2. TypeOK
  <2>1. /\ mode \in {"support_agent", "workflow_automation"}
        /\ node \in Nodes
        /\ class \in [Positions -> Buckets]
    BY DEF Init, Nodes, SupportNodes, WorkflowNodes, Buckets
  <2>2. /\ errors \subseteq Nodes /\ unanswered \subseteq Nodes
        /\ results \in [Positions -> Outcomes \cup {"none"}]
    BY DEF Init
  <2> QED BY <1>1, <2>1, <2>2 DEF RouterInv, Init, TypeOK
<1>3. ModeFits /\ PlanInv /\ Accounted
  BY DEF Init, ModeFits, PlanInv, SupportPlan, PastPlanning, SharedNodes, Ended,
         Accounted, WorkflowNodes
<1> QED BY <1>1, <1>2, <1>3 DEF IInv, Init, UnansweredCallsAreReported

\* Every step of a graph is one of the router's, or none of it.
LEMMA StepMovesRouter == [Next]_vars => RouterMoves
<1> SUFFICES ASSUME [Next]_vars PROVE RouterMoves
  OBVIOUS
<1> USE DEF RouterMoves, Resumes
<1>1. CASE Asks
  <2>1. PurposeOf[node] \in Purposes
    BY <1>1 DEF Asks, PurposeOf, Purposes, Routing
  <2> QED BY <1>1, <2>1 DEF Asks
<1>2. CASE RouterRuns
  BY <1>2 DEF RouterRuns
<1>3. CASE \/ ClassifyIntent \/ DetectPriority \/ ExtractEntities
           \/ DraftResponse \/ PlanToolActions \/ GeneratePlan
           \/ GenerateFinalReport
  BY <1>3 DEF ClassifyIntent, DetectPriority, ExtractEntities, DraftResponse,
              PlanToolActions, GeneratePlan, GenerateFinalReport
<1>4. CASE \/ RetrievePolicyContext \/ PolicyGate \/ PolicyGateRaises
           \/ ExecuteSafeTools \/ ToolsRaise \/ CreateApprovalRequests \/ FinalizeOutput
           \/ Finished \/ UNCHANGED vars
  BY <1>4 DEF RetrievePolicyContext, PolicyGate, PolicyGateRaises,
              ExecuteSafeTools, ToolsRaise, CreateApprovalRequests,
              FinalizeOutput, Finished, vars
<1> QED BY <1>1, <1>2, <1>3, <1>4 DEF Next

\* A node that resumes without an answer either has a fallback or degrades.
LEMMA ReportKept ==
  ASSUME errors \subseteq Nodes, unanswered \subseteq Nodes,
         UnansweredCallsAreReported,
         NEW n \in Nodes, NoError \/ Degrades(n),
         unanswered' = IF call.status = "failed" THEN unanswered \cup {n}
                                               ELSE unanswered,
         call.status = "failed" => n \in WithFallback \/ Degrades(n)
  PROVE  /\ errors' \subseteq Nodes /\ unanswered' \subseteq Nodes
         /\ UnansweredCallsAreReported'
BY DEF NoError, Degrades, WithError, UnansweredCallsAreReported, WithFallback

LEMMA NextIInv == IInv /\ [Next]_vars => IInv'
<1> SUFFICES ASSUME IInv, [Next]_vars PROVE IInv'
  OBVIOUS
<1>0. RouterInv'
  BY RouterMovesInv, StepMovesRouter DEF IInv
<1>r. RouterTypeOK'
  BY <1>0 DEF RouterInv
<1> USE DEF IInv, TypeOK, ModeFits, Nodes, SupportNodes, WorkflowNodes, SharedNodes,
            Ended, Resumes, inputVars, analysis, outcome,
            PastPlanning, SupportPlan
<1>1. CASE Asks \/ RouterRuns \/ Finished \/ UNCHANGED vars
  <2>1. UNCHANGED graphVars
    BY <1>1 DEF Asks, RouterRuns, Finished, vars
  <2>2. PlanInv'
    BY <2>1 DEF graphVars, PlanInv, GoodEmails, HasEmail, GoodNotes
  <2>3. Accounted'
    BY <2>1 DEF graphVars, Accounted, FinalOutputAccountsForThePlan, PlannedAt, In,
               Resulted
  <2>4. /\ UNCHANGED <<mode, node, ticketEmail, textEmail, intent, entities, draft>>
        /\ UNCHANGED <<planned, class, results, requests, final>>
        /\ UNCHANGED <<errors, unanswered>>
    BY <2>1 DEF graphVars
  <2>5. ModeFits' /\ UnansweredCallsAreReported'
    BY <2>4 DEF UnansweredCallsAreReported
  <2>6. TypeOK'
    <3> HIDE DEF Nodes
    <3> QED BY <1>r, <2>4
  <2> QED BY <1>0, <2>2, <2>3, <2>5, <2>6
<1>2. CASE ClassifyIntent \/ DetectPriority
  <2>1. /\ node' \in {"detect_priority", "extract_entities"}
        /\ node \in {"classify_intent", "detect_priority"}
        /\ intent' \in {"label", "not a text"}
        /\ UNCHANGED <<inputVars, entities, draft, planned, outcome>>
    BY <1>2 DEF ClassifyIntent, DetectPriority
  <2>2. /\ errors' \subseteq Nodes /\ unanswered' \subseteq Nodes
        /\ UnansweredCallsAreReported'
    BY <1>2, ReportKept DEF ClassifyIntent, DetectPriority, WithFallback
  <2>3. PlanInv' /\ Accounted'
    BY <2>1 DEF PlanInv, Accounted
  <2>4. ModeFits'
    BY <2>1
  <2>5. TypeOK'
    BY <1>r, <2>1, <2>2
  <2> QED BY <1>0, <2>2, <2>3, <2>4, <2>5
<1>3. CASE ExtractEntities
  <2>1. /\ NoError \/ Degrades("extract_entities")
        /\ call.status = "failed" => Degrades("extract_entities")
    BY <1>3 DEF ExtractEntities, Usable
  <2>2. /\ errors' \subseteq Nodes /\ unanswered' \subseteq Nodes
        /\ UnansweredCallsAreReported'
    BY <2>1, <1>3, ReportKept DEF ExtractEntities
  <2> QED BY <1>0, <1>r, <1>3, <2>2 DEF ExtractEntities, PlanInv, Accounted
<1>4. CASE RetrievePolicyContext
  <2>1. /\ NoError \/ Degrades("retrieve_policy_context")
        /\ unanswered' = unanswered
    BY <1>4 DEF RetrievePolicyContext
  <2>2. /\ errors' \subseteq Nodes
        /\ UnansweredCallsAreReported'
    BY <2>1 DEF NoError, Degrades, WithError, UnansweredCallsAreReported
  <2> QED BY <1>0, <1>r, <1>4, <2>2 DEF RetrievePolicyContext, PlanInv, Accounted
<1>5. CASE DraftResponse
  <2>1. /\ NoError \/ Degrades("draft_response")
        /\ call.status = "failed" => Degrades("draft_response")
    BY <1>5 DEF DraftResponse, Usable
  <2>2. /\ errors' \subseteq Nodes /\ unanswered' \subseteq Nodes
        /\ UnansweredCallsAreReported'
    BY <2>1, <1>5, ReportKept DEF DraftResponse
  <2> QED BY <1>0, <1>r, <1>5, <2>2 DEF DraftResponse, PlanInv, Accounted
<1>6. CASE PlanToolActions
  <2>1. /\ NoError \/ Degrades("plan_tool_actions")
        /\ call.status = "failed" => Degrades("plan_tool_actions")
    BY <1>6 DEF PlanToolActions, Usable
  <2>2. /\ errors' \subseteq Nodes /\ unanswered' \subseteq Nodes
        /\ UnansweredCallsAreReported'
    BY <2>1, <1>6, ReportKept DEF PlanToolActions
  <2>4. PICK raw \in RawPlans : planned' = NormalizedPlan(raw)
    BY <1>6, EmptyPlanType DEF PlanToolActions
  <2>5. Known
    BY DEF Known
  <2>6. /\ planned' \subseteq Actions
        /\ GoodEmails(planned')
        /\ draft /\ ticketEmail \in Addresses => HasEmail(planned')
        /\ GoodNotes(planned')
    BY <2>4, <2>5, NormalizedPlanIsGood
  <2>7. /\ node' = "policy_gate" /\ node = "plan_tool_actions"
        /\ UNCHANGED <<inputVars, analysis, outcome>>
    BY <1>6 DEF PlanToolActions
  <2>8. PlanInv'
    BY <2>6, <2>7 DEF PlanInv, GoodEmails, HasEmail, GoodNotes
  <2>9. Accounted'
    BY <2>7 DEF Accounted
  <2> QED BY <1>0, <1>r, <2>2, <2>6, <2>7, <2>8, <2>9
<1>7. CASE GeneratePlan
  <2>1. /\ NoError \/ Degrades("generate_plan")
        /\ call.status = "failed" => Degrades("generate_plan")
    BY <1>7 DEF GeneratePlan, Usable
  <2>2. /\ errors' \subseteq Nodes /\ unanswered' \subseteq Nodes
        /\ UnansweredCallsAreReported'
    BY <2>1, <1>7, ReportKept DEF GeneratePlan
  <2>4. planned' \subseteq Actions
    BY <1>7, WorkflowPlanType DEF GeneratePlan
  <2>5. /\ node' = "policy_gate" /\ node = "generate_plan"
        /\ UNCHANGED <<inputVars, analysis, outcome>>
    BY <1>7 DEF GeneratePlan
  <2> QED BY <1>0, <1>r, <2>2, <2>4, <2>5 DEF PlanInv, Accounted
<1>8. CASE PolicyGate
  <2>1. PICK c \in [PlannedAt -> Buckets \ {"none"}] :
          class' = [i \in Positions |-> IF i \in PlannedAt THEN c[i] ELSE "none"]
    BY <1>8 DEF PolicyGate
  <2>2. class' \in [Positions -> Buckets]
    BY <2>1 DEF Buckets
  <2>3. PlannedAt \subseteq Positions
    BY DEF PlannedAt, Actions
  <2>4. /\ node' = "execute_safe_tools" /\ node = "policy_gate"
        /\ UNCHANGED <<routerVars, inputVars, analysis, planned, results, requests,
                       final, errors, unanswered>>
    BY <1>8 DEF PolicyGate
  <2>5. PlannedAt' = PlannedAt
    BY <2>4 DEF PlannedAt
  <2>6. ASSUME NEW i \in Positions
        PROVE  i \in PlannedAt <=>
                 class'[i] \in {"safe", "approval_required", "blocked"}
    BY <2>1 DEF Buckets
  <2>7. PlannedAt' =
          (In("safe") \cup In("approval_required") \cup In("blocked"))'
    BY <2>3, <2>5, <2>6 DEF In
  <2>8. Accounted'
    BY <2>4, <2>7 DEF Accounted
  <2>9. PlanInv'
    BY <2>4 DEF PlanInv, GoodEmails, HasEmail, GoodNotes
  <2> QED
    BY <1>0, <1>r, <2>2, <2>4, <2>8, <2>9 DEF UnansweredCallsAreReported
<1>9. CASE PolicyGateRaises \/ ToolsRaise
  <2>1. /\ node \in {"policy_gate", "execute_safe_tools", "create_approval_requests"}
        /\ node' = "raised"
        /\ UNCHANGED <<routerVars, inputVars, analysis, planned, outcome, errors,
                       unanswered>>
    BY <1>9 DEF PolicyGateRaises, ToolsRaise
  <2>2. PlanInv'
    BY <2>1 DEF PlanInv, GoodEmails, HasEmail, GoodNotes
  <2>3. Accounted' /\ UnansweredCallsAreReported'
    BY <2>1 DEF Accounted, UnansweredCallsAreReported
  <2> QED BY <1>0, <1>r, <2>1, <2>2, <2>3
<1>10. CASE ExecuteSafeTools
  <2>1. PICK became \in [In("safe") -> Outcomes] : results' = ResultsOf(became)
    BY <1>10 DEF ExecuteSafeTools
  <2>2. /\ results' \in [Positions -> Outcomes \cup {"none"}]
        /\ Resulted' = In("safe")
    BY <2>1 DEF ResultsOf, Resulted, Outcomes, In
  <2>3. /\ node = "execute_safe_tools" /\ node' = AfterSafeTools
        /\ UNCHANGED <<routerVars, inputVars, analysis, planned, class, requests,
                       final, errors, unanswered>>
    BY <1>10 DEF ExecuteSafeTools
  <2>5. /\ PlannedAt' = PlannedAt
        /\ In("blocked")' = In("blocked")
    BY <2>3 DEF PlannedAt, In
  <2>6. node' \in {"finalize_output", "generate_final_report"} =>
          In("approval_required") = {}
    BY <2>3 DEF AfterSafeTools
  <2>7. Accounted'
    BY <2>2, <2>3, <2>5, <2>6 DEF Accounted, AfterSafeTools
  <2>8. PlanInv'
    BY <2>3 DEF PlanInv, GoodEmails, HasEmail, GoodNotes
  <2>9. node' \in Nodes /\ ModeFits'
    BY <2>3 DEF AfterSafeTools
  <2> QED
    BY <1>0, <1>r, <2>2, <2>3, <2>7, <2>8, <2>9 DEF UnansweredCallsAreReported
<1>11. CASE CreateApprovalRequests
  <2>1. requests' \subseteq Positions
    BY <1>11 DEF CreateApprovalRequests, In
  <2> QED
    BY <1>0, <1>r, <1>11, <2>1
       DEF CreateApprovalRequests, PlanInv, Accounted, GoodEmails, HasEmail,
           GoodNotes, UnansweredCallsAreReported
<1>12. CASE FinalizeOutput
  <2>1. /\ node = "finalize_output" /\ node' = "end" /\ final' = TRUE
        /\ UNCHANGED <<routerVars, inputVars, analysis, planned, class, results,
                       requests, errors, unanswered>>
    BY <1>12 DEF FinalizeOutput
  <2>2. FinalOutputAccountsForThePlan'
    BY <2>1 DEF Accounted, FinalOutputAccountsForThePlan, PlannedAt, In,
                  Resulted
  <2>3. Accounted'
    BY <2>1, <2>2 DEF Accounted
  <2>4. PlanInv'
    BY <2>1 DEF PlanInv, GoodEmails, HasEmail, GoodNotes
  <2> QED
    BY <1>0, <1>r, <2>1, <2>3, <2>4 DEF UnansweredCallsAreReported
<1>13. CASE GenerateFinalReport
  <2>1. /\ NoError \/ Degrades("generate_final_report")
        /\ call.status = "failed" => Degrades("generate_final_report")
    BY <1>13 DEF GenerateFinalReport, Usable
  <2>2. /\ errors' \subseteq Nodes /\ unanswered' \subseteq Nodes
        /\ UnansweredCallsAreReported'
    BY <2>1, <1>13, ReportKept DEF GenerateFinalReport
  <2>3. /\ node = "generate_final_report" /\ node' = "end" /\ final' = TRUE
        /\ UNCHANGED <<inputVars, analysis, planned, class, results, requests>>
    BY <1>13 DEF GenerateFinalReport
  <2>4. FinalOutputAccountsForThePlan'
    BY <2>3 DEF Accounted, FinalOutputAccountsForThePlan, PlannedAt, In,
                  Resulted
  <2>5. Accounted'
    BY <2>3, <2>4 DEF Accounted
  <2>6. PlanInv'
    BY <2>3 DEF PlanInv
  <2> QED BY <1>0, <1>r, <2>2, <2>3, <2>5, <2>6
<1> QED BY <1>1, <1>2, <1>3, <1>4, <1>5, <1>6, <1>7, <1>8, <1>9, <1>10, <1>11,
           <1>12, <1>13 DEF Next

LEMMA IInvAlways == Spec => []IInv
BY InitIInv, NextIInv, PTL DEF Spec

-----------------------------------------------------------------------------
\* The types, for plans of any length.
THEOREM TypeCorrect == Spec => []TypeOK
<1>1. IInv => TypeOK
  BY DEF IInv
<1> QED BY <1>1, IInvAlways, PTL

\* Redaction: what one hop of the router redacts never shows in another, and
\* a hosted provider sees nothing else, over all calls of a run.
THEOREM RedactionStays == Spec => []OnlyHostedCallsAreRedacted
<1>1. IInv => OnlyHostedCallsAreRedacted
  BY DEF IInv, RouterInv
<1> QED BY <1>1, IInvAlways, PTL

\* No email of a support plan goes anywhere but to the ticket's customer, for
\* any set of addresses and whatever a model answers.
THEOREM EmailsGoToTheCustomer == Spec => []EmailGoesToTheCustomer
<1>1. IInv => EmailGoesToTheCustomer
  BY DEF IInv, PlanInv, GoodEmails, EmailGoesToTheCustomer, EmailActions
<1> QED BY <1>1, IInvAlways, PTL

\* A drafted reply to a known customer is never dropped by the planning.
THEOREM RepliesArePlanned == Spec => []ReplyIsPlanned
<1>1. IInv => ReplyIsPlanned
  BY DEF IInv, PlanInv, HasEmail, ReplyIsPlanned, EmailActions
<1> QED BY <1>1, IInvAlways, PTL

\* A CRM note never reports the email that the same plan only proposes.
THEOREM NotesAreHonest == Spec => []NotesDoNotClaimTheEmail
<1>1. IInv => NotesDoNotClaimTheEmail
  BY DEF IInv, PlanInv, HasEmail, GoodNotes, NotesDoNotClaimTheEmail, EmailActions
<1> QED BY <1>1, IInvAlways, PTL

\* A run that writes its output has lost none of its planned actions, whatever the
\* executor has made of them.
THEOREM OutputsAccountForThePlan == Spec => []FinalOutputAccountsForThePlan
<1>1. IInv => FinalOutputAccountsForThePlan
  BY DEF IInv, Accounted, FinalOutputAccountsForThePlan
<1> QED BY <1>1, IInvAlways, PTL

\* No node goes on without its answer unreported: none of the later nodes loses
\* what an earlier one wrote to state.errors.
THEOREM CallsAreReported == Spec => []UnansweredCallsAreReported
<1>1. IInv => UnansweredCallsAreReported
  BY DEF IInv
<1> QED BY <1>1, IInvAlways, PTL
=============================================================================
