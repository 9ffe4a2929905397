----------------------------- MODULE AgentGraph -----------------------------
(***************************************************************************)
(* One run of the support graph or of the workflow graph, node by node:    *)
(* what each node makes of the model's answer or of its failure, and what  *)
(* the model's plan has become when the policy gate sees it.               *)
(*                                                                         *)
(* An answer is any JSON, or none.  Of the texts only these matter: the    *)
(* address somebody may be written to, whether a draft exists, and whether *)
(* a CRM note says that an email was sent.  How an action is decided and   *)
(* executed is the subject of ToolExecutor: here the gate sorts the        *)
(* actions of the plan in any way.                                         *)
(***************************************************************************)
EXTENDS ModelRouter, FiniteSets

CONSTANTS Addresses,  \* texts _is_email_like accepts
          Nobody,     \* no text, or one that is no address: a placeholder
                      \* of the redactor, say
          NotADict,   \* JSON that is no object
          MaxItems    \* bound: items of a plan

ASSUME AgentGraphAssumption ==
  /\ Nobody \notin Addresses /\ NotADict \notin Addresses
  /\ Nobody # NotADict
  /\ MaxItems \in Nat

VARIABLES
  mode,         \* which graph
  node,         \* the graph node that runs
  ticketEmail,  \* state.ticket_customer_email
  textEmail,    \* the address in state.input_text
  intent,       \* state.intent: a label, or whatever JSON the model gave
  entities,     \* the address in state.entities, or NotADict
  draft,        \* whether state.draft_response has text
  planned,      \* state.planned_actions or state.plan, with their positions
  class,        \* position -> bucket of policy_gate
  results,      \* position -> what became of an action in state.tool_results
  requests,     \* positions in state.approval_requests
  errors,       \* state.errors, as the nodes that wrote them
  unanswered,   \* history: nodes whose call every provider failed
  final         \* whether final_output, or final_report, has been written

inputVars == <<mode, ticketEmail, textEmail>>
analysis == <<intent, entities, draft>>
outcome == <<class, results, requests, final>>
graphVars == <<node, inputVars, analysis, planned, outcome, errors, unanswered>>
vars == <<routerVars, graphVars>>

SupportNodes == {"classify_intent", "detect_priority", "extract_entities",
                 "retrieve_policy_context", "draft_response",
                 "plan_tool_actions"}
WorkflowNodes == {"generate_plan", "generate_final_report"}
SharedNodes == {"policy_gate", "execute_safe_tools", "create_approval_requests"}
Ended == {"end", "raised"}
Nodes == SupportNodes \cup WorkflowNodes \cup SharedNodes
         \cup {"finalize_output"} \cup Ended

\* Items of a list of actions as a model writes them, and as planned.
Emails == [tool : {"send_email"}, to : Addresses \cup {Nobody},
           body : BOOLEAN]
NoteTexts == {"missing", "plain", "sent"}
Notes == [tool : {"create_crm_note"}, note : NoteTexts]
Others == [tool : {"export_report", "another"}]
Junk == [tool : {"not an object", "name no dict can look up"}]

Items == Emails \cup Notes \cup Others \cup Junk
RawPlans == UNION {[1..n -> Items] : n \in 0..MaxItems}

Positions == 1..(MaxItems + 1)
Buckets == {"none", "safe", "approval_required", "blocked"}

\* What execute() makes of a safe action: it raises, or it comes back, and then
\* the result reads "completed" whether the tool has run ("done") or the policy,
\* asked again after a change of the settings, has denied the action or sent it
\* to the reviewers ("not done").
Outcomes == {"done", "not done", "failed"}

Actions == [at : Positions, item : Items]

TypeOK ==
  /\ RouterTypeOK
  /\ mode \in {"support_agent", "workflow_automation"}
  /\ node \in Nodes
  /\ ticketEmail \in Addresses \cup {Nobody}
  /\ textEmail \in Addresses \cup {Nobody}
  /\ intent \in {"label", "not a text"}
  /\ entities \in Addresses \cup {Nobody, NotADict}
  /\ draft \in BOOLEAN
  /\ planned \subseteq Actions
  /\ class \in [Positions -> Buckets]
  /\ results \in [Positions -> Outcomes \cup {"none"}]
  /\ requests \subseteq Positions
  /\ errors \subseteq Nodes /\ unanswered \subseteq Nodes
  /\ final \in BOOLEAN

\* normalize_input and parse_instruction only strip the text.
Init ==
  /\ RouterInit
  /\ \/ mode = "support_agent" /\ node = "classify_intent"
     \/ mode = "workflow_automation" /\ node = "generate_plan"
  /\ ticketEmail \in Addresses \cup {Nobody}
  /\ textEmail \in Addresses \cup {Nobody}
  /\ intent = "label" /\ entities = Nobody /\ draft = FALSE
  /\ planned = {}
  /\ class = [i \in Positions |-> "none"]
  /\ results = [i \in Positions |-> "none"] /\ requests = {}
  /\ errors = {} /\ unanswered = {}
  /\ final = FALSE

-----------------------------------------------------------------------------
(* A node and the router.                                                  *)

PurposeOf ==
  [classify_intent |-> "classification", detect_priority |-> "classification",
   extract_entities |-> "extraction", draft_response |-> "drafting",
   plan_tool_actions |-> "routing", generate_plan |-> "routing",
   generate_final_report |-> "drafting"]

Asks == /\ node \in DOMAIN PurposeOf
        /\ Complete(PurposeOf[node])
        /\ UNCHANGED graphVars

RouterRuns == RouterStep /\ UNCHANGED graphVars

\* The node resumes with an answer it can use, or in its except branch: the
\* providers failed, the text is no JSON, or the JSON not what it indexes.
Resumes(n) ==
  /\ node = n /\ Returned
  /\ unanswered' = IF call.status = "failed" THEN unanswered \cup {n} ELSE unanswered

Usable == call.status = "answered"

\* Mutant: the list in the state is replaced.
OnlyThisError(es, n) == {n}

WithError(es, n) == es \cup {n}

NoError == UNCHANGED errors
Degrades(n) == errors' = WithError(errors, n)

-----------------------------------------------------------------------------
(* The analysis nodes.                                                     *)

\* The answer's "intent" is kept whatever its type; the rules of the mock
\* tool that replace a failed call return a label, and record no error.
ClassifyIntent ==
  /\ Resumes("classify_intent")
  /\ node' = "detect_priority"
  /\ \/ intent' = "label"
     \/ Usable /\ intent' = "not a text"
  /\ NoError
  /\ UNCHANGED <<inputVars, entities, draft, planned, outcome>>

\* The priority reaches prompts only; here too a rule replaces the model.
DetectPriority ==
  /\ Resumes("detect_priority")
  /\ node' = "extract_entities"
  /\ NoError
  /\ UNCHANGED <<inputVars, analysis, planned, outcome>>

ExtractEntities ==
  /\ Resumes("extract_entities")
  /\ node' = "retrieve_policy_context"
  /\ \/ /\ Usable
        /\ entities' \in Addresses \cup {Nobody, NotADict}
        /\ NoError
     \/ /\ entities' = Nobody
        /\ Degrades("extract_entities")
  /\ UNCHANGED <<inputVars, intent, draft, planned, outcome>>

\* The context reaches prompts only.  A search that raises degrades, and so
\* does one that finds something: pack_context reads chunk.document, a lazy
\* load that the ORM refuses on an AsyncSession.
RetrievePolicyContext ==
  /\ node = "retrieve_policy_context"
  /\ node' = "draft_response"
  /\ NoError \/ Degrades("retrieve_policy_context")
  /\ UNCHANGED <<routerVars, inputVars, analysis, planned, outcome, unanswered>>

DraftResponse ==
  /\ Resumes("draft_response")
  /\ node' = "plan_tool_actions"
  /\ \/ Usable /\ draft' \in BOOLEAN /\ NoError
     \/ ~Usable /\ draft' = FALSE /\ Degrades("draft_response")
  /\ UNCHANGED <<inputVars, intent, entities, planned, outcome>>

-----------------------------------------------------------------------------
(* plan_tool_actions and _normalize_planned_actions.                       *)

SupportActionTools == {"send_email", "create_crm_note", "export_report"}

IsEmailLike(a) == a \in Addresses

\* Mutant: the model's entities are taken without a look at them.
UncheckedEntities == IF IsEmailLike(ticketEmail) THEN ticketEmail ELSE entities

\* _customer_email_from_state: entities that are no object end the search
\* before the text is looked at.
CustomerEmail ==
  CASE IsEmailLike(ticketEmail) -> ticketEmail
    [] ~IsEmailLike(ticketEmail) /\ entities = NotADict -> Nobody
    [] ~IsEmailLike(ticketEmail) /\ IsEmailLike(entities) -> entities
    [] OTHER -> textEmail

\* Mutant: the model's recipient comes first.
ModelsRecipient(to) == IF IsEmailLike(to) THEN to ELSE CustomerEmail

\* The recipient of an email whose payload says "to": context_email or it.
Recipient(to) ==
  IF CustomerEmail # Nobody THEN CustomerEmail
  ELSE IF IsEmailLike(to) THEN to ELSE Nobody

\* The positions whose action is an email that can be sent.
EmailsIn(raw) ==
  {i \in DOMAIN raw : /\ raw[i].tool = "send_email"
                      /\ Recipient(raw[i].to) # Nobody
                      /\ raw[i].body \/ draft}

EmailKept(raw) == EmailsIn(raw) # {}

Email(to) == [tool |-> "send_email", to |-> to, body |-> TRUE]

\* Mutant: the draft is used when the model gave no plan, not no email.
OnlyForNoPlan(raw) ==
  IF raw = <<>> /\ CustomerEmail # Nobody /\ draft
  THEN {[at |-> 1, item |-> Email(CustomerEmail)]} ELSE {}

\* The email made of the draft when the plan has none.
DraftedEmail(raw) ==
  IF ~EmailKept(raw) /\ CustomerEmail # Nobody /\ draft
  THEN {[at |-> Len(raw) + 1, item |-> Email(CustomerEmail)]} ELSE {}

\* Mutant: only the model's own emails count as emails.
HasProposedEmail(raw) == EmailKept(raw)

HasEmailAction(raw) == EmailKept(raw) \/ DraftedEmail(raw) # {}

\* "sent" becomes "prepared" beside an email; a missing note gets a default.
CrmNote(text, hasEmail) ==
  [tool |-> "create_crm_note",
   note |-> IF text = "sent" /\ ~hasEmail THEN "sent" ELSE "plain"]

NormalizedItem(raw, i) ==
  CASE raw[i].tool = "send_email" -> Email(Recipient(raw[i].to))
    [] raw[i].tool = "create_crm_note" -> CrmNote(raw[i].note, HasEmailAction(raw))
    [] OTHER -> raw[i]

KeptPositions(raw) ==
  EmailsIn(raw) \cup
  {i \in DOMAIN raw : raw[i].tool \in SupportActionTools \ {"send_email"}}

NormalizedPlan(raw) ==
  {[at |-> i, item |-> NormalizedItem(raw, i)] : i \in KeptPositions(raw)}
    \cup DraftedEmail(raw)

\* A name is looked up in a set, and the default note is made of the intent,
\* which need not be a text: either exception drops the model's whole plan.
NormalizationRaises(raw) ==
  \E i \in DOMAIN raw :
    \/ raw[i].tool = "name no dict can look up"
    \/ /\ intent = "not a text"
       /\ raw[i].tool = "create_crm_note" /\ raw[i].note = "missing"

\* An answer that is an object without a list of actions is an empty plan.
PlanToolActions ==
  /\ Resumes("plan_tool_actions")
  /\ node' = "policy_gate"
  /\ \/ /\ Usable
        /\ \E raw \in RawPlans : /\ ~NormalizationRaises(raw)
                                 /\ planned' = NormalizedPlan(raw)
        /\ NoError
     \/ /\ planned' = NormalizedPlan(<<>>)
        /\ Degrades("plan_tool_actions")
  /\ UNCHANGED <<inputVars, analysis, outcome>>

-----------------------------------------------------------------------------
(* The workflow's plan is kept as the model wrote it.                      *)

WorkflowPlan(raw) == {[at |-> i, item |-> raw[i]] : i \in DOMAIN raw}

GeneratePlan ==
  /\ Resumes("generate_plan")
  /\ node' = "policy_gate"
  /\ \/ /\ Usable
        /\ \E raw \in RawPlans : planned' = WorkflowPlan(raw)
        /\ NoError
     \/ /\ planned' = {}
        /\ Degrades("generate_plan")
  /\ UNCHANGED <<inputVars, analysis, outcome>>

-----------------------------------------------------------------------------
(* From the gate to the end.                                               *)

PlannedAt == {a.at : a \in planned}
In(bucket) == {i \in Positions : class[i] = bucket}

Malformed == \E a \in planned : a.item \in Junk

PolicyGate ==
  /\ node = "policy_gate" /\ ~Malformed
  /\ node' = "execute_safe_tools"
  /\ \E c \in [PlannedAt -> Buckets \ {"none"}] :
       class' = [i \in Positions |-> IF i \in PlannedAt THEN c[i] ELSE "none"]
  /\ UNCHANGED <<routerVars, inputVars, analysis, planned, results, requests,
                 final, errors, unanswered>>

\* The graph raises over an item that is no object or has an unhashable name, and
\* over any tool for which the settings hold a text that is no sensitivity: the
\* endpoint of the settings stores what it is sent.
PolicyGateRaises ==
  /\ node = "policy_gate" /\ planned # {}
  /\ node' = "raised"
  /\ UNCHANGED <<routerVars, inputVars, analysis, planned, outcome, errors,
                 unanswered>>

\* Mutant: the except branch of execute_safe_tools appends no result.
OnlySuccesses(became) ==
  [i \in Positions |->
     IF i \in DOMAIN became /\ became[i] # "failed" THEN became[i] ELSE "none"]

\* A tool that fails leaves a result as well.
ResultsOf(became) ==
  [i \in Positions |-> IF i \in DOMAIN became THEN became[i] ELSE "none"]

\* _has_approval_actions, in either graph.
AfterSafeTools ==
  IF In("approval_required") # {} THEN "create_approval_requests"
  ELSE IF mode = "support_agent" THEN "finalize_output"
  ELSE "generate_final_report"

ExecuteSafeTools ==
  /\ node = "execute_safe_tools"
  /\ \E became \in [In("safe") -> Outcomes] : results' = ResultsOf(became)
  /\ node' = AfterSafeTools
  /\ UNCHANGED <<routerVars, inputVars, analysis, planned, class, requests,
                 final, errors, unanswered>>

\* The commit of either node fails: the state keeps nothing of it.
ToolsRaise ==
  /\ node \in {"execute_safe_tools", "create_approval_requests"}
  /\ node' = "raised"
  /\ UNCHANGED <<routerVars, inputVars, analysis, planned, outcome, errors,
                 unanswered>>

\* An action that the executor refuses by now is logged, one that is safe by now
\* is executed: neither leaves a request.
CreateApprovalRequests ==
  /\ node = "create_approval_requests"
  /\ requests' \in SUBSET In("approval_required")
  /\ node' = "end"
  /\ UNCHANGED <<routerVars, inputVars, analysis, planned, class, results,
                 final, errors, unanswered>>

FinalizeOutput ==
  /\ node = "finalize_output"
  /\ final' = TRUE
  /\ node' = "end"
  /\ UNCHANGED <<routerVars, inputVars, analysis, planned, class, results,
                 requests, errors, unanswered>>

GenerateFinalReport ==
  /\ Resumes("generate_final_report")
  /\ final' = TRUE
  /\ node' = "end"
  /\ \/ Usable /\ NoError
     \/ ~Usable /\ Degrades("generate_final_report")
  /\ UNCHANGED <<inputVars, analysis, planned, class, results, requests>>

\* Nothing resumes a graph that has ended.
Finished == node \in Ended /\ UNCHANGED vars

-----------------------------------------------------------------------------
Next ==
  \/ Asks \/ RouterRuns
  \/ ClassifyIntent \/ DetectPriority \/ ExtractEntities
  \/ RetrievePolicyContext \/ DraftResponse \/ PlanToolActions
  \/ GeneratePlan
  \/ PolicyGate \/ PolicyGateRaises \/ ExecuteSafeTools \/ ToolsRaise
  \/ CreateApprovalRequests \/ FinalizeOutput \/ GenerateFinalReport
  \/ Finished

Spec == Init /\ [][Next]_vars

-----------------------------------------------------------------------------
PastPlanning == SharedNodes \cup {"finalize_output"} \cup Ended
SupportPlan == mode = "support_agent" /\ node \in PastPlanning
EmailActions == {a \in planned : a.item.tool = "send_email"}

\* Whatever address the model proposed, extracted or was shown redacted, each
\* email of a support plan has a body and goes to a real address, and to the
\* ticket's customer whenever the ticket has a usable address
\* (_normalize_send_email_action over what four nodes left in the state).
EmailGoesToTheCustomer ==
  SupportPlan =>
    \A a \in EmailActions :
      /\ a.item.to \in Addresses /\ a.item.body
      /\ ticketEmail \in Addresses => a.item.to = ticketEmail

\* When the model drafted a reply and the ticket has a usable address, the
\* plan holds an email, whichever of the other calls failed, whatever the
\* model's plan proposes and also when normalizing it raised.
ReplyIsPlanned ==
  SupportPlan /\ draft /\ ticketEmail \in Addresses => EmailActions # {}

\* No CRM note says that an email was sent while the plan's email is still to
\* be approved, be that email before or after the note or made of the draft.
NotesDoNotClaimTheEmail ==
  SupportPlan /\ EmailActions # {} =>
    \A a \in planned : a.item.tool = "create_crm_note" => a.item.note # "sent"

\* Nodes whose failed call a rule of the mock tools replaces.
WithFallback == {"classify_intent", "detect_priority"}

\* state.errors, and so the final output, names every node whose call no provider
\* answered, but for the two that a rule replaces: each node has an except branch
\* of its own, writes the whole list and must not lose what the others wrote.
UnansweredCallsAreReported == unanswered \ WithFallback \subseteq errors

Resulted == {i \in Positions : results[i] # "none"}

\* When a run ends with its final output or report, each action of the plan has
\* a result or was blocked: none got lost on the way, also when its tool failed or
\* the policy changed after the gate.  A result that reads "completed" does not
\* say that the tool has run: the action may wait or be denied by now.
FinalOutputAccountsForThePlan ==
  final => PlannedAt = Resulted \cup In("blocked")

=============================================================================
