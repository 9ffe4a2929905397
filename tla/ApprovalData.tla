---------------------------- MODULE ApprovalData ----------------------------
(***************************************************************************)
(* The columns of an approval request and of its tool call that decide     *)
(* what may happen next, and the pure functions of app/services/approval.py*)
(* over them.  A payload is a model value; None is SQL NULL.               *)
(***************************************************************************)

CONSTANTS Proposed,      \* the payload the agent proposed
          Edits,         \* the payloads a reviewer may send to /edit
          EmptyPayload,  \* the empty JSON object {}
          None           \* NULL, and "no session"

Payloads == Edits \cup {Proposed}

\* The statuses the code ever writes; "proposed" and "cancelled" of the enum
\* are accepted by some guards but nothing sets them.
ApprovalStatuses ==
  {"pending_review", "approved", "edited", "rejected", "executed", "failed"}

ToolStatuses ==
  {"waiting_for_approval", "running", "completed", "failed", "denied"}

\* The approval_requests columns modelled: status and edited_payload.
Approvals == [status : ApprovalStatuses, edited : Edits \cup {None}]

ASSUME ApprovalDataAssumption ==
  /\ Proposed # EmptyPayload
  /\ None \notin Edits \cup {Proposed, EmptyPayload} \cup Approvals

\* Mutant: a failed request may be approved once more.
ApprovableAfterFailure == {"pending_review", "edited", "failed"}

Approvable == {"pending_review", "edited"}
Rejectable == {"pending_review", "approved", "edited"}

\* Mutant: execution does not wait for the reviewer.
ExecutableUnreviewed == {"pending_review", "approved", "edited"}
Executable == {"approved", "edited"}
Terminal   == {"rejected", "executed", "failed"}

\* Mutant: the fallback to the proposal is dropped.
EditedPayloadOnly(a) == a.edited

\* edited_payload or proposed_payload: both None and {} are falsy.
FinalPayload(a) ==
  IF a.edited \in {None, EmptyPayload} THEN Proposed ELSE a.edited

\* What create_request leaves behind.
NewApproval == [status |-> "pending_review", edited |-> None]

\* The reviewers' requests and the execute request of app/api/approvals.py.
ReviewRequests ==
  [op : {"approve", "reject"}, payload : {None}]
    \cup [op : {"edit"}, payload : Edits]

ExecuteRequest == [op |-> "execute", payload |-> None]

Requests == ReviewRequests \cup {ExecuteRequest}

\* The statuses from which ApprovalService.approve / reject accept a request.
Accepts(r, status) ==
  IF r.op = "reject" THEN status \in Rejectable ELSE status \in Approvable

\* The columns approve() or reject() assigns, given the ones it loaded.
Decide(r, a) ==
  CASE r.op = "approve" -> [a EXCEPT !.status = "approved"]
    [] r.op = "edit"    -> [status |-> "edited", edited |-> r.payload]
    [] r.op = "reject"  -> [a EXCEPT !.status = "rejected"]

\* The payload a reviewer agrees to by committing r on the columns a.
Endorsed(r, a) ==
  CASE r.op = "approve" -> {FinalPayload(a)}
    [] r.op = "edit"    -> {r.payload}
    [] r.op = "reject"  -> {}
=============================================================================
