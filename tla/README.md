# TLA+ verification of the AI Agent Platform

The platform runs an agent over support tickets. The agent plans tool calls;
safe ones run at once, sensitive ones wait for a human who approves, edits or
rejects them, and an approved one is executed once somebody asks for it. This
directory holds TLA+ models of that machinery, TLC configurations that check
them on small instances, and TLAPS proofs of the results that matter most.

Paths below are relative to the repository. `PROJECT.json` maps every
definition to the lines it models, and lists runs, mutants, hazards, findings
and theorems.

## 1. The system

| Part | Code | State it keeps | Operations | Talks to |
|---|---|---|---|---|
| Approval requests | `app/services/approval.py`, `app/api/approvals.py` | `approval_requests` row, its `tool_calls` row | create, approve, edit, reject, execute | row lock, Redis lock, executor, run summary, audit |
| Redis lock | `app/services/redis_lock.py` | one key with a token and a TTL | acquire, release | Redis |
| Tool executor and policy | `app/tools/executor.py`, `app/tools/registry.py`, `app/guardrails/`, `app/services/retry.py`, `app/api/settings.py` | `tool_calls` rows; the sensitivity catalog (a dict of the process) | decide, execute, execute_approved, retry, update_tool, update_guardrail_policy | handlers, approvals, audit |
| Agent run and ticket status | `app/services/agent_run_summary.py`, `app/api/agent_runs.py` | `agent_runs.status`, `tickets.status`, derived from approvals and tool calls | support task, refresh, cancel, give up a stale run | every approval endpoint, the dashboard's GETs |
| Starting support runs | `app/api/agent_runs.py` | the runs of a ticket | look up, reuse, give up, create | background tasks |
| Agent graphs | `app/agents/` | graph state of one run, which each node reads and returns parts of | classify, detect, extract, retrieve, draft, plan, policy_gate, execute_safe_tools, create_approval_requests, finalize; for workflows plan and report | LLM router, retrieval, executor |
| Audit and events | `app/services/audit.py`, `app/services/events.py` | `audit_logs` rows; Redis channels | record, publish | every writer |
| Realtime | `app/api/websockets.py`, `app/services/websocket_manager.py`, `frontend/src/lib/websocket.ts`, `frontend/src/pages/AgentRunTimeline.tsx` | sockets per topic; a reconnect timer in the browser | subscribe, listen, broadcast, reconnect | Redis pub/sub |
| Model router | `app/llm/` | token counters | complete and embed, with fallback and redaction | Gemini, Ollama |
| Retrieval and ingestion | `app/retrieval/`, `app/api/knowledge.py` | `knowledge_documents`, `knowledge_chunks` | ingest, delete, chunk, embed, search, fuse, rerank, pack | PostgreSQL/pgvector, router |
| Ticket, audit and health APIs, worker, seed, mock tools, dashboard | the rest of `app/` and `frontend/` | rows and views | CRUD, queries, rendering | the API |

### How the parts interact

A POST to `/agent-runs/support` looks for a live run of the ticket and inserts
one when there is none to return; a FastAPI background task in the same
process then drives the graph. The graph's nodes open sessions of their own and
commit one by one: `execute_safe_tools` leaves tool calls, and
`create_approval_requests` leaves approvals in `pending_review` and sets the run
to `waiting_for_approval`. Both ask the policy again for each action, so after a
change of the settings the first may leave approvals and the second tool calls as
well. From then on the run moves only because HTTP
requests on its approvals end with `refresh_agent_run_summary`, which reads all
the approvals and tool calls of the run and writes the status it derives.

Every request has a SQLAlchemy session. What it flushes is private until it
commits; its identity map keeps the objects it has loaded. Two locks protect
an approval: `SELECT ... FOR UPDATE` on its row, held to the end of the
transaction, and around the execution only, a Redis key with a TTL.

### What is hard

* *Stale objects under a lock.* `execute` loads the approval, takes the Redis
  lock, takes the row lock, and re-checks the object it had loaded before.
* *Write skew.* The run's status is derived from rows that other transactions
  are changing, without a lock on them.
* *Failure between two systems.* A handler acts outside the database; the row
  that says so is committed later, or not at all. An audit publishes to Redis
  in the middle of a transaction, and its failure takes different paths
  depending on where it happens.
* *Loss of the process.* Background tasks, open transactions and held locks
  disappear together; the Redis key and the committed rows stay.
* *Time.* A lock's TTL, a lock's waiting time, an attempt's timeout, the thirty
  seconds within which a run is reused and the five minutes after which it is
  given up are independent of each other.
* *Notice before the fact.* An event is published inside the transaction it
  tells of, and a page that refetches on it may be too early.
* *Answers nobody can rely on.* Every node of a graph asks a model, which may be
  down, may answer with anything that is JSON, and has seen redacted text. What a
  node makes of it meets what four earlier nodes left in the state.
* *Two uploads of one text.* The look-up and the INSERT are apart by an await, and
  the transaction in between waits for an embedding model.
* *Policy that changes.* The catalog is written by settings requests between
  the moment a plan is classified and the moment its tool runs.

### What makes each part correct

* Approvals: decisions and executions of one approval take turns; the tool runs
  only on a payload that a committed review agreed to; the approval and its
  tool call tell the same story; no decided request goes back to the reviewers or
  gets an old edit back (a rejection may still be executed over: finding 1); every
  request is answered.
* Redis lock: it excludes until a TTL runs out; a release deletes only its own
  lease; nobody waits for ever and no key stays for ever.
* Executor and policy: no unreviewed call of a tool that was not safe when the
  call was admitted; no handler sees invalid input; rows count the calls made.
* Run and ticket status: "completed" and "resolved" leave nobody with work to
  do, approvals that a change of the settings split over two commits excepted;
  without overlap the status is what the rules derive; a lost run is noticed.
* Starting runs: one live run per ticket, as long as POSTs do not overlap, tasks
  write often, nobody cancels and no ended run comes back.
* Realtime: a broadcast reaches every connected page whatever happens to the
  others; a page that is told shows what was committed by then; a page that
  loses its socket gets another.
* Router: nothing unredacted reaches a hosted model, and the local one sees the
  original text also after a hosted one failed.
* Agent graphs: a reply goes to the ticket's customer whatever address the model
  named; a draft does not get lost on the way to the plan; no note claims a reply
  that is still to be approved; a model call without an answer is reported or
  replaced by a rule; a run that ends with its output has a result or a refusal for
  each planned action.
* Knowledge base: one document per text, with all of its chunks or not there;
  each paragraph whole in some chunk; a search ranks a chunk above another when
  both of its halves do; uploads end.

## 2. The modules

| Module | Models | Composes |
|---|---|---|
| `RedisLock` | the lock: acquire, poll, time out, expire, release, crash of owners | |
| `ApprovalData` | statuses, payloads, guards and effects of decisions; `final_payload` | |
| `ApprovalLifecycle` | the abstract specification of one approval: no sessions, locks, identity maps or failures | `ApprovalData` |
| `ApprovalExecution` | the concurrent requests on one approval | `ApprovalData`; `RedisLock` by INSTANCE; refines `ApprovalLifecycle` |
| `AgentRun` | one run with several approvals: task, sessions, cancel, stale GETs, restart | |
| `ToolExecutor` | plan, policy, catalog, executor and retries of one run | |
| `TicketRuns` | several POSTs on one ticket | |
| `Realtime` | events from audit to the timeline page: publication, listener, broadcast, sockets, reconnect, refetch | |
| `ModelRouter` | one call of a purpose down its chain of providers, with redaction | |
| `AgentGraph` | one run of the support or of the workflow graph, node by node, and the normalization of its plan | `ModelRouter` (EXTENDS) |
| `Chunking` | how a text becomes chunks, as functions | |
| `KnowledgeStore` | the abstract specification of the stored documents: no transactions, batches or failures | |
| `KnowledgeBase` | overlapping uploads, deletions and searches | `Chunking` (EXTENDS); refines `KnowledgeStore` |
| `MC*` | the small instances of each | |
| `RedisLock_proofs`, `ApprovalExecution_proofs`, `AgentRun_proofs`, `ToolExecutor_proofs`, `TicketRuns_proofs`, `Realtime_proofs`, `AgentGraph_proofs`, `KnowledgeBase_proofs` | theorems, one module per component | the component (EXTENDS) |

### RedisLock

`key` is the owner's token in Redis or `NoClient`, `phase` where each lock
object is, `polls` how often it has tried, `expired` (history) whose TTL has run
out while it held. `Acquire` is a SET NX that succeeds, `PollAgain` one that
fails before the deadline followed by the sleep, `AcquireTimeout` one that
fails past it; time is the number of polls, capped by `MaxPolls`. `Release` is
the compare-and-delete script, `Expire` the TTL, which may run out at any
moment, also while the owner works.

### ApprovalData, ApprovalLifecycle, ApprovalExecution

Payloads are model values: the agent's proposal, the empty object, the
reviewers' edits. `FinalPayload` keeps the code's `or`: an empty edit counts as
none.

In `ApprovalExecution` the variables `approval` and `toolCall` are the committed
columns; `seen[s]` and `tool[s]` are the objects of session `s`. `GetForUpdate`
is the heart of the model: the session waits for the row lock and then works
on the object it already has. A review is `Review` (locking read, guard,
assignment, flush) and `CommitReview`. An execution is `PreRead` (the
endpoint's `select`, without a lock), `AcquireLock`/`WaitForLock`/`AcquireFails`,
`SelectForUpdate` (the re-check), `StartTool`, `ToolCompletes` or `ToolFails`,
`MarkResult`, `ReleaseLock`, `CommitExecution`, one step for each point at which
others can get in or a failure takes another path. The commit writes the
columns whose value differs from what was loaded (`WrittenApproval`), as an
ORM's UPDATE does. `Faults` chooses which failures exist: `database` (any
statement), `audit` (an audit row or its publication), `tool`, `redis`, `crash`.

`ApprovalLifecycle` is what remains to be promised: decisions and executions
take turns, an execution begins only after some payload has been endorsed, calls the
tool at most once on an endorsed payload, and ends by recording one outcome or
none. It does not promise that only one execution ever happens, because the
code does not keep that (finding 1).

The refinement maps `executing` to the session that holds the row lock between
its re-check and its commit; everything else maps to itself.

### AgentRun

`run`, `stale`, `ticket`, `approval`, `call`, `safe` are committed values;
`task`/`taskSeen` the background task; `sess`, `target`, `own`, `loaded` the approval
sessions. The rules for the statuses are `Derive`, `TicketFor`,
`Delivered`, `OnlyRejected`, in the order of the code's tests. `Refresh` reads
and derives, `Commit` writes what differs from what was read: this is where
two sessions miss each other. A session that lost the Redis lock gets to
`Refresh` with its stale approval, as the endpoint's `except` branch does. The
statuses of the tool calls without an approval are one value (`safe`) with five
outcomes, which is all the rules tell apart.

The graph's two nodes each execute their actions with `ExecuteActions(A)`: those in
`A` become approvals, others may be called, since `ToolExecutor.execute` asks the
policy again and the settings may have changed since the gate.
`ExecuteSafeTools` commits first; the approvals it leaves are `early` (history), and
from that commit on reviewers may decide them. `LoadRunToAsk` and
`CreateApprovals` are the second node: the first `create_request` loads the run,
and the commit writes `waiting_for_approval` unless it was loaded as that.
`requested` is whether the node's result names a request, which is what the end of
the task looks at (`GraphStatus`) before it derives the status again.

An approval that `CreateApprovals` asks for when others are early is `AskedLate`: a
reviewer of an early one may have read the children before it was there, and
commits a "completed" derived without it. The properties say that this is the only
way to a completed run with something left to decide.

### ToolExecutor

`registry` are the names that have a definition, `catalog` the sensitivity of
each name (or no entry, or a string that is no sensitivity). `PolicyGate`
classifies the whole plan in one step, since that node does not await.
`Execute` decides again. `UpdateTool` and `UpdateGuardrailPolicy` may happen
between any two steps. An approved action goes through `ExecuteApproved`, which
does not ask the policy. `InputRejected`, `BeginAttempts`, `Attempt*` are
`_execute_tool_call` and `RetryPolicy.run`.

### TicketRuns

A run is named by the POST that created it. Ages are the three classes the code
tells apart: fresh (under 30 s), slow, stale (over five minutes). `Decline` is
the look-up that returns nothing, `Create` the rest of the transaction; other
POSTs fit in between. The two windows of the look-up leave a gap: a run that
was last written between thirty seconds and five minutes ago is neither
returned nor given up, and a POST starts a second one beside it. The promise is
therefore stated for tasks that write every thirty seconds.

`Ask` is the commit of approval requests by the running task. From then on
`Reviewed` may happen, during the task and after it, and to a run that has failed
or completed: a refresh keeps only `cancelled` and otherwise writes any status that
the children can give (`Derivable`). A task that raises after it has asked
therefore leaves a failed run that the next review makes live again, beside the
one that a POST has started meanwhile. The history variable `revived` notes it, and
the promise is stated for histories without it.

### Realtime

What a page shows is a number, the version of the run (its commits so far). `txn`
are the transactions that change the run: `Publish` is `AuditService.record`, and
`CommitTxn` comes after it. `channel` counts the messages that Redis holds for
the listener, since a message has no content that the page uses. A socket is
named by its page and the number of the connection: `accepted` are those
between `accept()` and their registration, `conns` the manager's set, `page` what the
browser believes. A broadcast takes a copy of the set (`todo`) and sends to one
socket at a time, in any order; between two sends sockets close, register and
are disconnected. `fetching`, `answer`, `loaded`, `shown` are react-query's side:
`Invalidate` restarts a GET under way once the query has data and does nothing
before. A GET outlives its page, since `fetchAgentRun` takes no AbortSignal:
`ClosePage` leaves it under way, its answer goes to the cache, and a page opened
meanwhile joins it (`OpenPage`). What such a page is owed is then what that GET has
read, which may be older than its opening. `owed`, `audience` and `got` are
history.

### ModelRouter, AgentGraph

`call` is the call of the router that the current node awaits: its purpose, the
place in the purpose's chain, and what the caller's own request contains by
now, since a hop that redacted the caller's messages would change what the next
hop sends. `sent` is history. A node is a coroutine: `Asks` is the part up to
the await, `RouterRuns` the router's hops, and the node's own action resumes
when the call is over, with an answer it can use (`Usable`) or in its `except`
branch, which can be reached with an answer as well (text that is no JSON, JSON
of the wrong shape).

A model's answer is any element of a small set that holds a case for each test
the code makes: an address that looks like one or not, entities that are no
object, an intent that is no text, actions of every kind, with and without a
body, items that are no object or have a name that no dict can look up, notes that
are missing or say "sent". `planned`
keeps the place of an action in the model's list, since the email made of the
draft comes last and the note that precedes it is rewritten all the same.
`CustomerEmail`, `Recipient`, `EmailsIn`, `DraftedEmail`, `HasEmailAction`,
`CrmNote` are `_normalize_planned_actions` and its helpers, `NormalizationRaises`
the exceptions that drop the model's plan. The workflow graph keeps its
plan as it is, so an item that is no object, or whose name is none, ends that graph
in the gate. In either graph the gate also raises for a tool whose sensitivity the
settings have made a text that is none, which may be any tool (`PolicyGateRaises`).
What the policy and the executor do to an action is the subject of `ToolExecutor`;
here the gate sorts them in any way, and the executor may disagree with it later:
`Outcomes` are the tool that ran, the action that by now waits for a reviewer or
was denied, which `execute_safe_tools` reports as "completed" all the same ("not
done"), and the exception ("failed"). `unanswered` (history) are the nodes whose
call no provider answered, `errors` those that the state names. `ToolsRaise` is the
commit of either tool node that fails.

### Chunking, KnowledgeStore, KnowledgeBase

A text is a sequence of sections, a section the lengths of its heading and of
its paragraphs. `SplitText` is the loop of `_split_text_chunks` with the lengths
it compares, overlap, separators and title prefix included; it returns which
paragraphs a chunk holds whole. The functions are recursive functions, not
RECURSIVE operators.

In `KnowledgeBase` a document is named by the upload that made it, and its
checksum is its text. `LookUp` sees committed rows; `Insert` waits while another
open transaction holds the text's key and then finds it taken (`InsertResult`) or
not; `EmbedBatch` is one call of the embedding model, which is replaced by dummy
vectors when it fails and may answer with fewer vectors than texts: the `zip` is not
strict, and the other chunks of the batch are stored without an embedding;
`WriteChunks` and `Commit` end the request, and
`DatabaseFails` may end it anywhere. `Cascade` are the chunks that go with a
deleted document. A search is `FullTextSearch`, any ranking of any chunks, and
`VectorSearch`, any ranking of those with an embedding (`EmbeddedIds`), all of them
up to the limit, or a failure; `Fused`
is `reciprocal_rank_fusion` with scores in units that make the fractions whole and
its stable sort as an order (`Before`) that gives each id a place.

`KnowledgeStore` is what a reader of committed rows may rely on: a document comes in one
step with all its chunks and a text that no other has, does not change, and goes in
one step, for good. Under the refinement `Commit` is `Add` and `DeleteCommits` is
`Remove`; all else changes nothing a reader sees. `index` is computed from the rows
of `chunks`, and `gone` are the created documents that are not there any more.

## 3. The runs

`agent_graph` checks deadlock too: a graph that has not ended can always go on.
The other configurations set `CHECK_DEADLOCK FALSE`: each of those models describes a
finite number of requests, and the system may stop once all of them are answered.
That nobody waits for somebody for ever is stated as liveness instead.

| Run | Question | Instance |
|---|---|---|
| `redis_lock` | mutual exclusion up to expiry, ownership, termination | 3 lock objects, 2 polls |
| `approval` | everything about one approval, safety, refinement and liveness | 3 requests, payloads proposal / edit / `{}`, 1 poll, every failure |
| `approval_double_execution` | finding 1 | 3 requests, no failure at all |
| `run_safety` | what the run's and the ticket's status guarantee | 2 approvals, 3 requests, 1 cancel, restart |
| `run_liveness` | a lost run is noticed | 2 approvals, 1 request, 1 GET |
| `run_stuck_waiting` | finding 2 | 2 approvals, 2 requests |
| `tools_safety` | policy, validation and retries against settings changes | 2 tools, one with 1 attempt, one with the default of 2 |
| `ticket_runs` | one live run per ticket | 3 POSTs, each run reviewed at any time |
| `realtime` | what broadcasts reach, what pages come to show, that they reconnect | 2 pages, one of which may reconnect once, 1 transaction, every failure |
| `realtime_stale_page` | finding 3 | 1 page, 1 transaction, no failure |
| `agent_graph` | what is sent where, what becomes of a model's plan and of failures | both graphs, 2 addresses, plans of up to 2 items |
| `knowledge` | uniqueness and wholeness of documents, chunks, fusion, refinement, that uploads end | 2 uploads, 2 texts, limits of 2, chunks of 10 characters |

### Why the bounds are enough

* *Three requests on one approval.* The row lock serialises them, so what one
  request can find is what one or two others left between its unlocked read and
  its lock: approve, then two executions, or an execution and a rejection. The
  theorems of section 5 cover any number.
* *One poll.* A poll changes nothing but the count; zero polls and one poll
  are the two cases the deadline tells apart. `redis_lock` uses two.
* *Two approvals, three requests.* `Derive` asks "is there an approval such
  that ...", so two approvals give every combination of answers that matters;
  the third request is a second one on the same approval (an execution after a
  decision, or one whose lock failed). Two approvals also split over the two
  commits that ask for them. A give-up is a writer like a cancel for the safety
  properties, so `run_safety` has no GET: the theorems of section 5 have any number,
  and `run_liveness` runs its steps.
* *Two tools.* Calls of different tools share the catalog, the graph node and
  the order of the plan; two are enough for one to wait while the other runs.
  The registered names are any subset, so one run covers plans that name tools
  that do not exist.
* *Three POSTs.* One live run, one POST that inserts, and one that looks while
  it does.
* *Two addresses, two items.* The customer's address and another one are what the
  choice of a recipient tells apart. The normalization looks at one item at a
  time, and at "is there an email", so a pair holds every order of a note and an
  email, two emails, and either beside junk; the drafted email makes three. The
  proofs of section 5 cover plans of any length.
* *Two uploads, two texts.* Uniqueness is about two requests with one text. The
  deletion of the first and the second upload overlap in every order. One text is
  split with an overlap, holds a paragraph longer than a chunk and a heading with
  nothing under it; in the other, title and heading leave the chunk no room at
  all. The first has more chunks than a ranking's limit, the second fewer.
* *Two pages, three sockets.* A broadcast then meets a live socket, a dead one
  and one that registers or goes meanwhile. One transaction gives the three
  moments that matter to a refetch (before the publication, between it and the
  commit, after the commit); a page that was opened before and is opened again
  has data and a GET under way when the event comes.

Two liberties shrink the state space and are sound for the properties stated:
symmetry of sessions, approvals, GETs and POSTs is used only in runs without
liveness; and `cancel` happens at most once.

### Fairness

* `approval`: once a request has been read, the event loop resumes its
  coroutine when what it awaits is there (`WF` on each session's progress), and
  Redis expires a key with a TTL (`WF` on `LockExpires`). No fairness makes
  requests arrive, makes handlers succeed, or makes failures happen.
  A handler that never returns is cut off by `asyncio.wait_for`, hence
  `ToolCompletes`/`ToolFails` as one step that comes.
* `run_liveness`: `frontend/src/pages/TicketDetail.tsx` polls the runs every five
  seconds while the page is open; `FairSpec` says that it is. Without an open page
  nothing looks, and a lost run stays as it is.
* `realtime`: accept, registration, timers, GETs, the listener and the end of a
  dead connection come in the end (`WF`), and so does the commit after a
  publication. A GET that fails is asked again, as react-query does once
  (`retry: 1`); that the second one succeeds is part of the assumption. Nobody
  has to write, to open a page or to fail, and the network may fail as often as
  the bound on connections allows.
* `redis_lock`: each lock object is driven by its coroutine; a dead one is not.
* `knowledge`: a request's coroutine runs on while its process lives. The code sets no
  timeout around the embedding call; the assumption is that litellm's own ends
  it. `agent_graph` claims no liveness: that a graph ends would rest on the same
  timeouts, and what a run looks like that does not end is `AgentRun`'s stale run.

### Mutants

Each property of a passing run has a mutated definition (the operators
commented "Mutant:") that a plausible slip would produce: a deletion without the
token comparison, a SELECT without FOR UPDATE, a transaction left open, a
deadline never compared, a guard dropped, a retry counted from one. TLC finds
the property violated when the mutant takes the definition's place. They are
not used by any specification.

## 4. Findings

1. *An approval may be executed twice* (`approval_double_execution`). Two execute
   requests both load the approval as approved; the first runs the tool and
   commits; the second then gets both locks, re-checks its own old object and
   runs the tool again. No failure and no expired lock is needed. The same old
   object lets an execution override a rejection, or run on the payload that
   preceded an edit, committed in between.
2. *A run waits for nothing* (`run_stuck_waiting`): two decisions that overlap each
   see the other's approval as undecided, and nothing refreshes the run again.
3. *A page that listened stays behind* (`realtime_stale_page`): the event goes out
   before the commit, the page refetches in between and nothing tells it again.
   The timeline does not poll.

Smaller facts, met while modelling, have no run of their own:

* A cancelled run comes back: `cancel_agent_run` does not tell the background task,
  which sets the status to running, waiting or completed (`MarkRunning`,
  `ExecuteSafeTools`, `CreateApprovals`, `FinishRun`), although `docs/DATA_MODEL.md:162` derives CANCELLED from an explicit
  cancel. A tool blocked through the settings after its approval still runs, since
  `execute_approved` does not ask the policy (`ExecuteApproved`), although
  `docs/GUARDRAILS_AND_APPROVALS.md:5-7` names it among the callers of `decide`.
* A search that finds passages never reaches the draft. `pack_context` asks for
  `chunk.document` (`app/retrieval/context.py:73`), a lazy load that an AsyncSession
  refuses; `retrieve_policy_context` takes its `except` branch and the prompt says
  "No relevant policy found." The tests patch `pack_context`. For the same reason
  `KnowledgeDocument.chunk_count` is always 0.
* An empty edit counts as none, so the row says `edited_payload = {}` while the tool
  gets the proposal (`FinalPayload`).
* A run may read completed, and its ticket resolved, while an approval waits: one
  that was asked for after `execute_safe_tools` had already asked for another
  (`AskedLate`), although `docs/DATA_MODEL.md:164-167` derives COMPLETED only when no
  approval waits. It takes a change of the settings between the gate and the nodes.
* A POST may start a second run beside a live one, through the gap between the two
  windows of the look-up, by overlap of two POSTs, or because a review revives a run
  that failed after it had asked (`OneLiveRunWhenPrompt` excludes each), although
  `docs/API_DESIGN.md:35-37` calls the POST idempotent per ticket.
* `execute_safe_tools` reports a result "completed" for an action that by now waits
  for a reviewer or was denied as invalid, so the final output may call done what
  has not happened (`Outcomes`, "not done").
* An embedding model that answers with fewer vectors than texts leaves chunks that a
  vector search never finds (`BatchEmbeddings`).
* The fallbacks of `classify_intent` and `detect_priority` and an approval request that
  cannot be created leave nothing in `state["errors"]`, which
  `docs/AGENT_WORKFLOWS.md:133-137` says they do. A text in place of the entities
  object ends the search for the customer's address before the message is looked
  at. An intent of `null` and a CRM note without a text together drop the model's
  whole plan.
* `ModelRouter.complete` ignores the model a request names, which its docstring says
  it uses.
* A duplicate upload gets the existing document and 201, one that overlaps the
  first gets a 500; `docs/LLM_AND_RETRIEVAL.md:92` says "rejected". A heading with
  nothing under it is in no chunk, and a long paragraph makes a chunk longer than
  the chunk size.

The quotes these contradict are in `PROJECT.json`.

## 5. What is proved

Every type invariant, safety invariant and action property of the passing runs, and
both refinements, are theorems. The theorems hold for any sets of sessions, edits,
clients, approvals, tools, POSTs, pages, uploads and texts, any number of polls,
attempts and connections, any sizes and limits, and any choice of failures; the
assumptions are the named `ASSUME`s of the modules (distinct constants, natural
bounds, texts made of sections). Each inductive invariant was checked by TLC on the
instance of its run before it was proved.

`RedisLock_proofs`: types (`LockTypeCorrect`); an owner whose TTL has not run out
owns the key (`LeaseIsOwned`), by induction, since only `Expire` and the owner's
release take the key away; from that, two owners at once imply an expired TTL
(`ExclusionUntilExpiry`).

`ApprovalExecution_proofs`: types (`TypeCorrect`, with the strengthening
`SessionsLoaded`: a session at a given place has loaded what that place needs).
The safety invariants are not inductive alone, so the proof uses `IInv`:

* `RowLockHeld`: the row lock is held exactly by a session between FOR UPDATE
  and the end of its transaction, which gives `Serialised`;
* `ReviewsCurrent`: a reviewer's object is the committed row plus its decision,
  since reviewers load under the lock (executors do not, and nothing of the
  kind holds of them);
* `CopiesPermitted`: however old an executor's copy, its status was executable
  and its final payload was endorsed by a committed review. Endorsements are
  never withdrawn, which is why staleness costs the currency of the payload and
  not its legitimacy; this gives `PayloadsReviewed`;
* `ResultsEarned`: what an executor is about to commit matches what its tool
  did, which gives `RowsConsistent` at the commit.

`DecidedStays` (an action property) and `Refinement` follow from `IInv`: every step
of the code is a step of `ApprovalLifecycle` or changes nothing it sees. A
review maps to `ReviewDecision` when it commits, a locked re-check to
`BeginExecution`, the handler to `Invoke`, a commit to `Conclude`, a failure under
the lock to `Abandon`.

`AgentGraph_proofs`: every invariant of the run `agent_graph`, for any set of
addresses and plans of any length. The normalization is the subject of lemmas
about single items, joined in `NormalizedPlanIsGood`: whatever the list the model
wrote, the emails that leave `plan_tool_actions` are complete and addressed to the
ticket's customer, a draft gives at least one, and then no note claims it was sent.
`IInv` carries that through the nodes:

* `RouterInv`: the caller's request is the original at every hop, without which
  a redacted text could reach the local provider (`RedactionStays`);
* `ModeFits`: a node of the workflow graph is only met in that graph, so that its
  unnormalized plan never counts as a support plan;
* `PlanInv`: what `NormalizedPlanIsGood` says, from the gate to the end
  (`EmailsGoToTheCustomer`, `RepliesArePlanned`, `NotesAreHonest`);
* `Accounted`: the buckets partition the plan after the gate, `execute_safe_tools`
  leaves a result at each safe position whatever became of it, and the two nodes
  that write an output are entered with nothing that the gate left to approve
  (`OutputsAccountForThePlan`).

`CallsAreReported` needs no strengthening: a node whose call failed cannot take the
branch that uses an answer, each `except` branch adds to the list it was given, and
no other node touches it.

`AgentRun_proofs`: that "completed" and "resolved" leave nobody with a decision to
make (`CompletedIsDecided`, `ResolvedIsDecided`, with the exception of approvals that are
`AskedLate`) holds although a session derives them from children that others are
changing. `IInv` says why:

* `RowExclusive` and `NoRevival`: the row lock leaves one session at a time with an
  approval's row, and no commit makes a decided approval wait again;
* `DerivedDecided`: so a derivation of "completed", however stale, cannot be wrong
  about the approvals that were there and not waiting. It can be wrong about those
  that are asked for later, which is the exception, and about others in the other
  direction only, which is finding 2. The session also decides its own
  approval: an endpoint that lost the Redis lock only pre-read it, saw it
  waiting, and derives no completion;
* `NotAskedYet`: before the first of the two commits that may ask (`NothingAsked`) no
  session has anything to derive from; after `execute_safe_tools` has asked, all that
  comes later is late.

`SerialAgreement` (the status is what the rules derive) rests on `ReadsCurrent`: as
long as no commit outdated a read, what each session holds is the committed rows
plus its own change, and deriving twice gives the same.

`ToolExecutor_proofs`: `SensitiveCallsReviewed`, `InputsValidated`, `RowsTruthful`.
`IInv` ties the place of an action to its row and its approval (`RowFits`),
remembers with what a call under way was admitted (`CallAdmitted`: the catalog may
change afterwards, the sensitivity it was admitted with does not), and counts the
effects, one per attempt (`CallsCounted`), by cardinalities.

`TicketRuns_proofs`: `OneLiveRun`. While POSTs are prompt, one that is about to insert
is alone in that, has given nothing up and has no live run beside it
(`InsertsAlone`); a run that is queued or running is fresh because its task is
prompt (`AgeFits`) and a run that waits is returned at any age, so the look-up of the next POST finds it (`CreatedOnce` and the newest live run of the
query).

`Realtime_proofs`: `BroadcastsReach`. `Reached` follows a broadcast: those it began
with are still to come or have got it as long as their page is linked to them. The
manager throws out only sockets that are not; that nobody returns to such a socket
is `WasOpen`: a page takes a new number before it connects.

`KnowledgeBase_proofs`: the chunking, the fusion and the store.

* `DocumentCovered`: `chunk_document` loses no paragraph of any text, at any chunk
  size, overlap, title and headings, also when the prefix leaves the chunk no room.
  The loop of `_split_text_chunks` keeps `SplitSoFar` (what is emitted and what grows are,
  in order, the first n paragraphs), the loop over the sections `Chunked`.
* `FusedRespects`: `reciprocal_rank_fusion` puts a chunk before every other that it
  precedes in each list the other is in. The terms fall with the rank (`QuotientFalls`), ties
  go by the order of the dict, and the stable sort is the order `Before`; that the
  places it gives are 1, 2, 3, ... without a gap is a count (`PlaceGrows`,
  `FusedRanks`). With the cut at the limit and the fallback to the full-text
  ranking this gives `RankingsRespected`.
* `UniqueDocuments` (`OneDocumentPerText`, which the run checks as a part of
  `ImplementsStore`) needs `TextsDiffer`: not only no two documents, but no document
  and open transaction, and no two open transactions, have one text, which the
  constraint keeps because an INSERT waits for the holder of its key.
* `WholeDocuments` needs `WorkInProgress` (the batches never overshoot, and a request
  that writes has embedded every chunk) and `RowsAreWhole`. `Refinement`
  (`ImplementsStore`) follows from the same invariant.

The loops of `Chunking` and of `Unit` are recursive functions. The library's induction
rules take a predicate as a parameter, which the provers cannot instantiate, so
the proofs use two lemmas of first-order form: `Counting` (a set of numbers that has 0
and, with each number, the next has them all; from the well-foundedness of <) and
`LoopExists` (a loop whose turns stay in a set has the function the definition
chooses).

Left to TLC is what the prover does not treat: liveness under fairness
(`RequestsAnswered`, `LostRunGivenUp`, `AcquireEnds`, `KeyIsFreed`,
`ReceivedIsShown`, `PagesReconnect`, `UploadsEnd`). The three properties that the
code does not keep (section 4) have counterexamples instead.

## 6. Abstractions

* `Refresh` reads the run and its children in one step; the code uses several
  statements under READ COMMITTED. A commit between two of them makes a session
  see more of the other's changes than one atomic read would, never less than an
  atomic read at the first statement.
* A write of a run's status in `TicketRuns` reads and writes in one step and may be
  any status the children can give; `AgentRun` has the stale reads in between and the
  children themselves.
* `AgentRun` follows one run. Its ticket may be written by other runs of the same
  ticket (a second support run, a workflow run that names it), each by rules of its
  own over approvals of its own, so `ResolvedMeansDecided` speaks of this run's
  writers and approvals.
* A crash inside a tool call is in `ApprovalExecution` and `AgentRun`;
  `ToolExecutor` has the other failures of a call.
* The audit and its publication are one point that may fail. Where the failure
  is caught decides the path, so each place has its own.
* Payloads, prompts, emails and reports are opaque; a tool's effect is the fact
  that its handler was called.
* `Realtime` follows one run and one listener. An event of another entity goes to
  every topic and would only add refetches. A message arrives at the page in the
  step that sends it; one that is lost on the way is a send to a dead socket.
* `AgentGraph` follows one run, whose nodes are strictly one after another, so the
  router has one call at a time; the singleton keeps nothing between calls but
  counters. Confidence, priority, citations and prompts are left out: no later
  step of the graph depends on them.
* A DELETE of a document that another DELETE is about to remove is one DELETE in
  `KnowledgeBase`. The chunks' order inside a transaction is not visible outside.
* `create_workflow_run` starts the same machinery without the look-up. A run that
  names a ticket writes it at its task's end and when its approvals are reviewed,
  but not when it starts or fails.

## 7. Not modelled, and the plan

Not modelled: the mock tools, the ticket, audit and health queries, the seed and
the schema (data and queries without a protocol), the worker (a heartbeat), the
SQL of the searches, the reranker (one model call that falls back to the order it
was given), the packing of the prompt, the patterns of the redactor, usage
counters. The connection pool is not modelled: requests that wait for a row lock
hold a connection each, which delays others and cannot block them for ever as
long as every request is answered.

What is left, in this order:

1. Proofs of what the safety theorems do not say: that a session which can do no
   step has been answered, as an invariant in place of the liveness that the
   prover does not treat; an abstract specification of the run's status that
   `AgentRun` implements as long as no read is outdated.
2. Reranking and packing as functions.
3. The task of `AgentRun` as a refinement of `AgentGraph`'s end.
