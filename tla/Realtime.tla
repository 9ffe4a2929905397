------------------------------ MODULE Realtime ------------------------------
(***************************************************************************)
(* How the timeline page of one agent run learns that the run has changed. *)
(* A transaction audits, which publishes on Redis, and commits; the        *)
(* listener of the api process forwards each message to the sockets of the *)
(* run; a page that gets one asks for the run again over REST.             *)
(*                                                                         *)
(* A version is the number of commits so far.  A message carries nothing   *)
(* that the page shows, only the fact that something changed, so messages  *)
(* are counted.  A GET that is lost is asked again by the browser.  No     *)
(* page opens /ws/approvals or /ws/notifications: their broadcasts have no *)
(* socket.                                                                 *)
(***************************************************************************)
EXTENDS Naturals, FiniteSets

CONSTANTS Pages,           \* open or closed timeline pages of the run
          Transactions,    \* transactions that change the run and audit it
          MaxConnections,  \* bound: connections each page tries in its life
          Faults           \* the kinds of failure that may happen

FaultKinds == {"network", "crash", "redis", "rollback", "send"}

ASSUME RealtimeAssumption ==
  /\ IsFiniteSet(Transactions)
  /\ MaxConnections \in [Pages -> Nat \ {0}]
  /\ Faults \subseteq FaultKinds

VARIABLES
  db,        \* committed version of the run
  txn,       \* where each transaction is
  channel,   \* messages Redis holds for the listener's subscription
  listener,  \* redis_event_listener
  todo,      \* sockets the current broadcast has still to send to
  accepted,  \* sockets accepted and not yet in the manager
  conns,     \* WebSocketManager._connections of the run's topic
  page,      \* the ReconnectingWebSocket of each page, "closed" without one
  conn,      \* connections it has tried
  fetching,  \* the GET of each page
  answer,    \* the version it was answered with
  loaded,    \* whether the page's query has data
  shown,     \* the version it shows
  owed,      \* history: the version it must come to show
  audience,  \* history: the sockets the current broadcast began with
  got        \* history: those it has reached

dbVars    == <<db, txn>>
sendVars  == <<channel, listener, todo, audience, got>>
pageVars  == <<page, conn>>
queryVars == <<fetching, answer, loaded, shown, owed>>
vars == <<dbVars, sendVars, accepted, conns, pageVars, queryVars>>

Versions == 0..Cardinality(Transactions)
Sockets  == UNION {[page : {p}, number : 1..MaxConnections[p]] : p \in Pages}

TypeOK ==
  /\ db \in Versions
  /\ txn \in [Transactions -> {"open", "published", "committed", "rolled_back"}]
  /\ channel \in Nat
  /\ listener \in {"listening", "broadcasting", "dead"}
  /\ todo \subseteq Sockets
  /\ accepted \subseteq Sockets /\ conns \subseteq Sockets
  /\ page \in [Pages -> {"closed", "connecting", "open", "waiting"}]
  /\ conn \in [Pages -> Nat] /\ \A p \in Pages : conn[p] <= MaxConnections[p]
  /\ fetching \in [Pages -> {"none", "sent", "served"}]
  /\ answer \in [Pages -> Versions]
  /\ loaded \in [Pages -> BOOLEAN]
  /\ shown \in [Pages -> Versions] /\ owed \in [Pages -> Versions]
  /\ audience \subseteq Sockets /\ got \subseteq audience

Init ==
  /\ db = 0
  /\ txn = [t \in Transactions |-> "open"]
  /\ channel = 0
  /\ listener = "listening"
  /\ todo = {}
  /\ accepted = {} /\ conns = {}
  /\ page = [p \in Pages |-> "closed"]
  /\ conn = [p \in Pages |-> 0]
  /\ fetching = [p \in Pages |-> "none"]
  /\ answer = [p \in Pages |-> 0]
  /\ loaded = [p \in Pages |-> FALSE]
  /\ shown = [p \in Pages |-> 0] /\ owed = [p \in Pages |-> 0]
  /\ audience = {} /\ got = {}

-----------------------------------------------------------------------------
(* The writers: AuditService.record inside a transaction.                  *)

writersOnly == UNCHANGED <<listener, todo, audience, got, accepted, conns, pageVars,
                           queryVars>>

\* The audit row is flushed and its event is out, before the commit.  Redis
\* drops it when nobody subscribes.
Publish(t) ==
  /\ txn[t] = "open"
  /\ txn' = [txn EXCEPT ![t] = "published"]
  /\ channel' = IF listener = "dead" THEN channel ELSE channel + 1
  /\ UNCHANGED db /\ writersOnly

CommitTxn(t) ==
  /\ txn[t] = "published"
  /\ txn' = [txn EXCEPT ![t] = "committed"]
  /\ db' = db + 1
  /\ UNCHANGED channel /\ writersOnly

\* A statement or the publication itself fails.
Rollback(t) ==
  /\ "rollback" \in Faults
  /\ txn[t] \in {"open", "published"}
  /\ txn' = [txn EXCEPT ![t] = "rolled_back"]
  /\ UNCHANGED <<db, channel>> /\ writersOnly

-----------------------------------------------------------------------------
(* The page: useQuery and createAgentRunSocket.                            *)

\* s is the socket through which its page listens now.
Linked(s) == page[s.page] = "open" /\ conn[s.page] = s.number

CurrentSocket(p) == [page |-> p, number |-> conn[p]]

\* The page is mounted: the query runs and the socket connects.  A GET still under
\* way from an earlier visit is joined, not sent again.
OpenPage(p) ==
  /\ page[p] = "closed"
  /\ conn[p] < MaxConnections[p]
  /\ page' = [page EXCEPT ![p] = "connecting"]
  /\ conn' = [conn EXCEPT ![p] = @ + 1]
  /\ fetching' = [fetching EXCEPT ![p] = IF @ = "none" THEN "sent" ELSE @]
  /\ owed' = [owed EXCEPT ![p] = IF fetching[p] = "served" THEN answer[p] ELSE db]
  /\ UNCHANGED <<dbVars, sendVars, accepted, conns, answer, loaded, shown>>

\* The page is left: disconnect() clears the timer and closes the socket.  Its GET
\* goes on, since fetchAgentRun takes no AbortSignal, and is answered to the cache.
ClosePage(p) ==
  /\ page[p] # "closed"
  /\ page' = [page EXCEPT ![p] = "closed"]
  /\ owed' = [owed EXCEPT ![p] = 0]
  /\ UNCHANGED <<dbVars, sendVars, accepted, conns, conn>>
  /\ UNCHANGED <<fetching, answer, loaded, shown>>

\* The server accepts; onopen fires.
Accept(p) ==
  /\ page[p] = "connecting"
  /\ page' = [page EXCEPT ![p] = "open"]
  /\ accepted' = accepted \cup {CurrentSocket(p)}
  /\ UNCHANGED <<dbVars, sendVars, conns, conn, queryVars>>

\* The connection is lost and onclose fires: _scheduleReconnect.  The server may
\* not know for a while.
Drop(p) ==
  /\ "network" \in Faults
  /\ page[p] \in {"connecting", "open"}
  /\ conn[p] < MaxConnections[p]   \* bound: the last connection stays
  /\ page' = [page EXCEPT ![p] = "waiting"]
  /\ UNCHANGED <<dbVars, sendVars, accepted, conns, conn, queryVars>>

\* The browser learns that the server has no such socket any more.
NoticeClose(p) ==
  /\ page[p] = "open"
  /\ CurrentSocket(p) \notin accepted \cup conns
  /\ page' = [page EXCEPT ![p] = "waiting"]
  /\ UNCHANGED <<dbVars, sendVars, accepted, conns, conn, queryVars>>

\* Mutant: disconnect() leaves the timer.
ReconnectAlways(p) ==
  /\ page[p] \in {"waiting", "closed"}
  /\ page' = [page EXCEPT ![p] = "connecting"]
  /\ conn' = [conn EXCEPT ![p] = @ + 1]
  /\ UNCHANGED <<dbVars, sendVars, accepted, conns, queryVars>>

\* Mutant: onclose is set by onopen, so a connection that never opened is not
\* tried again.
ReconnectIfOpened(p) ==
  /\ page[p] = "waiting"
  /\ CurrentSocket(p) \in accepted \cup conns
  /\ page' = [page EXCEPT ![p] = "connecting"]
  /\ conn' = [conn EXCEPT ![p] = @ + 1]
  /\ UNCHANGED <<dbVars, sendVars, accepted, conns, queryVars>>

\* The timer fires: _connect.  Nothing is fetched again.
Reconnect(p) ==
  /\ page[p] = "waiting"
  /\ page' = [page EXCEPT ![p] = "connecting"]
  /\ conn' = [conn EXCEPT ![p] = @ + 1]
  /\ UNCHANGED <<dbVars, sendVars, accepted, conns, queryVars>>

\* GET /agent-runs/{run_id} reads what is committed.
ServeFetch(p) ==
  /\ fetching[p] = "sent"
  /\ fetching' = [fetching EXCEPT ![p] = "served"]
  /\ answer' = [answer EXCEPT ![p] = db]
  /\ UNCHANGED <<dbVars, sendVars, accepted, conns, pageVars, loaded, shown, owed>>

FetchArrives(p) ==
  /\ fetching[p] = "served"
  /\ fetching' = [fetching EXCEPT ![p] = "none"]
  /\ shown' = [shown EXCEPT ![p] = answer[p]]
  /\ answer' = [answer EXCEPT ![p] = 0]
  /\ loaded' = [loaded EXCEPT ![p] = TRUE]
  /\ UNCHANGED <<dbVars, sendVars, accepted, conns, pageVars, owed>>

\* Mutant: a query under way is not asked again.
InvalidateIdle(p) ==
  fetching' = [fetching EXCEPT ![p] = IF @ = "none" THEN "sent" ELSE @]

\* invalidateQueries starts the query over, except when its first answer has
\* still to come: then it does nothing.
Invalidate(p) ==
  fetching' = [fetching EXCEPT ![p] = IF @ = "none" \/ loaded[p] THEN "sent" ELSE @]

\* The handler that the page has subscribed.
OnMessage(p) ==
  /\ Invalidate(p)
  /\ owed' = [owed EXCEPT ![p] = IF loaded[p] THEN db ELSE @]
  /\ UNCHANGED <<answer, loaded, shown>>

-----------------------------------------------------------------------------
(* The server's sockets and the listener.                                  *)

\* WebSocketManager.connect, once accept() has returned.
Register(s) ==
  /\ s \in accepted
  /\ accepted' = accepted \ {s}
  /\ conns' = conns \cup {s}
  /\ UNCHANGED <<dbVars, sendVars, pageVars, queryVars>>

\* receive_text raises: the endpoint disconnects the socket from the manager.
ReceiveEnds(s) ==
  /\ s \in conns /\ ~Linked(s)
  /\ conns' = conns \ {s}
  /\ UNCHANGED <<dbVars, sendVars, accepted, pageVars, queryVars>>

\* get_message returns a message; broadcast copies the topic's set.
Receive ==
  /\ listener = "listening" /\ channel > 0
  /\ listener' = "broadcasting"
  /\ channel' = channel - 1
  /\ todo' = conns /\ audience' = conns
  /\ got' = {}
  /\ UNCHANGED <<dbVars, accepted, conns, pageVars, queryVars>>

\* Mutant: the broadcast returns at the first socket that is not connected.
RestUntilClosed(s) == IF s \in conns THEN todo \ {s} ELSE {}

Rest(s) == todo \ {s}

\* One turn of the loop: a socket that is known to be closed is skipped, one
\* that is gone unnoticed takes the message for nothing or raises RuntimeError.
SendTo(s) ==
  /\ listener = "broadcasting" /\ s \in todo
  /\ todo' = Rest(s)
  /\ \/ /\ s \in conns /\ Linked(s)
        /\ got' = got \cup {s}
        /\ OnMessage(s.page)
        /\ UNCHANGED conns
     \/ /\ s \notin conns \/ ~Linked(s)
        /\ conns' \in {conns, conns \ {s}}
        /\ UNCHANGED <<got, queryVars>>
  /\ UNCHANGED <<dbVars, channel, listener, audience, accepted, pageVars>>

\* The loop of redis_event_listener goes on.
backToListening ==
  /\ listener' = "listening"
  /\ todo' = {} /\ audience' = {} /\ got' = {}

\* Any other exception leaves broadcast and ends the work on this message.
SendRaises(s) ==
  /\ "send" \in Faults
  /\ listener = "broadcasting" /\ s \in todo \cap conns /\ ~Linked(s)
  /\ backToListening
  /\ UNCHANGED <<dbVars, channel, accepted, conns, pageVars, queryVars>>

BroadcastEnds ==
  /\ listener = "broadcasting" /\ todo = {}
  /\ backToListening
  /\ UNCHANGED <<dbVars, channel, accepted, conns, pageVars, queryVars>>

\* get_message raises: the task ends, and nothing starts it again.
ListenerDies ==
  /\ "redis" \in Faults
  /\ listener = "listening"
  /\ listener' = "dead"
  /\ channel' = 0
  /\ UNCHANGED <<dbVars, todo, audience, got, accepted, conns, pageVars, queryVars>>

\* The process dies with its sockets and transactions and starts again.
Restart ==
  /\ "crash" \in Faults
  /\ \A p \in Pages : page[p] # "closed" => conn[p] < MaxConnections[p]   \* bound
  /\ txn' = [t \in Transactions |->
               IF txn[t] = "published" THEN "rolled_back" ELSE txn[t]]
  /\ channel' = 0 /\ backToListening
  /\ accepted' = {} /\ conns' = {}
  /\ UNCHANGED <<db, pageVars, queryVars>>

-----------------------------------------------------------------------------
WriterStep == \E t \in Transactions : Publish(t) \/ CommitTxn(t) \/ Rollback(t)

ListenerStep ==
  \/ Receive
  \/ \E s \in Sockets : SendTo(s) \/ SendRaises(s)
  \/ BroadcastEnds

PageStep(p) ==
  \/ Accept(p)
  \/ NoticeClose(p)
  \/ Reconnect(p)

QueryStep(p) == ServeFetch(p) \/ FetchArrives(p)

Next ==
  \/ WriterStep
  \/ ListenerStep
  \/ \E p \in Pages :
       OpenPage(p) \/ ClosePage(p) \/ Drop(p) \/ PageStep(p) \/ QueryStep(p)
  \/ \E s \in Sockets : Register(s) \/ ReceiveEnds(s)
  \/ ListenerDies
  \/ Restart

Spec == Init /\ [][Next]_vars

\* Browser, event loop and database keep going; nobody has to write, to open a
\* page or to fail.
FairSpec ==
  /\ Spec
  /\ \A t \in Transactions : WF_vars(CommitTxn(t))
  /\ WF_vars(ListenerStep)
  /\ \A p \in Pages : WF_vars(PageStep(p)) /\ WF_vars(QueryStep(p))
  /\ \A s \in Sockets : WF_vars(Register(s)) /\ WF_vars(ReceiveEnds(s))

-----------------------------------------------------------------------------
\* A broadcast that comes to its end has reached every page that was connected
\* when it began and still is, whichever of the other sockets
\* closed, failed or were thrown out of the manager meanwhile.
BroadcastReachesPages ==
  listener = "broadcasting" /\ todo = {}
    => \A s \in audience : Linked(s) => s \in got

\* A page that stays open shows, in the end, at least what was committed when it
\* received an event, although an event may come while an older answer is under
\* way, and what was committed when it was opened, unless it joined a GET of an
\* earlier visit that the server had answered before: then at least that answer.
ReceivedIsShown ==
  \A p \in Pages, v \in Versions \ {0} :
    page[p] # "closed" /\ owed[p] >= v ~> page[p] = "closed" \/ shown[p] >= v

\* A page that has lost its socket is registered with the manager again or
\* closed, whoever else failed: network, server or listener.
PagesReconnect ==
  \A p \in Pages :
    page[p] = "waiting"
      ~> page[p] = "closed" \/ (page[p] = "open" /\ CurrentSocket(p) \in conns)

-----------------------------------------------------------------------------
(* What the documentation says and the code does not do.                    *)

\* A page that shows all there is and listens, before anybody writes.
Listening(p) ==
  /\ page[p] = "open" /\ CurrentSocket(p) \in conns
  /\ loaded[p] /\ fetching[p] = "none"
  /\ \A t \in Transactions : txn[t] = "open"

\* docs/ARCHITECTURE.md: tabs "receive the JSON event and invalidate their
\* TanStack Query caches to refetch durable state": a page that was listening
\* all along ends up showing what the transactions committed.
PageCatchesUp ==
  \A p \in Pages :
    [](Listening(p) => <>[](page[p] # "open" \/ shown[p] = db))
=============================================================================
