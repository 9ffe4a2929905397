--------------------------- MODULE Realtime_proofs ---------------------------
(***************************************************************************)
(* Theorems about Realtime, for any pages, any finite set of transactions, *)
(* any number of connections and any kinds of failure.                     *)
(***************************************************************************)
EXTENDS Realtime, FiniteSetTheorems, TLAPS

(* The invariant.                                                          *)

Committed == {t \in Transactions : txn[t] = "committed"}

\* A page that is mounted has a connection; only one that may have another
\* waits for it, and the last one stays with the server.
Mounted(p) ==
  /\ page[p] # "closed" => conn[p] >= 1
  /\ page[p] = "waiting" => conn[p] < MaxConnections[p]
  /\ page[p] = "open" /\ conn[p] = MaxConnections[p] =>
       CurrentSocket(p) \in accepted \cup conns

\* s has been the socket of its page: once it is not any more, it will never
\* be again, because the page takes a new number before it connects.
WasOpen(s) ==
  /\ s.number <= conn[s.page]
  /\ s.number = conn[s.page] => page[s.page] # "connecting"

\* Where a broadcast is with the sockets it began with.  The manager throws out
\* only sockets that are not linked, so a linked one is still there to be sent to.
Reached ==
  /\ todo \subseteq audience
  /\ \A s \in audience : Linked(s) => s \in conns /\ s \in todo \cup got

IInv ==
  /\ TypeOK
  /\ db = Cardinality(Committed)
  /\ \A p \in Pages : Mounted(p)
  /\ \A s \in accepted \cup conns \cup audience : WasOpen(s)
  /\ Reached

-----------------------------------------------------------------------------
(* Sockets and versions.                                                   *)

LEMMA SocketFields ==
  ASSUME NEW s \in Sockets
  PROVE  s.page \in Pages /\ s.number \in 1..MaxConnections[s.page]
BY DEF Sockets

LEMMA CurrentIsSocket ==
  ASSUME TypeOK, NEW p \in Pages, conn[p] >= 1
  PROVE  CurrentSocket(p) \in Sockets
<1>1. conn[p] \in 1..MaxConnections[p]
  BY RealtimeAssumption DEF TypeOK
<1>2. CurrentSocket(p) \in [page : {p}, number : 1..MaxConnections[p]]
  BY <1>1 DEF CurrentSocket
<1> QED BY <1>2 DEF Sockets

LEMMA SubsetCounted ==
  ASSUME NEW S, S \subseteq Transactions
  PROVE  IsFiniteSet(S) /\ Cardinality(S) \in Versions
<1>1. /\ IsFiniteSet(S)
      /\ Cardinality(S) <= Cardinality(Transactions)
  BY RealtimeAssumption, FS_Subset
<1>2. Cardinality(S) \in Nat /\ Cardinality(Transactions) \in Nat
  BY <1>1, RealtimeAssumption, FS_CardinalityType
<1> QED BY <1>1, <1>2 DEF Versions

\* The parts of the invariant about sockets.
SocketsFit ==
  /\ \A p \in Pages : Mounted(p)
  /\ \A s \in accepted \cup conns \cup audience : WasOpen(s)
  /\ Reached

LEMMA SocketsUntouched ==
  ASSUME IInv, UNCHANGED <<accepted, conns, todo, audience, got, page, conn>>
  PROVE  SocketsFit'
<1>1. (\A p \in Pages : Mounted(p))'
  BY DEF IInv, Mounted, CurrentSocket
<1>2. (\A s \in accepted \cup conns \cup audience : WasOpen(s))'
  BY DEF IInv, WasOpen
<1>3. Reached'
  BY DEF IInv, Reached, Linked
<1> QED BY <1>1, <1>2, <1>3 DEF SocketsFit

\* A page that closes, waits, connects or is accepted makes no socket linked
\* that has been.
LEMMA PageMoved ==
  ASSUME IInv, NEW p \in Pages, NEW to, NEW number \in Nat,
         page' = [page EXCEPT ![p] = to], conn' = [conn EXCEPT ![p] = number],
         UNCHANGED <<conns, todo, audience, got>>,
         accepted' \in {accepted, accepted \cup {CurrentSocket(p)}},
         accepted' # accepted => to = "open",
         \/ number = conn[p] /\ to # "connecting"
         \/ number = conn[p] + 1 /\ to = "connecting",
         to = "open" => page[p] = "connecting",
         Mounted(p)'
  PROVE  SocketsFit'
<1>1. /\ page \in [Pages -> {"closed", "connecting", "open", "waiting"}]
      /\ conn \in [Pages -> Nat]
      /\ accepted \subseteq Sockets /\ conns \subseteq Sockets /\ audience \subseteq Sockets
  BY DEF IInv, TypeOK
<1>2. /\ page'[p] = to /\ conn'[p] = number
      /\ \A q \in Pages \ {p} : page'[q] = page[q] /\ conn'[q] = conn[q]
  BY <1>1
<1>3. (\A q \in Pages : Mounted(q))'
  <2> SUFFICES ASSUME NEW q \in Pages \ {p} PROVE Mounted(q)'
    OBVIOUS
  <2> QED BY <1>2 DEF IInv, Mounted, CurrentSocket
<1>4. ASSUME NEW s \in Sockets, WasOpen(s)
      PROVE  WasOpen(s)' /\ (Linked(s)' => Linked(s))
  <2>1. s.page \in Pages /\ s.number \in Nat
    BY SocketFields, RealtimeAssumption
  <2>2. CASE s.page = p
    BY <1>1, <1>2, <1>4, <2>1, <2>2 DEF WasOpen, Linked
  <2>3. CASE s.page # p
    BY <1>2, <1>4, <2>1, <2>3 DEF WasOpen, Linked
  <2> QED BY <2>2, <2>3
<1>5. \A s : s = CurrentSocket(p) /\ accepted' # accepted => WasOpen(s)'
  BY <1>1, <1>2 DEF WasOpen, CurrentSocket
<1>6. (\A s \in accepted \cup conns \cup audience : WasOpen(s))'
  <2>1. \A s \in accepted \cup conns \cup audience : WasOpen(s)'
    BY <1>1, <1>4 DEF IInv
  <2>2. CASE accepted' = accepted
    BY <2>1, <2>2
  <2>3. CASE accepted' # accepted
    BY <1>5, <2>1, <2>3
  <2> QED BY <2>2, <2>3
<1>7. Reached'
  BY <1>1, <1>4 DEF IInv, Reached
<1> QED BY <1>3, <1>6, <1>7 DEF SocketsFit

-----------------------------------------------------------------------------
LEMMA InitIInv == Init => IInv
<1> SUFFICES ASSUME Init PROVE IInv
  OBVIOUS
<1>1. Committed = {}
  BY DEF Init, Committed
<1>2. db = Cardinality(Committed)
  BY <1>1, FS_EmptySet DEF Init
<1>3. 0 \in Versions
  BY RealtimeAssumption, FS_CardinalityType DEF Versions
<1>4. TypeOK
  BY <1>3, RealtimeAssumption DEF Init, TypeOK
<1>5. \A p \in Pages : Mounted(p)
  BY DEF Init, Mounted
<1>6. /\ \A s \in accepted \cup conns \cup audience : WasOpen(s)
      /\ Reached
  BY DEF Init, Reached
<1> QED BY <1>2, <1>4, <1>5, <1>6 DEF IInv

-----------------------------------------------------------------------------
(* The writers.                                                            *)

LEMMA WriterKeeps ==
  ASSUME IInv, WriterStep
  PROVE  IInv'
<1>1. /\ UNCHANGED <<listener, todo, audience, got, accepted, conns, page, conn>>
      /\ UNCHANGED <<fetching, answer, loaded, shown, owed>>
  BY DEF WriterStep, Publish, CommitTxn, Rollback, writersOnly, pageVars, queryVars
<1>2. TypeOK
  BY DEF IInv
<1>3. txn' \in [Transactions -> {"open", "published", "committed", "rolled_back"}]
        /\ channel' \in Nat
  BY <1>2 DEF TypeOK, WriterStep, Publish, CommitTxn, Rollback
<1>4. db' = Cardinality(Committed)'
  <2>1. CASE \E t \in Transactions : Publish(t) \/ Rollback(t)
    <3>1. Committed' = Committed /\ db' = db
      BY <1>2, <2>1 DEF Committed, Publish, Rollback, TypeOK
    <3> QED BY <3>1 DEF IInv
  <2>2. ASSUME NEW t \in Transactions, CommitTxn(t)
        PROVE  db' = Cardinality(Committed)'
    <3>1. Committed' = Committed \cup {t} /\ t \notin Committed /\ db' = db + 1
      BY <1>2, <2>2 DEF Committed, CommitTxn, TypeOK
    <3>2. IsFiniteSet(Committed)
      BY SubsetCounted DEF Committed
    <3>3. Cardinality(Committed \cup {t}) = Cardinality(Committed) + 1
      BY <3>1, <3>2, FS_AddElement
    <3> QED BY <3>1, <3>3 DEF IInv
  <2> QED BY <2>1, <2>2 DEF WriterStep
<1>5. TypeOK'
  <2>1. db' \in Versions
    <3>1. Committed' \subseteq Transactions
      BY DEF Committed
    <3> QED BY <1>4, <3>1, SubsetCounted
  <2> QED BY <1>1, <1>2, <1>3, <2>1 DEF TypeOK
<1>6. SocketsFit'
  BY <1>1, SocketsUntouched
<1> QED BY <1>4, <1>5, <1>6 DEF IInv, SocketsFit

-----------------------------------------------------------------------------
(* The page.                                                               *)

\* What a page does leaves the database, the listener and the manager alone.
PageOnly == UNCHANGED <<db, txn, channel, listener, todo, audience, got, conns>>

LEMMA PageOnlyKeeps ==
  ASSUME IInv, PageOnly, TypeOK', SocketsFit'
  PROVE  IInv'
<1>1. Committed' = Committed
  BY DEF PageOnly, Committed
<1> QED BY <1>1 DEF IInv, SocketsFit, PageOnly

\* A page takes its next connection.
Connects(p) ==
  /\ conn[p] < MaxConnections[p]
  /\ page' = [page EXCEPT ![p] = "connecting"]
  /\ conn' = [conn EXCEPT ![p] = @ + 1]
  /\ UNCHANGED accepted

LEMMA ConnectKept ==
  ASSUME IInv, NEW p \in Pages, Connects(p),
         UNCHANGED <<conns, todo, audience, got>>
  PROVE  /\ SocketsFit'
         /\ page' \in [Pages -> {"closed", "connecting", "open", "waiting"}]
         /\ conn' \in [Pages -> Nat] /\ \A q \in Pages : conn'[q] <= MaxConnections[q]
<1> DEFINE number == conn[p] + 1
<1>1. TypeOK
  BY DEF IInv
<1>2. /\ MaxConnections[p] \in Nat /\ conn[p] \in Nat
      /\ number \in Nat /\ number <= MaxConnections[p] /\ number >= 1
  BY <1>1, RealtimeAssumption DEF TypeOK, Connects
<1>3. /\ page' = [page EXCEPT ![p] = "connecting"]
      /\ conn' = [conn EXCEPT ![p] = number]
      /\ accepted' = accepted
  BY DEF Connects
<1>4. /\ page' \in [Pages -> {"closed", "connecting", "open", "waiting"}]
      /\ conn' \in [Pages -> Nat] /\ \A q \in Pages : conn'[q] <= MaxConnections[q]
  BY <1>1, <1>2, <1>3 DEF TypeOK
<1>5. Mounted(p)'
  BY <1>1, <1>2, <1>3 DEF Mounted, TypeOK
<1>6. number = conn[p] + 1
  OBVIOUS
<1> HIDE DEF number
<1>7. SocketsFit'
  BY <1>2, <1>3, <1>5, <1>6, PageMoved
<1> QED BY <1>4, <1>7

LEMMA OpenPageKeeps ==
  ASSUME IInv, NEW p \in Pages, OpenPage(p)
  PROVE  IInv'
<1> USE DEF OpenPage
<1>1. TypeOK
  BY DEF IInv
<1>2. PageOnly
  BY DEF PageOnly, dbVars, sendVars
<1>3. /\ SocketsFit'
      /\ page' \in [Pages -> {"closed", "connecting", "open", "waiting"}]
      /\ conn' \in [Pages -> Nat] /\ \A q \in Pages : conn'[q] <= MaxConnections[q]
  BY <1>2, ConnectKept DEF Connects, PageOnly
<1>4. TypeOK'
  <2>1. /\ fetching' \in [Pages -> {"none", "sent", "served"}]
        /\ owed' \in [Pages -> Versions]
    BY <1>1 DEF TypeOK
  <2> QED BY <1>1, <1>2, <1>3, <2>1 DEF TypeOK, PageOnly
<1> QED BY <1>2, <1>3, <1>4, PageOnlyKeeps

\* The page moves, its query does not.
LinkKeeps(p, to) ==
  /\ page' = [page EXCEPT ![p] = to]
  /\ UNCHANGED <<accepted, conn>>

LEMMA LinkKept ==
  ASSUME IInv, NEW p \in Pages, NEW to \in {"closed", "waiting"}, LinkKeeps(p, to),
         UNCHANGED <<conns, todo, audience, got>>,
         to = "waiting" => page[p] # "closed" /\ conn[p] < MaxConnections[p]
  PROVE  /\ SocketsFit'
         /\ page' \in [Pages -> {"closed", "connecting", "open", "waiting"}]
<1> USE DEF LinkKeeps
<1>1. TypeOK /\ Mounted(p)
  BY DEF IInv
<1>2. conn[p] \in Nat /\ conn' = [conn EXCEPT ![p] = conn[p]]
  BY <1>1 DEF TypeOK
<1>3. page' \in [Pages -> {"closed", "connecting", "open", "waiting"}] /\ page'[p] = to
  BY <1>1 DEF TypeOK
<1>4. Mounted(p)'
  BY <1>1, <1>3 DEF Mounted
<1>5. SocketsFit'
  BY <1>2, <1>4, PageMoved
<1> QED BY <1>3, <1>5

LEMMA ClosePageKeeps ==
  ASSUME IInv, NEW p \in Pages, ClosePage(p)
  PROVE  IInv'
<1> USE DEF ClosePage
<1>1. TypeOK
  BY DEF IInv
<1>2. PageOnly /\ LinkKeeps(p, "closed")
  BY DEF PageOnly, LinkKeeps, dbVars, sendVars
<1>3. /\ SocketsFit'
      /\ page' \in [Pages -> {"closed", "connecting", "open", "waiting"}]
  BY <1>2, LinkKept DEF PageOnly
<1>4. TypeOK'
  <2>1. 0 \in Versions
    BY SubsetCounted, FS_EmptySet
  <2>2. owed' \in [Pages -> Versions]
    BY <1>1, <2>1 DEF TypeOK
  <2> QED BY <1>1, <1>2, <1>3, <2>2 DEF TypeOK, PageOnly
<1> QED BY <1>2, <1>3, <1>4, PageOnlyKeeps

\* The last connection of a page is never noticed as closed: nothing throws out
\* of the manager a socket that is linked.
LEMMA LoseKeeps ==
  ASSUME IInv, NEW p \in Pages, Drop(p) \/ NoticeClose(p)
  PROVE  IInv'
<1>1. TypeOK /\ Mounted(p)
  BY DEF IInv
<1>2. /\ PageOnly /\ LinkKeeps(p, "waiting") /\ page[p] # "closed"
      /\ UNCHANGED <<fetching, answer, loaded, shown, owed>>
  BY DEF Drop, NoticeClose, PageOnly, LinkKeeps, dbVars, sendVars, queryVars
<1>3. conn[p] < MaxConnections[p]
  <2>1. conn[p] <= MaxConnections[p] /\ conn[p] \in Nat /\ MaxConnections[p] \in Nat
    BY <1>1, RealtimeAssumption DEF TypeOK
  <2> QED BY <1>1, <2>1 DEF Drop, NoticeClose, Mounted
<1>4. /\ SocketsFit'
      /\ page' \in [Pages -> {"closed", "connecting", "open", "waiting"}]
  BY <1>2, <1>3, LinkKept DEF PageOnly
<1>5. TypeOK'
  BY <1>1, <1>2, <1>4 DEF TypeOK, PageOnly, LinkKeeps
<1> QED BY <1>2, <1>4, <1>5, PageOnlyKeeps

LEMMA AcceptKeeps ==
  ASSUME IInv, NEW p \in Pages, Accept(p)
  PROVE  IInv'
<1> USE DEF Accept
<1>1. TypeOK /\ Mounted(p)
  BY DEF IInv
<1>2. /\ PageOnly /\ conn' = conn
      /\ UNCHANGED <<fetching, answer, loaded, shown, owed>>
  BY DEF PageOnly, dbVars, sendVars, queryVars
<1>3. conn[p] \in Nat /\ conn' = [conn EXCEPT ![p] = conn[p]]
  BY <1>1, <1>2 DEF TypeOK
<1>4. CurrentSocket(p) \in Sockets
  BY <1>1, CurrentIsSocket DEF Mounted
<1>5. TypeOK'
  <2>1. page' \in [Pages -> {"closed", "connecting", "open", "waiting"}]
    BY <1>1 DEF TypeOK
  <2> QED BY <1>1, <1>2, <1>4, <2>1 DEF TypeOK, PageOnly
<1>6. Mounted(p)'
  BY <1>1, <1>2 DEF Mounted, CurrentSocket, TypeOK
<1>7. SocketsFit'
  BY <1>2, <1>3, <1>6, PageMoved DEF PageOnly
<1> QED BY <1>2, <1>5, <1>7, PageOnlyKeeps

LEMMA ReconnectKeeps ==
  ASSUME IInv, NEW p \in Pages, Reconnect(p)
  PROVE  IInv'
<1> USE DEF Reconnect
<1>1. TypeOK /\ Mounted(p)
  BY DEF IInv
<1>2. PageOnly /\ UNCHANGED <<fetching, answer, loaded, shown, owed>>
  BY DEF PageOnly, dbVars, sendVars, queryVars
<1>3. conn[p] < MaxConnections[p]
  BY <1>1 DEF Mounted
<1>4. /\ SocketsFit'
      /\ page' \in [Pages -> {"closed", "connecting", "open", "waiting"}]
      /\ conn' \in [Pages -> Nat] /\ \A q \in Pages : conn'[q] <= MaxConnections[q]
  BY <1>2, <1>3, ConnectKept DEF Connects, PageOnly
<1>5. TypeOK'
  BY <1>1, <1>2, <1>4 DEF TypeOK, PageOnly
<1> QED BY <1>2, <1>4, <1>5, PageOnlyKeeps

LEMMA QueryKeeps ==
  ASSUME IInv, NEW p \in Pages, QueryStep(p)
  PROVE  IInv'
<1>1. TypeOK
  BY DEF IInv
<1>2. PageOnly /\ UNCHANGED <<page, conn, accepted, owed>>
  BY DEF QueryStep, ServeFetch, FetchArrives, PageOnly, dbVars, sendVars, pageVars
<1>3. SocketsFit'
  BY <1>2, SocketsUntouched DEF PageOnly
<1>4. TypeOK'
  <2>1. 0 \in Versions /\ db \in Versions
    BY <1>1, SubsetCounted, FS_EmptySet DEF TypeOK
  <2>2. /\ fetching' \in [Pages -> {"none", "sent", "served"}]
        /\ answer' \in [Pages -> Versions] /\ shown' \in [Pages -> Versions]
        /\ loaded' \in [Pages -> BOOLEAN]
    <3>1. CASE ServeFetch(p)
      BY <1>1, <2>1, <3>1 DEF TypeOK, ServeFetch
    <3>2. CASE FetchArrives(p)
      BY <1>1, <2>1, <3>2 DEF TypeOK, FetchArrives
    <3> QED BY <3>1, <3>2 DEF QueryStep
  <2> QED BY <1>1, <1>2, <2>2 DEF TypeOK, PageOnly
<1> QED BY <1>2, <1>3, <1>4, PageOnlyKeeps

-----------------------------------------------------------------------------
(* The server's sockets and the listener.                                  *)

\* What the manager and the listener do writes nothing and moves no page.
ServerOnly == UNCHANGED <<db, txn, page, conn>>

LEMMA ServerKeeps ==
  ASSUME IInv, ServerOnly, TypeOK', Reached',
         \A s \in accepted' \cup conns' \cup audience' :
           s \in accepted \cup conns \cup audience,
         \A p \in Pages : page[p] = "open" /\ conn[p] = MaxConnections[p]
             /\ CurrentSocket(p) \in accepted \cup conns
           => CurrentSocket(p) \in accepted' \cup conns'
  PROVE  IInv'
<1> USE DEF ServerOnly
<1>1. db' = Cardinality(Committed)'
  BY DEF IInv, Committed
<1>2. (\A p \in Pages : Mounted(p))'
  BY DEF IInv, Mounted, CurrentSocket
<1>3. (\A s \in accepted \cup conns \cup audience : WasOpen(s))'
  BY DEF IInv, WasOpen
<1> QED BY <1>1, <1>2, <1>3 DEF IInv

LEMMA LinkedStays ==
  ASSUME ServerOnly, NEW s
  PROVE  Linked(s)' = Linked(s)
BY DEF ServerOnly, Linked

\* A page that is open is linked to its current socket.
LEMMA OpenIsLinked ==
  ASSUME NEW p, page[p] = "open"
  PROVE  Linked(CurrentSocket(p))
BY DEF Linked, CurrentSocket

LEMMA RegisterKeeps ==
  ASSUME IInv, NEW s \in Sockets, Register(s)
  PROVE  IInv'
<1> USE DEF Register
<1>1. /\ ServerOnly
      /\ UNCHANGED <<channel, listener, todo, audience, got, fetching, answer,
                     loaded, shown, owed>>
  BY DEF ServerOnly, dbVars, sendVars, pageVars, queryVars
<1>2. TypeOK'
  BY <1>1 DEF IInv, TypeOK, ServerOnly
<1>3. Reached'
  BY <1>1, LinkedStays DEF IInv, Reached
<1> QED BY <1>1, <1>2, <1>3, ServerKeeps

LEMMA ReceiveEndsKeeps ==
  ASSUME IInv, NEW s \in Sockets, ReceiveEnds(s)
  PROVE  IInv'
<1> USE DEF ReceiveEnds
<1>1. /\ ServerOnly
      /\ UNCHANGED <<channel, listener, todo, audience, got, accepted, fetching,
                     answer, loaded, shown, owed>>
  BY DEF ServerOnly, dbVars, sendVars, pageVars, queryVars
<1>2. TypeOK'
  BY <1>1 DEF IInv, TypeOK, ServerOnly
<1>3. Reached'
  BY <1>1, LinkedStays DEF IInv, Reached
<1>4. \A p \in Pages : page[p] = "open" => CurrentSocket(p) # s
  BY OpenIsLinked
<1> QED BY <1>1, <1>2, <1>3, <1>4, ServerKeeps

LEMMA ReceiveKeeps ==
  ASSUME IInv, Receive
  PROVE  IInv'
<1> USE DEF Receive
<1>1. /\ ServerOnly
      /\ UNCHANGED <<accepted, conns, fetching, answer, loaded, shown, owed>>
  BY DEF ServerOnly, dbVars, pageVars, queryVars
<1>2. TypeOK'
  BY <1>1 DEF IInv, TypeOK, ServerOnly
<1>3. Reached'
  BY <1>1 DEF Reached
<1> QED BY <1>1, <1>2, <1>3, ServerKeeps

\* One turn of the loop reaches the socket or finds it not linked.
LEMMA SendToKeeps ==
  ASSUME IInv, NEW s \in Sockets, SendTo(s)
  PROVE  IInv'
<1> USE DEF SendTo
<1>1. /\ ServerOnly
      /\ UNCHANGED <<channel, listener, audience, accepted>>
      /\ todo' = todo \ {s}
  BY DEF ServerOnly, dbVars, pageVars, Rest
<1>2. /\ TypeOK /\ Reached
      /\ s.page \in Pages
  BY SocketFields DEF IInv
<1>3. CASE /\ s \in conns /\ Linked(s)
           /\ got' = got \cup {s}
           /\ OnMessage(s.page)
           /\ UNCHANGED conns
  <2>1. /\ fetching' \in [Pages -> {"none", "sent", "served"}]
        /\ owed' \in [Pages -> Versions]
        /\ UNCHANGED <<answer, loaded, shown>>
    BY <1>2, <1>3 DEF TypeOK, OnMessage, Invalidate
  <2>2. s \in audience
    BY <1>2 DEF Reached
  <2>3. TypeOK'
    BY <1>1, <1>2, <1>3, <2>1, <2>2 DEF TypeOK, ServerOnly
  <2>4. Reached'
    BY <1>1, <1>2, <1>3, LinkedStays DEF Reached
  <2> QED BY <1>1, <1>3, <2>3, <2>4, ServerKeeps
<1>4. CASE /\ s \notin conns \/ ~Linked(s)
           /\ conns' \in {conns, conns \ {s}}
           /\ UNCHANGED <<got, queryVars>>
  <2>1. UNCHANGED <<got, fetching, answer, loaded, shown, owed>>
    BY <1>4 DEF queryVars
  <2>2. TypeOK'
    BY <1>1, <1>2, <1>4, <2>1 DEF TypeOK, ServerOnly
  <2>3. Reached'
    BY <1>1, <1>2, <1>4, LinkedStays DEF Reached
  <2>4. \A p \in Pages : page[p] = "open" /\ CurrentSocket(p) \in conns
          => CurrentSocket(p) \in conns'
    BY <1>4, OpenIsLinked
  <2> QED BY <1>1, <1>4, <2>2, <2>3, <2>4, ServerKeeps
<1> QED BY <1>3, <1>4

LEMMA BroadcastEndsKeeps ==
  ASSUME IInv, BroadcastEnds \/ \E s \in Sockets : SendRaises(s)
  PROVE  IInv'
<1>1. /\ ServerOnly
      /\ UNCHANGED <<channel, accepted, conns, fetching, answer, loaded, shown, owed>>
      /\ listener' = "listening" /\ todo' = {} /\ audience' = {} /\ got' = {}
  BY DEF BroadcastEnds, SendRaises, backToListening, ServerOnly, dbVars, pageVars,
         queryVars
<1>2. TypeOK'
  BY <1>1 DEF IInv, TypeOK, ServerOnly
<1>3. Reached'
  BY <1>1 DEF Reached
<1> QED BY <1>1, <1>2, <1>3, ServerKeeps

LEMMA ListenerDiesKeeps ==
  ASSUME IInv, ListenerDies
  PROVE  IInv'
<1> USE DEF ListenerDies
<1>1. /\ ServerOnly
      /\ UNCHANGED <<todo, audience, got, accepted, conns, fetching, answer,
                     loaded, shown, owed>>
  BY DEF ServerOnly, dbVars, pageVars, queryVars
<1>2. TypeOK'
  BY <1>1 DEF IInv, TypeOK, ServerOnly
<1>3. Reached'
  BY <1>1, LinkedStays DEF IInv, Reached
<1> QED BY <1>1, <1>2, <1>3, ServerKeeps

\* The restarted process has no socket and no transaction; what was committed
\* stays, and so does the last connection of no open page.
LEMMA RestartKeeps ==
  ASSUME IInv, Restart
  PROVE  IInv'
<1> USE DEF Restart, backToListening
<1>1. /\ UNCHANGED <<db, page, conn, fetching, answer, loaded, shown, owed>>
      /\ TypeOK
  BY DEF IInv, pageVars, queryVars
<1>2. Committed' = Committed
  BY <1>1 DEF Committed, TypeOK
<1>3. TypeOK'
  BY <1>1 DEF TypeOK
<1>4. ASSUME NEW p \in Pages PROVE Mounted(p)'
  <2>1. page[p] = "open" => conn[p] # MaxConnections[p]
    <3>1. conn[p] \in Nat /\ MaxConnections[p] \in Nat
      BY <1>1, RealtimeAssumption DEF TypeOK
    <3> QED BY <3>1
  <2>2. Mounted(p)
    BY DEF IInv
  <2> QED BY <1>1, <2>1, <2>2 DEF Mounted
<1>5. (\A s \in accepted \cup conns \cup audience : WasOpen(s))' /\ Reached'
  BY DEF Reached
<1> QED BY <1>1, <1>2, <1>3, <1>4, <1>5 DEF IInv

LEMMA StutterKeeps ==
  ASSUME IInv, UNCHANGED vars
  PROVE  IInv'
<1>1. UNCHANGED <<db, txn, channel, listener, todo, audience, got, accepted, conns,
                  page, conn, fetching, answer, loaded, shown, owed>>
  BY DEF vars, dbVars, sendVars, pageVars, queryVars
<1>2. TypeOK' /\ Committed' = Committed
  BY <1>1 DEF IInv, TypeOK, Committed
<1>3. SocketsFit'
  BY <1>1, SocketsUntouched
<1> QED BY <1>1, <1>2, <1>3 DEF IInv, SocketsFit

LEMMA NextIInv == IInv /\ [Next]_vars => IInv'
<1> SUFFICES ASSUME IInv, [Next]_vars PROVE IInv'
  OBVIOUS
<1>1. CASE WriterStep
  BY <1>1, WriterKeeps
<1>2. CASE ListenerStep
  BY <1>2, ReceiveKeeps, SendToKeeps, BroadcastEndsKeeps DEF ListenerStep
<1>3. ASSUME NEW p \in Pages,
             OpenPage(p) \/ ClosePage(p) \/ Drop(p) \/ PageStep(p) \/ QueryStep(p)
      PROVE  IInv'
  BY <1>3, OpenPageKeeps, ClosePageKeeps, LoseKeeps, AcceptKeeps, ReconnectKeeps,
     QueryKeeps DEF PageStep
<1>4. ASSUME NEW s \in Sockets, Register(s) \/ ReceiveEnds(s)
      PROVE  IInv'
  BY <1>4, RegisterKeeps, ReceiveEndsKeeps
<1>5. CASE ListenerDies
  BY <1>5, ListenerDiesKeeps
<1>6. CASE Restart
  BY <1>6, RestartKeeps
<1>7. CASE UNCHANGED vars
  BY <1>7, StutterKeeps
<1> QED BY <1>1, <1>2, <1>3, <1>4, <1>5, <1>6, <1>7 DEF Next

LEMMA Invariant == Spec => []IInv
BY InitIInv, NextIInv, PTL DEF Spec

-----------------------------------------------------------------------------
(* The theorems.                                                           *)

\* Every variable keeps its type: the version counts the commits, and no page
\* goes past its bound of connections, although a page reconnects unasked.
THEOREM TypeCorrect == Spec => []TypeOK
<1>1. IInv => TypeOK
  BY DEF IInv
<1> QED BY <1>1, Invariant, PTL

\* A broadcast of WebSocketManager that comes to its end has reached every page
\* that was connected when it began and still is, whichever sockets closed,
\* failed or were thrown out meanwhile.
THEOREM BroadcastsReach == Spec => []BroadcastReachesPages
<1>1. IInv => BroadcastReachesPages
  BY DEF IInv, Reached, BroadcastReachesPages
<1> QED BY <1>1, Invariant, PTL
=============================================================================
