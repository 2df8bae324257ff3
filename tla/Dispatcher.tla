------------------------------ MODULE Dispatcher ------------------------------
(***************************************************************************)
(* One SFTP connection shared by concurrent operations                     *)
(* (session/_dispatch.py over codec/_codec.py).                            *)
(*                                                                         *)
(* Operations open an exchange, submit requests under ids the codec        *)
(* allocates, and wait for replies.  One reader task decodes the replies   *)
(* and routes each to the exchange that asked; one reaper task sends CLOSE *)
(* for handles whose OPEN nobody was left to receive.  All writes go       *)
(* through one lock onto one pipe.  The peer answers in any order, may     *)
(* stop reading, may break the protocol and may go away.                   *)
(*                                                                         *)
(* An action is one stretch of code without an await.  Exchange objects    *)
(* are single use, so a reply that reached a later exchange of the same    *)
(* caller would be seen as misrouted.  A handle is named by the exchange   *)
(* whose OPEN made it.                                                     *)
(***************************************************************************)
EXTENDS Integers, Sequences, FiniteSets

CONSTANTS
    OneShot,       \* exchanges opened by round_trip: one request, one reply
    Download,      \* exchanges of a pipelined download: one task sends and receives
    Upload,        \* exchanges of a pipelined upload: a second task sends
    Reaper,        \* the exchange slot reap_orphans uses, one at a time
    NoParty,       \* nobody: a free lock, an id without a route
    NoRequest,     \* an id with no request in flight
    MaxId,         \* _MAX_REQUEST_ID, the last id before the counter wraps
    Depth,         \* requests one transfer keeps in flight
    Timeouts,      \* whether request_timeout (hence send_timeout) is set
    PipeCap,       \* replies the peer can queue before it must stop reading
    MaxRequests    \* model bound: requests the operations submit in all

Transfer == Download \cup Upload
Exchange == OneShot \cup Transfer
Party == Exchange \cup {Reaper}
Id == 1 .. MaxId
NoId == 0

Kind == {"open", "other", "close"}
Request == [by : Party, kind : Kind, handle : Exchange \cup {NoParty}]
Answer == {"handle", "status"}
\* A reply in the pipe.  "request" is what the peer received under that id.
Reply == [id : Id, request : Request, answer : Answer]
\* A reply in an exchange's queue: the codec's own record of the request it
\* correlated, the answer, and the request the peer was answering.
Event == [request : Request, answer : Answer, served : Request]
Cause == {"none", "lost", "protocol", "stalled"}

ASSUME PartiesAssumption ==
    /\ OneShot \cap Transfer = {}
    /\ Download \cap Upload = {}
    /\ Reaper \notin Exchange
    /\ NoParty \notin Party
    /\ NoRequest \notin Request
ASSUME BoundsAssumption ==
    /\ MaxId \in Nat \ {0}
    /\ Depth \in Nat \ {0}
    /\ PipeCap \in Nat \ {0}
    /\ MaxRequests \in Nat
    /\ Timeouts \in BOOLEAN

VARIABLES
    codecState,        \* Codec._state once the handshake is over
    nextId,            \* Codec._next_id
    pending,           \* Codec._outstanding, by id
    routes,            \* Dispatcher._routes
    failure,           \* Dispatcher._failure
    closed,            \* Dispatcher._closed
    orphans,           \* Dispatcher._orphans
    orphanArrived,     \* Dispatcher._orphan_arrived is set
    xstate,            \* life of each exchange; "open" is membership of _exchanges
    ids,               \* Exchange._outstanding
    ready,             \* Exchange._ready
    xfail,             \* Exchange._failure
    holder,            \* owner of _send_lock, the party inside transport.send
    waiters,           \* parties parked on _send_lock
    frame,             \* the id each party is writing or waiting to write
    torn,              \* part of a frame was left in the pipe
    server,            \* requests the peer has received and not answered
    inbox,             \* replies in the pipe, not yet read
    handles,           \* handles open at the peer
    link,              \* "up" until the transport dies
    reader,            \* the task in run()
    reaper,            \* the task in reap_orphans()
    requestsSent, repliesReceived, unclaimed, reaped,   \* the counters
    claimed,           \* history: handles an operation received
    closeSubmitted     \* history: handles the reaper committed a CLOSE for

codecVars == <<codecState, nextId, pending>>
routerVars == <<routes, failure, closed, orphans, orphanArrived>>
exchangeVars == <<xstate, ids, ready, xfail>>
writeVars == <<holder, waiters, frame, torn>>
peerVars == <<server, inbox, handles, link>>
taskVars == <<reader, reaper>>
counters == <<requestsSent, repliesReceived, unclaimed, reaped>>
history == <<claimed, closeSubmitted>>
vars == <<codecVars, routerVars, exchangeVars, writeVars, peerVars, taskVars,
          counters, history>>

TypeOK ==
    /\ codecState \in {"ready", "failed"}
    /\ nextId \in Id
    /\ pending \in [Id -> Request \cup {NoRequest}]
    /\ routes \in [Id -> Party \cup {NoParty}]
    /\ failure \in Cause
    /\ closed \in BOOLEAN
    /\ orphans \subseteq Party
    /\ orphanArrived \in BOOLEAN
    /\ xstate \in [Party -> {"new", "open", "retired"}]
    /\ ids \in [Party -> SUBSET Id]
    /\ ready \in [Party -> Seq(Event)]
    /\ xfail \in [Party -> Cause]
    /\ holder \in Party \cup {NoParty}
    /\ waiters \subseteq Party
    /\ frame \in [Party -> Id \cup {NoId}]
    /\ torn \in BOOLEAN
    /\ server \in [Id -> Request \cup {NoRequest}]
    /\ inbox \subseteq Reply
    /\ handles \subseteq Party
    /\ link \in {"up", "down"}
    /\ reader \in {"unstarted", "reading", "stopped"}
    /\ reaper \in {"unstarted", "drain", "sending", "wait", "stopped"}
    /\ requestsSent \in Nat /\ repliesReceived \in Nat
    /\ unclaimed \in Nat /\ reaped \in Nat
    /\ claimed \subseteq Exchange
    /\ closeSubmitted \subseteq Exchange

Init ==
    /\ codecState = "ready" /\ nextId = 1
    /\ pending = [id \in Id |-> NoRequest]
    /\ routes = [id \in Id |-> NoParty]
    /\ failure = "none" /\ closed = FALSE
    /\ orphans = {} /\ orphanArrived = FALSE
    /\ xstate = [p \in Party |-> "new"]
    /\ ids = [p \in Party |-> {}]
    /\ ready = [p \in Party |-> <<>>]
    /\ xfail = [p \in Party |-> "none"]
    /\ holder = NoParty /\ waiters = {} /\ torn = FALSE
    /\ frame = [p \in Party |-> NoId]
    /\ server = [id \in Id |-> NoRequest]
    /\ inbox = {} /\ handles = {} /\ link = "up"
    /\ reader = "unstarted" /\ reaper = "unstarted"
    /\ requestsSent = 0 /\ repliesReceived = 0 /\ unclaimed = 0 /\ reaped = 0
    /\ claimed = {} /\ closeSubmitted = {}

-------------------------------------------------------------------------------
(* The codec: request ids. *)

Outstanding == {id \in Id : pending[id] # NoRequest}
Free == Id \ Outstanding

AdvanceNoWrap(id) == id + 1
Advance(id) == IF id >= MaxId THEN 1 ELSE id + 1

\* Steps the counter takes from nextId to reach id.
Ahead(id) == IF id >= nextId THEN id - nextId ELSE id - nextId + MaxId

AllocatesUnskipped(id) == id = nextId
\* allocate_request_id returns id: the first from nextId on that is not in flight.
Allocates(id) == id \in Free /\ \A other \in Free : Ahead(id) <= Ahead(other)

(* The send lock and the pipe. *)

\* _send_lock is fast_acquire: a free lock is taken without yielding.
Acquire(p) ==
    IF holder = NoParty
    THEN holder' = p /\ UNCHANGED waiters
    ELSE waiters' = waiters \cup {p} /\ UNCHANGED holder

Release ==
    IF waiters = {}
    THEN holder' = NoParty /\ UNCHANGED waiters
    ELSE \E next \in waiters : holder' = next /\ waiters' = waiters \ {next}

\* The whole frame is in the pipe.  Behind a partial frame it is not a frame.
Arrives(p) ==
    server' = IF torn \/ link = "down" THEN server
              ELSE [server EXCEPT ![frame[p]] = pending[frame[p]]]

Writing(p) == frame[p] # NoId

\* The task that would receive is free to: only an upload sends from another one.
Listening(p) == p \in Upload \/ ~Writing(p)

\* p stops writing before transport.send returned.  A frame still behind the
\* lock never goes out; one inside transport.send is in the pipe not at all, in
\* part, or whole (asyncio hands it to the transport's buffer at once).
CutWrite(p) ==
    /\ frame' = [frame EXCEPT ![p] = NoId]
    /\ \/ holder # p /\ waiters' = waiters \ {p} /\ UNCHANGED <<holder, torn, server>>
       \/ holder = p /\ Release /\ UNCHANGED <<torn, server>>
       \/ holder = p /\ Release /\ torn' = TRUE /\ UNCHANGED server
       \/ holder = p /\ Release /\ Arrives(p) /\ UNCHANGED torn

(* The router. *)

\* Exchange.send and Dispatcher.submit, up to the lock.
Submit(p, request) ==
    /\ failure = "none" /\ ~closed
    /\ \E id \in Id :
          /\ Allocates(id)
          /\ nextId' = Advance(id)
          /\ pending' = [pending EXCEPT ![id] = request]
          /\ routes' = [routes EXCEPT ![id] = p]
          /\ ids' = [ids EXCEPT ![p] = @ \cup {id}]
          /\ frame' = [frame EXCEPT ![p] = id]
    /\ requestsSent' = requestsSent + 1
    /\ Acquire(p)

\* What submit raises instead, with the id already taken from the counter.
Refusal ==
    \/ Free = {} /\ UNCHANGED nextId
    \/ /\ failure # "none" \/ closed
       /\ \E id \in Id : Allocates(id) /\ nextId' = Advance(id)

\* retire: the exchange leaves _exchanges and its routes are popped.  The object
\* is gone afterwards, with the replies nobody took from it.
Forget(p, life) ==
    /\ xstate' = [xstate EXCEPT ![p] = life]
    /\ ids' = [ids EXCEPT ![p] = {}]
    /\ ready' = [ready EXCEPT ![p] = <<>>]
    /\ xfail' = [xfail EXCEPT ![p] = "none"]

Unroute(p) == routes' = [id \in Id |-> IF id \in ids[p] THEN NoParty ELSE routes[id]]

Retire(p) == Forget(p, IF p = Reaper THEN "new" ELSE "retired") /\ Unroute(p)

\* _fail: every live exchange is handed the cause, and no reply is awaited.
Fail(cause) ==
    /\ failure' = cause
    /\ routes' = [id \in Id |-> NoParty]

ToldNobody(cause) == xfail
Told(cause) == [p \in Party |-> IF xstate[p] = "open" THEN cause ELSE xfail[p]]

-------------------------------------------------------------------------------
(* Operations. *)

\* round_trip: open the exchange, submit, and start writing.
RoundTrip(e, kind) ==
    /\ e \in OneShot /\ xstate[e] = "new"
    /\ requestsSent < MaxRequests
    /\ Submit(e, [by |-> e, kind |-> kind, handle |-> NoParty])
    /\ xstate' = [xstate EXCEPT ![e] = "open"]
    /\ UNCHANGED <<codecState, failure, closed, orphans, orphanArrived, ready, xfail,
                   torn, peerVars, taskVars, repliesReceived, unclaimed, reaped, history>>

\* A transfer opens its exchange before it has anything to send.
OpenTransfer(e) ==
    /\ e \in Transfer /\ xstate[e] = "new"
    /\ xstate' = [xstate EXCEPT ![e] = "open"]
    /\ UNCHANGED <<codecVars, routerVars, ids, ready, xfail, writeVars, peerVars, taskVars,
                   counters, history>>

TransferSend(e) ==
    /\ e \in Transfer /\ xstate[e] = "open" /\ ~Writing(e)
    /\ Cardinality(ids[e]) < Depth
    /\ requestsSent < MaxRequests
    /\ Submit(e, [by |-> e, kind |-> "other", handle |-> NoParty])
    /\ UNCHANGED <<codecState, failure, closed, orphans, orphanArrived, xstate, ready, xfail,
                   torn, peerVars, taskVars, repliesReceived, unclaimed, reaped, history>>

\* submit raises, and the operation unwinds.
Refused(e) ==
    /\ \/ e \in OneShot /\ xstate[e] = "new"
       \/ e \in Transfer /\ xstate[e] = "open" /\ ~Writing(e) /\ Cardinality(ids[e]) < Depth
    /\ Refusal
    /\ Retire(e)
    /\ UNCHANGED <<codecState, pending, failure, closed, orphans, orphanArrived, writeVars,
                   peerVars, taskVars, counters, history>>

\* transport.send took the whole frame.  A peer with a full reply pipe is blocked
\* writing and does not read, so the write does not finish until we drain it.
WriteDone(p) ==
    /\ p \in Party /\ holder = p
    /\ link = "up" /\ Cardinality(inbox) < PipeCap
    /\ Arrives(p)
    /\ Release
    /\ frame' = [frame EXCEPT ![p] = NoId]
    /\ UNCHANGED <<codecVars, routerVars, exchangeVars, torn, inbox, handles, link, taskVars,
                   counters, history>>

\* The reaper swallows whatever its round trip raised and goes on draining.
BackToDraining(p) == reaper' = IF p = Reaper THEN "drain" ELSE reaper

\* transport.send raised ConnectError: only the writer hears of it here.
WriteFails(p) ==
    /\ p \in Party /\ holder = p /\ link = "down"
    /\ Release
    /\ frame' = [frame EXCEPT ![p] = NoId]
    /\ Retire(p)
    /\ BackToDraining(p)
    /\ UNCHANGED <<codecVars, failure, closed, orphans, orphanArrived, torn, peerVars, reader,
                   counters, history>>

\* send_timeout ran out, on the lock or in the write: the connection is finished.
\* The round trip of a one-shot is inside a deadline of the same length that began
\* earlier, so there RequestDeadline fires instead.
SendDeadline(p) ==
    /\ Timeouts /\ p \in Transfer \cup {Reaper} /\ Writing(p)
    /\ CutWrite(p)
    /\ Fail("stalled")
    /\ xfail' = [Told("stalled") EXCEPT ![p] = "none"]
    /\ xstate' = [xstate EXCEPT ![p] = IF p = Reaper THEN "new" ELSE "retired"]
    /\ ids' = [ids EXCEPT ![p] = {}]
    /\ ready' = [ready EXCEPT ![p] = <<>>]
    /\ BackToDraining(p)
    /\ UNCHANGED <<codecVars, closed, orphans, orphanArrived, inbox, handles, link, reader,
                   counters, history>>

\* receive returns the oldest reply; a one-shot's exchange then ends.
Receive(e) ==
    /\ e \in Exchange /\ xstate[e] = "open" /\ ready[e] # <<>> /\ Listening(e)
    /\ claimed' = IF Head(ready[e]).answer = "handle" THEN claimed \cup {e} ELSE claimed
    /\ IF e \in OneShot
       THEN Retire(e)
       ELSE /\ ready' = [ready EXCEPT ![e] = Tail(@)]
            /\ UNCHANGED <<xstate, ids, xfail, routes>>
    /\ UNCHANGED <<codecVars, failure, closed, orphans, orphanArrived, writeVars, peerVars,
                   taskVars, counters, closeSubmitted>>

\* receive raises the failure once the replies that did arrive are taken.  The
\* receiving half of an upload then cancels its sending half, which may be writing.
RaiseFailure(e) ==
    /\ e \in Exchange /\ xstate[e] = "open" /\ ready[e] = <<>> /\ xfail[e] # "none"
    /\ Listening(e)
    /\ CutWrite(e)
    /\ Retire(e)
    /\ UNCHANGED <<codecVars, failure, closed, orphans, orphanArrived, inbox, handles, link,
                   taskVars, counters, history>>

\* A transfer with nothing in flight is done.
Finish(e) ==
    /\ e \in Transfer /\ xstate[e] = "open" /\ ids[e] = {} /\ ready[e] = <<>> /\ ~Writing(e)
    /\ Retire(e)
    /\ UNCHANGED <<codecVars, failure, closed, orphans, orphanArrived, writeVars, peerVars,
                   taskVars, counters, history>>

\* The operation unwinds around its exchange, wherever it was.  A one-shot woken
\* by its reply is past cancellation: the reply is returned before the next await.
Unwind(e) ==
    /\ xstate[e] = "open"
    /\ e \in OneShot => ready[e] = <<>>
    /\ CutWrite(e)
    /\ Retire(e)
    /\ UNCHANGED <<codecVars, failure, closed, orphans, orphanArrived, inbox, handles, link,
                   taskVars, counters, history>>

\* The deadline of Session.request, which covers the whole round trip.
RequestDeadline(e) == Timeouts /\ e \in OneShot /\ Unwind(e)

\* Cancelled by the caller, or a transfer's own idle timeout or error.
Cancel(e) == e \in Exchange /\ Unwind(e)

-------------------------------------------------------------------------------
(* The reader. *)

StartReader ==
    /\ reader = "unstarted"
    /\ reader' = IF closed THEN "stopped" ELSE "reading"
    /\ UNCHANGED <<codecVars, routerVars, exchangeVars, writeVars, peerVars, reaper, counters,
                   history>>

OrphanUnqueued(r) ==
    /\ unclaimed' = unclaimed + 1
    /\ UNCHANGED <<ids, ready, orphans, orphanArrived>>
OrphanSilent(r) ==
    /\ unclaimed' = unclaimed + 1
    /\ orphans' = IF r.answer = "handle" THEN orphans \cup {r.request.by} ELSE orphans
    /\ UNCHANGED <<ids, ready, orphanArrived>>
\* Nobody routes this id any more: count the reply, and queue a handle it carries.
Orphan(r) ==
    /\ unclaimed' = unclaimed + 1
    /\ IF r.answer = "handle"
       THEN orphans' = orphans \cup {r.request.by} /\ orphanArrived' = TRUE
       ELSE UNCHANGED <<orphans, orphanArrived>>
    /\ UNCHANGED <<ids, ready>>

Deliver(e, r) ==
    /\ ids' = [ids EXCEPT ![e] = @ \ {r.id}]
    /\ ready' = [ready EXCEPT ![e] =
           Append(@, [request |-> pending[r.id], answer |-> r.answer, served |-> r.request])]
    /\ UNCHANGED <<unclaimed, orphans, orphanArrived>>

\* One reply: the codec matches it to its request and _route hands it on.
ReadReply(r) ==
    /\ reader = "reading" /\ r \in inbox /\ pending[r.id] # NoRequest
    /\ inbox' = inbox \ {r}
    /\ pending' = [pending EXCEPT ![r.id] = NoRequest]
    /\ routes' = [routes EXCEPT ![r.id] = NoParty]
    /\ repliesReceived' = repliesReceived + 1
    /\ IF routes[r.id] = NoParty THEN Orphan(r) ELSE Deliver(routes[r.id], r)
    /\ UNCHANGED <<codecState, nextId, failure, closed, xstate, xfail, writeVars, server,
                   handles, link, taskVars, requestsSent, reaped, history>>

ReaderCarriesOn == reader' = reader
ReaderEnds == reader' = "stopped"

\* A frame the codec refuses.  The replies decoded before it from the same chunk
\* are discarded with it, and the reader ends.
ReadBadFrame(before) ==
    /\ reader = "reading" /\ before \subseteq inbox
    /\ codecState' = "failed"
    /\ inbox' = inbox \ before
    /\ pending' = [id \in Id |-> IF \E r \in before : r.id = id THEN NoRequest ELSE pending[id]]
    /\ Fail("protocol") /\ xfail' = Told("protocol")
    /\ ReaderEnds
    /\ UNCHANGED <<nextId, closed, orphans, orphanArrived, xstate, ids, ready, writeVars,
                   server, handles, link, reaper, counters, history>>

\* End of stream, once everything in the pipe has been read.
ReadEOF ==
    /\ reader = "reading" /\ link = "down" /\ inbox = {}
    /\ Fail("lost") /\ xfail' = Told("lost")
    /\ ReaderEnds
    /\ UNCHANGED <<codecVars, closed, orphans, orphanArrived, xstate, ids, ready, writeVars,
                   peerVars, reaper, counters, history>>

-------------------------------------------------------------------------------
(* The reaper. *)

StartReaper ==
    /\ reaper = "unstarted"
    /\ reaper' = IF closed THEN "stopped" ELSE "drain"
    /\ UNCHANGED <<codecVars, routerVars, exchangeVars, writeVars, peerVars, reader, counters,
                   history>>

\* _close_orphan: count it, then send the CLOSE and wait.
ReapOrphan(h) ==
    /\ reaper = "drain" /\ h \in orphans
    /\ Submit(Reaper, [by |-> Reaper, kind |-> "close", handle |-> h])
    /\ xstate' = [xstate EXCEPT ![Reaper] = "open"]
    /\ orphans' = orphans \ {h}
    /\ reaped' = reaped + 1
    /\ reaper' = "sending"
    /\ closeSubmitted' = closeSubmitted \cup {h}
    /\ UNCHANGED <<codecState, failure, closed, orphanArrived, ready, xfail, torn, peerVars,
                   reader, repliesReceived, unclaimed, claimed>>

\* The same where submit raises: the count has moved and nothing is sent.
ReapRefused(h) ==
    /\ reaper = "drain" /\ h \in orphans
    /\ Refusal
    /\ orphans' = orphans \ {h}
    /\ reaped' = reaped + 1
    /\ UNCHANGED <<codecState, pending, routes, failure, closed, orphanArrived, exchangeVars,
                   writeVars, peerVars, taskVars, requestsSent, repliesReceived, unclaimed,
                   history>>

\* The CLOSE was answered, or the connection failed under it.
ReaperReturns ==
    /\ reaper = "sending" /\ ~Writing(Reaper)
    /\ ready[Reaper] # <<>> \/ xfail[Reaper] # "none"
    /\ Retire(Reaper)
    /\ reaper' = "drain"
    /\ UNCHANGED <<codecVars, failure, closed, orphans, orphanArrived, writeVars, peerVars,
                   reader, counters, history>>

\* Nothing queued: re-arm the event and wait on it.
ReaperSleeps ==
    /\ reaper = "drain" /\ orphans = {}
    /\ orphanArrived' = FALSE
    /\ reaper' = "wait"
    /\ UNCHANGED <<codecVars, routes, failure, closed, orphans, exchangeVars, writeVars,
                   peerVars, reader, counters, history>>

ReaperWakes ==
    /\ reaper = "wait" /\ orphanArrived
    /\ reaper' = "drain"
    /\ UNCHANGED <<codecVars, routerVars, exchangeVars, writeVars, peerVars, reader, counters,
                   history>>

\* close(): refuse further work and cancel the two tasks where they stand.
CloseDispatcher ==
    /\ ~closed
    /\ closed' = TRUE
    /\ reader' = IF reader = "unstarted" THEN reader ELSE "stopped"
    /\ reaper' = IF reaper = "unstarted" THEN reaper ELSE "stopped"
    /\ CutWrite(Reaper)
    /\ Retire(Reaper)
    /\ UNCHANGED <<codecVars, failure, orphans, orphanArrived, inbox, handles, link,
                   counters, history>>

-------------------------------------------------------------------------------
(* The peer, and the link to it. *)

\* The peer answers a request it has received, in any order.
PeerAnswers(id, answer) ==
    /\ link = "up" /\ server[id] # NoRequest /\ Cardinality(inbox) < PipeCap
    /\ answer = "handle" => server[id].kind = "open"
    /\ inbox' = inbox \cup {[id |-> id, request |-> server[id], answer |-> answer]}
    /\ server' = [server EXCEPT ![id] = NoRequest]
    /\ handles' = IF answer = "handle" THEN handles \cup {server[id].by}
                  ELSE IF server[id].kind = "close" THEN handles \ {server[id].handle}
                  ELSE handles
    /\ UNCHANGED <<codecVars, routerVars, exchangeVars, writeVars, link, taskVars, counters,
                   history>>

\* The ssh child exits: what the peer held is released, what it sent stays readable.
LinkDrops ==
    /\ link = "up"
    /\ link' = "down"
    /\ server' = [id \in Id |-> NoRequest]
    /\ handles' = {}
    /\ UNCHANGED <<codecVars, routerVars, exchangeVars, writeVars, inbox, taskVars, counters,
                   history>>

Next ==
    \/ \E e \in OneShot, kind \in {"open", "other"} : RoundTrip(e, kind)
    \/ \E e \in Exchange :
          \/ OpenTransfer(e) \/ TransferSend(e) \/ Refused(e)
          \/ Receive(e) \/ RaiseFailure(e) \/ Finish(e)
          \/ RequestDeadline(e) \/ Cancel(e)
    \/ \E p \in Party : WriteDone(p) \/ WriteFails(p) \/ SendDeadline(p)
    \/ StartReader \/ ReadEOF
    \/ \E r \in inbox : ReadReply(r)
    \/ \E before \in SUBSET inbox : ReadBadFrame(before)
    \/ StartReaper \/ ReaperReturns \/ ReaperSleeps \/ ReaperWakes
    \/ \E h \in Exchange : ReapOrphan(h) \/ ReapRefused(h)
    \/ CloseDispatcher
    \/ \E id \in Id, answer \in Answer : PeerAnswers(id, answer)
    \/ LinkDrops

Spec == Init /\ [][Next]_vars

-------------------------------------------------------------------------------
(* Safety. *)

\* A reply reaches the exchange that asked, paired with the request the peer was
\* answering: not after ids wrap, and not after the asker of an earlier use of the
\* id gave up (allocate_request_id, Dispatcher._route).
AnswersMatchRequests ==
    \A p \in Party : \A i \in DOMAIN ready[p] :
        /\ ready[p][i].request = ready[p][i].served
        /\ ready[p][i].request.by = p

\* Wherever a request is -- being written, at the peer, in a reply on its way -- its
\* id names that request and no other, and the codec has it on record (Codec.send,
\* allocate_request_id).
IdsAreUnambiguous ==
    /\ \A p \in Party : Writing(p) =>
          /\ pending[frame[p]] # NoRequest /\ pending[frame[p]].by = p
          /\ server[frame[p]] = NoRequest
          /\ \A r \in inbox : r.id # frame[p]
    /\ \A id \in Id : server[id] # NoRequest => pending[id] = server[id]
    /\ \A r \in inbox : pending[r.id] = r.request /\ server[r.id] = NoRequest
    /\ \A r1, r2 \in inbox : r1.id = r2.id => r1 = r2

\* A route leads to a live exchange that still expects that reply, for a request
\* the codec still holds: nothing stays routed to an operation that gave up
\* (Dispatcher.retire).
RoutesAreLive ==
    \A id \in Id : routes[id] # NoParty =>
        /\ xstate[routes[id]] = "open"
        /\ id \in ids[routes[id]]
        /\ pending[id] # NoRequest
        /\ pending[id].by = routes[id]

\* Whoever is waiting can be woken: until close(), an exchange with a request in
\* flight has been told of the failure, or there is a reader and a route for every
\* reply it expects (Dispatcher._fail, run).
NobodyWaitsAlone ==
    \A p \in Party :
        xstate[p] = "open" /\ ids[p] # {} /\ ~closed =>
            \/ xfail[p] # "none"
            \/ reader # "stopped" /\ \A id \in ids[p] : routes[id] = p

\* While the codec can be trusted, what was sent and not answered is exactly what
\* it holds as outstanding (requests_sent, replies_received, Codec.outstanding).
BooksBalance ==
    codecState = "ready" => requestsSent = repliesReceived + Cardinality(Outstanding)

\* A reply reaches whoever asked, whatever ids wrap, operations give up and replies come
\* late: ids, routes, queues and books agree all the way (Codec.send, Dispatcher._route).
RequestsAreRouted == IdsAreUnambiguous /\ RoutesAreLive /\ AnswersMatchRequests /\ BooksBalance

Healthy == failure = "none" /\ ~closed /\ link = "up"

Carries(h, r) == r.answer = "handle" /\ r.request.by = h

\* On a healthy connection no handle the peer allocated is lost: its reply is on
\* the way or delivered, an operation holds it, or the reaper knows of it
\* (Dispatcher._orphan, D-75).
HandlesAccounted ==
    Healthy => \A h \in handles :
        \/ \E r \in inbox : Carries(h, r)
        \/ \E i \in DOMAIN ready[h] : Carries(h, ready[h][i])
        \/ h \in claimed \cup orphans \cup closeSubmitted

\* The reaper never closes a handle an operation is using.
ReaperSparesClaimed == (orphans \cup closeSubmitted) \cap claimed = {}

\* Of a handle and its owner neither is lost: abandoned ones are kept for the reaper, and no
\* others (Dispatcher._orphan, reap_orphans).
HandlesAreKept == HandlesAccounted /\ ReaperSparesClaimed

\* Once framing is lost nothing more is handed to anybody: a reply parsed after it
\* could be another request's (Codec.receive).
NothingRoutedAfterProtocolError ==
    [][codecState = "failed" =>
          /\ \A p \in Party : Len(ready'[p]) <= Len(ready[p])
          /\ unclaimed' = unclaimed]_vars

-------------------------------------------------------------------------------
(* Liveness. *)

\* The tasks of this process are scheduled, deadlines fire when they are set, and
\* the peer serves what reaches it.  Cancellation, new work, a protocol error, the
\* loss of the link and close() are free not to happen.
Fairness ==
    /\ WF_vars(StartReader) /\ WF_vars(\E r \in inbox : ReadReply(r)) /\ WF_vars(ReadEOF)
    /\ WF_vars(StartReaper) /\ WF_vars(ReaperReturns)
    /\ WF_vars(ReaperSleeps) /\ WF_vars(ReaperWakes)
    /\ WF_vars(\E h \in Exchange : ReapOrphan(h) \/ ReapRefused(h))
    /\ \A p \in Party : WF_vars(WriteDone(p)) /\ WF_vars(WriteFails(p)) /\ WF_vars(SendDeadline(p))
    /\ \A e \in Exchange :
          /\ WF_vars(Receive(e)) /\ WF_vars(RaiseFailure(e)) /\ WF_vars(Refused(e))
          /\ WF_vars(RequestDeadline(e))
    /\ \A id \in Id : WF_vars(\E answer \in Answer : PeerAnswers(id, answer))

FairSpec == Spec /\ Fairness

Over == failure # "none" \/ closed \/ link = "down"

\* A handle whose OPEN was abandoned is closed at the peer, unless the connection
\* ends first or its stream was torn (reap_orphans, D-75).
OrphansAreClosed ==
    \A h \in OneShot :
        (h \in handles /\ xstate[h] = "retired" /\ h \notin claimed)
            ~> (h \notin handles \/ Over \/ torn)

\* With deadlines set, a failed connection leaves no operation parked, not even
\* one blocked writing to a peer that stopped reading (Dispatcher._fail, D-40).
FailureEndsOperations ==
    \A e \in Exchange : (failure # "none" /\ ids[e] # {}) ~> (xstate[e] = "retired")

-------------------------------------------------------------------------------
(* What the documentation says of the connection and the code does not do. *)

\* docs/reliability.md: "A write that times out ends the connection"; _write: the
\* others must not "keep writing into a corrupted stream".  So no frame is written
\* behind part of one, whatever cut that one short.
NoWriteIntoTornStream == [][torn => ~\E p \in Party : WriteDone(p)]_vars
===============================================================================
