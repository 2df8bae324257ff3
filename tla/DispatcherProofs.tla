--------------------------- MODULE DispatcherProofs ---------------------------
(* Proofs about Dispatcher, for every set of exchanges, id range and bound. *)
EXTENDS Dispatcher, FiniteSetTheorems, TLAPS

\* What preserves AnswersMatchRequests: a reply is matched by id first to the
\* codec's record and then to a route, so both must agree with what the peer holds.
IndInv ==
    /\ TypeOK
    /\ IdsAreUnambiguous
    /\ RoutesAreLive
    /\ AnswersMatchRequests
    /\ BooksBalance

-------------------------------------------------------------------------------
(* The operators the actions are made of keep the types. *)

\* The id counter stays in range across the wrap.
LEMMA AdvanceIsId ==
    ASSUME NEW id \in Id
    PROVE  Advance(id) \in Id
BY BoundsAssumption DEF Advance, Id

\* Neither does a request that submit refuses move it out of range.
LEMMA RefusalType ==
    ASSUME TypeOK, Refusal
    PROVE  nextId' \in Id
BY AdvanceIsId DEF Refusal, TypeOK

LEMMA SubmitType ==
    ASSUME TypeOK, NEW p \in Party, NEW request \in Request, Submit(p, request)
    PROVE  /\ nextId' \in Id
           /\ pending' \in [Id -> Request \cup {NoRequest}]
           /\ routes' \in [Id -> Party \cup {NoParty}]
           /\ ids' \in [Party -> SUBSET Id]
           /\ frame' \in [Party -> Id \cup {NoId}]
           /\ holder' \in Party \cup {NoParty}
           /\ waiters' \subseteq Party
           /\ requestsSent' \in Nat
<1>1. PICK id \in Id :
          /\ nextId' = Advance(id)
          /\ pending' = [pending EXCEPT ![id] = request]
          /\ routes' = [routes EXCEPT ![id] = p]
          /\ ids' = [ids EXCEPT ![p] = @ \cup {id}]
          /\ frame' = [frame EXCEPT ![p] = id]
  BY DEF Submit
<1>2. holder' \in Party \cup {NoParty} /\ waiters' \subseteq Party
  BY DEF Submit, Acquire, TypeOK
<1>3. requestsSent' \in Nat
  BY DEF Submit, TypeOK
<1> QED BY <1>1, <1>2, <1>3, AdvanceIsId DEF TypeOK

LEMMA CutWriteType ==
    ASSUME TypeOK, NEW p \in Party, CutWrite(p)
    PROVE  /\ holder' \in Party \cup {NoParty}
           /\ waiters' \subseteq Party
           /\ frame' \in [Party -> Id \cup {NoId}]
           /\ torn' \in BOOLEAN
           /\ server' \in [Id -> Request \cup {NoRequest}]
<1>1. frame' \in [Party -> Id \cup {NoId}]
  BY DEF CutWrite, TypeOK
<1>2. holder' \in Party \cup {NoParty} /\ waiters' \subseteq Party /\ torn' \in BOOLEAN
  BY DEF CutWrite, Release, TypeOK
<1>3. server' \in [Id -> Request \cup {NoRequest}]
  <2>1. CASE UNCHANGED server BY <2>1 DEF TypeOK
  <2>2. CASE Arrives(p) BY <2>2 DEF Arrives, TypeOK
  <2> QED BY <2>1, <2>2 DEF CutWrite
<1> QED BY <1>1, <1>2, <1>3

LEMMA RetireType ==
    ASSUME TypeOK, NEW p \in Party, Retire(p)
    PROVE  /\ xstate' \in [Party -> {"new", "open", "retired"}]
           /\ ids' \in [Party -> SUBSET Id]
           /\ ready' \in [Party -> Seq(Event)]
           /\ xfail' \in [Party -> Cause]
           /\ routes' \in [Id -> Party \cup {NoParty}]
BY DEF Retire, Forget, Unroute, TypeOK, Cause

-------------------------------------------------------------------------------
(* Type correctness. *)

LEMMA InitType == Init => TypeOK
<1> SUFFICES ASSUME Init PROVE TypeOK
  OBVIOUS
<1>1. nextId \in Id
  BY BoundsAssumption DEF Init, Id
<1>2. ready \in [Party -> Seq(Event)]
  <2>1. <<>> \in Seq(Event)
    OBVIOUS
  <2> QED BY <2>1 DEF Init
<1> QED BY <1>1, <1>2 DEF Init, TypeOK, Cause

LEMMA NextType == TypeOK /\ [Next]_vars => TypeOK'
<1> SUFFICES ASSUME TypeOK, [Next]_vars PROVE TypeOK'
  OBVIOUS
<1> USE DEF codecVars, routerVars, exchangeVars, writeVars, peerVars, taskVars, counters, history
<1>1. ASSUME NEW e \in OneShot, NEW kind \in {"open", "other"}, RoundTrip(e, kind)
      PROVE  TypeOK'
  <2>1. e \in Party /\ [by |-> e, kind |-> kind, handle |-> NoParty] \in Request
    BY DEF Exchange, Party, Request, Kind
  <2> QED BY <1>1, <2>1, SubmitType DEF RoundTrip, TypeOK
<1>2. ASSUME NEW e \in Exchange, OpenTransfer(e) PROVE TypeOK'
  BY <1>2 DEF OpenTransfer, TypeOK, Party
<1>3. ASSUME NEW e \in Exchange, TransferSend(e) PROVE TypeOK'
  <2>1. e \in Party /\ [by |-> e, kind |-> "other", handle |-> NoParty] \in Request
    BY DEF Exchange, Party, Request, Kind
  <2> QED BY <1>3, <2>1, SubmitType DEF TransferSend, TypeOK
<1>4. ASSUME NEW e \in Exchange, Refused(e) PROVE TypeOK'
  BY <1>4, RefusalType, RetireType DEF Refused, TypeOK, Party
<1>5. ASSUME NEW p \in Party, WriteDone(p) PROVE TypeOK'
  <2>1. server' \in [Id -> Request \cup {NoRequest}]
    BY <1>5 DEF WriteDone, Arrives, TypeOK
  <2>2. holder' \in Party \cup {NoParty} /\ waiters' \subseteq Party
    BY <1>5 DEF WriteDone, Release, TypeOK
  <2> QED BY <1>5, <2>1, <2>2 DEF WriteDone, TypeOK
<1>6. ASSUME NEW p \in Party, WriteFails(p) PROVE TypeOK'
  <2>1. holder' \in Party \cup {NoParty} /\ waiters' \subseteq Party
    BY <1>6 DEF WriteFails, Release, TypeOK
  <2> QED BY <1>6, <2>1, RetireType DEF WriteFails, BackToDraining, TypeOK
<1>7. ASSUME NEW p \in Party, SendDeadline(p) PROVE TypeOK'
  BY <1>7, CutWriteType DEF SendDeadline, Fail, Told, BackToDraining, TypeOK, Cause
<1>8. ASSUME NEW e \in Exchange, Receive(e) PROVE TypeOK'
  <2>1. /\ xstate' \in [Party -> {"new", "open", "retired"}]
        /\ ids' \in [Party -> SUBSET Id]
        /\ ready' \in [Party -> Seq(Event)]
        /\ xfail' \in [Party -> Cause]
        /\ routes' \in [Id -> Party \cup {NoParty}]
    <3>1. CASE e \in OneShot
      BY <1>8, <3>1, RetireType DEF Receive, Party
    <3>2. CASE e \notin OneShot
      <4>1. e \in Party /\ ready[e] \in Seq(Event) /\ ready[e] # <<>>
        BY <1>8 DEF Receive, Party, TypeOK
      <4>2. Tail(ready[e]) \in Seq(Event)
        BY <4>1
      <4>3. /\ ready' = [ready EXCEPT ![e] = Tail(ready[e])]
            /\ UNCHANGED <<xstate, ids, xfail, routes>>
        BY <1>8, <3>2 DEF Receive
      <4> QED BY <4>1, <4>2, <4>3 DEF TypeOK
    <3> QED BY <3>1, <3>2
  <2> QED BY <1>8, <2>1 DEF Receive, TypeOK
<1>9. ASSUME NEW e \in Exchange, RaiseFailure(e) PROVE TypeOK'
  BY <1>9, CutWriteType, RetireType DEF RaiseFailure, TypeOK, Party
<1>10. ASSUME NEW e \in Exchange, Finish(e) PROVE TypeOK'
  BY <1>10, RetireType DEF Finish, TypeOK, Party
<1>11. ASSUME NEW e \in Exchange, Unwind(e) PROVE TypeOK'
  <2>1. e \in Party /\ CutWrite(e) /\ Retire(e) BY <1>11 DEF Unwind, Party
  <2>2. /\ xstate' \in [Party -> {"new", "open", "retired"}]
        /\ ids' \in [Party -> SUBSET Id]
        /\ ready' \in [Party -> Seq(Event)]
        /\ xfail' \in [Party -> Cause]
        /\ routes' \in [Id -> Party \cup {NoParty}]
    BY <2>1, RetireType
  <2> QED BY <1>11, <2>1, <2>2, CutWriteType DEF Unwind, TypeOK
<1>12. CASE StartReader
  BY <1>12 DEF StartReader, TypeOK
<1>13. ASSUME NEW r \in inbox, ReadReply(r) PROVE TypeOK'
  <2>1. r \in Reply /\ r.id \in Id /\ pending[r.id] \in Request
    BY <1>13 DEF ReadReply, TypeOK, Reply
  <2>2. /\ pending' \in [Id -> Request \cup {NoRequest}]
        /\ routes' \in [Id -> Party \cup {NoParty}]
        /\ inbox' \subseteq Reply
        /\ repliesReceived' \in Nat
    <3>1. /\ pending' = [pending EXCEPT ![r.id] = NoRequest]
          /\ routes' = [routes EXCEPT ![r.id] = NoParty]
          /\ inbox' = inbox \ {r}
          /\ repliesReceived' = repliesReceived + 1
      BY <1>13 DEF ReadReply
    <3>2. inbox \subseteq Reply /\ repliesReceived \in Nat
      BY DEF TypeOK
    <3>3. inbox' \subseteq Reply BY <3>1, <3>2
    <3>4. repliesReceived' \in Nat BY <3>1, <3>2
    <3>5. pending' \in [Id -> Request \cup {NoRequest}] BY <3>1 DEF TypeOK
    <3>6. routes' \in [Id -> Party \cup {NoParty}] BY <3>1 DEF TypeOK
    <3> QED BY <3>3, <3>4, <3>5, <3>6
  <2>3. CASE routes[r.id] = NoParty
    <3>1. r.request.by \in Party
      BY <2>1 DEF Reply, Request
    <3>2. unclaimed' \in Nat /\ orphans' \subseteq Party /\ orphanArrived' \in BOOLEAN
      <4>1. Orphan(r) BY <1>13, <2>3 DEF ReadReply
      <4>2. unclaimed \in Nat /\ orphans \subseteq Party /\ orphanArrived \in BOOLEAN
        BY DEF TypeOK
      <4>3. unclaimed' \in Nat BY <4>1, <4>2 DEF Orphan
      <4>4. orphans' \subseteq Party BY <3>1, <4>1, <4>2 DEF Orphan
      <4>5. orphanArrived' \in BOOLEAN BY <4>1, <4>2 DEF Orphan
      <4> QED BY <4>3, <4>4, <4>5
    <3> QED BY <1>13, <2>2, <2>3, <3>2 DEF ReadReply, Orphan, TypeOK
  <2>4. CASE routes[r.id] # NoParty
    <3>1. [request |-> pending[r.id], answer |-> r.answer, served |-> r.request] \in Event
      BY <2>1 DEF Event, Reply
    <3>2. ready' \in [Party -> Seq(Event)] /\ ids' \in [Party -> SUBSET Id]
      <4>1. Deliver(routes[r.id], r) BY <1>13, <2>4 DEF ReadReply
      <4>2. routes[r.id] \in Party BY <2>1, <2>4 DEF TypeOK
      <4>3. ids' \in [Party -> SUBSET Id] BY <4>1, <4>2 DEF Deliver, TypeOK
      <4>4. ready[routes[r.id]] \in Seq(Event) BY <4>2 DEF TypeOK
      <4>5. Append(ready[routes[r.id]],
                   [request |-> pending[r.id], answer |-> r.answer, served |-> r.request])
              \in Seq(Event)
        BY <3>1, <4>4
      <4>6. ready' \in [Party -> Seq(Event)] BY <4>1, <4>2, <4>5 DEF Deliver, TypeOK
      <4> QED BY <4>3, <4>6
    <3> QED BY <1>13, <2>2, <2>4, <3>2 DEF ReadReply, Deliver, TypeOK
  <2> QED BY <2>3, <2>4
<1>14. ASSUME NEW before \in SUBSET inbox, ReadBadFrame(before) PROVE TypeOK'
  BY <1>14 DEF ReadBadFrame, Fail, Told, ReaderEnds, TypeOK, Cause
<1>15. CASE ReadEOF
  BY <1>15 DEF ReadEOF, Fail, Told, ReaderEnds, TypeOK, Cause
<1>16. CASE StartReaper
  BY <1>16 DEF StartReaper, TypeOK
<1>17. ASSUME NEW h \in Exchange, ReapOrphan(h) PROVE TypeOK'
  <2>1. Reaper \in Party /\ [by |-> Reaper, kind |-> "close", handle |-> h] \in Request
    BY DEF Party, Request, Kind
  <2> QED BY <1>17, <2>1, SubmitType DEF ReapOrphan, TypeOK
<1>18. ASSUME NEW h \in Exchange, ReapRefused(h) PROVE TypeOK'
  BY <1>18, RefusalType DEF ReapRefused, TypeOK
<1>19. CASE ReaperReturns
  BY <1>19, RetireType DEF ReaperReturns, TypeOK, Party
<1>20. CASE ReaperSleeps
  BY <1>20 DEF ReaperSleeps, TypeOK
<1>21. CASE ReaperWakes
  BY <1>21 DEF ReaperWakes, TypeOK
<1>22. CASE CloseDispatcher
  BY <1>22, CutWriteType, RetireType DEF CloseDispatcher, TypeOK, Party
<1>23. ASSUME NEW id \in Id, NEW answer \in Answer, PeerAnswers(id, answer) PROVE TypeOK'
  <2>1. server[id] \in Request
    BY <1>23 DEF PeerAnswers, TypeOK
  <2> QED BY <1>23, <2>1 DEF PeerAnswers, TypeOK, Reply, Request
<1>24. CASE LinkDrops
  BY <1>24 DEF LinkDrops, TypeOK
<1>25. CASE UNCHANGED vars
  BY <1>25 DEF vars, TypeOK
<1> QED
  BY <1>1, <1>2, <1>3, <1>4, <1>5, <1>6, <1>7, <1>8, <1>9, <1>10, <1>11, <1>12, <1>13, <1>14,
     <1>15, <1>16, <1>17, <1>18, <1>19, <1>20, <1>21, <1>22, <1>23, <1>24, <1>25
  DEF Next, RequestDeadline, Cancel, Exchange

\* Every variable keeps its type: in particular the id counter never leaves the
\* range of a request id (Codec.allocate_request_id).
THEOREM TypeCorrect == Spec => []TypeOK
BY InitType, NextType, PTL DEF Spec

-------------------------------------------------------------------------------
(* An id names one request wherever it is. *)

LEMMA SubmitIds ==
    ASSUME TypeOK, IdsAreUnambiguous, NEW p \in Party, NEW request \in Request,
           request.by = p, Submit(p, request), UNCHANGED <<server, inbox>>
    PROVE  IdsAreUnambiguous'
<1>1. PICK id \in Id :
          /\ id \in Free
          /\ pending' = [pending EXCEPT ![id] = request]
          /\ frame' = [frame EXCEPT ![p] = id]
  BY DEF Submit, Allocates
<1>2. pending[id] = NoRequest /\ request # NoRequest
  BY <1>1, PartiesAssumption DEF Free, Outstanding
<1>3. server[id] = NoRequest
  BY <1>1, <1>2 DEF IdsAreUnambiguous
<1>4. \A r \in inbox : r.id \in Id /\ r.id # id
  BY <1>1, <1>2, PartiesAssumption DEF IdsAreUnambiguous, TypeOK, Reply
<1> QED
  BY <1>1, <1>2, <1>3, <1>4 DEF IdsAreUnambiguous, TypeOK, Writing, NoId

\* A write that ends, whole or cut, moves its frame to the peer at most.
LEMMA FrameIds ==
    ASSUME TypeOK, IdsAreUnambiguous, NEW p \in Party,
           frame' = [frame EXCEPT ![p] = NoId],
           UNCHANGED server \/ Arrives(p), UNCHANGED <<pending, inbox>>
    PROVE  IdsAreUnambiguous'
<1>1. \A q \in Party : Writing(q)' => q # p /\ Writing(q) /\ frame'[q] = frame[q]
  BY DEF Writing, TypeOK
<1>2. CASE UNCHANGED server
  BY <1>1, <1>2 DEF IdsAreUnambiguous, TypeOK
<1>3. CASE Arrives(p) /\ server' # server
  <2>1. server' = [server EXCEPT ![frame[p]] = pending[frame[p]]]
    BY <1>3 DEF Arrives
  <2>2. frame[p] \in Id /\ Writing(p)
    BY <1>3, <2>1 DEF TypeOK, Writing, NoId, Id
  <2>3. \A q \in Party : Writing(q)' => frame[q] # frame[p]
    BY <1>1, <2>2 DEF IdsAreUnambiguous
  <2> QED BY <1>1, <2>1, <2>2, <2>3 DEF IdsAreUnambiguous, TypeOK, Reply
<1> QED BY <1>2, <1>3

LEMMA CutWriteIds ==
    ASSUME TypeOK, IdsAreUnambiguous, NEW p \in Party, CutWrite(p), UNCHANGED <<pending, inbox>>
    PROVE  IdsAreUnambiguous'
BY FrameIds DEF CutWrite

LEMMA IdsPreserved ==
    ASSUME TypeOK, IdsAreUnambiguous, [Next]_vars
    PROVE  IdsAreUnambiguous'
<1> USE DEF codecVars, routerVars, exchangeVars, writeVars, peerVars, taskVars, counters, history
<1>1. ASSUME NEW e \in OneShot, NEW kind \in {"open", "other"}, RoundTrip(e, kind)
      PROVE  IdsAreUnambiguous'
  <2>1. e \in Party /\ [by |-> e, kind |-> kind, handle |-> NoParty] \in Request
    BY DEF Exchange, Party, Request, Kind
  <2> QED BY <1>1, <2>1, SubmitIds DEF RoundTrip
<1>2. ASSUME NEW e \in Exchange, TransferSend(e) PROVE IdsAreUnambiguous'
  <2>1. e \in Party /\ [by |-> e, kind |-> "other", handle |-> NoParty] \in Request
    BY DEF Exchange, Party, Request, Kind
  <2> QED BY <1>2, <2>1, SubmitIds DEF TransferSend
<1>3. ASSUME NEW h \in Exchange, ReapOrphan(h) PROVE IdsAreUnambiguous'
  <2>1. Reaper \in Party /\ [by |-> Reaper, kind |-> "close", handle |-> h] \in Request
    BY DEF Party, Request, Kind
  <2> QED BY <1>3, <2>1, SubmitIds DEF ReapOrphan
<1>4. ASSUME NEW p \in Party, WriteDone(p) \/ WriteFails(p) PROVE IdsAreUnambiguous'
  BY <1>4, FrameIds DEF WriteDone, WriteFails
<1>5. ASSUME NEW p \in Party, SendDeadline(p) PROVE IdsAreUnambiguous'
  BY <1>5, CutWriteIds DEF SendDeadline
<1>6. ASSUME NEW e \in Exchange, RaiseFailure(e) \/ Unwind(e) PROVE IdsAreUnambiguous'
  BY <1>6, CutWriteIds DEF RaiseFailure, Unwind, Party
<1>7. CASE CloseDispatcher
  BY <1>7, CutWriteIds DEF CloseDispatcher, Party
<1>8. ASSUME NEW r \in inbox, ReadReply(r) PROVE IdsAreUnambiguous'
  <2>1. /\ inbox' = inbox \ {r}
        /\ pending' = [pending EXCEPT ![r.id] = NoRequest]
        /\ UNCHANGED <<server, frame>>
    BY <1>8 DEF ReadReply
  <2>2. r.id \in Id /\ server[r.id] = NoRequest
    BY DEF TypeOK, Reply, IdsAreUnambiguous
  <2>3. \A other \in inbox' : other.id # r.id
    BY <2>1 DEF IdsAreUnambiguous
  <2>4. \A p \in Party : Writing(p) => frame[p] # r.id
    BY DEF IdsAreUnambiguous
  <2> QED BY <2>1, <2>2, <2>3, <2>4 DEF IdsAreUnambiguous, TypeOK, Writing, Reply, NoId
<1>9. ASSUME NEW before \in SUBSET inbox, ReadBadFrame(before) PROVE IdsAreUnambiguous'
  <2>1. /\ inbox' = inbox \ before
        /\ pending' = [id \in Id |-> IF \E r \in before : r.id = id THEN NoRequest ELSE pending[id]]
        /\ UNCHANGED <<server, frame>>
    BY <1>9 DEF ReadBadFrame
  <2>2. \A id \in Id : server[id] # NoRequest => pending'[id] = pending[id]
    BY <2>1 DEF IdsAreUnambiguous
  <2>3. ASSUME NEW r \in inbox' PROVE pending'[r.id] = pending[r.id]
    <3>1. r \in inbox /\ r \notin before BY <2>1
    <3>2. \A q \in before : q.id # r.id BY <3>1 DEF IdsAreUnambiguous
    <3>3. r.id \in Id BY <3>1 DEF TypeOK, Reply
    <3> QED BY <2>1, <3>2, <3>3
  <2>4. \A p \in Party : Writing(p) => pending'[frame[p]] = pending[frame[p]]
    BY <2>1 DEF IdsAreUnambiguous, TypeOK, Writing
  <2> QED BY <2>1, <2>2, <2>3, <2>4 DEF IdsAreUnambiguous, Writing
<1>10. ASSUME NEW id \in Id, NEW answer \in Answer, PeerAnswers(id, answer)
       PROVE  IdsAreUnambiguous'
  <2>1. /\ server[id] # NoRequest
        /\ inbox' = inbox \cup {[id |-> id, request |-> server[id], answer |-> answer]}
        /\ server' = [server EXCEPT ![id] = NoRequest]
        /\ UNCHANGED <<pending, frame>>
    BY <1>10 DEF PeerAnswers
  <2>2. \A r \in inbox : r.id # id
    BY <2>1 DEF IdsAreUnambiguous
  <2>3. \A p \in Party : Writing(p) => frame[p] # id
    BY <2>1 DEF IdsAreUnambiguous
  <2> QED BY <2>1, <2>2, <2>3 DEF IdsAreUnambiguous, TypeOK, Writing, Reply
<1>11. CASE LinkDrops
  BY <1>11 DEF LinkDrops, IdsAreUnambiguous, TypeOK, Writing, Reply
<1>12. ASSUME UNCHANGED <<pending, frame, server, inbox>> PROVE IdsAreUnambiguous'
  BY <1>12 DEF IdsAreUnambiguous, Writing
<1>13. ASSUME NEW e \in Exchange,
              OpenTransfer(e) \/ Refused(e) \/ Receive(e) \/ Finish(e) \/ ReapRefused(e)
       PROVE  IdsAreUnambiguous'
  BY <1>12, <1>13 DEF OpenTransfer, Refused, Receive, Finish, ReapRefused
<1>14. CASE StartReader \/ ReadEOF \/ StartReaper \/ ReaperReturns \/ ReaperSleeps
             \/ ReaperWakes \/ UNCHANGED vars
  BY <1>12, <1>14
  DEF StartReader, ReadEOF, StartReaper, ReaperReturns, ReaperSleeps, ReaperWakes, vars
<1> QED
  BY <1>1, <1>2, <1>3, <1>4, <1>5, <1>6, <1>7, <1>8, <1>9, <1>10, <1>11, <1>13, <1>14
  DEF Next, RequestDeadline, Cancel, Exchange

-------------------------------------------------------------------------------
(* Routes lead to live exchanges that still expect the reply. *)

LEMMA SubmitRoutes ==
    ASSUME TypeOK, RoutesAreLive, NEW p \in Party, NEW request \in Request,
           request.by = p, Submit(p, request), xstate' \in [Party -> {"new", "open", "retired"}],
           xstate'[p] = "open", \A q \in Party \ {p} : xstate'[q] = xstate[q]
    PROVE  RoutesAreLive'
<1>1. PICK id \in Id :
          /\ id \in Free
          /\ pending' = [pending EXCEPT ![id] = request]
          /\ routes' = [routes EXCEPT ![id] = p]
          /\ ids' = [ids EXCEPT ![p] = @ \cup {id}]
  BY DEF Submit, Allocates
<1>2. p # NoParty /\ request # NoRequest
  BY PartiesAssumption DEF Request
<1>3. ASSUME NEW other \in Id, other # id, routes'[other] # NoParty
      PROVE  /\ xstate'[routes'[other]] = "open" /\ other \in ids'[routes'[other]]
             /\ pending'[other] # NoRequest /\ pending'[other].by = routes'[other]
  <2>1. routes'[other] = routes[other] /\ routes[other] \in Party /\ pending'[other] = pending[other]
    BY <1>1, <1>3 DEF TypeOK
  <2> QED BY <1>1, <1>3, <2>1 DEF RoutesAreLive, TypeOK
<1>4. /\ xstate'[routes'[id]] = "open" /\ id \in ids'[routes'[id]]
      /\ pending'[id] # NoRequest /\ pending'[id].by = routes'[id]
  BY <1>1, <1>2 DEF TypeOK
<1> QED BY <1>3, <1>4 DEF RoutesAreLive

\* retire pops every route to the exchange: each is among the ids it expects.
LEMMA RetireRoutes ==
    ASSUME TypeOK, RoutesAreLive, NEW p \in Party, Retire(p), UNCHANGED pending
    PROVE  RoutesAreLive'
<1>1. ASSUME NEW id \in Id, routes'[id] # NoParty
      PROVE  routes'[id] = routes[id] /\ routes[id] \in Party \ {p}
  BY <1>1 DEF Retire, Unroute, RoutesAreLive, TypeOK
<1>2. \A q \in Party \ {p} : xstate'[q] = xstate[q] /\ ids'[q] = ids[q]
  BY DEF Retire, Forget, TypeOK
<1> QED BY <1>1, <1>2 DEF RoutesAreLive

LEMMA FailRoutes ==
    ASSUME NEW cause, Fail(cause)
    PROVE  RoutesAreLive'
BY DEF Fail, RoutesAreLive

LEMMA RoutesPreserved ==
    ASSUME TypeOK, RoutesAreLive, [Next]_vars
    PROVE  RoutesAreLive'
<1> USE DEF codecVars, routerVars, exchangeVars, writeVars, peerVars, taskVars, counters, history
<1>1. ASSUME NEW e \in OneShot, NEW kind \in {"open", "other"}, RoundTrip(e, kind)
      PROVE  RoutesAreLive'
  <2>1. e \in Party /\ [by |-> e, kind |-> kind, handle |-> NoParty] \in Request
    BY DEF Exchange, Party, Request, Kind
  <2>2. xstate' = [xstate EXCEPT ![e] = "open"]
    BY <1>1 DEF RoundTrip
  <2> QED BY <1>1, <2>1, <2>2, SubmitRoutes DEF RoundTrip, TypeOK
<1>2. ASSUME NEW e \in Exchange, TransferSend(e) PROVE RoutesAreLive'
  <2>1. e \in Party /\ [by |-> e, kind |-> "other", handle |-> NoParty] \in Request
    BY DEF Exchange, Party, Request, Kind
  <2> QED BY <1>2, <2>1, SubmitRoutes DEF TransferSend, TypeOK
<1>3. ASSUME NEW h \in Exchange, ReapOrphan(h) PROVE RoutesAreLive'
  <2>1. Reaper \in Party /\ [by |-> Reaper, kind |-> "close", handle |-> h] \in Request
    BY DEF Party, Request, Kind
  <2>2. /\ xstate' = [xstate EXCEPT ![Reaper] = "open"]
        /\ Submit(Reaper, [by |-> Reaper, kind |-> "close", handle |-> h])
    BY <1>3 DEF ReapOrphan
  <2>3. /\ xstate' \in [Party -> {"new", "open", "retired"}] /\ xstate'[Reaper] = "open"
        /\ \A q \in Party \ {Reaper} : xstate'[q] = xstate[q]
    BY <2>1, <2>2 DEF TypeOK
  <2> QED BY <2>1, <2>2, <2>3, SubmitRoutes
<1>4. ASSUME NEW p \in Party, WriteFails(p) PROVE RoutesAreLive'
  BY <1>4, RetireRoutes DEF WriteFails
<1>5. ASSUME NEW p \in Party, SendDeadline(p) PROVE RoutesAreLive'
  BY <1>5, FailRoutes DEF SendDeadline
<1>6. ASSUME NEW e \in Exchange, Refused(e) \/ RaiseFailure(e) \/ Unwind(e) \/ Finish(e)
      PROVE  RoutesAreLive'
  BY <1>6, RetireRoutes DEF Refused, RaiseFailure, Unwind, Finish, Party
<1>7. CASE ReaperReturns \/ CloseDispatcher
  BY <1>7, RetireRoutes DEF ReaperReturns, CloseDispatcher, Party
<1>8. ASSUME NEW before \in SUBSET inbox, ReadBadFrame(before) PROVE RoutesAreLive'
  BY <1>8, FailRoutes DEF ReadBadFrame
<1>9. CASE ReadEOF
  BY <1>9, FailRoutes DEF ReadEOF
<1>10. ASSUME NEW r \in inbox, ReadReply(r) PROVE RoutesAreLive'
  <2>1. /\ routes' = [routes EXCEPT ![r.id] = NoParty]
        /\ pending' = [pending EXCEPT ![r.id] = NoRequest]
        /\ UNCHANGED xstate
    BY <1>10 DEF ReadReply
  <2>2. \A id \in Id, q \in Party : id # r.id /\ id \in ids[q] => id \in ids'[q]
    <3>1. CASE routes[r.id] = NoParty
      BY <1>10, <3>1 DEF ReadReply, Orphan
    <3>2. CASE routes[r.id] # NoParty
      <4>1. ids' = [ids EXCEPT ![routes[r.id]] = @ \ {r.id}]
        BY <1>10, <3>2 DEF ReadReply, Deliver
      <4> QED BY <4>1 DEF TypeOK
    <3> QED BY <3>1, <3>2
  <2>3. \A id \in Id : routes'[id] # NoParty => id # r.id /\ routes'[id] = routes[id]
    BY <2>1 DEF TypeOK
  <2> QED BY <2>1, <2>2, <2>3 DEF RoutesAreLive, TypeOK
<1>11. ASSUME NEW e \in Exchange, Receive(e) PROVE RoutesAreLive'
  <2>1. CASE e \in OneShot
    BY <1>11, <2>1, RetireRoutes DEF Receive, Party
  <2>2. CASE e \notin OneShot
    BY <1>11, <2>2 DEF Receive, RoutesAreLive
  <2> QED BY <2>1, <2>2
<1>12. ASSUME NEW e \in Exchange, OpenTransfer(e) PROVE RoutesAreLive'
  BY <1>12 DEF OpenTransfer, RoutesAreLive, TypeOK, Party
<1>13. ASSUME UNCHANGED <<routes, xstate, ids, pending>> PROVE RoutesAreLive'
  BY <1>13 DEF RoutesAreLive
<1>14. ASSUME NEW p \in Party, WriteDone(p) PROVE RoutesAreLive'
  BY <1>13, <1>14 DEF WriteDone
<1>15. ASSUME NEW h \in Exchange, ReapRefused(h) PROVE RoutesAreLive'
  BY <1>13, <1>15 DEF ReapRefused
<1>16. ASSUME NEW id \in Id, NEW answer \in Answer, PeerAnswers(id, answer) PROVE RoutesAreLive'
  BY <1>13, <1>16 DEF PeerAnswers
<1>17. CASE StartReader \/ StartReaper \/ ReaperSleeps \/ ReaperWakes \/ LinkDrops
             \/ UNCHANGED vars
  BY <1>13, <1>17 DEF StartReader, StartReaper, ReaperSleeps, ReaperWakes, LinkDrops, vars
<1> QED
  BY <1>1, <1>2, <1>3, <1>4, <1>5, <1>6, <1>7, <1>8, <1>9, <1>10, <1>11, <1>12, <1>14, <1>15,
     <1>16, <1>17
  DEF Next, RequestDeadline, Cancel, Exchange

-------------------------------------------------------------------------------
(* Replies reach the exchange that asked. *)

LEMMA RetireAnswers ==
    ASSUME TypeOK, AnswersMatchRequests, NEW p \in Party, Retire(p)
    PROVE  AnswersMatchRequests'
<1>1. ready'[p] = <<>> /\ \A q \in Party \ {p} : ready'[q] = ready[q]
  BY DEF Retire, Forget, TypeOK
<1> QED BY <1>1 DEF AnswersMatchRequests

\* The step the others exist for: what the reader appends.
LEMMA ReadReplyAnswers ==
    ASSUME TypeOK, IdsAreUnambiguous, RoutesAreLive, AnswersMatchRequests,
           NEW r \in inbox, ReadReply(r)
    PROVE  AnswersMatchRequests'
<1>1. CASE routes[r.id] = NoParty
  BY <1>1 DEF ReadReply, Orphan, AnswersMatchRequests
<1>2. CASE routes[r.id] # NoParty
  <2> DEFINE e == routes[r.id]
             event == [request |-> pending[r.id], answer |-> r.answer, served |-> r.request]
  <2>1. r.id \in Id /\ e \in Party /\ ready[e] \in Seq(Event)
    BY <1>2 DEF TypeOK, Reply
  <2>2. ready' = [ready EXCEPT ![e] = Append(ready[e], event)]
    BY <1>2 DEF ReadReply, Deliver
  <2>3. event.request = event.served /\ event.request.by = e
    BY <1>2, <2>1 DEF IdsAreUnambiguous, RoutesAreLive
  <2>4. ASSUME NEW i \in DOMAIN ready'[e]
        PROVE  ready'[e][i].request = ready'[e][i].served /\ ready'[e][i].request.by = e
    <3> HIDE DEF e, event
    <3>1. ready'[e] = Append(ready[e], event)
      BY <2>1, <2>2 DEF TypeOK
    <3>2. CASE i \in DOMAIN ready[e]
      <4>1. ready'[e][i] = ready[e][i] BY <2>1, <3>1, <3>2
      <4> QED BY <2>1, <3>2, <4>1 DEF AnswersMatchRequests
    <3>3. CASE i \notin DOMAIN ready[e]
      <4>1. ready'[e][i] = event BY <2>1, <2>4, <3>1, <3>3
      <4> QED BY <2>3, <4>1
    <3> QED BY <3>2, <3>3
  <2>5. \A q \in Party \ {e} : ready'[q] = ready[q]
    BY <2>2 DEF TypeOK
  <2> QED BY <2>4, <2>5 DEF AnswersMatchRequests
<1> QED BY <1>1, <1>2

LEMMA AnswersPreserved ==
    ASSUME IndInv, [Next]_vars
    PROVE  AnswersMatchRequests'
<1> USE DEF IndInv, codecVars, routerVars, exchangeVars, writeVars, peerVars, taskVars, counters,
            history
<1>1. ASSUME NEW r \in inbox, ReadReply(r) PROVE AnswersMatchRequests'
  BY <1>1, ReadReplyAnswers
<1>2. ASSUME NEW p \in Party, WriteFails(p) PROVE AnswersMatchRequests'
  BY <1>2, RetireAnswers DEF WriteFails
<1>3. ASSUME NEW p \in Party, SendDeadline(p) PROVE AnswersMatchRequests'
  <2>1. ready' = [ready EXCEPT ![p] = <<>>] BY <1>3 DEF SendDeadline
  <2>2. ready'[p] = <<>> /\ \A q \in Party \ {p} : ready'[q] = ready[q]
    BY <2>1 DEF TypeOK
  <2> QED BY <2>2 DEF AnswersMatchRequests
<1>4. ASSUME NEW e \in Exchange, Refused(e) \/ RaiseFailure(e) \/ Unwind(e) \/ Finish(e)
      PROVE  AnswersMatchRequests'
  BY <1>4, RetireAnswers DEF Refused, RaiseFailure, Unwind, Finish, Party
<1>5. CASE ReaperReturns \/ CloseDispatcher
  BY <1>5, RetireAnswers DEF ReaperReturns, CloseDispatcher, Party
<1>6. ASSUME NEW e \in Exchange, Receive(e) PROVE AnswersMatchRequests'
  <2>1. CASE e \in OneShot
    BY <1>6, <2>1, RetireAnswers DEF Receive, Party
  <2>2. CASE e \notin OneShot
    <3>1. ready' = [ready EXCEPT ![e] = Tail(ready[e])] /\ ready[e] # <<>>
      BY <1>6, <2>2 DEF Receive
    <3>2. e \in Party /\ ready[e] \in Seq(Event)
      BY DEF Party, TypeOK
    <3>3. \A i \in DOMAIN Tail(ready[e]) :
             i + 1 \in DOMAIN ready[e] /\ Tail(ready[e])[i] = ready[e][i + 1]
      BY <3>1, <3>2
    <3>4. ready'[e] = Tail(ready[e]) /\ \A q \in Party \ {e} : ready'[q] = ready[q]
      BY <3>1, <3>2 DEF TypeOK
    <3>5. \A i \in DOMAIN ready'[e] :
             ready'[e][i].request = ready'[e][i].served /\ ready'[e][i].request.by = e
      BY <3>2, <3>3, <3>4 DEF AnswersMatchRequests
    <3>6. \A q \in Party \ {e} : \A i \in DOMAIN ready'[q] :
             ready'[q][i].request = ready'[q][i].served /\ ready'[q][i].request.by = q
      BY <3>4 DEF AnswersMatchRequests
    <3> QED BY <3>5, <3>6 DEF AnswersMatchRequests
  <2> QED BY <2>1, <2>2
<1>7. ASSUME UNCHANGED ready PROVE AnswersMatchRequests'
  BY <1>7 DEF AnswersMatchRequests
<1>8. ASSUME NEW e \in OneShot, NEW kind \in {"open", "other"}, RoundTrip(e, kind)
      PROVE  AnswersMatchRequests'
  BY <1>7, <1>8 DEF RoundTrip
<1>9. ASSUME NEW e \in Exchange,
             OpenTransfer(e) \/ TransferSend(e) \/ ReapOrphan(e) \/ ReapRefused(e)
      PROVE  AnswersMatchRequests'
  BY <1>7, <1>9 DEF OpenTransfer, TransferSend, ReapOrphan, ReapRefused
<1>10. ASSUME NEW p \in Party, WriteDone(p) PROVE AnswersMatchRequests'
  BY <1>7, <1>10 DEF WriteDone
<1>11. ASSUME NEW before \in SUBSET inbox, ReadBadFrame(before) PROVE AnswersMatchRequests'
  BY <1>7, <1>11 DEF ReadBadFrame
<1>12. ASSUME NEW id \in Id, NEW answer \in Answer, PeerAnswers(id, answer)
       PROVE  AnswersMatchRequests'
  BY <1>7, <1>12 DEF PeerAnswers
<1>13. CASE StartReader \/ ReadEOF \/ StartReaper \/ ReaperSleeps \/ ReaperWakes \/ LinkDrops
             \/ UNCHANGED vars
  BY <1>7, <1>13 DEF StartReader, ReadEOF, StartReaper, ReaperSleeps, ReaperWakes, LinkDrops, vars
<1> QED
  BY <1>1, <1>2, <1>3, <1>4, <1>5, <1>6, <1>8, <1>9, <1>10, <1>11, <1>12, <1>13
  DEF Next, RequestDeadline, Cancel, Exchange

-------------------------------------------------------------------------------
(* The books. *)

\* Sending adds one to what is outstanding, and a reply takes one from it.
LEMMA OutstandingIsFinite == IsFiniteSet(Outstanding)
<1>1. Outstanding \subseteq 1 .. MaxId BY DEF Outstanding, Id
<1>2. IsFiniteSet(1 .. MaxId) BY FS_Interval, BoundsAssumption
<1> QED BY <1>1, <1>2, FS_Subset

LEMMA SubmitBooks ==
    ASSUME TypeOK, BooksBalance, NEW p \in Party, NEW request \in Request,
           Submit(p, request), UNCHANGED <<codecState, repliesReceived>>
    PROVE  BooksBalance'
<1>1. PICK id \in Id : /\ Allocates(id)
                       /\ pending' = [pending EXCEPT ![id] = request]
  BY DEF Submit
<1>2. id \notin Outstanding BY <1>1 DEF Allocates, Free
<1>3. request # NoRequest BY PartiesAssumption
<1>4. Outstanding' = Outstanding \cup {id}
  BY <1>1, <1>3 DEF Outstanding, TypeOK
<1>5. Cardinality(Outstanding') = Cardinality(Outstanding) + 1
  BY <1>2, <1>4, OutstandingIsFinite, FS_AddElement
<1>6. requestsSent' = requestsSent + 1 BY DEF Submit
<1>7. Cardinality(Outstanding) \in Nat BY OutstandingIsFinite, FS_CardinalityType
<1> QED BY <1>5, <1>6, <1>7 DEF BooksBalance, TypeOK

LEMMA ReplyBooks ==
    ASSUME TypeOK, BooksBalance, NEW r \in inbox, ReadReply(r)
    PROVE  BooksBalance'
<1>1. /\ r.id \in Id /\ pending[r.id] # NoRequest
      /\ pending' = [pending EXCEPT ![r.id] = NoRequest]
      /\ repliesReceived' = repliesReceived + 1 /\ UNCHANGED <<codecState, requestsSent>>
  BY DEF ReadReply, TypeOK, Reply
<1>2. r.id \in Outstanding BY <1>1 DEF Outstanding
<1>3. Outstanding' = Outstanding \ {r.id} BY <1>1 DEF Outstanding, TypeOK
<1>4. Cardinality(Outstanding') = Cardinality(Outstanding) - 1
  BY <1>2, <1>3, OutstandingIsFinite, FS_RemoveElement
<1>5. Cardinality(Outstanding) \in Nat BY OutstandingIsFinite, FS_CardinalityType
<1> QED BY <1>1, <1>4, <1>5 DEF BooksBalance, TypeOK

LEMMA BooksPreserved ==
    ASSUME TypeOK, BooksBalance, [Next]_vars
    PROVE  BooksBalance'
<1> USE DEF codecVars, routerVars, exchangeVars, writeVars, peerVars, taskVars, counters, history
<1>1. ASSUME NEW e \in OneShot, NEW kind \in {"open", "other"}, RoundTrip(e, kind)
      PROVE  BooksBalance'
  <2>1. e \in Party /\ [by |-> e, kind |-> kind, handle |-> NoParty] \in Request
    BY DEF Exchange, Party, Request, Kind
  <2> QED BY <1>1, <2>1, SubmitBooks DEF RoundTrip
<1>2. ASSUME NEW e \in Exchange, TransferSend(e) PROVE BooksBalance'
  <2>1. e \in Party /\ [by |-> e, kind |-> "other", handle |-> NoParty] \in Request
    BY DEF Exchange, Party, Request, Kind
  <2> QED BY <1>2, <2>1, SubmitBooks DEF TransferSend
<1>3. ASSUME NEW h \in Exchange, ReapOrphan(h) PROVE BooksBalance'
  <2>1. Reaper \in Party /\ [by |-> Reaper, kind |-> "close", handle |-> h] \in Request
    BY DEF Party, Request, Kind
  <2> QED BY <1>3, <2>1, SubmitBooks DEF ReapOrphan
<1>4. ASSUME NEW r \in inbox, ReadReply(r) PROVE BooksBalance'
  BY <1>4, ReplyBooks
<1>5. ASSUME NEW before \in SUBSET inbox, ReadBadFrame(before) PROVE BooksBalance'
  BY <1>5 DEF ReadBadFrame, BooksBalance
<1>6. ASSUME UNCHANGED <<codecState, pending, requestsSent, repliesReceived>> PROVE BooksBalance'
  BY <1>6 DEF BooksBalance, Outstanding
<1>7. ASSUME NEW p \in Party, WriteDone(p) \/ WriteFails(p) \/ SendDeadline(p) PROVE BooksBalance'
  BY <1>6, <1>7 DEF WriteDone, WriteFails, SendDeadline
<1>8. ASSUME NEW e \in Exchange,
             \/ OpenTransfer(e) \/ Refused(e) \/ RaiseFailure(e) \/ Unwind(e)
             \/ Finish(e) \/ Receive(e) \/ ReapRefused(e)
      PROVE  BooksBalance'
  BY <1>6, <1>8 DEF OpenTransfer, Refused, RaiseFailure, Unwind, Finish, Receive, ReapRefused
<1>9. ASSUME NEW id \in Id, NEW answer \in Answer, PeerAnswers(id, answer) PROVE BooksBalance'
  BY <1>6, <1>9 DEF PeerAnswers
<1>10. CASE \/ StartReader \/ ReadEOF \/ StartReaper \/ ReaperReturns \/ ReaperSleeps
            \/ ReaperWakes \/ CloseDispatcher \/ LinkDrops \/ UNCHANGED vars
  BY <1>6, <1>10 DEF StartReader, ReadEOF, StartReaper, ReaperReturns, ReaperSleeps, ReaperWakes,
                     CloseDispatcher, LinkDrops, vars
<1> QED
  BY <1>1, <1>2, <1>3, <1>4, <1>5, <1>7, <1>8, <1>9, <1>10
  DEF Next, RequestDeadline, Cancel, Exchange

LEMMA InitIndInv == Init => IndInv
<1> SUFFICES ASSUME Init PROVE IndInv
  OBVIOUS
<1>1. TypeOK BY InitType
<1>2. IdsAreUnambiguous BY DEF Init, IdsAreUnambiguous, Writing
<1>3. RoutesAreLive BY DEF Init, RoutesAreLive
<1>4. AnswersMatchRequests BY DEF Init, AnswersMatchRequests
<1>5. BooksBalance
  <2>1. Outstanding = {} BY DEF Init, Outstanding
  <2> QED BY <2>1, FS_EmptySet DEF Init, BooksBalance
<1> QED BY <1>1, <1>2, <1>3, <1>4, <1>5 DEF IndInv

LEMMA IndInvInductive == Spec => []IndInv
<1>1. IndInv /\ [Next]_vars => IndInv'
  BY NextType, IdsPreserved, RoutesPreserved, AnswersPreserved, BooksPreserved DEF IndInv
<1> QED BY InitIndInv, <1>1, PTL DEF Spec

\* An id in flight names one request everywhere, across the wrap of the counter and
\* for ids whose asker gave up (Codec.allocate_request_id, send).
THEOREM IdsCorrect == Spec => []IdsAreUnambiguous
<1>1. IndInv => IdsAreUnambiguous BY DEF IndInv
<1> QED BY IndInvInductive, <1>1, PTL

\* No route outlives its exchange (Dispatcher.retire, _route, _fail).
THEOREM RoutesCorrect == Spec => []RoutesAreLive
<1>1. IndInv => RoutesAreLive BY DEF IndInv
<1> QED BY IndInvInductive, <1>1, PTL

\* A reply is only ever delivered to the exchange that asked, with the request it
\* answers, whatever operations time out, are cancelled or run beside it.
THEOREM RepliesNeverMisrouted == Spec => []AnswersMatchRequests
<1>1. IndInv => AnswersMatchRequests BY DEF IndInv
<1> QED BY IndInvInductive, <1>1, PTL

\* All of it at once: ids, routes, queues and books agree (Codec.send, Dispatcher._route).
THEOREM RequestsCorrect == Spec => []RequestsAreRouted
<1>1. IndInv => RequestsAreRouted BY DEF IndInv, RequestsAreRouted
<1> QED BY IndInvInductive, <1>1, PTL

-------------------------------------------------------------------------------
(* Nobody waits alone. *)

\* Until the connection fails every reply expected has a route; when it does, everybody who
\* expects one is told; and the reader only stops in one of these ways.
WaitInv ==
    /\ \A p \in Party : xstate[p] # "open" => ids[p] = {}
    /\ failure = "none" => \A p \in Party : \A id \in ids[p] : routes[id] = p
    /\ failure # "none" => \A p \in Party : xstate[p] = "open" /\ ids[p] # {} => xfail[p] # "none"
    /\ failure = "none" => \A p \in Party : xfail[p] = "none"
    /\ reader = "stopped" => closed \/ failure # "none"
    /\ codecState = "failed" => reader = "stopped"

LEMMA SubmitWait ==
    ASSUME TypeOK, RoutesAreLive, WaitInv, NEW p \in Party, NEW request \in Request,
           Submit(p, request), xstate' = [xstate EXCEPT ![p] = "open"],
           UNCHANGED <<failure, closed, xfail, reader, codecState>>
    PROVE  WaitInv'
<1>1. PICK id \in Id :
          /\ id \in Free
          /\ routes' = [routes EXCEPT ![id] = p]
          /\ ids' = [ids EXCEPT ![p] = @ \cup {id}]
  BY DEF Submit, Allocates
<1>2. failure = "none" BY DEF Submit
<1>3. \A q \in Party : id \notin ids[q]
  BY <1>1, <1>2, PartiesAssumption DEF WaitInv, RoutesAreLive, Free, Outstanding
<1>4. \A q \in Party : xstate'[q] # "open" => ids'[q] = {}
  BY <1>1 DEF WaitInv, TypeOK
<1>5. \A q \in Party : \A i \in ids'[q] : routes'[i] = q
  BY <1>1, <1>2, <1>3 DEF WaitInv, TypeOK
<1> QED BY <1>2, <1>4, <1>5 DEF WaitInv

LEMMA RetireWait ==
    ASSUME TypeOK, WaitInv, NEW p \in Party, Retire(p), UNCHANGED <<failure, codecState>>,
           reader' = "stopped" => closed' \/ failure # "none",
           codecState = "failed" => reader' = "stopped"
    PROVE  WaitInv'
<1>1. /\ ids' = [ids EXCEPT ![p] = {}] /\ xfail' = [xfail EXCEPT ![p] = "none"]
      /\ \A q \in Party \ {p} : xstate'[q] = xstate[q]
      /\ routes' = [id \in Id |-> IF id \in ids[p] THEN NoParty ELSE routes[id]]
  BY DEF Retire, Forget, Unroute, TypeOK
<1>2. failure = "none" => \A q \in Party : \A id \in ids'[q] : routes'[id] = q
  BY <1>1, PartiesAssumption DEF WaitInv, TypeOK
<1> QED BY <1>1, <1>2 DEF WaitInv, TypeOK

\* Whatever made the connection fail, everybody who waits is told.
LEMMA FailWait ==
    ASSUME TypeOK, WaitInv, NEW cause \in Cause \ {"none"}, failure' = cause,
           \A p \in Party : xfail'[p] = Told(cause)[p] \/ ids'[p] = {},
           \A p \in Party : ids'[p] = ids[p] \/ ids'[p] = {},
           \A p \in Party : xstate'[p] = xstate[p] \/ ids'[p] = {},
           codecState' = "failed" => reader' = "stopped"
    PROVE  WaitInv'
BY DEF WaitInv, Told, TypeOK

LEMMA WaitPreserved ==
    ASSUME IndInv, WaitInv, [Next]_vars
    PROVE  WaitInv'
<1> USE DEF IndInv, codecVars, routerVars, exchangeVars, writeVars, peerVars, taskVars, counters,
            history
<1>1. ASSUME NEW e \in OneShot, NEW kind \in {"open", "other"}, RoundTrip(e, kind) PROVE WaitInv'
  <2>1. e \in Party /\ [by |-> e, kind |-> kind, handle |-> NoParty] \in Request
    BY DEF Exchange, Party, Request, Kind
  <2> QED BY <1>1, <2>1, SubmitWait DEF RoundTrip
<1>2. ASSUME NEW e \in Exchange, TransferSend(e) PROVE WaitInv'
  <2>1. e \in Party /\ [by |-> e, kind |-> "other", handle |-> NoParty] \in Request
    BY DEF Exchange, Party, Request, Kind
  <2>2. xstate' = [xstate EXCEPT ![e] = "open"] BY <1>2 DEF TransferSend, TypeOK
  <2> QED BY <1>2, <2>1, <2>2, SubmitWait DEF TransferSend
<1>3. ASSUME NEW h \in Exchange, ReapOrphan(h) PROVE WaitInv'
  <2>1. Reaper \in Party /\ [by |-> Reaper, kind |-> "close", handle |-> h] \in Request
    BY DEF Party, Request, Kind
  <2> QED BY <1>3, <2>1, SubmitWait DEF ReapOrphan
<1>4. ASSUME NEW p \in Party, WriteFails(p) PROVE WaitInv'
  BY <1>4, RetireWait DEF WriteFails, WaitInv
<1>5. ASSUME NEW e \in Exchange, Refused(e) \/ RaiseFailure(e) \/ Unwind(e) \/ Finish(e)
      PROVE  WaitInv'
  <2>1. e \in Party /\ Retire(e) /\ UNCHANGED <<failure, codecState, reader, closed>>
    BY <1>5 DEF Refused, RaiseFailure, Unwind, Finish, Party
  <2> QED BY <2>1, RetireWait DEF WaitInv
<1>6. CASE ReaperReturns
  BY <1>6, RetireWait DEF ReaperReturns, WaitInv, Party
<1>7. CASE CloseDispatcher
  <2>1. /\ Retire(Reaper) /\ closed' /\ UNCHANGED <<failure, codecState>>
        /\ reader = "stopped" => reader' = "stopped"
    BY <1>7 DEF CloseDispatcher
  <2> QED BY <2>1, RetireWait DEF WaitInv, Party
<1>8. ASSUME NEW p \in Party, SendDeadline(p) PROVE WaitInv'
  <2>1. /\ failure' = "stalled" /\ UNCHANGED <<codecState, reader>>
        /\ xfail' = [Told("stalled") EXCEPT ![p] = "none"]
        /\ ids' = [ids EXCEPT ![p] = {}]
        /\ \A q \in Party \ {p} : xstate'[q] = xstate[q]
    BY <1>8 DEF SendDeadline, Fail, TypeOK
  <2>2. Told("stalled") \in [Party -> Cause] BY DEF Told, TypeOK, Cause
  <2>3. "stalled" \in Cause \ {"none"} BY DEF Cause
  <2> QED BY <2>1, <2>2, <2>3, FailWait DEF WaitInv, TypeOK
<1>9. ASSUME NEW before \in SUBSET inbox, ReadBadFrame(before) PROVE WaitInv'
  <2>1. "protocol" \in Cause \ {"none"} BY DEF Cause
  <2> QED BY <1>9, <2>1, FailWait DEF ReadBadFrame, Fail, ReaderEnds
<1>10. CASE ReadEOF
  <2>1. "lost" \in Cause \ {"none"} BY DEF Cause
  <2> QED BY <1>10, <2>1, FailWait DEF ReadEOF, Fail, ReaderEnds
<1>11. ASSUME NEW r \in inbox, ReadReply(r) PROVE WaitInv'
  <2>1. /\ r.id \in Id /\ routes' = [routes EXCEPT ![r.id] = NoParty]
        /\ UNCHANGED <<xstate, xfail, failure, closed, reader, codecState>>
    BY <1>11 DEF ReadReply, TypeOK, Reply
  <2>2. \A p \in Party : ids'[p] \subseteq ids[p]
    <3>1. CASE routes[r.id] = NoParty BY <1>11, <3>1 DEF ReadReply, Orphan
    <3>2. CASE routes[r.id] # NoParty
      <4>1. ids' = [ids EXCEPT ![routes[r.id]] = @ \ {r.id}]
        BY <1>11, <3>2 DEF ReadReply, Deliver
      <4> QED BY <4>1 DEF TypeOK
    <3> QED BY <3>1, <3>2
  <2>3. \A p \in Party : routes[r.id] = p => r.id \notin ids'[p]
    BY <1>11, PartiesAssumption DEF ReadReply, Deliver, TypeOK
  <2>4. failure = "none" => \A p \in Party : \A id \in ids'[p] : routes'[id] = p
    BY <2>1, <2>2, <2>3 DEF WaitInv, TypeOK
  <2> QED BY <2>1, <2>2, <2>4 DEF WaitInv, TypeOK
<1>12. ASSUME NEW e \in Exchange, Receive(e) PROVE WaitInv'
  <2>1. CASE e \in OneShot
    BY <1>12, <2>1, RetireWait DEF Receive, WaitInv, Party
  <2>2. CASE e \notin OneShot
    BY <1>12, <2>2 DEF Receive, WaitInv
  <2> QED BY <2>1, <2>2
<1>13. ASSUME NEW e \in Exchange, OpenTransfer(e) PROVE WaitInv'
  <2>1. /\ xstate' = [xstate EXCEPT ![e] = "open"] /\ ids[e] = {} /\ e \in Party
        /\ UNCHANGED <<ids, routes, failure, xfail, reader, closed, codecState>>
    BY <1>13 DEF OpenTransfer, WaitInv, Party
  <2> QED BY <2>1 DEF WaitInv, TypeOK
<1>14. ASSUME UNCHANGED <<xstate, ids, routes, failure, xfail, closed, codecState>>,
              reader' = reader \/ (reader = "unstarted" /\ (reader' = "stopped" => closed))
       PROVE  WaitInv'
  BY <1>14 DEF WaitInv
<1>15. CASE StartReader BY <1>14, <1>15 DEF StartReader
<1>16. ASSUME NEW p \in Party, WriteDone(p) PROVE WaitInv' BY <1>14, <1>16 DEF WriteDone
<1>17. ASSUME NEW h \in Exchange, ReapRefused(h) PROVE WaitInv' BY <1>14, <1>17 DEF ReapRefused
<1>18. ASSUME NEW id \in Id, NEW answer \in Answer, PeerAnswers(id, answer) PROVE WaitInv'
  BY <1>14, <1>18 DEF PeerAnswers
<1>19. CASE StartReaper \/ ReaperSleeps \/ ReaperWakes \/ LinkDrops \/ UNCHANGED vars
  BY <1>14, <1>19 DEF StartReaper, ReaperSleeps, ReaperWakes, LinkDrops, vars
<1> QED
  BY <1>1, <1>2, <1>3, <1>4, <1>5, <1>6, <1>7, <1>8, <1>9, <1>10, <1>11, <1>12, <1>13, <1>15,
     <1>16, <1>17, <1>18, <1>19
  DEF Next, RequestDeadline, Cancel, Exchange

LEMMA WaitInductive == Spec => []WaitInv
<1>1. Init => WaitInv BY DEF Init, WaitInv
<1>2. IndInv /\ WaitInv /\ [Next]_vars => WaitInv' BY WaitPreserved
<1> QED BY IndInvInductive, <1>1, <1>2, PTL DEF Spec

\* Nobody is parked beyond the reach of a wakeup: an exchange that expects a reply has been
\* told of the failure, or has its routes and a reader (Dispatcher._fail, run, retire).
THEOREM NobodyParked == Spec => []NobodyWaitsAlone
<1>1. WaitInv => NobodyWaitsAlone BY DEF WaitInv, NobodyWaitsAlone
<1> QED BY WaitInductive, <1>1, PTL

\* After a protocol error nothing that was parsed is handed to anybody (Codec.receive, run).
THEOREM ErrorsStopRouting == Spec => NothingRoutedAfterProtocolError
<1> USE DEF codecVars, routerVars, exchangeVars, writeVars, peerVars, taskVars, counters, history
<1> DEFINE Quiet == codecState = "failed" =>
                        /\ \A p \in Party : Len(ready'[p]) <= Len(ready[p])
                        /\ unclaimed' = unclaimed
<1>1. ASSUME TypeOK, WaitInv, [Next]_vars, codecState = "failed" PROVE Quiet
  <2>1. reader = "stopped" BY <1>1 DEF WaitInv
  <2>2. ASSUME UNCHANGED <<ready, unclaimed>> PROVE Quiet BY <2>2 DEF TypeOK
  <2>3. ASSUME NEW q \in Party, ready' = [ready EXCEPT ![q] = <<>>], UNCHANGED unclaimed
        PROVE  Quiet
    BY <1>1, <2>3 DEF TypeOK
  <2>4. ASSUME NEW e \in Exchange, Receive(e) PROVE Quiet
    <3>1. CASE e \in OneShot BY <2>3, <2>4, <3>1 DEF Receive, Retire, Forget, Party
    <3>2. CASE e \notin OneShot
      <4>1. /\ ready' = [ready EXCEPT ![e] = Tail(ready[e])] /\ ready[e] # <<>> /\ e \in Party
            /\ unclaimed' = unclaimed
        BY <2>4, <3>2 DEF Receive, Party
      <4>2. ready[e] \in Seq(Event) /\ \A p \in Party : Len(ready[p]) \in Nat
        BY <1>1, <4>1 DEF TypeOK
      <4>3. Len(Tail(ready[e])) <= Len(ready[e]) BY <4>1, <4>2
      <4> QED BY <1>1, <4>1, <4>2, <4>3 DEF TypeOK
    <3> QED BY <3>1, <3>2
  <2>5. ASSUME NEW p \in Party, WriteFails(p) \/ SendDeadline(p) PROVE Quiet
    BY <2>3, <2>5 DEF WriteFails, SendDeadline, Retire, Forget
  <2>6. ASSUME NEW e \in Exchange, Refused(e) \/ RaiseFailure(e) \/ Unwind(e) \/ Finish(e)
        PROVE  Quiet
    BY <2>3, <2>6 DEF Refused, RaiseFailure, Unwind, Finish, Retire, Forget, Party
  <2>7. CASE ReaperReturns \/ CloseDispatcher
    BY <2>3, <2>7 DEF ReaperReturns, CloseDispatcher, Retire, Forget, Party
  <2>8. ASSUME NEW e \in OneShot, NEW kind \in {"open", "other"}, RoundTrip(e, kind) PROVE Quiet
    BY <1>1, <2>2, <2>8 DEF RoundTrip
  <2>9. ASSUME NEW e \in Exchange,
               OpenTransfer(e) \/ TransferSend(e) \/ ReapOrphan(e) \/ ReapRefused(e)
        PROVE  Quiet
    BY <1>1, <2>2, <2>9 DEF OpenTransfer, TransferSend, ReapOrphan, ReapRefused
  <2>10. ASSUME NEW p \in Party, WriteDone(p) PROVE Quiet BY <1>1, <2>2, <2>10 DEF WriteDone
  <2>11. ASSUME NEW r \in inbox, ReadReply(r) PROVE Quiet BY <2>1, <2>11 DEF ReadReply
  <2>12. ASSUME NEW before \in SUBSET inbox, ReadBadFrame(before) PROVE Quiet
    BY <2>1, <2>12 DEF ReadBadFrame
  <2>13. ASSUME NEW id \in Id, NEW answer \in Answer, PeerAnswers(id, answer) PROVE Quiet
    BY <1>1, <2>2, <2>13 DEF PeerAnswers
  <2>14. CASE StartReader \/ ReadEOF \/ StartReaper \/ ReaperSleeps \/ ReaperWakes \/ LinkDrops
              \/ UNCHANGED vars
    BY <1>1, <2>2, <2>14
    DEF StartReader, ReadEOF, StartReaper, ReaperSleeps, ReaperWakes, LinkDrops, vars
  <2> QED
    BY <1>1, <2>4, <2>5, <2>6, <2>7, <2>8, <2>9, <2>10, <2>11, <2>12, <2>13, <2>14
    DEF Next, RequestDeadline, Cancel, Exchange
<1>2. IndInv /\ WaitInv /\ [Next]_vars => [Quiet]_vars BY <1>1 DEF IndInv
<1> QED BY IndInvInductive, WaitInductive, <1>2, PTL DEF Spec, NothingRoutedAfterProtocolError

-------------------------------------------------------------------------------
(* Handles. *)

\* The ids under which the codec holds a request of p.
Held(p) == {id \in Id : pending[id] # NoRequest /\ pending[id].by = p}

IsOpen(request) == request # NoRequest /\ request.kind = "open"

\* The OPEN of e has been answered with a handle, and the handle has an owner.
Settled(e) == e \in claimed \cup orphans \cup closeSubmitted

\* The one OPEN of a one-shot is in one place: unanswered, in its exchange's queue, or settled;
\* and settled with the operation or with the reaper, never with both.
OpenSound(id) ==
    IsOpen(pending[id]) => pending[id].by \in OneShot /\ ~Settled(pending[id].by)
QueueSound(p) ==
    \A i \in DOMAIN ready[p] :
        /\ ready[p][i].answer = "handle" => ready[p][i].request.kind = "open"
        /\ ready[p][i].request.kind = "open" => p \in OneShot /\ ~Settled(p)
UsedOnce(e) ==
    /\ \A i, j \in Held(e) : i = j
    /\ Held(e) # {} => ready[e] = <<>>
    /\ Len(ready[e]) <= 1
    /\ xstate[e] = "new" => ready[e] = <<>> /\ Held(e) = {} /\ ~Settled(e)
HandleInv ==
    /\ \A id \in Id : OpenSound(id)
    /\ \A p \in Party : QueueSound(p)
    /\ \A e \in OneShot : UsedOnce(e)
    /\ \A r \in inbox : r.answer = "handle" => r.request.kind = "open"
    /\ ReaperSparesClaimed

\* A step that asks for nothing, delivers nothing and settles nothing.
LEMMA QuietHandles ==
    ASSUME TypeOK, HandleInv,
           \A id \in Id : pending'[id] \in {pending[id], NoRequest},
           \A p \in Party : ready'[p] \in {ready[p], <<>>},
           \A e \in OneShot : xstate'[e] = "new" => xstate[e] = "new",
           inbox' \subseteq inbox, UNCHANGED claimed,
           orphans' \cup closeSubmitted' \subseteq orphans \cup closeSubmitted
    PROVE  HandleInv'
<1>1. \A e : Settled(e)' => Settled(e) BY DEF Settled
<1>2. \A e \in OneShot : Held(e)' \subseteq Held(e) BY DEF Held
<1>3. \A e \in OneShot : e \in Party BY DEF Party, Exchange
<1>4. \A id \in Id : IsOpen(pending'[id]) => pending'[id] = pending[id] BY DEF IsOpen
<1>5. \A p \in Party : DOMAIN <<>> = {} /\ Len(<<>>) = 0 OBVIOUS
<1>6. \A id \in Id : OpenSound(id)'
  BY <1>1, <1>4 DEF HandleInv, OpenSound, QueueSound, UsedOnce
<1>7. /\ \A r \in inbox' : r.answer = "handle" => r.request.kind = "open"
      /\ ReaperSparesClaimed'
  BY DEF HandleInv, ReaperSparesClaimed
<1>8. \A p \in Party : QueueSound(p)'
  BY <1>1, <1>5 DEF HandleInv, OpenSound, QueueSound, UsedOnce
<1>9. ASSUME NEW e \in OneShot
      PROVE  UsedOnce(e)'
  BY <1>1, <1>2, <1>3, <1>5 DEF HandleInv, OpenSound, QueueSound, UsedOnce
<1> QED BY <1>6, <1>7, <1>8, <1>9 DEF HandleInv

LEMMA SubmitHandles ==
    ASSUME TypeOK, HandleInv, NEW p \in Party, NEW request \in Request, request.by = p,
           Submit(p, request), UNCHANGED <<ready, inbox, claimed>>,
           orphans' \cup closeSubmitted' = orphans \cup closeSubmitted,
           \A e \in OneShot : xstate'[e] = "new" => xstate[e] = "new" /\ e # p,
           request.kind = "open" => p \in OneShot,
           p \in OneShot => xstate[p] = "new"
    PROVE  HandleInv'
<1>1. PICK id \in Id : id \in Free /\ pending' = [pending EXCEPT ![id] = request]
  BY DEF Submit, Allocates
<1>2. \A e : Settled(e)' = Settled(e) BY DEF Settled
<1>3. \A e \in OneShot : e # p => Held(e)' = Held(e)
  BY <1>1, PartiesAssumption DEF Held, Free, Outstanding, TypeOK
<1>4. p \in OneShot => Held(p)' \subseteq {id}
  BY <1>1 DEF HandleInv, OpenSound, QueueSound, UsedOnce, Held, TypeOK
<1>5. \A i \in Id : OpenSound(i)'
  <2>1. OpenSound(id)'
    <3>1. pending'[id] = request BY <1>1 DEF TypeOK
    <3>2. p \in OneShot => ~Settled(p)' BY <1>2 DEF HandleInv, UsedOnce
    <3> QED BY <3>1, <3>2 DEF OpenSound, IsOpen
  <2>2. ASSUME NEW i \in Id \ {id} PROVE OpenSound(i)'
    BY <1>1, <1>2 DEF HandleInv, OpenSound, TypeOK
  <2> QED BY <2>1, <2>2
<1>6. ASSUME NEW e \in OneShot
      PROVE  UsedOnce(e)'
  BY <1>2, <1>3, <1>4 DEF HandleInv, OpenSound, QueueSound, UsedOnce
<1>7. \A q \in Party : QueueSound(q)'
  BY <1>2 DEF HandleInv, OpenSound, QueueSound, UsedOnce
<1>8. ReaperSparesClaimed' BY DEF HandleInv, ReaperSparesClaimed
<1> QED BY <1>5, <1>6, <1>7, <1>8 DEF HandleInv

\* A reply read: to its exchange, or, where nobody routes it, its handle to the reaper.
LEMMA ReadReplyHandles ==
    ASSUME IndInv, HandleInv, NEW r \in inbox, ReadReply(r)
    PROVE  HandleInv'
<1> USE DEF IndInv
<1>0. PICK owner : owner = r.request.by OBVIOUS
<1>1. /\ r.id \in Id /\ pending[r.id] = r.request /\ r.request \in Request
      /\ pending' = [pending EXCEPT ![r.id] = NoRequest]
      /\ inbox' = inbox \ {r} /\ UNCHANGED <<xstate, claimed, closeSubmitted>>
  BY DEF ReadReply, TypeOK, Reply, IdsAreUnambiguous, history
<1>2. owner \in Party /\ r.id \in Held(owner) /\ r.request # NoRequest
  BY <1>0, <1>1, PartiesAssumption DEF Request, Held
<1>3. \A e \in OneShot : Held(e)' = Held(e) \ {r.id}
  BY <1>1 DEF Held, TypeOK
<1>4. owner \in OneShot => Held(owner)' = {}
  BY <1>2, <1>3 DEF HandleInv, OpenSound, QueueSound, UsedOnce
<1>5. (~Settled(owner) /\ owner \in OneShot) \/ r.request.kind # "open"
  BY <1>0, <1>1, <1>2 DEF HandleInv, OpenSound, IsOpen
<1>6. \A id \in Id : IsOpen(pending'[id]) => pending'[id] = pending[id] /\ pending[id].by # owner
  <2> SUFFICES ASSUME NEW id \in Id, IsOpen(pending'[id])
               PROVE  pending'[id] = pending[id] /\ pending[id].by # owner
    OBVIOUS
  <2>1. id # r.id /\ pending'[id] = pending[id] BY <1>1 DEF IsOpen, TypeOK
  <2>2. pending[id].by \in OneShot /\ id \in Held(pending[id].by)
    BY <2>1 DEF HandleInv, OpenSound, QueueSound, UsedOnce, IsOpen, Held
  <2>3. pending[id].by # owner BY <1>2, <2>1, <2>2 DEF HandleInv, OpenSound, QueueSound, UsedOnce
  <2> QED BY <2>1, <2>3
<1>7. r.answer = "handle" => r.request.kind = "open"
  BY DEF HandleInv, OpenSound, QueueSound, UsedOnce
<1>8. CASE routes[r.id] = NoParty
  <2>1. UNCHANGED ready BY <1>8 DEF ReadReply, Orphan
  <2>2. orphans' = IF r.answer = "handle" THEN orphans \cup {owner} ELSE orphans
    BY <1>0, <1>8 DEF ReadReply, Orphan
  <2>3. \A e \in Party : e # owner => (Settled(e)' = Settled(e))
    BY <1>1, <2>2 DEF Settled
  <2>4. r.answer = "handle" => owner \in OneShot /\ ready[owner] = <<>> /\ xstate[owner] # "new"
                                /\ ~Settled(owner)
    BY <1>2, <1>5, <1>7 DEF HandleInv, OpenSound, QueueSound, UsedOnce
  <2>5. \A q \in Party : Settled(q)' /\ ~Settled(q) => q = owner /\ r.answer = "handle"
    BY <1>1, <2>2 DEF Settled
  <2>6. ASSUME NEW p \in Party PROVE QueueSound(p)'
    <3>1. CASE p = owner /\ r.answer = "handle"
      <4>1. ready'[p] = <<>> BY <2>1, <2>4, <3>1
      <4> QED BY <4>1 DEF QueueSound
    <3>2. CASE ~(p = owner /\ r.answer = "handle")
      <4>1. Settled(p)' => Settled(p) BY <2>5, <3>2
      <4> QED BY <2>1, <4>1 DEF HandleInv, QueueSound
    <3> QED BY <3>1, <3>2
  <2>7. ASSUME NEW id \in Id PROVE OpenSound(id)'
    <3> SUFFICES ASSUME IsOpen(pending'[id]) PROVE OpenSound(id)'
      BY DEF OpenSound
    <3>1. pending'[id] = pending[id] /\ pending[id].by # owner BY <1>6
    <3>2. pending[id].by \in OneShot /\ ~Settled(pending[id].by)
      BY <3>1 DEF HandleInv, OpenSound
    <3>3. pending[id].by \in Party BY <3>2 DEF Party, Exchange
    <3>4. ASSUME NEW q, q = pending[id].by PROVE q \in OneShot /\ ~Settled(q)'
      BY <2>3, <3>1, <3>2, <3>3, <3>4
    <3> QED BY <3>1, <3>4 DEF OpenSound
  <2>8. ASSUME NEW e \in OneShot
        PROVE  UsedOnce(e)'
    <3>1. e \in Party BY DEF Party, Exchange
    <3> QED BY <1>1, <1>3, <2>1, <2>4, <2>5, <3>1 DEF HandleInv, OpenSound, QueueSound, UsedOnce
  <2>9. ReaperSparesClaimed'
    <3>1. r.answer = "handle" => owner \notin claimed BY <2>4 DEF Settled
    <3> QED BY <1>1, <2>2, <3>1 DEF HandleInv, ReaperSparesClaimed
  <2> QED BY <1>1, <2>6, <2>7, <2>8, <2>9 DEF HandleInv
<1>9. CASE routes[r.id] # NoParty
  <2> DEFINE event == [request |-> pending[r.id], answer |-> r.answer, served |-> r.request]
  <2>1. routes[r.id] = owner BY <1>0, <1>1, <1>9 DEF RoutesAreLive
  <2>2. ready' = [ready EXCEPT ![owner] = Append(ready[owner], event)] /\ UNCHANGED orphans
    BY <1>9, <2>1 DEF ReadReply, Deliver
  <2>3. \A e : Settled(e)' = Settled(e) BY <1>1, <2>2 DEF Settled
  <2>4. event.answer = r.answer /\ event.request = r.request BY <1>1
  <2>5. ready[owner] \in Seq(Event) BY <1>2 DEF TypeOK
  <2>6. ready'[owner] = Append(ready[owner], event) /\ \A q \in Party \ {owner} : ready'[q] = ready[q]
    BY <1>2, <2>2 DEF TypeOK
  <2> HIDE DEF event
  <2>7. \A i \in DOMAIN ready'[owner] :
            ready'[owner][i] = event \/ (i \in DOMAIN ready[owner] /\ ready'[owner][i] = ready[owner][i])
    BY <2>5, <2>6
  <2>8. \A p \in Party : QueueSound(p)'
    <3> SUFFICES ASSUME NEW p \in Party, NEW i \in DOMAIN ready'[p]
                 PROVE  /\ ready'[p][i].answer = "handle" => ready'[p][i].request.kind = "open"
                        /\ ready'[p][i].request.kind = "open" => p \in OneShot /\ ~Settled(p)
      BY <2>3 DEF QueueSound
    <3>1. CASE p = owner /\ ready'[p][i] = event BY <1>5, <1>7, <2>4, <3>1
    <3>2. CASE i \in DOMAIN ready[p] /\ ready'[p][i] = ready[p][i]
      BY <3>2 DEF HandleInv, OpenSound, QueueSound, UsedOnce
    <3> QED BY <2>6, <2>7, <3>1, <3>2
  <2>9. \A id \in Id : OpenSound(id)'
    BY <1>6, <2>3 DEF HandleInv, OpenSound, QueueSound, UsedOnce
  <2>10. owner \in OneShot => ready[owner] = <<>> /\ xstate[owner] # "new"
    BY <1>2 DEF HandleInv, OpenSound, QueueSound, UsedOnce
  <2>11. owner \in OneShot => Len(ready'[owner]) = 1
    BY <2>6, <2>10
  <2>12. ASSUME NEW e \in OneShot
         PROVE  UsedOnce(e)'
    <3>1. e \in Party BY DEF Party, Exchange
    <3>2. CASE e = owner
      <4>1. Held(e)' = {} BY <1>1, <1>2, <1>3, <3>2 DEF HandleInv, UsedOnce
      <4>2. Len(ready'[e]) = 1 /\ xstate'[e] # "new" BY <1>1, <2>10, <2>11, <3>2
      <4> QED BY <4>1, <4>2 DEF UsedOnce
    <3>3. CASE e # owner
      BY <1>1, <1>3, <2>3, <2>6, <3>1, <3>3 DEF HandleInv, OpenSound, QueueSound, UsedOnce
    <3> QED BY <3>2, <3>3
  <2>13. ReaperSparesClaimed' BY <1>1, <2>2 DEF HandleInv, ReaperSparesClaimed
  <2> QED BY <1>1, <2>8, <2>9, <2>12, <2>13 DEF HandleInv
<1> QED BY <1>8, <1>9

\* The operation takes the handle: it was in the exchange's queue, so nobody else has it.
LEMMA ReceiveHandles ==
    ASSUME TypeOK, HandleInv, NEW e \in Exchange, Receive(e)
    PROVE  HandleInv'
<1>1. /\ e \in Party /\ ready[e] \in Seq(Event) /\ ready[e] # <<>>
      /\ claimed' = IF Head(ready[e]).answer = "handle" THEN claimed \cup {e} ELSE claimed
      /\ UNCHANGED <<pending, inbox, orphans, closeSubmitted>>
  BY DEF Receive, Party, TypeOK, codecVars, routerVars, peerVars
<1>2. 1 \in DOMAIN ready[e] /\ Head(ready[e]) = ready[e][1] BY <1>1
<1>3. Head(ready[e]).answer = "handle" => e \in OneShot /\ ~Settled(e)
  BY <1>1, <1>2 DEF HandleInv, OpenSound, QueueSound, UsedOnce
<1>4. e \in OneShot => Held(e) = {} /\ xstate[e] # "new"
  BY <1>1 DEF HandleInv, OpenSound, QueueSound, UsedOnce
<1>5. \A q : Settled(q)' /\ ~Settled(q) => q = e /\ e \in OneShot
  BY <1>1, <1>3 DEF Settled
<1>6. \A q \in OneShot : Held(q)' = Held(q) BY <1>1 DEF Held
<1>7. \A id \in Id : OpenSound(id)'
  <2> SUFFICES ASSUME NEW id \in Id, IsOpen(pending[id]) PROVE OpenSound(id)'
    BY <1>1 DEF OpenSound
  <2>1. pending[id].by \in OneShot /\ ~Settled(pending[id].by)
    BY DEF HandleInv, OpenSound
  <2>2. id \in Held(pending[id].by) BY DEF Held, IsOpen
  <2>3. ASSUME NEW q, q = pending[id].by PROVE q \in OneShot /\ ~Settled(q)'
    BY <1>4, <1>5, <2>1, <2>2, <2>3
  <2> QED BY <1>1, <2>3 DEF OpenSound
<1>8. ReaperSparesClaimed' BY <1>1, <1>3 DEF HandleInv, ReaperSparesClaimed, Settled
<1>9. CASE e \in OneShot
  <2>1. ready' = [ready EXCEPT ![e] = <<>>] /\ xstate' = [xstate EXCEPT ![e] = "retired"]
    BY <1>9, PartiesAssumption DEF Receive, Retire, Forget, Exchange
  <2>2. ready'[e] = <<>> /\ \A q \in Party \ {e} : ready'[q] = ready[q] BY <1>1, <2>1 DEF TypeOK
  <2>3. xstate'[e] = "retired" /\ \A q \in Party \ {e} : xstate'[q] = xstate[q]
    BY <1>1, <2>1 DEF TypeOK
  <2>4. DOMAIN <<>> = {} /\ Len(<<>>) = 0 OBVIOUS
  <2>5. \A p \in Party : QueueSound(p)'
    BY <1>5, <2>2, <2>4 DEF HandleInv, OpenSound, QueueSound, UsedOnce
  <2>6. ASSUME NEW q \in OneShot
        PROVE  UsedOnce(q)'
    <3>1. q \in Party BY DEF Party, Exchange
    <3>2. CASE q = e BY <1>4, <1>6, <2>2, <2>3, <2>4, <3>2 DEF UsedOnce
    <3>3. CASE q # e
      BY <1>5, <1>6, <2>2, <2>3, <3>1, <3>3 DEF HandleInv, OpenSound, QueueSound, UsedOnce
    <3> QED BY <3>2, <3>3
  <2> QED BY <1>1, <1>7, <1>8, <2>5, <2>6 DEF HandleInv
<1>10. CASE e \notin OneShot
  <2>1. ready' = [ready EXCEPT ![e] = Tail(ready[e])] /\ UNCHANGED xstate
    BY <1>10 DEF Receive
  <2>2. ready'[e] = Tail(ready[e]) /\ \A q \in Party \ {e} : ready'[q] = ready[q]
    BY <1>1, <2>1 DEF TypeOK
  <2>3. \A i \in DOMAIN ready'[e] : i + 1 \in DOMAIN ready[e] /\ ready'[e][i] = ready[e][i + 1]
    BY <1>1, <2>2
  <2>4. \A q : Settled(q)' = Settled(q) BY <1>1, <1>3, <1>10 DEF Settled
  <2>5. \A p \in Party : QueueSound(p)'
    <3>1. QueueSound(e)'
      BY <1>1, <2>3, <2>4 DEF HandleInv, OpenSound, QueueSound, UsedOnce
    <3>2. \A p \in Party \ {e} : QueueSound(p)'
      BY <2>2, <2>4 DEF HandleInv, OpenSound, QueueSound, UsedOnce
    <3> QED BY <3>1, <3>2
  <2>6. ASSUME NEW q \in OneShot
        PROVE  UsedOnce(q)'
    <3>1. q \in Party /\ q # e BY <1>10 DEF Party, Exchange
    <3> QED BY <1>6, <2>1, <2>2, <2>4, <3>1 DEF HandleInv, OpenSound, QueueSound, UsedOnce
  <2> QED BY <1>1, <1>7, <1>8, <2>5, <2>6 DEF HandleInv
<1> QED BY <1>9, <1>10

LEMMA AnswerHandles ==
    ASSUME TypeOK, HandleInv, NEW id \in Id, NEW answer \in Answer, PeerAnswers(id, answer)
    PROVE  HandleInv'
<1> USE DEF codecVars, routerVars, exchangeVars, history
<1>1. /\ inbox' = inbox \cup {[id |-> id, request |-> server[id], answer |-> answer]}
      /\ answer = "handle" => server[id].kind = "open"
      /\ UNCHANGED <<pending, ready, xstate, claimed, orphans, closeSubmitted>>
  BY DEF PeerAnswers
<1>2. \A r \in inbox' : r.answer = "handle" => r.request.kind = "open"
  BY <1>1 DEF HandleInv
<1>3. \A i \in Id : OpenSound(i)' BY <1>1 DEF HandleInv, OpenSound, Settled
<1>4. \A p \in Party : QueueSound(p)' BY <1>1 DEF HandleInv, QueueSound, Settled
<1>5. \A e \in OneShot : UsedOnce(e)' BY <1>1 DEF HandleInv, UsedOnce, Settled, Held
<1> QED BY <1>1, <1>2, <1>3, <1>4, <1>5 DEF HandleInv, ReaperSparesClaimed

LEMMA HandlesPreserved ==
    ASSUME IndInv, HandleInv, [Next]_vars
    PROVE  HandleInv'
<1> USE DEF IndInv, codecVars, routerVars, exchangeVars, writeVars, peerVars, taskVars, counters,
            history
<1>1. ASSUME NEW e \in OneShot, NEW kind \in {"open", "other"}, RoundTrip(e, kind)
      PROVE  HandleInv'
  <2>1. e \in Party /\ [by |-> e, kind |-> kind, handle |-> NoParty] \in Request
    BY DEF Exchange, Party, Request, Kind
  <2>2. \A o \in OneShot : xstate'[o] = "new" => xstate[o] = "new" /\ o # e
    BY <1>1 DEF RoundTrip, TypeOK, Party, Exchange
  <2>3. Submit(e, [by |-> e, kind |-> kind, handle |-> NoParty]) /\ xstate[e] = "new"
        /\ UNCHANGED <<ready, inbox, claimed, orphans, closeSubmitted>>
    BY <1>1 DEF RoundTrip
  <2> QED BY <2>1, <2>2, <2>3, SubmitHandles
<1>2. ASSUME NEW e \in Exchange, TransferSend(e) PROVE HandleInv'
  <2>1. e \in Party /\ [by |-> e, kind |-> "other", handle |-> NoParty] \in Request
    BY DEF Exchange, Party, Request, Kind
  <2>2. e \notin OneShot BY <1>2, PartiesAssumption DEF TransferSend
  <2>3. Submit(e, [by |-> e, kind |-> "other", handle |-> NoParty])
        /\ UNCHANGED <<xstate, ready, inbox, claimed, orphans, closeSubmitted>>
    BY <1>2 DEF TransferSend
  <2> QED BY <2>1, <2>2, <2>3, SubmitHandles
<1>3. ASSUME NEW h \in Exchange, ReapOrphan(h) PROVE HandleInv'
  <2>1. Reaper \in Party /\ [by |-> Reaper, kind |-> "close", handle |-> h] \in Request
    BY DEF Party, Request, Kind
  <2>2. Reaper \notin OneShot BY PartiesAssumption DEF Exchange
  <2>3. \A o \in OneShot : xstate'[o] = "new" => xstate[o] = "new"
    BY <1>3, <2>2 DEF ReapOrphan, TypeOK, Party, Exchange
  <2>4. orphans' \cup closeSubmitted' = orphans \cup closeSubmitted
    BY <1>3 DEF ReapOrphan
  <2>5. Submit(Reaper, [by |-> Reaper, kind |-> "close", handle |-> h])
        /\ UNCHANGED <<ready, inbox, claimed>>
    BY <1>3 DEF ReapOrphan
  <2> QED BY <2>1, <2>2, <2>3, <2>4, <2>5, SubmitHandles
<1>4. ASSUME NEW r \in inbox, ReadReply(r) PROVE HandleInv'
  BY <1>4, ReadReplyHandles
<1>5. ASSUME NEW e \in Exchange, Receive(e) PROVE HandleInv'
  BY <1>5, ReceiveHandles
<1>6. ASSUME NEW id \in Id, NEW answer \in Answer, PeerAnswers(id, answer) PROVE HandleInv'
  BY <1>6, AnswerHandles
<1>7. ASSUME NEW p \in Party, Retire(p), p \in Exchange => xstate'[p] = "retired",
             UNCHANGED <<pending, inbox, claimed, orphans, closeSubmitted>>
      PROVE  HandleInv'
  <2>1. \A q \in Party : ready'[q] \in {ready[q], <<>>}
    BY <1>7 DEF Retire, Forget, TypeOK
  <2>2. \A e \in OneShot : xstate'[e] = "new" => xstate[e] = "new"
    BY <1>7, PartiesAssumption DEF Retire, Forget, TypeOK, Party, Exchange
  <2> QED BY <1>7, <2>1, <2>2, QuietHandles
<1>8. ASSUME NEW e \in Exchange, Refused(e) \/ RaiseFailure(e) \/ Unwind(e) \/ Finish(e)
      PROVE  HandleInv'
  <2>1. Retire(e) /\ UNCHANGED <<pending, inbox, claimed, orphans, closeSubmitted>>
    BY <1>8 DEF Refused, RaiseFailure, Unwind, Finish
  <2>2. xstate'[e] = "retired"
    BY <2>1, PartiesAssumption DEF Retire, Forget, TypeOK, Party
  <2> QED BY <1>7, <2>1, <2>2 DEF Party
<1>9. ASSUME NEW p \in Party, WriteFails(p) PROVE HandleInv'
  <2>1. Retire(p) /\ UNCHANGED <<pending, inbox, claimed, orphans, closeSubmitted>>
    BY <1>9 DEF WriteFails
  <2>2. p \in Exchange => xstate'[p] = "retired"
    BY <2>1, PartiesAssumption DEF Retire, Forget, TypeOK, Party
  <2> QED BY <1>7, <2>1, <2>2
<1>10. CASE ReaperReturns \/ CloseDispatcher
  <2>1. Retire(Reaper) /\ UNCHANGED <<pending, inbox, claimed, orphans, closeSubmitted>>
    BY <1>10 DEF ReaperReturns, CloseDispatcher
  <2> QED BY <1>7, <2>1, PartiesAssumption DEF Party
<1>11. ASSUME NEW p \in Party, SendDeadline(p) PROVE HandleInv'
  <2>1. \A q \in Party : ready'[q] \in {ready[q], <<>>}
    BY <1>11 DEF SendDeadline, TypeOK
  <2>2. \A e \in OneShot : xstate'[e] = "new" => xstate[e] = "new"
    BY <1>11, PartiesAssumption DEF SendDeadline, TypeOK, Party, Exchange
  <2>3. UNCHANGED <<pending, inbox, claimed, orphans, closeSubmitted>>
    BY <1>11 DEF SendDeadline
  <2> QED BY <2>1, <2>2, <2>3, QuietHandles
<1>12. ASSUME NEW e \in Exchange, OpenTransfer(e) PROVE HandleInv'
  <2>1. \A o \in OneShot : xstate'[o] = "new" => xstate[o] = "new"
    BY <1>12 DEF OpenTransfer, TypeOK, Party, Exchange
  <2>2. UNCHANGED <<pending, ready, inbox, claimed, orphans, closeSubmitted>>
    BY <1>12 DEF OpenTransfer
  <2> QED BY <2>1, <2>2, QuietHandles
<1>13. ASSUME NEW before \in SUBSET inbox, ReadBadFrame(before) PROVE HandleInv'
  <2>1. /\ \A id \in Id : pending'[id] \in {pending[id], NoRequest}
        /\ inbox' \subseteq inbox
        /\ UNCHANGED <<ready, xstate, claimed, orphans, closeSubmitted>>
    BY <1>13 DEF ReadBadFrame
  <2> QED BY <2>1, QuietHandles
<1>14. ASSUME NEW h \in Exchange, ReapRefused(h) PROVE HandleInv'
  <2>1. /\ orphans' \cup closeSubmitted' \subseteq orphans \cup closeSubmitted
        /\ UNCHANGED <<pending, ready, xstate, inbox, claimed>>
    BY <1>14 DEF ReapRefused
  <2> QED BY <2>1, QuietHandles
<1>15. ASSUME UNCHANGED <<pending, ready, xstate, inbox, claimed, orphans, closeSubmitted>>
       PROVE  HandleInv'
  BY <1>15, QuietHandles
<1>16. ASSUME NEW p \in Party, WriteDone(p) PROVE HandleInv'
  BY <1>15, <1>16 DEF WriteDone
<1>17. CASE \/ StartReader \/ ReadEOF \/ StartReaper \/ ReaperSleeps \/ ReaperWakes \/ LinkDrops
            \/ UNCHANGED vars
  BY <1>15, <1>17
  DEF StartReader, ReadEOF, StartReaper, ReaperSleeps, ReaperWakes, LinkDrops, vars
<1> QED
  BY <1>1, <1>2, <1>3, <1>4, <1>5, <1>6, <1>8, <1>9, <1>10, <1>11, <1>12, <1>13, <1>14, <1>16,
     <1>17
  DEF Next, RequestDeadline, Cancel, Exchange

LEMMA HandlesInductive == Spec => []HandleInv
<1>1. Init => HandleInv
  <2> SUFFICES ASSUME Init PROVE HandleInv
    OBVIOUS
  <2>1. DOMAIN <<>> = {} /\ Len(<<>>) = 0 OBVIOUS
  <2>2. \A p \in OneShot : p \in Party BY DEF Party, Exchange
  <2>3. \A p \in Party : Held(p) = {} /\ ~Settled(p) BY DEF Init, Held, Settled
  <2> QED
    BY <2>1, <2>2, <2>3
    DEF Init, HandleInv, OpenSound, IsOpen, QueueSound, UsedOnce, ReaperSparesClaimed
<1>2. IndInv /\ HandleInv /\ [Next]_vars => HandleInv' BY HandlesPreserved
<1> QED BY IndInvInductive, <1>1, <1>2, PTL DEF Spec

-------------------------------------------------------------------------------
(* There is always a request id for a CLOSE. *)

\* What one party has in flight while the connection is healthy: a transfer no more than its
\* window, and the reaper one CLOSE, which is answered before it goes on.
WindowsHold ==
    Healthy =>
        /\ \A e \in Transfer :
              /\ Cardinality(Held(e)) <= Depth
              /\ xstate[e] = "new" => Held(e) = {}
              /\ xstate[e] = "open" => Held(e) \subseteq ids[e]
        /\ \A i, j \in Held(Reaper) : i = j
        /\ Held(Reaper) # {} => ready[Reaper] = <<>> /\ reaper = "sending"
        /\ reaper # "sending" => ready[Reaper] = <<>>

\* Ids enough that the windows of all the exchanges there will be do not exhaust them; the
\* code's counter is 32 bits wide.
IdsSuffice == IsFiniteSet(Party) /\ Cardinality(Party) * Depth < MaxId

LEMMA IdsAreFinite ==
    ASSUME NEW S \in SUBSET Id
    PROVE  IsFiniteSet(S) /\ Cardinality(S) \in Nat
<1>1. IsFiniteSet(1 .. MaxId) BY FS_Interval, BoundsAssumption
<1>2. IsFiniteSet(S) BY <1>1, FS_Subset DEF Id
<1> QED BY <1>2, FS_CardinalityType

\* Health is not regained.
LEMMA HealthyBefore ==
    ASSUME IndInv, [Next]_vars, Healthy'
    PROVE  Healthy
<1> USE DEF codecVars, routerVars, exchangeVars, writeVars, peerVars, taskVars, counters, history
<1>1. failure # "none" => failure' # "none"
  BY DEF Next, vars, RequestDeadline, Cancel, RoundTrip, OpenTransfer, TransferSend, Refused,
         Receive, RaiseFailure, Finish, Unwind, WriteDone, WriteFails, SendDeadline, StartReader,
         ReadEOF, ReadReply, ReadBadFrame, StartReaper, ReaperReturns, ReaperSleeps, ReaperWakes,
         ReapOrphan, ReapRefused, CloseDispatcher, PeerAnswers, LinkDrops, Fail
<1>2. closed => closed'
  BY DEF Next, vars, RequestDeadline, Cancel, RoundTrip, OpenTransfer, TransferSend, Refused,
         Receive, RaiseFailure, Finish, Unwind, WriteDone, WriteFails, SendDeadline, StartReader,
         ReadEOF, ReadReply, ReadBadFrame, StartReaper, ReaperReturns, ReaperSleeps, ReaperWakes,
         ReapOrphan, ReapRefused, CloseDispatcher, PeerAnswers, LinkDrops
<1>3. link # "up" => link' # "up"
  BY DEF Next, vars, RequestDeadline, Cancel, RoundTrip, OpenTransfer, TransferSend, Refused,
         Receive, RaiseFailure, Finish, Unwind, WriteDone, WriteFails, SendDeadline, StartReader,
         ReadEOF, ReadReply, ReadBadFrame, StartReaper, ReaperReturns, ReaperSleeps, ReaperWakes,
         ReapOrphan, ReapRefused, CloseDispatcher, PeerAnswers, LinkDrops
<1> QED BY <1>1, <1>2, <1>3 DEF Healthy

\* Ending an exchange leaves what it has in flight to its replies.
LEMMA RetireWindows ==
    ASSUME TypeOK, WindowsHold, Healthy, NEW e \in Exchange, Retire(e), UNCHANGED <<pending, reaper>>
    PROVE  WindowsHold'
<1>1. \A p : Held(p)' = Held(p) BY DEF Held
<1>2. e \in Party /\ e # Reaper /\ Reaper \in Party /\ \A q \in Transfer : q \in Party
  BY PartiesAssumption DEF Party, Exchange
<1>3. xstate'[e] = "retired" /\ \A q \in Party \ {e} :
          xstate'[q] = xstate[q] /\ ids'[q] = ids[q] /\ ready'[q] = ready[q]
  BY <1>2 DEF Retire, Forget, TypeOK
<1>4. \A q \in Transfer :
          /\ Cardinality(Held(q)') <= Depth
          /\ xstate'[q] = "new" => Held(q)' = {}
          /\ xstate'[q] = "open" => Held(q)' \subseteq ids'[q]
  BY <1>1, <1>2, <1>3 DEF WindowsHold
<1> QED BY <1>1, <1>2, <1>3, <1>4 DEF WindowsHold

LEMMA SubmitHeld ==
    ASSUME TypeOK, NEW p \in Party, NEW request \in Request, request.by = p, Submit(p, request)
    PROVE  /\ \A q : q # p => Held(q)' = Held(q)
           /\ \A q \in Party \ {p} : ids'[q] = ids[q]
           /\ \E id \in Id : Held(p)' = Held(p) \cup {id} /\ ids'[p] = ids[p] \cup {id}
<1>1. PICK id \in Id : /\ id \in Free /\ pending' = [pending EXCEPT ![id] = request]
                       /\ ids' = [ids EXCEPT ![p] = @ \cup {id}]
  BY DEF Submit, Allocates
<1>2. request # NoRequest BY PartiesAssumption
<1>3. \A q : q # p => Held(q)' = Held(q)
  BY <1>1, PartiesAssumption DEF Held, Free, Outstanding, TypeOK
<1>4. Held(p)' = Held(p) \cup {id}
  BY <1>1, <1>2, PartiesAssumption DEF Held, Free, Outstanding, TypeOK
<1>5. ids'[p] = ids[p] \cup {id} /\ \A q \in Party \ {p} : ids'[q] = ids[q]
  BY <1>1 DEF TypeOK
<1> QED BY <1>3, <1>4, <1>5

LEMMA ReadReplyWindows ==
    ASSUME IndInv, WindowsHold, Healthy, NEW r \in inbox, ReadReply(r)
    PROVE  WindowsHold'
<1> USE DEF IndInv
<1>0. PICK owner : owner = r.request.by OBVIOUS
<1>1. /\ r.id \in Id /\ pending[r.id] = r.request /\ r.request \in Request
      /\ pending' = [pending EXCEPT ![r.id] = NoRequest]
      /\ UNCHANGED <<xstate, reaper>>
  BY DEF ReadReply, TypeOK, Reply, IdsAreUnambiguous, taskVars
<1>2. owner \in Party /\ r.id \in Held(owner)
  BY <1>0, <1>1, PartiesAssumption DEF Request, Held
<1>3. \A q : Held(q)' = Held(q) \ {r.id} BY <1>1 DEF Held, TypeOK
<1>4. Reaper \in Party /\ \A q \in Transfer : q \in Party BY DEF Party, Exchange
<1>5. \A q \in Party : ids[q] \ {r.id} \subseteq ids'[q]
  <2>1. CASE routes[r.id] = NoParty BY <2>1 DEF ReadReply, Orphan
  <2>2. CASE routes[r.id] # NoParty
    <3>1. ids' = [ids EXCEPT ![routes[r.id]] = @ \ {r.id}] BY <2>2 DEF ReadReply, Deliver
    <3> QED BY <3>1 DEF TypeOK
  <2> QED BY <2>1, <2>2
<1>6. \A q \in Party : q # owner => ready'[q] = ready[q]
  <2>1. CASE routes[r.id] = NoParty BY <2>1 DEF ReadReply, Orphan
  <2>2. CASE routes[r.id] # NoParty
    <3>1. routes[r.id] = owner BY <1>0, <1>1, <2>2 DEF RoutesAreLive
    <3> QED BY <2>2, <3>1 DEF ReadReply, Deliver, TypeOK
  <2> QED BY <2>1, <2>2
<1>7. ASSUME NEW q \in Transfer
      PROVE  /\ Cardinality(Held(q)') <= Depth
             /\ xstate'[q] = "new" => Held(q)' = {}
             /\ xstate'[q] = "open" => Held(q)' \subseteq ids'[q]
  <2>1. Held(q) \in SUBSET Id BY DEF Held
  <2>2. IsFiniteSet(Held(q)) /\ Cardinality(Held(q)) \in Nat BY <2>1, IdsAreFinite
  <2>3. Held(q)' \in SUBSET Held(q) BY <1>3
  <2>4. Cardinality(Held(q)') <= Cardinality(Held(q)) BY <2>2, <2>3, FS_Subset
  <2>5. Cardinality(Held(q)') \in Nat BY <2>1, <2>3, IdsAreFinite
  <2>6. Cardinality(Held(q)) <= Depth BY DEF WindowsHold
  <2>7. Cardinality(Held(q)') <= Depth BY <2>2, <2>4, <2>5, <2>6, BoundsAssumption
  <2> QED BY <1>1, <1>3, <1>4, <1>5, <2>7 DEF WindowsHold
<1>8. /\ \A i, j \in Held(Reaper)' : i = j
      /\ Held(Reaper)' # {} => ready'[Reaper] = <<>> /\ reaper' = "sending"
      /\ reaper' # "sending" => ready'[Reaper] = <<>>
  <2>1. CASE owner = Reaper
    <3>1. Held(Reaper)' = {} /\ reaper = "sending" BY <1>2, <1>3, <2>1 DEF WindowsHold
    <3> QED BY <1>1, <3>1
  <2>2. CASE owner # Reaper BY <1>1, <1>3, <1>4, <1>6, <2>2 DEF WindowsHold
  <2> QED BY <2>1, <2>2
<1> QED BY <1>7, <1>8 DEF WindowsHold

LEMMA WindowsPreserved ==
    ASSUME IndInv, WaitInv, WindowsHold, [Next]_vars
    PROVE  WindowsHold'
<1> USE DEF IndInv, codecVars, routerVars, exchangeVars, writeVars, peerVars, taskVars, counters,
            history
<1> SUFFICES ASSUME Healthy' PROVE WindowsHold'
  BY DEF WindowsHold
<1>0. Healthy /\ Reaper \in Party /\ (\A q \in Transfer : q \in Party /\ q # Reaper)
      /\ (\A q \in Exchange : q \in Party /\ q # Reaper)
  BY HealthyBefore, PartiesAssumption DEF Party, Exchange
<1>1. ASSUME NEW e \in OneShot, NEW kind \in {"open", "other"}, RoundTrip(e, kind)
      PROVE  WindowsHold'
  <2>1. e \in Party /\ [by |-> e, kind |-> kind, handle |-> NoParty] \in Request
        /\ e # Reaper /\ e \notin Transfer
    BY PartiesAssumption DEF Exchange, Party, Request, Kind
  <2>2. Submit(e, [by |-> e, kind |-> kind, handle |-> NoParty]) BY <1>1 DEF RoundTrip
  <2>3. /\ \A q : q # e => Held(q)' = Held(q)
        /\ \A q \in Party \ {e} : ids'[q] = ids[q]
    BY <2>1, <2>2, SubmitHeld
  <2>4. UNCHANGED <<ready, reaper>> /\ \A q \in Party \ {e} : xstate'[q] = xstate[q]
    BY <1>1 DEF RoundTrip, TypeOK
  <2>5. \A q \in Transfer : q # e /\ q \in Party BY <1>0, <2>1
  <2> QED BY <1>0, <2>1, <2>3, <2>4, <2>5 DEF WindowsHold
<1>2. ASSUME NEW e \in Exchange, TransferSend(e) PROVE WindowsHold'
  <2>1. e \in Party /\ [by |-> e, kind |-> "other", handle |-> NoParty] \in Request
    BY DEF Exchange, Party, Request, Kind
  <2>2. /\ Submit(e, [by |-> e, kind |-> "other", handle |-> NoParty])
        /\ e \in Transfer /\ xstate[e] = "open" /\ Cardinality(ids[e]) < Depth
        /\ UNCHANGED <<xstate, ready, reaper>>
    BY <1>2 DEF TransferSend
  <2>3. \A q : q # e => Held(q)' = Held(q) BY <2>1, <2>2, SubmitHeld
  <2>4. \A q \in Party \ {e} : ids'[q] = ids[q] BY <2>1, <2>2, SubmitHeld
  <2>5. PICK id \in Id : Held(e)' = Held(e) \cup {id} /\ ids'[e] = ids[e] \cup {id}
    BY <2>1, <2>2, SubmitHeld
  <2>6. Held(e) \subseteq ids[e] BY <1>0, <2>2 DEF WindowsHold
  <2>7. ids[e] \in SUBSET Id BY <2>1 DEF TypeOK
  <2>8. IsFiniteSet(ids[e]) /\ Cardinality(ids[e]) \in Nat BY <2>7, IdsAreFinite
  <2>9. /\ IsFiniteSet(ids[e] \cup {id})
        /\ Cardinality(ids[e] \cup {id}) <= Cardinality(ids[e]) + 1
    <3>1. IsFiniteSet(ids[e]) BY <2>8
    <3>2. Cardinality(ids[e] \cup {id})
            = IF id \in ids[e] THEN Cardinality(ids[e]) ELSE Cardinality(ids[e]) + 1
      BY <3>1, FS_AddElement
    <3>3. IsFiniteSet(ids[e] \cup {id}) BY <3>1, FS_AddElement
    <3> QED BY <2>8, <3>2, <3>3
  <2>10. Held(e) \cup {id} \in SUBSET (ids[e] \cup {id}) BY <2>6
  <2>11. Cardinality(Held(e) \cup {id}) <= Cardinality(ids[e] \cup {id})
    BY <2>9, <2>10, FS_Subset
  <2>12. Cardinality(Held(e) \cup {id}) \in Nat /\ Cardinality(ids[e] \cup {id}) \in Nat
    BY <2>6, <2>7, IdsAreFinite
  <2>13. Cardinality(Held(e)') <= Depth
    BY <2>2, <2>5, <2>8, <2>9, <2>11, <2>12, BoundsAssumption
  <2>14. ASSUME NEW q \in Transfer
         PROVE  /\ Cardinality(Held(q)') <= Depth
                /\ xstate'[q] = "new" => Held(q)' = {}
                /\ xstate'[q] = "open" => Held(q)' \subseteq ids'[q]
    <3>1. CASE q = e
      <4>1. Held(q)' = Held(e)' BY <3>1 DEF Held
      <4> QED BY <2>2, <2>5, <2>6, <2>13, <3>1, <4>1
    <3>2. CASE q # e BY <1>0, <2>2, <2>3, <2>4, <3>2 DEF WindowsHold
    <3> QED BY <3>1, <3>2
  <2> QED BY <1>0, <2>2, <2>3, <2>14 DEF WindowsHold
<1>3. ASSUME NEW h \in Exchange, ReapOrphan(h) PROVE WindowsHold'
  <2>1. Reaper \in Party /\ [by |-> Reaper, kind |-> "close", handle |-> h] \in Request
    BY DEF Party, Request, Kind
  <2>2. /\ Submit(Reaper, [by |-> Reaper, kind |-> "close", handle |-> h])
        /\ reaper = "drain" /\ reaper' = "sending" /\ UNCHANGED ready
        /\ \A q \in Party \ {Reaper} : xstate'[q] = xstate[q]
    BY <1>3 DEF ReapOrphan, TypeOK
  <2>3. \A q : q # Reaper => Held(q)' = Held(q) BY <2>1, <2>2, SubmitHeld
  <2>4. \A q \in Party \ {Reaper} : ids'[q] = ids[q] BY <2>1, <2>2, SubmitHeld
  <2>5. \E id \in Id : Held(Reaper)' = Held(Reaper) \cup {id} BY <2>1, <2>2, SubmitHeld
  <2>6. Held(Reaper) = {} /\ ready[Reaper] = <<>> BY <1>0, <2>2 DEF WindowsHold
  <2> QED BY <1>0, <2>2, <2>3, <2>4, <2>5, <2>6 DEF WindowsHold
<1>4. ASSUME NEW r \in inbox, ReadReply(r) PROVE WindowsHold'
  BY <1>0, <1>4, ReadReplyWindows
<1>5. ASSUME NEW e \in Exchange, Refused(e) \/ RaiseFailure(e) \/ Unwind(e) \/ Finish(e)
      PROVE  WindowsHold'
  <2>1. Retire(e) /\ UNCHANGED <<pending, reaper>>
    BY <1>5 DEF Refused, RaiseFailure, Unwind, Finish
  <2> QED BY <1>0, <2>1, RetireWindows
<1>6. ASSUME NEW e \in Exchange, Receive(e) PROVE WindowsHold'
  <2>1. UNCHANGED <<pending, reaper>> BY <1>6 DEF Receive
  <2>2. CASE e \in OneShot BY <1>0, <1>6, <2>1, <2>2, RetireWindows DEF Receive
  <2>3. CASE e \notin OneShot
    <3>1. UNCHANGED <<xstate, ids>> /\ ready' = [ready EXCEPT ![e] = Tail(@)]
      BY <1>6, <2>3 DEF Receive
    <3>2. ready'[Reaper] = ready[Reaper] BY <1>0, <3>1 DEF TypeOK
    <3>3. \A q : Held(q)' = Held(q) BY <2>1 DEF Held
    <3> QED BY <1>0, <2>1, <3>1, <3>2, <3>3 DEF WindowsHold
  <2> QED BY <2>2, <2>3
<1>7. ASSUME NEW e \in Exchange, OpenTransfer(e) PROVE WindowsHold'
  <2>1. /\ xstate[e] = "new" /\ \A q \in Party : q # e => xstate'[q] = xstate[q]
        /\ UNCHANGED <<ids, ready, reaper>>
    BY <1>7 DEF OpenTransfer, TypeOK
  <2>2. \A q : Held(q)' = Held(q) BY <1>7 DEF OpenTransfer, Held
  <2>3. e \in Transfer => Held(e) = {} BY <1>0, <2>1 DEF WindowsHold
  <2> QED BY <1>0, <2>1, <2>2, <2>3 DEF WindowsHold
<1>8. CASE ReaperReturns
  <2>1. /\ reaper = "sending" /\ reaper' = "drain" /\ UNCHANGED pending
        /\ ready[Reaper] # <<>> \/ xfail[Reaper] # "none"
        /\ Retire(Reaper)
    BY <1>8 DEF ReaperReturns
  <2>2. /\ ready'[Reaper] = <<>>
        /\ \A q \in Party \ {Reaper} : xstate'[q] = xstate[q] /\ ids'[q] = ids[q]
    BY <1>0, <1>8 DEF ReaperReturns, Retire, Forget, TypeOK
  <2>3. xfail[Reaper] = "none" BY <1>0 DEF WaitInv, Healthy
  <2>4. Held(Reaper) = {} BY <1>0, <2>1, <2>3 DEF WindowsHold
  <2>5. \A q : Held(q)' = Held(q) BY <2>1 DEF Held
  <2> QED BY <1>0, <2>1, <2>2, <2>4, <2>5 DEF WindowsHold
<1>9. CASE StartReaper \/ ReaperSleeps \/ ReaperWakes
  <2>1. reaper # "sending" /\ reaper' # "sending" /\ UNCHANGED <<pending, xstate, ids, ready>>
    BY <1>9 DEF StartReaper, ReaperSleeps, ReaperWakes
  <2>2. \A q : Held(q)' = Held(q) BY <2>1 DEF Held
  <2> QED BY <1>0, <2>1, <2>2 DEF WindowsHold
<1>10. ASSUME UNCHANGED <<pending, xstate, ids, ready, reaper>> PROVE WindowsHold'
  <2>1. \A q : Held(q)' = Held(q) BY <1>10 DEF Held
  <2> QED BY <1>0, <1>10, <2>1 DEF WindowsHold
<1>11. ASSUME NEW p \in Party, WriteDone(p) PROVE WindowsHold'
  BY <1>10, <1>11 DEF WriteDone
<1>12. ASSUME NEW p \in Party, WriteFails(p) \/ SendDeadline(p) PROVE WindowsHold'
  BY <1>12 DEF WriteFails, SendDeadline, Fail, Healthy
<1>13. ASSUME NEW before \in SUBSET inbox, ReadBadFrame(before) PROVE WindowsHold'
  BY <1>13 DEF ReadBadFrame, Fail, Healthy
<1>14. CASE ReadEOF \/ CloseDispatcher \/ LinkDrops
  BY <1>14 DEF ReadEOF, CloseDispatcher, LinkDrops, Fail, Healthy
<1>15. ASSUME NEW h \in Exchange, ReapRefused(h) PROVE WindowsHold'
  BY <1>10, <1>15 DEF ReapRefused
<1>16. ASSUME NEW id \in Id, NEW answer \in Answer, PeerAnswers(id, answer) PROVE WindowsHold'
  BY <1>10, <1>16 DEF PeerAnswers
<1>17. CASE StartReader \/ UNCHANGED vars
  BY <1>10, <1>17 DEF StartReader, vars
<1> QED
  BY <1>1, <1>2, <1>3, <1>4, <1>5, <1>6, <1>7, <1>8, <1>9, <1>11, <1>12, <1>13, <1>14, <1>15,
     <1>16, <1>17
  DEF Next, RequestDeadline, Cancel, Exchange

LEMMA WindowsInductive == Spec => []WindowsHold
<1>1. Init => WindowsHold
  <2> SUFFICES ASSUME Init PROVE WindowsHold
    OBVIOUS
  <2>1. \A p : Held(p) = {} BY DEF Init, Held
  <2>2. Cardinality({}) = 0 BY FS_EmptySet
  <2>3. Reaper \in Party BY DEF Party
  <2>4. \A e \in Transfer : Cardinality(Held(e)) <= Depth BY <2>1, <2>2, BoundsAssumption
  <2>5. \A e \in Transfer : Held(e) \subseteq ids[e] BY <2>1
  <2>6. ready[Reaper] = <<>> BY <2>3 DEF Init
  <2> QED BY <2>1, <2>4, <2>5, <2>6 DEF WindowsHold
<1>2. IndInv /\ WaitInv /\ WindowsHold /\ [Next]_vars => WindowsHold' BY WindowsPreserved
<1> QED BY IndInvInductive, WaitInductive, <1>1, <1>2, PTL DEF Spec

\* What a party has in flight fits one window.
LEMMA HeldFits ==
    ASSUME HandleInv, WindowsHold, Healthy, NEW p \in Party
    PROVE  Cardinality(Held(p)) <= Depth
<1>1. CASE p \in Transfer BY <1>1 DEF WindowsHold
<1>2. CASE p \notin Transfer
  <2>1. \A i, j \in Held(p) : i = j
    BY <1>2 DEF HandleInv, UsedOnce, WindowsHold, Party, Exchange
  <2>2. Held(p) = {} \/ \E i : Held(p) = {i} BY <2>1
  <2>3. CASE Held(p) = {} BY <2>3, FS_EmptySet, BoundsAssumption
  <2>4. CASE \E i : Held(p) = {i}
    <3>1. Cardinality(Held(p)) = 1 BY <2>4, FS_Singleton
    <3> QED BY <3>1, BoundsAssumption
  <2> QED BY <2>2, <2>3, <2>4
<1> QED BY <1>1, <1>2

\* An id in flight is one of at most Depth of its party: more ids than places leave one free.
LEMMA IdsRemain ==
    ASSUME IndInv, HandleInv, WindowsHold, Healthy, IdsSuffice
    PROVE  Free # {}
<1> SUFFICES ASSUME Free = {} PROVE FALSE
  OBVIOUS
<1> DEFINE Below(p, i) == {j \in Held(p) : j <= i}
           place == [i \in Id |-> <<pending[i].by, Cardinality(Below(pending[i].by, i))>>]
<1>1. \A i \in Id : pending[i].by \in Party /\ i \in Held(pending[i].by)
  BY PartiesAssumption DEF Free, Outstanding, Held, IndInv, TypeOK, Request
<1>2. ASSUME NEW p \in Party, NEW i \in Held(p)
      PROVE  IsFiniteSet(Below(p, i)) /\ Cardinality(Below(p, i)) \in 1 .. Depth
  <2>1. Held(p) \in SUBSET Id /\ Below(p, i) \in SUBSET Id /\ Below(p, i) \in SUBSET Held(p)
    BY DEF Held
  <2>2. IsFiniteSet(Held(p)) /\ Cardinality(Held(p)) \in Nat BY <2>1, IdsAreFinite
  <2>3. IsFiniteSet(Below(p, i)) /\ Cardinality(Below(p, i)) \in Nat BY <2>1, IdsAreFinite
  <2>4. Cardinality(Below(p, i)) <= Cardinality(Held(p)) BY <2>1, <2>2, FS_Subset
  <2>5. Cardinality(Held(p)) <= Depth BY HeldFits
  <2>6. i \in Below(p, i) BY DEF Held, Id
  <2>7. Cardinality(Below(p, i)) # 0 BY <2>3, <2>6, FS_EmptySet
  <2> QED BY <2>2, <2>3, <2>4, <2>5, <2>7, BoundsAssumption
<1>3. place \in [Id -> Party \X (1 .. Depth)]
  <2>1. \A i \in Id : Cardinality(Below(pending[i].by, i)) \in 1 .. Depth BY <1>1, <1>2
  <2> QED BY <1>1, <2>1
<1>4. IsFiniteSet(Id) /\ Cardinality(Id) = MaxId
  <2>1. 1 \in Int /\ MaxId \in Int /\ MaxId >= 1 BY BoundsAssumption
  <2>2. IsFiniteSet(1 .. MaxId) BY <2>1, FS_Interval
  <2>3. Cardinality(1 .. MaxId) = IF 1 > MaxId THEN 0 ELSE MaxId - 1 + 1 BY <2>1, FS_Interval
  <2> QED BY <2>1, <2>2, <2>3 DEF Id
<1>5. IsFiniteSet(1 .. Depth) /\ Cardinality(1 .. Depth) = Depth
  <2>1. 1 \in Int /\ Depth \in Int /\ Depth >= 1 BY BoundsAssumption
  <2>2. IsFiniteSet(1 .. Depth) BY <2>1, FS_Interval
  <2>3. Cardinality(1 .. Depth) = IF 1 > Depth THEN 0 ELSE Depth - 1 + 1 BY <2>1, FS_Interval
  <2> QED BY <2>1, <2>2, <2>3
<1>6. /\ IsFiniteSet(Party \X (1 .. Depth))
      /\ Cardinality(Party \X (1 .. Depth)) < Cardinality(Id)
  <2>1. IsFiniteSet(Party \X (1 .. Depth)) BY <1>5, FS_Product DEF IdsSuffice
  <2>2. Cardinality(Party \X (1 .. Depth)) = Cardinality(Party) * Cardinality(1 .. Depth)
    BY <1>5, FS_Product DEF IdsSuffice
  <2> QED BY <1>4, <1>5, <2>1, <2>2 DEF IdsSuffice
<1>7. PICK x, y \in Id : x # y /\ place[x] = place[y]
  <2> HIDE DEF place
  <2> QED BY <1>3, <1>4, <1>6, FS_PigeonHole
<1>8. ASSUME NEW i \in Id, NEW j \in Id, i < j, place[i] = place[j] PROVE FALSE
  <2>1. PICK p \in Party : p = pending[i].by /\ p = pending[j].by /\ i \in Held(p) /\ j \in Held(p)
    BY <1>1, <1>8
  <2>2. Cardinality(Below(p, i)) = Cardinality(Below(p, j)) BY <1>8, <2>1
  <2>3. Below(p, i) \in SUBSET Below(p, j) BY <1>8 DEF Held, Id
  <2>4. IsFiniteSet(Below(p, j)) BY <1>2, <2>1
  <2>5. Below(p, i) = Below(p, j) BY <2>2, <2>3, <2>4, FS_Subset
  <2>6. j \in Below(p, j) /\ j \notin Below(p, i) BY <1>8, <2>1 DEF Id
  <2> QED BY <2>5, <2>6
<1>9. x < y \/ y < x BY <1>7 DEF Id
<1> QED BY <1>7, <1>8, <1>9

-------------------------------------------------------------------------------
(* No handle is lost. *)

\* A step that takes no handle from where it is.
LEMMA HandlesStay ==
    ASSUME TypeOK, HandleInv, Healthy, HandlesAccounted,
           handles' \subseteq handles, inbox \subseteq inbox',
           \A p \in Party : ready'[p] = ready[p] \/ ready[p] = <<>> \/ p \notin OneShot,
           claimed \subseteq claimed', orphans \cup closeSubmitted \subseteq orphans' \cup closeSubmitted'
    PROVE  HandlesAccounted'
<1> SUFFICES ASSUME NEW h \in handles'
             PROVE  \/ \E r \in inbox' : Carries(h, r)
                    \/ \E i \in DOMAIN ready'[h] : Carries(h, ready'[h][i])
                    \/ h \in claimed' \cup orphans' \cup closeSubmitted'
  BY DEF HandlesAccounted, Carries
<1>1. h \in handles /\ h \in Party BY DEF TypeOK
<1>2. CASE \E r \in inbox : Carries(h, r) BY <1>2
<1>3. CASE \E i \in DOMAIN ready[h] : Carries(h, ready[h][i])
  <2>1. h \in OneShot /\ ready[h] # <<>> BY <1>1, <1>3 DEF HandleInv, QueueSound, Carries
  <2>2. ready'[h] = ready[h] BY <1>1, <2>1
  <2> QED BY <1>3, <2>2
<1>4. CASE h \in claimed \cup orphans \cup closeSubmitted BY <1>4
<1> QED BY <1>1, <1>2, <1>3, <1>4 DEF HandlesAccounted

LEMMA AccountedPreserved ==
    ASSUME IdsSuffice, IndInv, WaitInv, HandleInv, WindowsHold, HandlesAccounted, [Next]_vars
    PROVE  HandlesAccounted'
<1> USE DEF IndInv, codecVars, routerVars, exchangeVars, writeVars, peerVars, taskVars, counters,
            history
<1> SUFFICES ASSUME Healthy' PROVE HandlesAccounted'
  BY DEF HandlesAccounted
<1>0. Healthy BY HealthyBefore
<1>1. ASSUME NEW r \in inbox, ReadReply(r) PROVE HandlesAccounted'
  <2>0. PICK owner : owner = r.request.by OBVIOUS
  <2>1. /\ r.id \in Id /\ pending[r.id] = r.request /\ inbox' = inbox \ {r}
        /\ UNCHANGED <<handles, claimed, closeSubmitted>>
    BY <1>1 DEF ReadReply, TypeOK, Reply, IdsAreUnambiguous
  <2>2. SUFFICES ASSUME NEW h \in handles
                 PROVE  \/ \E s \in inbox' : Carries(h, s)
                        \/ \E i \in DOMAIN ready'[h] : Carries(h, ready'[h][i])
                        \/ h \in claimed' \cup orphans' \cup closeSubmitted'
    BY <2>1 DEF HandlesAccounted, Carries
  <2>3. h \in Party BY DEF TypeOK
  <2>4. CASE routes[r.id] = NoParty
    <3>1. /\ UNCHANGED ready
          /\ orphans' = IF r.answer = "handle" THEN orphans \cup {owner} ELSE orphans
      BY <1>1, <2>0, <2>4 DEF ReadReply, Orphan
    <3>2. CASE Carries(h, r) BY <2>0, <3>1, <3>2 DEF Carries
    <3>3. CASE ~Carries(h, r) BY <1>0, <2>1, <3>1, <3>3 DEF HandlesAccounted
    <3> QED BY <3>2, <3>3
  <2>5. CASE routes[r.id] # NoParty
    <3> DEFINE event == [request |-> pending[r.id], answer |-> r.answer, served |-> r.request]
    <3>1. routes[r.id] = owner /\ owner \in Party
      BY <2>0, <2>1, <2>5 DEF RoutesAreLive, TypeOK
    <3>2. ready' = [ready EXCEPT ![owner] = Append(ready[owner], event)] /\ UNCHANGED orphans
      BY <1>1, <2>5, <3>1 DEF ReadReply, Deliver
    <3>3. event.answer = r.answer /\ event.request = r.request BY <2>1
    <3>4. ready[owner] \in Seq(Event) BY <3>1 DEF TypeOK
    <3>5. ready'[owner] = Append(ready[owner], event)
          /\ \A q \in Party \ {owner} : ready'[q] = ready[q]
      BY <3>1, <3>2 DEF TypeOK
    <3> HIDE DEF event
    <3>6. /\ \A i \in DOMAIN ready[owner] :
                 i \in DOMAIN ready'[owner] /\ ready'[owner][i] = ready[owner][i]
          /\ \E i \in DOMAIN ready'[owner] : ready'[owner][i] = event
      <4>1. Len(ready[owner]) \in Nat /\ DOMAIN ready[owner] = 1 .. Len(ready[owner])
        BY <3>4
      <4>2. Len(ready[owner]) + 1 \in DOMAIN ready'[owner]
            /\ ready'[owner][Len(ready[owner]) + 1] = event
        BY <3>4, <3>5, <4>1
      <4>3. \A i \in DOMAIN ready[owner] :
                 i \in DOMAIN ready'[owner] /\ ready'[owner][i] = ready[owner][i]
        BY <3>4, <3>5, <4>1
      <4> QED BY <4>2, <4>3
    <3>7. CASE Carries(h, r)
      <4>1. h = owner BY <2>0, <3>7 DEF Carries
      <4>2. Carries(h, event) BY <3>3, <3>7 DEF Carries
      <4> QED BY <3>6, <4>1, <4>2
    <3>8. CASE ~Carries(h, r)
      <4>1. CASE \E i \in DOMAIN ready[h] : Carries(h, ready[h][i])
        BY <2>3, <3>5, <3>6, <4>1
      <4>2. CASE ~\E i \in DOMAIN ready[h] : Carries(h, ready[h][i])
        BY <1>0, <2>1, <3>2, <3>8, <4>2 DEF HandlesAccounted
      <4> QED BY <4>1, <4>2
    <3> QED BY <3>7, <3>8
  <2> QED BY <2>4, <2>5
<1>2. ASSUME NEW e \in Exchange, Receive(e) PROVE HandlesAccounted'
  <2>1. /\ e \in Party /\ ready[e] \in Seq(Event) /\ ready[e] # <<>>
        /\ claimed' = IF Head(ready[e]).answer = "handle" THEN claimed \cup {e} ELSE claimed
        /\ UNCHANGED <<handles, inbox, orphans, closeSubmitted>>
    BY <1>2 DEF Receive, Party, TypeOK
  <2>2. CASE e \in OneShot
    <3>1. \A q \in Party \ {e} : ready'[q] = ready[q]
      BY <1>2, <2>2 DEF Receive, Retire, Forget, TypeOK
    <3>2. SUFFICES ASSUME NEW h \in handles
                   PROVE  \/ \E s \in inbox : Carries(h, s)
                          \/ \E i \in DOMAIN ready'[h] : Carries(h, ready'[h][i])
                          \/ h \in claimed' \cup orphans \cup closeSubmitted
      BY <2>1 DEF HandlesAccounted, Carries
    <3>3. h \in Party BY DEF TypeOK
    <3>4. CASE h = e /\ \E i \in DOMAIN ready[h] : Carries(h, ready[h][i])
      <4>1. Len(ready[e]) <= 1 BY <2>2 DEF HandleInv, UsedOnce
      <4>2. \A i \in DOMAIN ready[e] : ready[e][i] = Head(ready[e])
        BY <2>1, <4>1
      <4> QED BY <2>1, <3>4, <4>2 DEF Carries
    <3>5. CASE ~(h = e /\ \E i \in DOMAIN ready[h] : Carries(h, ready[h][i]))
      BY <1>0, <2>1, <3>1, <3>3, <3>5 DEF HandlesAccounted
    <3> QED BY <3>4, <3>5
  <2>3. CASE e \notin OneShot
    <3>1. \A q \in Party \ {e} : ready'[q] = ready[q]
      BY <1>2, <2>1, <2>3 DEF Receive, TypeOK
    <3> QED BY <1>0, <2>1, <2>3, <3>1, HandlesStay
  <2> QED BY <2>2, <2>3
<1>3. ASSUME NEW id \in Id, NEW answer \in Answer, PeerAnswers(id, answer)
      PROVE  HandlesAccounted'
  <2>1. /\ inbox' = inbox \cup {[id |-> id, request |-> server[id], answer |-> answer]}
        /\ handles' \subseteq handles \cup (IF answer = "handle" THEN {server[id].by} ELSE {})
        /\ UNCHANGED <<ready, claimed, orphans, closeSubmitted>>
    BY <1>3 DEF PeerAnswers
  <2>2. SUFFICES ASSUME NEW h \in handles'
                 PROVE  \/ \E s \in inbox' : Carries(h, s)
                        \/ \E i \in DOMAIN ready[h] : Carries(h, ready[h][i])
                        \/ h \in claimed \cup orphans \cup closeSubmitted
    BY <2>1 DEF HandlesAccounted, Carries
  <2>3. CASE h \in handles BY <1>0, <2>1, <2>3 DEF HandlesAccounted
  <2>4. CASE h \notin handles
    <3>1. Carries(h, [id |-> id, request |-> server[id], answer |-> answer])
      BY <2>1, <2>4 DEF Carries
    <3> QED BY <2>1, <3>1
  <2> QED BY <2>3, <2>4
<1>4. ASSUME NEW e \in Exchange, Refused(e) \/ RaiseFailure(e) \/ Unwind(e) \/ Finish(e)
      PROVE  HandlesAccounted'
  <2>1. /\ Retire(e) /\ e \in Party
        /\ UNCHANGED <<handles, inbox, claimed, orphans, closeSubmitted>>
    BY <1>4 DEF Refused, RaiseFailure, Unwind, Finish, Party
  <2>2. \A q \in Party \ {e} : ready'[q] = ready[q]
    BY <2>1 DEF Retire, Forget, TypeOK
  <2>3. e \in OneShot => ready[e] = <<>>
    BY <1>4, PartiesAssumption
    DEF Refused, RaiseFailure, Unwind, Finish, HandleInv, UsedOnce, Transfer
  <2> QED BY <1>0, <2>1, <2>2, <2>3, HandlesStay
<1>5. CASE ReaperReturns
  <2>1. /\ Retire(Reaper) /\ Reaper \in Party /\ Reaper \notin OneShot
        /\ UNCHANGED <<handles, inbox, claimed, orphans, closeSubmitted>>
    BY <1>5, PartiesAssumption DEF ReaperReturns, Party, Exchange
  <2>2. \A q \in Party \ {Reaper} : ready'[q] = ready[q]
    BY <2>1 DEF Retire, Forget, TypeOK
  <2> QED BY <1>0, <2>1, <2>2, HandlesStay
<1>6. ASSUME NEW h \in Exchange, ReapOrphan(h) PROVE HandlesAccounted'
  <2>1. /\ orphans \cup closeSubmitted \subseteq orphans' \cup closeSubmitted'
        /\ UNCHANGED <<ready, handles, inbox, claimed>>
    BY <1>6 DEF ReapOrphan
  <2> QED BY <1>0, <2>1, HandlesStay
<1>7. ASSUME NEW h \in Exchange, ReapRefused(h) PROVE HandlesAccounted'
  <2>1. Free # {} BY <1>0, IdsRemain
  <2> QED BY <1>0, <1>7, <2>1 DEF ReapRefused, Refusal, Healthy
<1>8. ASSUME UNCHANGED <<ready, handles, inbox, claimed, orphans, closeSubmitted>>
      PROVE  HandlesAccounted'
  BY <1>0, <1>8, HandlesStay
<1>9. ASSUME NEW e \in OneShot, NEW kind \in {"open", "other"}, RoundTrip(e, kind)
      PROVE  HandlesAccounted'
  BY <1>8, <1>9 DEF RoundTrip
<1>10. ASSUME NEW e \in Exchange, OpenTransfer(e) \/ TransferSend(e) PROVE HandlesAccounted'
  BY <1>8, <1>10 DEF OpenTransfer, TransferSend
<1>11. ASSUME NEW p \in Party, WriteDone(p) PROVE HandlesAccounted'
  BY <1>8, <1>11 DEF WriteDone
<1>12. ASSUME NEW p \in Party, WriteFails(p) \/ SendDeadline(p) PROVE HandlesAccounted'
  BY <1>12 DEF WriteFails, SendDeadline, Fail, Healthy
<1>13. ASSUME NEW before \in SUBSET inbox, ReadBadFrame(before) PROVE HandlesAccounted'
  BY <1>13 DEF ReadBadFrame, Fail, Healthy
<1>14. CASE ReadEOF \/ CloseDispatcher \/ LinkDrops
  BY <1>14 DEF ReadEOF, CloseDispatcher, LinkDrops, Fail, Healthy
<1>15. CASE StartReader \/ StartReaper \/ ReaperSleeps \/ ReaperWakes \/ UNCHANGED vars
  BY <1>8, <1>15 DEF StartReader, StartReaper, ReaperSleeps, ReaperWakes, vars
<1> QED
  BY <1>1, <1>2, <1>3, <1>4, <1>5, <1>6, <1>7, <1>9, <1>10, <1>11, <1>12, <1>13, <1>14, <1>15
  DEF Next, RequestDeadline, Cancel, Exchange

\* Of a handle and its owner neither is lost: on a healthy connection with ids to spare every
\* handle the peer allocated is on its way, in its exchange's queue, with an operation or with
\* the reaper, and never with both (Dispatcher._orphan, reap_orphans).
THEOREM HandlesKept == IdsSuffice => (Spec => []HandlesAreKept)
<1> SUFFICES ASSUME IdsSuffice PROVE Spec => []HandlesAreKept
  OBVIOUS
<1>1. Init => HandlesAccounted BY DEF Init, HandlesAccounted
<1>2. IndInv /\ WaitInv /\ HandleInv /\ WindowsHold /\ HandlesAccounted /\ [Next]_vars
      => HandlesAccounted'
  BY AccountedPreserved
<1>3. HandlesAccounted /\ HandleInv => HandlesAreKept BY DEF HandleInv, HandlesAreKept
<1> QED
  BY IndInvInductive, WaitInductive, HandlesInductive, WindowsInductive, <1>1, <1>2, <1>3, PTL
  DEF Spec

\* The half of it that needs no ids to spare: the reaper never closes a handle an operation
\* received (Dispatcher._orphan, reap_orphans).
THEOREM ClaimedIsSpared == Spec => []ReaperSparesClaimed
<1>1. HandleInv => ReaperSparesClaimed BY DEF HandleInv
<1> QED BY HandlesInductive, <1>1, PTL
===============================================================================
