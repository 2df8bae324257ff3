-------------------------------- MODULE Facade --------------------------------
(***************************************************************************)
(* Directory scans and remote files (DirectoryScan and RemoteFile of       *)
(* session/_session.py), driven by threads through the blocking facade     *)
(* (sync.py).                                                              *)
(*                                                                         *)
(* Threads share one SyncSession; each drives one object of its own.  A    *)
(* call asks first whether the block of the session has ended (_ready) and *)
(* is then posted to the portal, so that the block may end in between, or  *)
(* while the call waits for its answer.  How requests are routed and late  *)
(* handles are found is Dispatcher; the portal (anyio) is external.        *)
(***************************************************************************)
EXTENDS Naturals, FiniteSets, SequencesExt

CONSTANTS
    Thread, Owner,  \* threads; the one whose `with` block the session is
    Drives,         \* what they may drive: a set of [Thread -> Kind]
    Batches,        \* answers to READDIR: a sequence of sequences of names
    Dots,           \* the names "." and ".."
    Length,         \* what the file to be read holds at first: 1..Length
    NoCall,
    OwnPortal,      \* whether the portal ends with the block, as for connect()
    MaxAsks, MaxTroubles    \* bounds: calls of each thread; failures and appends

Kind == {"scan", "reader", "writer"}
EntryNames == UNION {Range(Batches[i]) : i \in DOMAIN Batches}
\* A call: posted or not, about a handle or so many bytes.
PortalCalls == [op : {"enter", "next", "read", "readall", "seekend", "write", "exit"},
                at : {"ready", "asked", "sizing"}, on : (Thread \X Nat) \cup {NoCall} \cup Nat]
ASSUME FacadeAssumption ==
    /\ Owner \in Thread /\ Drives \subseteq [Thread -> Kind] /\ Length \in Nat
    /\ Batches \in Seq(Seq(EntryNames)) /\ NoCall \notin Thread \X Nat /\ NoCall \notin PortalCalls
    /\ MaxAsks \in Nat /\ MaxTroubles \in Nat /\ OwnPortal \in BOOLEAN

VARIABLES
    live,       \* SyncSession._live
    session,    \* "open" until Dispatcher.close, then "closed"
    portal,     \* "running" or "stopped"
    kind,       \* [Thread -> Kind]
    obj,        \* [Thread -> fields of the DirectoryScan or RemoteFile]
    call,       \* [Thread -> the call a thread is in, or NoCall]
    opened,     \* server: [open handle -> READDIRs answered on it]
    late,       \* handles that came when nobody waited: the reaper's
    size, disk, \* the file that is read; [Thread -> what a writer's file holds]
    got,        \* [Thread -> what its calls returned, or wrote]
    lost,       \* [Thread -> batches whose answer came too late]
    unclosed,   \* handles whose CLOSE failed
    asks, troubles

facadeVars == <<live, session, portal, kind, obj, call, opened, late, size, disk, got, lost,
                unclosed, asks, troubles>>

-------------------------------------------------------------------------------
(* The objects. *)

Fresh == [entered |-> FALSE, handle |-> NoCall, batch |-> <<>>, exhausted |-> FALSE,
          position |-> 0, base |-> 0]
NewHandle(t) == <<t, asks[t]>>

\* _next_buffered: what is left of a batch, its dots skipped.
Buffered(batch) ==
    FlattenSeq([i \in DOMAIN batch |-> IF batch[i] \in Dots THEN <<>> ELSE <<batch[i]>>])
AllNames == FlattenSeq([i \in DOMAIN Batches |-> Buffered(Batches[i])])

Wants(t) == CASE kind[t] = "scan" -> {"enter", "next", "exit"}
              [] kind[t] = "reader" -> {"enter", "read", "readall", "seekend", "exit"}
              [] kind[t] = "writer" -> {"enter", "write", "exit"}

\* Ends without a request: no handle, used before, buffered, exhausted, an empty exit.
StateRefuses(t, what) ==
    \/ what = "enter" /\ obj[t].entered
    \/ what = "exit" /\ obj[t].handle = NoCall
    \/ what \notin {"enter", "exit"} /\ obj[t].handle = NoCall

-------------------------------------------------------------------------------
(* Threads. *)

FacadeInit ==
    /\ live = TRUE /\ session = "open" /\ portal = "running"
    /\ kind \in Drives
    /\ obj = [t \in Thread |-> Fresh] /\ call = [t \in Thread |-> NoCall]
    /\ opened = <<>> /\ late = {} /\ size = Length
    /\ disk = [t \in Thread |-> <<>>] /\ got = [t \in Thread |-> <<>>]
    /\ lost = [t \in Thread |-> 0] /\ unclosed = {} /\ asks = [t \in Thread |-> 0] /\ troubles = 0

\* The server gives a handle out.
Opening(h) == [g \in DOMAIN opened \cup {h} |-> IF g = h THEN 0 ELSE opened[g]]
farVars == <<opened, late, size, disk>>
linkVars == <<live, session, portal>>
Return(t) == call' = [call EXCEPT ![t] = NoCall]

\* A thread makes a call and passes _ready, or _still_open: SyncDirectoryScan and
\* SyncRemoteFile, SyncSession._run, SyncSFTPPath._call.  Refused, it ends at once.
Call(t, what) ==
    /\ call[t] = NoCall /\ asks[t] < MaxAsks /\ what \in Wants(t)
    /\ asks' = [asks EXCEPT ![t] = @ + 1]
    /\ call' = IF live THEN [call EXCEPT ![t] = [op |-> what, at |-> "ready", on |-> NoCall]]
                       ELSE call
    /\ UNCHANGED <<linkVars, kind, obj, farVars, got, lost, unclosed, troubles>>

\* A defect: an object that was used may be entered again.
EntersAgain(t, what) ==
    IF what = "exit" THEN [obj[t] EXCEPT !.handle = NoCall, !.batch = <<>>] ELSE obj[t]
\* What is done to the object before anything is sent.
Before(t, what) ==
    CASE what = "enter" -> [obj[t] EXCEPT !.entered = TRUE]
      [] what = "exit" -> [obj[t] EXCEPT !.handle = NoCall, !.batch = <<>>]
      [] OTHER -> obj[t]

\* The portal has stopped since, and portal.call refuses; or the state does, or the
\* dispatcher, which sends nothing any more, with an object left as it is then.
Refuse(t) ==
    /\ call[t] # NoCall /\ call[t].at = "ready"
    /\ \/ portal = "stopped" \/ StateRefuses(t, call[t].op)
       \/ session = "closed" /\ ~(call[t].op = "next" /\ (obj[t].batch # <<>> \/ obj[t].exhausted))
    /\ obj' = IF portal = "stopped" \/ StateRefuses(t, call[t].op) THEN obj
              ELSE [obj EXCEPT ![t] = Before(t, call[t].op)]
    /\ Return(t)
    /\ UNCHANGED <<linkVars, kind, farVars, got, lost, unclosed, asks, troubles>>

\* __anext__ with something left of the batch, or known to be at the end.
NextBuffered(t) ==
    /\ call[t] # NoCall /\ call[t].at = "ready" /\ call[t].op = "next"
    /\ portal = "running" /\ obj[t].handle # NoCall
    /\ \/ /\ obj[t].batch # <<>>
          /\ got' = [got EXCEPT ![t] = Append(@, Head(obj[t].batch))]
          /\ obj' = [obj EXCEPT ![t].batch = Tail(@)]
       \/ obj[t].batch = <<>> /\ obj[t].exhausted /\ UNCHANGED <<got, obj>>
    /\ Return(t)
    /\ UNCHANGED <<linkVars, kind, farVars, lost, unclosed, asks, troubles>>

\* __aenter__, __aexit__, _fill, read, write, seek: the request goes out on the portal.
Post(t) ==
    /\ call[t] # NoCall /\ call[t].at = "ready"
    /\ portal = "running" /\ session = "open" /\ ~StateRefuses(t, call[t].op)
    /\ call[t].op = "next" => obj[t].batch = <<>> /\ ~obj[t].exhausted
    /\ call' = [call EXCEPT ![t].at = IF @ = "ready" /\ call[t].op \in {"readall", "seekend"}
                                        THEN "sizing" ELSE "asked",
                            ![t].on = IF call[t].op = "enter" THEN NewHandle(t) ELSE obj[t].handle]
    /\ obj' = [obj EXCEPT ![t] = Before(t, call[t].op)]
    /\ UNCHANGED <<linkVars, kind, farVars, got, lost, unclosed, asks, troubles>>

-------------------------------------------------------------------------------
(* Answers, while the reader runs. *)

Awaits(t, where, ops) == session = "open" /\ call[t] # NoCall /\ call[t].at = where /\ call[t].op \in ops

\* OPEN and OPENDIR.
Entered(t) ==
    /\ Awaits(t, "asked", {"enter"})
    /\ opened' = Opening(call[t].on)
    /\ obj' = [obj EXCEPT ![t].handle = call[t].on]
    /\ Return(t)
    /\ UNCHANGED <<linkVars, kind, late, size, disk, got, lost, unclosed, asks, troubles>>

\* CLOSE, by close or close_quietly.
Exited(t) ==
    /\ Awaits(t, "asked", {"exit"})
    /\ opened' = [h \in DOMAIN opened \ {call[t].on} |-> opened[h]]
    /\ Return(t)
    /\ UNCHANGED <<linkVars, kind, obj, late, size, disk, got, lost, unclosed, asks, troubles>>

\* READDIR: the first entry of the batch is returned; a batch of dots asks for another; the
\* end is latched.
TakesNext(t, batch) ==
    IF Buffered(batch) # <<>>
      THEN /\ got' = [got EXCEPT ![t] = Append(@, Head(Buffered(batch)))]
           /\ obj' = [obj EXCEPT ![t].batch = Tail(Buffered(batch))]
           /\ Return(t)
      ELSE UNCHANGED <<got, obj, call>>
Filled(t) ==
    /\ Awaits(t, "asked", {"next"})
    /\ LET asked == opened[call[t].on] IN
       IF asked < Len(Batches)
         THEN /\ opened' = [opened EXCEPT ![call[t].on] = asked + 1]
              /\ TakesNext(t, Batches[asked + 1])
         ELSE /\ obj' = [obj EXCEPT ![t].exhausted = TRUE]
              /\ Return(t) /\ UNCHANGED <<opened, got>>
    /\ UNCHANGED <<linkVars, kind, late, size, disk, lost, unclosed, asks, troubles>>

\* FSTAT, of seek(0, SEEK_END) and of read(): how far the file goes now.
Sized(t) ==
    /\ Awaits(t, "sizing", {"readall", "seekend"})
    /\ IF call[t].op = "seekend"
         THEN /\ obj' = [obj EXCEPT ![t].position = size, ![t].base = size]
              /\ got' = [got EXCEPT ![t] = <<>>]
              /\ Return(t)
         ELSE /\ call' = [call EXCEPT ![t].at = "asked",
                                      ![t].on = size - obj[t].position]
              /\ UNCHANGED <<obj, got>>
    /\ UNCHANGED <<linkVars, kind, farVars, lost, unclosed, asks, troubles>>

\* read_at: what there is of as many bytes as were asked for; the cursor moves by what came.
Moved(asked, came) == came
Read(t) ==
    /\ Awaits(t, "asked", {"read", "readall"})
    /\ LET from == obj[t].position
           length == IF call[t].op = "read" THEN 2 ELSE call[t].on
           came == IF from + length <= size THEN length ELSE size - from
       IN  /\ got' = [got EXCEPT ![t] = @ \o [i \in 1..came |-> from + i]]
           /\ obj' = [obj EXCEPT ![t].position = @ + Moved(length, came)]
    /\ Return(t)
    /\ UNCHANGED <<linkVars, kind, farVars, lost, unclosed, asks, troubles>>

\* write_at: two blocks, marked with the call they came with.
Overwritten(file, from, data) ==
    [i \in 1..(IF Len(file) > from + Len(data) THEN Len(file) ELSE from + Len(data)) |->
        IF i \in from + 1..from + Len(data) THEN data[i - from] ELSE file[i]]
Wrote(t) ==
    /\ Awaits(t, "asked", {"write"})
    /\ disk' = [disk EXCEPT ![t] = Overwritten(@, obj[t].position, <<asks[t], asks[t]>>)]
    /\ got' = [got EXCEPT ![t] = @ \o <<asks[t], asks[t]>>]
    /\ obj' = [obj EXCEPT ![t].position = @ + 2]
    /\ Return(t)
    /\ UNCHANGED <<linkVars, kind, opened, late, size, lost, unclosed, asks, troubles>>

-------------------------------------------------------------------------------
(* Failures. *)

\* A call fails: refused by the server, or out of time with the request performed all the
\* same.  A late handle is the reaper's; a late batch is gone; half a write may have landed.
Fail(t) ==
    /\ call[t] # NoCall /\ call[t].at \in {"asked", "sizing"} /\ session = "open"
    /\ troubles < MaxTroubles /\ troubles' = troubles + 1
    /\ Return(t)
    /\ unclosed' = IF call[t].op = "exit" THEN unclosed \cup {call[t].on} ELSE unclosed
    /\ \/ UNCHANGED <<farVars, lost>>
       \/ /\ call[t].op = "enter"
          /\ opened' = Opening(call[t].on) /\ late' = late \cup {call[t].on}
          /\ UNCHANGED <<size, disk, lost>>
       \/ /\ call[t].op = "next" /\ opened[call[t].on] < Len(Batches)
          /\ opened' = [opened EXCEPT ![call[t].on] = @ + 1]
          /\ lost' = [lost EXCEPT ![t] = @ + 1]
          /\ UNCHANGED <<late, size, disk>>
       \/ /\ call[t].op = "exit"
          /\ opened' = [h \in DOMAIN opened \ {call[t].on} |-> opened[h]]
          /\ UNCHANGED <<late, size, disk, lost>>
       \/ /\ call[t].op = "write"
          /\ disk' = [disk EXCEPT ![t] = Overwritten(@, obj[t].position, <<asks[t]>>)]
          /\ UNCHANGED <<opened, late, size, lost>>
    /\ UNCHANGED <<linkVars, kind, obj, got, asks>>

\* open_file for reading: a refusal that may pass is tried again.
TryAgain(t) ==
    /\ Awaits(t, "asked", {"enter"}) /\ kind[t] = "reader"
    /\ troubles < MaxTroubles /\ troubles' = troubles + 1
    /\ UNCHANGED <<linkVars, kind, obj, call, farVars, got, lost, unclosed, asks>>

\* No answer comes to a session that is closed: the deadline of the request ends the call.
Deadline(t) ==
    /\ call[t] # NoCall /\ call[t].at \in {"asked", "sizing"} /\ session = "closed"
    /\ Return(t)
    /\ UNCHANGED <<linkVars, kind, obj, farVars, got, lost, unclosed, asks, troubles>>

\* Dispatcher.reap_orphans.
Reap ==
    /\ session = "open"
    /\ \E h \in late : late' = late \ {h} /\ opened' = [g \in DOMAIN opened \ {h} |-> opened[g]]
    /\ UNCHANGED <<linkVars, kind, obj, call, size, disk, got, lost, unclosed, asks, troubles>>

\* Another client appends to the file that is read.
Grow ==
    /\ troubles < MaxTroubles /\ troubles' = troubles + 1 /\ size' = size + 1
    /\ UNCHANGED <<linkVars, kind, obj, call, opened, late, disk, got, lost, unclosed, asks>>

-------------------------------------------------------------------------------
(* The end of the block. *)

\* BoundPortal._hold: the facade is spent.
Finish ==
    /\ live /\ call[Owner] = NoCall /\ live' = FALSE
    /\ UNCHANGED <<session, portal, kind, obj, call, farVars, got, lost, unclosed, asks, troubles>>

\* open_session's finally, on the portal: the dispatcher closes and with the transport go the
\* handles.
CloseSession ==
    /\ ~live /\ session = "open" /\ session' = "closed"
    /\ opened' = <<>> /\ late' = {}
    /\ UNCHANGED <<live, portal, kind, obj, call, size, disk, got, lost, unclosed, asks, troubles>>

\* start_blocking_portal's exit: it waits for what runs on it.
StopPortal ==
    /\ OwnPortal /\ session = "closed" /\ portal = "running" /\ portal' = "stopped"
    /\ \A t \in Thread : call[t] # NoCall => call[t].at = "ready"
    /\ UNCHANGED <<live, session, kind, obj, call, farVars, got, lost, unclosed, asks, troubles>>

FacadeNext ==
    \/ \E t \in Thread :
         \/ \E what \in {"enter", "next", "read", "readall", "seekend", "write", "exit"} : Call(t, what)
         \/ Refuse(t) \/ NextBuffered(t) \/ Post(t)
         \/ Entered(t) \/ Exited(t) \/ Filled(t) \/ Sized(t) \/ Read(t) \/ Wrote(t)
         \/ Fail(t) \/ TryAgain(t) \/ Deadline(t)
    \/ Reap \/ Grow \/ Finish \/ CloseSession \/ StopPortal
FacadeSpec == FacadeInit /\ [][FacadeNext]_facadeVars

-------------------------------------------------------------------------------
(* Properties. *)

\* Whatever its threads did and whatever failed, every handle the server holds for a session
\* belongs to an object whose block has not ended, or is on its way to be closed; only a CLOSE
\* that failed leaves one, until the session ends.
HandlesAreOwned ==
    \A h \in DOMAIN opened :
        \/ h \in late
        \/ \E t \in Thread : obj[t].handle = h
        \/ \E t \in Thread : call[t] # NoCall /\ call[t].op = "exit" /\ call[t].on = h
        \/ h \in unclosed

\* A scan shows every entry of the directory once and in order, whatever batches it came in,
\* unless an answer was lost; a file's cursor stands where the bytes that were returned end;
\* what writes that returned have put is what the file holds up to the cursor, even when
\* others failed half way.
StreamsAreFaithful ==
    \A t \in Thread :
        CASE kind[t] = "scan" ->
               lost[t] = 0 => /\ IsPrefix(got[t], AllNames)
                              /\ obj[t].exhausted => got[t] = AllNames
          [] kind[t] = "reader" ->
               got[t] = [i \in 1..(obj[t].position - obj[t].base) |-> obj[t].base + i]
          [] kind[t] = "writer" -> IsPrefix(got[t], disk[t])

\* A handle belongs to somebody, and what it carries arrives whole and in order (the
\* blocking facade over scans and files).
FacadeIsFaithful == HandlesAreOwned /\ StreamsAreFaithful
===============================================================================
