------------------------------ MODULE Connection ------------------------------
(***************************************************************************)
(* One call of with_reconnect (session/_retry.py): up to Attempts times a  *)
(* child process is started (transport/_subprocess.py), the handshake is   *)
(* done over its pipes (session/_session.py: open_session), an operation   *)
(* runs over the session, and everything is taken down again.              *)
(*                                                                         *)
(* The operation opens a handle, works for a while and closes it, as get   *)
(* does.  The requests of its work are those of Dispatcher, Download and   *)
(* Upload; here the bytes of each reply arrive in chunks of any size       *)
(* through the splitter of Framing.                                        *)
(***************************************************************************)
EXTENDS Framing, Integers, FiniteSets

CONSTANTS
    Attempts,      \* with_reconnect(attempts)
    BackoffMax,    \* with_reconnect(backoff_max), in units of backoff
    MaxStderr      \* model bound: lines the child writes to its stderr

ASSUME ConnectionAssumption ==
    /\ Attempts \in Nat \ {0}
    /\ BackoffMax \in Nat \ {0}
    /\ MaxStderr \in Nat

Line == {"noise", "auth", "hostkey"}
\* What an attempt ends with: ConnectError, AuthenticationError, HostKeyError,
\* TransferTimeoutError, ProtocolError, and the two kinds of ServerError.
Failure == {"connect", "auth", "hostkey", "timeout", "protocol", "busy", "no"}
Retryable == {"connect", "timeout", "busy"}
NoId == 0

VARIABLES
    pc,            \* where the call is
    attempt,       \* with_reconnect: attempt
    delay,         \* with_reconnect: delay
    error,         \* the exception on its way out, or "none"
    cancelled,     \* the caller's scope was cancelled
    outcome,       \* how the call ended
    request,       \* the id the current round trip waits for
    reply,         \* the answer delivered to it
    codec,         \* Codec
    splitter,      \* FrameSplitter
    reader,        \* Dispatcher.run is reading
    failure,       \* Dispatcher._failure
    torn,          \* part of a frame was left in the pipe
    child,         \* the process: its state, whether its stdin is open, the last signal
    unread,        \* stderr lines the drain has not read
    stderr,        \* StderrBuffer
    greeted,       \* the server: INIT not seen, seen, VERSION sent, nonsense sent
    asked,         \* requests it has and has not served
    written,       \* every cell written to stdout in this attempt
    taken,         \* how many of them receive() returned
    ends,          \* history: where each frame of "written" ends
    handled,       \* history: frames handed to the codec
    performed,     \* history: what the server did in this attempt
    settled        \* history: the operation was refused for good, or done and closed

callVars == <<pc, attempt, delay, error, cancelled, outcome>>
tripVars == <<request, reply>>
sessionVars == <<codec, splitter, reader, failure, torn>>
childVars == <<child, unread, stderr>>
wireVars == <<greeted, asked, written, taken, ends, handled>>
history == <<performed, settled>>
vars == <<callVars, tripVars, sessionVars, childVars, wireVars, history>>

NoChild == [state |-> "none", stdin |-> FALSE, signal |-> "none"]
NewStderr == [head |-> <<>>, tail |-> <<>>]

Init ==
    /\ pc = "idle" /\ attempt = 0 /\ delay = 1
    /\ error = "none" /\ cancelled = FALSE /\ outcome = "none"
    /\ request = NoId /\ reply = "none"
    /\ codec = NewCodec /\ splitter = NewSplitter
    /\ reader = FALSE /\ failure = "none" /\ torn = FALSE
    /\ child = NoChild /\ unread = <<>> /\ stderr = NewStderr
    /\ greeted = "no" /\ asked = {}
    /\ written = <<>> /\ taken = 0 /\ ends = <<>> /\ handled = 0
    /\ performed = {} /\ settled = FALSE

-------------------------------------------------------------------------------
(* What the child's stderr establishes. *)

HeadLines == 1
TailLines == 1

\* StderrBuffer.extend: the first lines stay, then the last ones; the middle goes.
Extended(buffer, line) ==
    IF Len(buffer.head) < HeadLines
    THEN [buffer EXCEPT !.head = Append(@, line)]
    ELSE [buffer EXCEPT !.tail =
                 IF Len(@) = TailLines THEN Append(Tail(@), line) ELSE Append(@, line)]
Text(buffer) == Range(buffer.head) \cup Range(buffer.tail)

\* classify_failure: the host's identity before our credentials, else nothing is known.
Classified ==
    CASE "hostkey" \in Text(stderr) -> "hostkey"
      [] "hostkey" \notin Text(stderr) /\ "auth" \in Text(stderr) -> "auth"
      [] OTHER -> "connect"

\* _drain_stderr, a task of its own: nothing orders it against the end of stdout.
Drain ==
    /\ unread # <<>>
    /\ stderr' = Extended(stderr, Head(unread)) /\ unread' = Tail(unread)
    /\ UNCHANGED <<callVars, tripVars, sessionVars, child, wireVars, history>>

-------------------------------------------------------------------------------
(* The child and the server behind it. *)

Running == child.state \in {"running", "mute"}

\* At any time, and because it was told to: but only SIGKILL leaves it no choice.
ChildExits ==
    /\ Running
    /\ child' = [child EXCEPT !.state = "exited"]
    /\ UNCHANGED <<callVars, tripVars, sessionVars, unread, stderr, wireVars,
                   history>>

\* Before VERSION it is ssh that speaks, and its last words are why it leaves.  What it
\* says while it is taken down reaches nobody.
ChildRefuses(lines) ==
    /\ Running /\ child.stdin /\ greeted \in {"no", "init"}
    /\ child' = [child EXCEPT !.state = "exited"]
    /\ unread' = lines
    /\ UNCHANGED <<callVars, tripVars, sessionVars, stderr, wireVars, history>>

\* The end of stdout comes before that of the process.
ChildHangsUp ==
    /\ child.state = "running"
    /\ child' = [child EXCEPT !.state = "mute"]
    /\ UNCHANGED <<callVars, tripVars, sessionVars, unread, stderr, wireVars,
                   history>>

Writes(body) ==
    /\ written' = written \o Framed(body)
    /\ ends' = Append(ends, Len(written) + PrefixSize + Len(body))

ServerVersion(v) ==
    /\ child.state = "running" /\ greeted = "init" /\ ~torn
    /\ Writes(VersionBody(v))
    /\ greeted' = IF v = 3 THEN "done" ELSE "junk"
    /\ UNCHANGED <<callVars, tripVars, sessionVars, childVars, asked, taken,
                   handled, history>>

\* What it performed it answers, unless the answer is lost on the way.
ServerPerforms(q, answer, answers) ==
    /\ child.state = "running" /\ greeted = "done" /\ q \in asked
    /\ asked' = asked \ {q}
    /\ performed' = IF answer = "ok" THEN performed \cup {q.kind} ELSE performed
    /\ IF answers THEN Writes(ReplyBody(q.id, answer)) ELSE UNCHANGED <<written, ends>>
    /\ UNCHANGED <<callVars, tripVars, sessionVars, childVars, greeted, taken, handled,
                   settled>>

\* A second VERSION, a reply to nothing that was asked, a length nobody would send.  The
\* codec fails at it, so whatever would come after is not modelled.
ServerJunk(body) ==
    /\ child.state = "running" /\ greeted = "done"
    /\ \/ Writes(body)
       \/ written' = written \o Prefix(MaxFrameLength + 1) /\ UNCHANGED ends
    /\ greeted' = "junk" /\ asked' = {}
    /\ UNCHANGED <<callVars, tripVars, sessionVars, childVars, taken, handled, history>>

-------------------------------------------------------------------------------
(* One attempt: the transport. *)

\* with_reconnect and _open_process_transport: everything of the attempt is new.
Connect ==
    /\ pc = "idle" /\ ~cancelled
    /\ attempt' = attempt + 1 /\ error' = "none" /\ pc' = "init"
    /\ child' = [state |-> "running", stdin |-> TRUE, signal |-> "none"]
    /\ performed' = {}
    /\ UNCHANGED <<delay, cancelled, outcome, tripVars, sessionVars, unread, stderr,
                   wireVars, settled>>

\* The program cannot be run: OSError becomes ConnectError, and there is no child.
ConnectFails ==
    /\ pc = "idle" /\ ~cancelled
    /\ attempt' = attempt + 1 /\ error' = "connect" /\ pc' = "decide"
    /\ UNCHANGED <<delay, cancelled, outcome, tripVars, sessionVars, childVars,
                   wireVars, history>>

\* Leave the block the attempt is in with an exception, for the teardown at p.
Leave(e, p) ==
    /\ error' = e /\ pc' = p
    /\ UNCHANGED <<attempt, delay, cancelled, outcome>>
Advance(p) == pc' = p /\ UNCHANGED <<attempt, delay, error, cancelled, outcome>>

\* What receive() can return: some of what was written, or the end of the stream.
Chunk(n) == SubSeq(written, taken + 1, taken + n)
Chunks == 1 .. (Len(written) - taken)
AtEnd == child.state \in {"mute", "exited"} /\ taken = Len(written)

\* Read a chunk and hand it to the codec; a frame of an earlier one may be referenced.
Received(n, referenced) ==
    CodecReceive(codec, Feed(splitter, Chunk(n), referenced))
Reads(n, referenced) ==
    LET fed == Feed(splitter, Chunk(n), referenced)
    IN  /\ splitter' = fed.splitter
        /\ handled' = handled + Len(fed.frames)
        /\ codec' = Received(n, referenced).codec
        /\ taken' = taken + n
        /\ UNCHANGED <<greeted, asked, written, ends>>

-------------------------------------------------------------------------------
(* open_session: the handshake, which reads the transport itself. *)

SendInit ==
    /\ pc = "init"
    /\ codec' = [codec EXCEPT !.state = "awaiting"]
    /\ greeted' = "init"
    /\ Advance("version")
    /\ UNCHANGED <<tripVars, splitter, reader, failure, torn, childVars, asked,
                   written, taken, ends, handled, history>>

\* Writing to a child that is gone, outside the dispatcher.
SendBroken ==
    /\ pc \in {"init", "probe"} /\ child.state = "exited"
    /\ Leave(Classified, "aclose")
    /\ UNCHANGED <<tripVars, sessionVars, childVars, wireVars, history>>

\* The deadline spans both halves of the handshake, however VERSION dribbles in.  (With
\* the defect, as before D-40 turned round: only the half that sends.)
DeadlineForInitOnly ==
    /\ pc = "init"
    /\ Leave("timeout", "aclose")
    /\ UNCHANGED <<tripVars, sessionVars, childVars, wireVars, history>>
HandshakeDeadline ==
    /\ pc \in {"init", "version"}
    /\ Leave("timeout", "aclose")
    /\ UNCHANGED <<tripVars, sessionVars, childVars, wireVars, history>>

ReadVersion(n, referenced) ==
    /\ pc = "version" /\ n \in Chunks
    /\ Reads(n, referenced)
    /\ IF codec'.state = "failed" THEN Leave("protocol", "aclose")
       ELSE IF codec'.state = "ready" THEN Advance("probe")
       ELSE UNCHANGED callVars
    /\ UNCHANGED <<tripVars, reader, failure, torn, childVars, history>>

HandshakeEnds ==
    /\ pc \in {"version", "limits"} /\ AtEnd
    /\ Leave(Classified, "aclose")
    /\ UNCHANGED <<tripVars, sessionVars, childVars, wireVars, history>>

\* Codec.allocate_request_id and Codec.send: the id is outstanding before it is written.
Sends(kind) ==
    /\ codec' = [codec EXCEPT !.next = @ + 1, !.outstanding = @ \cup {codec.next}]
    /\ asked' = IF torn' THEN asked ELSE asked \cup {[id |-> codec.next, kind |-> kind]}
    /\ UNCHANGED <<greeted, written, taken, ends, handled>>

\* _probe_limits, when the server advertised the extension.
SendProbe ==
    /\ pc = "probe"
    /\ UNCHANGED torn
    /\ Sends("limits")
    /\ Advance("limits")
    /\ UNCHANGED <<tripVars, splitter, reader, failure, childVars, history>>
\* It did not, or its peer takes none of the probe in time: nothing records that the
\* frame is in the pipe in part.
SkipProbe ==
    /\ pc = "probe"
    /\ \/ UNCHANGED <<sessionVars, wireVars>>
       \/ /\ torn' = TRUE
          /\ Sends("limits")
          /\ UNCHANGED <<splitter, reader, failure>>
    /\ Advance("start")
    /\ UNCHANGED <<tripVars, childVars, history>>
ProbeDeadline ==
    /\ pc = "limits"
    /\ Advance("start")
    /\ UNCHANGED <<tripVars, sessionVars, childVars, wireVars, history>>

\* _read_limits: any answer will do, except one whose body is too short to decode.
ReadLimits(n, referenced) ==
    /\ pc = "limits" /\ n \in Chunks
    /\ Reads(n, referenced)
    /\ LET events == Received(n, referenced).events
       IN  IF codec'.state = "failed" \/ (events # <<>> /\ events[1].answer = "short")
           THEN Leave("protocol", "aclose")
           ELSE IF events # <<>> THEN Advance("start")
           ELSE UNCHANGED callVars
    /\ UNCHANGED <<tripVars, reader, failure, torn, childVars, history>>

\* The task group starts the reader, and the operation is awaited inside it.
StartSession ==
    /\ pc = "start"
    /\ reader' = TRUE
    /\ Advance("open")
    /\ UNCHANGED <<tripVars, codec, splitter, failure, torn, childVars, wireVars,
                   history>>

-------------------------------------------------------------------------------
(* The reader, and the operation. *)

\* Dispatcher.run and _route: a reply nobody waits for any more is dropped.
RoutesAnyReply(n, referenced) ==
    /\ reader /\ n \in Chunks
    /\ Reads(n, referenced)
    /\ LET got == Received(n, referenced)
       IN  /\ failure' = IF got.bad THEN "protocol" ELSE failure
           /\ reader' = ~got.bad
           /\ reply' = IF got.events # <<>> THEN got.events[1].answer ELSE reply
    /\ UNCHANGED <<callVars, request, torn, childVars, history>>
ReaderReads(n, referenced) ==
    /\ reader /\ n \in Chunks
    /\ Reads(n, referenced)
    /\ LET got == Received(n, referenced)
           mine == {i \in DOMAIN got.events : got.events[i].id = request}
       IN  /\ failure' = IF got.bad THEN "protocol" ELSE failure
           /\ reader' = ~got.bad
           /\ reply' = IF mine # {} THEN got.events[CHOOSE i \in mine : TRUE].answer
                       ELSE reply
    /\ UNCHANGED <<callVars, request, torn, childVars, history>>

ReaderEnds ==
    /\ reader /\ AtEnd
    /\ failure' = Classified /\ reader' = FALSE
    /\ UNCHANGED <<callVars, tripVars, codec, splitter, torn, childVars, wireVars,
                   history>>

InBody == pc \in {"open", "work", "close"}

\* _SessionCore.request: allocate, register, write.
Ask ==
    /\ pc \in {"open", "close"} /\ request = NoId /\ failure = "none"
    /\ UNCHANGED torn
    /\ Sends(pc)
    /\ request' = codec.next /\ reply' = "none"
    /\ UNCHANGED <<callVars, splitter, reader, failure, childVars, history>>

\* Whatever ended one step of the operation, a handle that was opened is closed on the
\* way out; an error that is already on its way up is not replaced by the cleanup's.
LastErrorWins(e) ==
    /\ request' = NoId /\ reply' = "none"
    /\ error' = IF e = "none" THEN error ELSE e
    /\ pc' = CASE pc = "open" -> IF e = "none" THEN "work" ELSE "leave"
               [] pc = "work" -> "close"
               [] OTHER -> "leave"
    /\ settled' = (settled \/ (error = "none" /\ (e = "no" \/ (pc = "close" /\ e = "none"))))
    /\ UNCHANGED <<attempt, delay, outcome, performed>>
After(e) ==
    /\ request' = NoId /\ reply' = "none"
    /\ error' = IF error = "none" THEN e ELSE error
    /\ pc' = CASE pc = "open" -> IF e = "none" THEN "work" ELSE "leave"
               [] pc = "work" -> "close"
               [] OTHER -> "leave"
    /\ settled' = (settled \/ (error = "none" /\ (e = "no" \/ (pc = "close" /\ e = "none"))))
    /\ UNCHANGED <<attempt, delay, outcome, performed>>

Answered ==
    /\ InBody /\ reply # "none"
    /\ After(IF reply = "ok" THEN "none" ELSE reply)
    /\ UNCHANGED <<cancelled, sessionVars, childVars, wireVars>>

\* What the operation did under the handle, or the refusal it met.
Works(e) ==
    /\ pc = "work"
    /\ After(e)
    /\ UNCHANGED <<cancelled, sessionVars, childVars, wireVars>>

\* The reader's failure reaches whoever waits, and whoever sends afterwards.
Fails ==
    /\ InBody /\ failure # "none" /\ reply = "none"
    /\ After(failure)
    /\ UNCHANGED <<cancelled, sessionVars, childVars, wireVars>>

WriteBroken ==
    /\ InBody /\ request = NoId /\ child.state = "exited"
    /\ After(Classified)
    /\ UNCHANGED <<cancelled, sessionVars, childVars, wireVars>>

\* One deadline for the round trip.  The id stays outstanding.
RequestDeadline ==
    /\ InBody /\ request # NoId /\ reply = "none"
    /\ After("timeout")
    /\ UNCHANGED <<cancelled, sessionVars, childVars, wireVars>>

\* close_quietly is shielded; the close of an operation that succeeded is not.
Shielded == pc = "close" /\ error # "none"
CancelStopsReader ==
    /\ InBody /\ ~Shielded /\ ~cancelled
    /\ cancelled' = TRUE
    /\ After("cancelled")
    /\ reader' = FALSE
    /\ UNCHANGED <<codec, splitter, failure, torn, childVars, wireVars>>
CancelBody ==
    /\ InBody /\ ~Shielded /\ ~cancelled
    /\ cancelled' = TRUE
    /\ After("cancelled")
    /\ UNCHANGED <<sessionVars, childVars, wireVars>>

-------------------------------------------------------------------------------
(* Taking the attempt down. *)

\* The finally of open_session: only here does the reader stop.
CloseDispatcher ==
    /\ pc = "leave"
    /\ reader' = FALSE
    /\ Advance("aclose")
    /\ UNCHANGED <<tripVars, codec, splitter, failure, torn, childVars, wireVars,
                   history>>

\* What the attempt owned: nothing reads the pipes or the session any more.
DropAttempt ==
    /\ request' = NoId /\ reply' = "none"
    /\ codec' = NewCodec /\ splitter' = NewSplitter
    /\ reader' = FALSE /\ failure' = "none" /\ torn' = FALSE
    /\ unread' = <<>> /\ stderr' = NewStderr
    /\ greeted' = "no" /\ asked' = {}
    /\ written' = <<>> /\ taken' = 0 /\ ends' = <<>> /\ handled' = 0

\* SubprocessTransport.aclose, shielded: end the child's input, then hand its pipes back,
\* which waits for it.
CloseStdin ==
    /\ pc = "aclose"
    /\ child' = [child EXCEPT !.stdin = FALSE]
    /\ Advance("release")
    /\ DropAttempt
    /\ UNCHANGED history

Reaped == [child EXCEPT !.state = "reaped"]
Waited == child.state \in {"exited", "reaped"}

\* _release_pipes: the child left; or it did not within the grace and anyio kills and
\* reaps it; or a pipe broke and nothing was waited for.
ReleasePipes ==
    /\ pc = "release"
    /\ \/ Waited /\ child' = Reaped
       \/ child' = [Reaped EXCEPT !.signal = "kill"]
       \/ UNCHANGED child
    /\ Advance("reap")
    /\ UNCHANGED <<tripVars, sessionVars, unread, stderr, wireVars, history>>

\* _reap: wait, terminate, wait, kill, wait.
ReapWaited ==
    /\ pc \in {"reap", "terminated", "killed"} /\ Waited
    /\ child' = Reaped
    /\ Advance("decide")
    /\ UNCHANGED <<tripVars, sessionVars, unread, stderr, wireVars, history>>
ReapIsPolite ==
    /\ pc \in {"reap", "terminated"} /\ ~Waited
    /\ IF pc = "reap" THEN child' = [child EXCEPT !.signal = "term"] /\ Advance("terminated")
       ELSE UNCHANGED child /\ Advance("decide")
    /\ UNCHANGED <<tripVars, sessionVars, unread, stderr, wireVars, history>>
ReapEscalates ==
    /\ pc \in {"reap", "terminated"} /\ ~Waited
    /\ IF pc = "reap" THEN child' = [child EXCEPT !.signal = "term"] /\ Advance("terminated")
       ELSE child' = [child EXCEPT !.signal = "kill"] /\ Advance("killed")
    /\ UNCHANGED <<tripVars, sessionVars, unread, stderr, wireVars, history>>

\* A cancellation of a wait outside the body, or one that arrives while the teardown is
\* shielded and is raised at its end.
Cancel ==
    /\ ~cancelled /\ pc \notin {"done", "idle"} /\ (InBody => Shielded)
    /\ cancelled' = TRUE
    /\ error' = IF pc \in {"init", "version", "probe", "limits"} THEN "cancelled" ELSE error
    /\ pc' = IF pc \in {"init", "version", "probe", "limits"} THEN "aclose" ELSE pc
    /\ UNCHANGED <<attempt, delay, outcome, tripVars, sessionVars, childVars, wireVars,
                   history>>

\* is_retryable and the end of the loop's body.
Decide ==
    /\ pc = "decide"
    /\ IF cancelled \/ error \notin Retryable \/ attempt >= Attempts
       THEN /\ pc' = "done"
            /\ outcome' = CASE cancelled -> "cancelled"
                            [] ~cancelled /\ error = "none" -> "returned"
                            [] OTHER -> error
       ELSE pc' = "sleep" /\ UNCHANGED outcome
    /\ UNCHANGED <<attempt, delay, error, cancelled, tripVars, sessionVars, childVars,
                   wireVars, history>>

Slept ==
    /\ pc = "sleep"
    /\ IF cancelled THEN pc' = "done" /\ outcome' = "cancelled" /\ UNCHANGED delay
       ELSE /\ pc' = "idle"
            /\ delay' = IF 2 * delay < BackoffMax THEN 2 * delay ELSE BackoffMax
            /\ UNCHANGED outcome
    /\ UNCHANGED <<attempt, error, cancelled, tripVars, sessionVars, childVars, wireVars,
                   history>>

Done == pc = "done" /\ UNCHANGED vars

-------------------------------------------------------------------------------
Answers(kind) == IF kind = "limits" THEN {"ok", "no", "short"} ELSE {"ok", "no", "busy"}
JunkBody == {VersionBody(3), ReplyBody(0, "ok")}

Env ==
    \/ Drain \/ ChildExits \/ ChildHangsUp
    \/ \E n \in 1 .. MaxStderr : \E lines \in [1 .. n -> Line] : ChildRefuses(lines)
    \/ \E v \in {2, 3} : ServerVersion(v)
    \/ \E q \in asked, answers \in BOOLEAN :
           \E a \in Answers(q.kind) : ServerPerforms(q, a, answers)
    \/ \E b \in JunkBody : ServerJunk(b)

ReadsSome ==
    \E n \in Chunks, referenced \in BOOLEAN :
        \/ ReadVersion(n, referenced)
        \/ ReadLimits(n, referenced)
        \/ ReaderReads(n, referenced)

Client ==
    \/ Connect
    \/ ConnectFails
    \/ SendInit \/ SendBroken \/ HandshakeDeadline \/ HandshakeEnds
    \/ SendProbe \/ SkipProbe \/ ProbeDeadline \/ StartSession
    \/ Ask \/ Answered  \/ Works("none") \/ Works("no") \/ Fails \/ WriteBroken \/ RequestDeadline
    \/ CloseDispatcher \/ CloseStdin \/ ReleasePipes \/ ReapWaited \/ ReapEscalates
    \/ Decide \/ Slept

Next == Client \/ ReadsSome \/ ReaderEnds \/ CancelBody \/ Cancel \/ Env \/ Done

Spec == Init /\ [][Next]_vars

\* Every task runs, every timer fires, and a killed child dies.  Nothing is
\* promised of a server that may answer.
Fairness ==
    /\ WF_vars(Client)
    /\ WF_vars(child.signal = "kill" /\ ChildExits)
FairSpec == Spec /\ Fairness

-------------------------------------------------------------------------------
(* Properties. *)

\* One disjoint union, so that a value of the wrong kind shows up wherever it lands.
TypeOK ==
    /\ attempt \in 0 .. Attempts /\ delay \in 1 .. BackoffMax
    /\ error \in Failure \cup {"none", "cancelled"}
    /\ outcome \in Failure \cup {"none", "cancelled", "returned"}
    /\ child.state \in {"none", "running", "mute", "exited", "reaped"}
    /\ codec.outstanding \subseteq 1 .. codec.next
    /\ taken \in 0 .. Len(written)

\* However the stream is cut into chunks, whichever buffer was moved or left to a reader
\* of an earlier frame: the codec was handed the frames that are complete, once each, and
\* the splitter holds exactly the beginning of the next (FrameSplitter.feed).  The codec
\* fails only at what the server really sent, never at a reply that is merely late.
SplitterKeepsPlace ==
    /\ TypeOK
    /\ codec.state = "failed" => greeted = "junk"
    /\ codec.state # "failed" =>
         LET whole == {i \in DOMAIN ends : ends[i] <= taken}
             last == IF whole = {} THEN 0 ELSE ends[Cardinality(whole)]
         IN  /\ handled = Cardinality(whole)
             /\ SubSeq(splitter.buf, splitter.start + 1, Len(splitter.buf))
                = SubSeq(written, last + 1, taken)

\* Whatever went wrong, and whatever the child made of being told to leave: no child
\* outlives its attempt (SubprocessTransport.aclose, and the finally that calls it).
NoChildLeft == pc \in {"sleep", "idle", "done"} => child.state \in {"none", "reaped"}

\* The shielded CLOSE of a body that was cancelled or failed waits for an answer only
\* while somebody is there to route it, or the failure of whoever was (D-34).
CleanupIsHeard ==
    InBody /\ request # NoId => reader \/ failure # "none" \/ reply # "none"

\* A call that returns did so in an attempt whose server performed all of it: no answer
\* of the probe that came late, and none of an earlier attempt, was taken for one.
ReturnedWasPerformed ==
    outcome = "returned" => {"open", "close"} \subseteq performed

\* The operation is not run again once it was refused for good, or done and its handle
\* closed, or once the caller gave up: whatever the cleanup, the teardown or the server's
\* silence made of the attempt afterwards (with_reconnect, is_retryable, close_quietly).
SettledIsFinal ==
    [][settled \/ cancelled => attempt' = attempt]_vars

\* A call ends, whatever the server and the child do.
CallEnds == <>(pc = "done")

===============================================================================
