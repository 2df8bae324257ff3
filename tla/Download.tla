------------------------------- MODULE Download -------------------------------
(***************************************************************************)
(* Session.get and the pipelined reader under it: session/_download.py and *)
(* the download half of session/_session.py and session/_policy.py.        *)
(*                                                                         *)
(* A call sends STAT and OPEN together (STAT alone when it resumes), gates *)
(* what a resume adopts, then keeps up to Depth READs in flight.  Replies  *)
(* come in any order; a short one puts the rest of its range back on the   *)
(* backlog; an EOF stops the issuing of new ranges.  The local file is     *)
(* written at explicit offsets and outlives the call, so the next call may *)
(* resume from it.                                                         *)
(*                                                                         *)
(* A byte is its offset: `held' is the set of offsets at which the local   *)
(* file has the remote byte, and an offset below `length' that is not held *)
(* is a hole, which reads as zero.  Wire framing, request ids, the send    *)
(* lock and the reaper are in Dispatcher.                                  *)
(***************************************************************************)
EXTENDS Integers, Sequences, FiniteSets

CONSTANTS
    ReadLength,  \* payload bytes asked for in one READ
    Scenes,      \* the circumstances calls are made in
    MaxSize      \* bound: the longest the remote file gets

ASSUME DownloadAssumption ==
    /\ ReadLength \in Nat \ {0} /\ MaxSize \in Nat
    /\ \A s \in Scenes :
          /\ s.depth \in Nat \ {0} /\ s.calls \in Nat /\ s.largest \in 0 .. MaxSize
          /\ s.options \subseteq [resume : BOOLEAN, verifySize : BOOLEAN,
                                  verify : {"size", "hash", "reread"}, preserve : BOOLEAN]
          /\ s.sized \subseteq BOOLEAN /\ s.sized # {}
          /\ s.terse \subseteq BOOLEAN /\ s.terse # {}
          /\ s.checkFile \in BOOLEAN /\ s.shifting \in BOOLEAN
          /\ s.quirks \subseteq {"zero", "long", "refusal"}
          /\ s.cancels \subseteq {"opening", "transfer", "closing"}
          /\ s.congested \in BOOLEAN

VARIABLES
    scene,        \* the circumstances, which do not change
    size,         \* the remote file's length now
    handles,      \* handles the server holds open for this client
    link,         \* "up" or "down"
    closes,       \* CLOSEs written for handles the server has not closed yet
    left,         \* history: handles given up with no CLOSE written for them
    held,         \* offsets at which the local file has the remote byte
    length,       \* the local file's length
    exists,       \* whether there is a local file
    calls,        \* calls made so far
    pc,           \* where the current call is
    ask,          \* its keyword arguments
    opening,      \* of STAT and OPEN, those not answered yet
    handle,       \* whether this call has been given a handle
    attrs,        \* what STAT answered: [size, permissions]
    start,        \* first byte this run asks for
    checks,       \* what the result says of [resume, size, content]
    backlog,      \* ranges to be asked for again, oldest first
    nextOffset,   \* first offset never asked for
    outstanding,  \* ranges asked for and not answered to the reader
    answers,      \* answers given to those by the server, not yet handled
    written,      \* bytes this run has counted
    eofSeen,      \* _eof_at is set
    seenZero,     \* one empty DATA has been let through
    landed,       \* offsets this run has given to its sink
    ended         \* offsets of the ranges that were answered EOF

remote == <<size, handles, link, closes, left>>
local  == <<held, length, exists>>
call   == <<calls, ask>>
opened == <<opening, handle, attrs>>
window == <<backlog, nextOffset, outstanding, answers>>
tally  == <<written, eofSeen, seenZero, landed, ended>>
vars   == <<scene, remote, local, call, pc, opened, start, checks, window, tally>>

-------------------------------------------------------------------------------
(* The circumstances *)

Depth == scene.depth            \* READs in flight
Options == scene.options        \* the keyword arguments calls are made with
Sized == scene.sized            \* whether the server reports a size
Terse == scene.terse            \* whether it leaves out permissions
CheckFile == scene.checkFile    \* whether the server performs check-file (rung 1)
Quirks == scene.quirks          \* answers this server may give beyond data and EOF
Shifting == scene.shifting      \* whether the remote file grows and shrinks under the reader
CancelsIn == scene.cancels      \* where a caller's deadline or cancellation is delivered
Congested == scene.congested    \* whether a request may wait out its deadline for the send lock

(* Ranges and answers *)

\* A size the server did not report; attrs.size is None in the code.
Unknown == -1

Offsets == 0..MaxSize - 1

Lesser(a, b) == IF a < b THEN a ELSE b
Greater(a, b) == IF a < b THEN b ELSE a

Ranges == [offset : Nat, length : Nat \ {0}]
Cells(r) == r.offset .. r.offset + r.length - 1
CellsOf(rs) == UNION {Cells(r) : r \in rs}
Queued == {backlog[i] : i \in DOMAIN backlog}

\* What one READ can be answered with.
Answers == [range : Ranges, kind : {"data", "eof", "refused"}, count : Nat]

\* The span of this run; the end is unknown when the size is.
SpanEnd == attrs.size
Transferring == pc \in {"filling", "waiting"}

-------------------------------------------------------------------------------
(* The call, up to the first READ *)

NoAttrs == [size |-> Unknown, permissions |-> TRUE]
Unchecked == [resume |-> "skipped", size |-> "skipped", content |-> "skipped"]
AnyOptions == [resume |-> FALSE, verifySize |-> TRUE, verify |-> "size",
               preserve |-> FALSE]

Init ==
    /\ scene \in Scenes /\ size \in 0..scene.largest /\ handles = 0 /\ link = "up"
    /\ closes = 0 /\ left = 0
    /\ held = {} /\ length = 0 /\ exists = FALSE
    /\ calls = 0 /\ pc = "idle" /\ ask = AnyOptions
    /\ opening = {} /\ handle = FALSE /\ attrs = NoAttrs
    /\ start = 0 /\ checks = Unchecked
    /\ backlog = <<>> /\ nextOffset = 0 /\ outstanding = {} /\ answers = {}
    /\ written = 0 /\ eofSeen = FALSE /\ seenZero = FALSE
    /\ landed = {} /\ ended = {}

\* get() is called, on a fresh session when the last one's link is down.
Get(options) ==
    /\ pc \in {"idle", "returned", "raised"}
    /\ calls < scene.calls
    /\ calls' = calls + 1
    /\ ask' = options
    /\ link' = "up"
    /\ opening' = IF options.resume THEN {"STAT"} ELSE {"STAT", "OPEN"}
    /\ handle' = FALSE /\ attrs' = NoAttrs
    /\ start' = 0 /\ checks' = Unchecked
    /\ backlog' = <<>> /\ nextOffset' = 0 /\ outstanding' = {} /\ answers' = {}
    /\ written' = 0 /\ eofSeen' = FALSE /\ seenZero' = FALSE
    /\ landed' = {} /\ ended' = {}
    /\ pc' = "opening"
    /\ UNCHANGED <<size, handles, closes, left, local>>

StatAnswered ==
    /\ "STAT" \in opening /\ link = "up"
    /\ opening' = opening \ {"STAT"}
    /\ \E sized \in Sized, terse \in Terse :
         attrs' = [size |-> IF sized THEN size ELSE Unknown, permissions |-> ~terse]
    /\ UNCHANGED <<remote, local, call, pc, handle, start, checks, window, tally>>

OpenAnswered ==
    /\ "OPEN" \in opening /\ link = "up"
    /\ opening' = opening \ {"OPEN"}
    /\ handle' = TRUE
    /\ handles' = handles + 1
    /\ UNCHANGED <<size, link, closes, left, local, call, pc, attrs, start, checks, window, tally>>

\* A handle already won is forgotten with no CLOSE written; with the link down the
\* server has forgotten it too.
Leave ==
    /\ handle' = FALSE
    /\ left' = IF handle /\ link = "up" THEN left + 1 ELSE left

\* Where a failure goes once the call owns a handle: close_quietly, then raise.
AfterFailure == IF handle THEN "cleanup" ELSE "raised"

\* Mutant: the STAT is lost and the handle its sibling won is forgotten.
SiblingForgotten ==
    /\ opening # {} /\ pc = "opening" /\ link = "up"
    /\ opening' = {}
    /\ pc' = "raised"
    /\ UNCHANGED <<remote, local, call, handle, attrs, start, checks, window, tally>>

\* One of the pair is refused: the task group cancels the other, whose handle,
\* if its OPEN is answered later, is the reaper's; one already won is closed.
OpeningRefused ==
    /\ opening # {} /\ pc = "opening" /\ link = "up"
    /\ opening' = {}
    /\ pc' = AfterFailure
    /\ UNCHANGED <<remote, local, call, handle, attrs, start, checks, window, tally>>

\* The caller gives up while the pair is in flight.  A cancellation alone leaves
\* an asyncio task group bare, not in an exception group, so the handler that
\* closes a handle already won does not run.
OpeningCancelled ==
    /\ "opening" \in CancelsIn
    /\ pc = "opening" /\ opening # {}
    /\ opening' = {}
    /\ Leave
    /\ pc' = "raised"
    /\ UNCHANGED <<size, handles, link, closes, local, call, attrs, start, checks,
                   window, tally>>

\* _download_mode: nothing to preserve is an error, raised outside the handler
\* that closes the handle.
ModeRefused ==
    /\ pc = "opening" /\ opening = {}
    /\ ask.preserve /\ ~attrs.permissions
    /\ Leave
    /\ pc' = "raised"
    /\ UNCHANGED <<size, handles, link, closes, local, call, opening, attrs, start, checks,
                   window, tally>>

Modelled == ~(ask.preserve /\ ~attrs.permissions)

\* _download_resume_offset: no size, or a partial longer than the file.
ResumeRefused ==
    /\ pc = "opening" /\ opening = {} /\ Modelled
    /\ ask.resume
    /\ attrs.size = Unknown \/ length > attrs.size
    /\ pc' = "raised"
    /\ UNCHANGED <<remote, local, call, opened, start, checks, window, tally>>

ResumeOffset ==
    /\ pc = "opening" /\ opening = {} /\ Modelled
    /\ ~ask.resume \/ (attrs.size # Unknown /\ length <= attrs.size)
    /\ start' = IF ask.resume THEN length ELSE 0
    /\ pc' = "gating"
    /\ UNCHANGED <<remote, local, call, opened, checks, window, tally>>

\* Rung 1 runs where the server performs it, rung 2 where the caller asks.
Comparable(verify) == verify = "reread" \/ CheckFile
\* Whether the first n bytes of the two files agree.
PrefixAgrees(n) == 0..n - 1 \subseteq held /\ n <= size

\* gate_resume: what is adopted is compared where it can be.
ResumeVerdict ==
    CASE start = 0 -> "skipped"
      [] start > 0 /\ ~Comparable(ask.verify) -> "unavailable"
      [] start > 0 /\ Comparable(ask.verify) ->
           IF PrefixAgrees(start) THEN "matched" ELSE "refused"

Complete == ask.resume /\ start = attrs.size

\* A comparison reads the remote file through a handle of its own and closes that
\* quietly: its CLOSE is answered, or the deadline comes first, and then it has been
\* written and will be performed or, behind a held send lock, never was written.
ProbeCloses(comparing) ==
    \/ UNCHANGED <<handles, closes, left>>
    \/ /\ comparing /\ link = "up"
       /\ handles' = handles + 1
       /\ \/ closes' = closes + 1 /\ UNCHANGED left
          \/ Congested /\ left' = left + 1 /\ UNCHANGED closes

GateCompares == start > 0 /\ Comparable(ask.verify)

\* The comparison is refused, times out, is cancelled or finds the link down.
GateFails ==
    /\ pc = "gating" /\ GateCompares
    /\ ProbeCloses(TRUE)
    /\ pc' = "raised"
    /\ UNCHANGED <<size, link, local, call, opened, start, checks, window, tally>>

GateRefuses ==
    /\ pc = "gating" /\ ResumeVerdict = "refused" /\ link = "up"
    /\ ProbeCloses(TRUE)
    /\ pc' = "raised"
    /\ UNCHANGED <<size, link, local, call, opened, start, checks, window, tally>>

GatePasses ==
    /\ pc = "gating" /\ ResumeVerdict # "refused" /\ ~Complete
    /\ GateCompares => link = "up"
    /\ ProbeCloses(GateCompares)
    /\ checks' = [checks EXCEPT !.resume = ResumeVerdict]
    /\ opening' = IF ask.resume THEN {"OPEN"} ELSE {}
    /\ pc' = IF ask.resume THEN "reopening" ELSE "creating"
    /\ UNCHANGED <<size, link, local, call, handle, attrs, start, window, tally>>

\* A resume of a complete file returns without opening anything.  The mode and
\* the times it is asked for go on the local file, which must be there for that.
AlreadyComplete ==
    /\ pc = "gating" /\ ResumeVerdict # "refused" /\ Complete
    /\ GateCompares => link = "up"
    /\ ProbeCloses(GateCompares)
    /\ IF ask.preserve /\ ~exists
       THEN pc' = "raised" /\ UNCHANGED checks
       ELSE /\ pc' = "returned"
            /\ checks' = [resume  |-> ResumeVerdict,
                          size    |-> "matched",
                          content |-> IF ask.verify = "size" THEN "skipped"
                                      ELSE IF ResumeVerdict = "matched" THEN "matched"
                                      ELSE "unavailable"]
    /\ UNCHANGED <<size, link, local, call, opened, start, window, tally>>

\* The resume path opens only now.
ReopenAnswered ==
    /\ pc = "reopening" /\ opening = {}
    /\ pc' = "creating"
    /\ UNCHANGED <<remote, local, call, opened, start, checks, window, tally>>

ReopenRefused ==
    /\ pc = "reopening" /\ opening # {} /\ link = "up"
    /\ opening' = {}
    /\ pc' = "raised"
    /\ UNCHANGED <<remote, local, call, handle, attrs, start, checks, window, tally>>

\* The local file is opened, truncated unless there is something to keep.
CreateLocal ==
    /\ pc = "creating"
    /\ held' = IF start = 0 THEN {} ELSE held
    /\ length' = IF start = 0 THEN 0 ELSE length
    /\ exists' = TRUE
    /\ nextOffset' = start
    /\ pc' = "filling"
    /\ UNCHANGED <<remote, call, opened, start, checks, backlog, outstanding,
                   answers, tally>>

\* The local open is refused; the remote handle is closed quietly.
LocalRefused ==
    /\ pc = "creating"
    /\ pc' = "cleanup"
    /\ UNCHANGED <<remote, local, call, opened, start, checks, window, tally>>

-------------------------------------------------------------------------------
(* The scheduler: _Downloader.run *)

MoreToIssue ==
    \/ backlog # <<>>
    \/ ~eofSeen /\ (SpanEnd = Unknown \/ nextOffset < SpanEnd)

NextRange ==
    IF backlog # <<>> THEN Head(backlog)
    ELSE [offset |-> nextOffset,
          length |-> IF SpanEnd = Unknown THEN ReadLength
                     ELSE Lesser(ReadLength, SpanEnd - nextOffset)]

\* One turn of _fill_window: the range is recorded, then the READ is sent.
Issue ==
    /\ pc = "filling" /\ link = "up"
    /\ Cardinality(outstanding) < Depth /\ MoreToIssue
    /\ outstanding' = outstanding \cup {NextRange}
    /\ IF backlog # <<>>
       THEN backlog' = Tail(backlog) /\ UNCHANGED nextOffset
       ELSE nextOffset' = nextOffset + NextRange.length /\ UNCHANGED backlog
    /\ UNCHANGED <<remote, local, call, pc, opened, start, checks, answers, tally>>

\* The window is full, or there is nothing more to ask for.
WindowFilled ==
    /\ pc = "filling"
    /\ Cardinality(outstanding) >= Depth \/ ~MoreToIssue
    /\ pc' = IF outstanding = {} THEN "closing" ELSE "waiting"
    /\ UNCHANGED <<remote, local, call, opened, start, checks, window, tally>>

\* An answer: data up to what the file holds now, EOF at or past its end, or
\* one of the server's quirks.
AnswersTo(r) ==
    {[range |-> r, kind |-> "data", count |-> n] :
        n \in 1..Lesser(r.length, size - r.offset)}
    \cup (IF r.offset >= size
          THEN {[range |-> r, kind |-> "eof", count |-> 0]} ELSE {})
    \cup (IF "zero" \in Quirks
          THEN {[range |-> r, kind |-> "data", count |-> 0]} ELSE {})
    \cup (IF "long" \in Quirks
          THEN {[range |-> r, kind |-> "data", count |-> r.length + 1]} ELSE {})
    \cup (IF "refusal" \in Quirks
          THEN {[range |-> r, kind |-> "refused", count |-> 0]} ELSE {})

\* The server may answer the READs it holds in any order.
ServerReads(r) ==
    /\ link = "up" /\ r \in outstanding
    /\ \A a \in answers : a.range # r
    /\ \E a \in AnswersTo(r) : answers' = answers \cup {a}
    /\ UNCHANGED <<remote, local, call, pc, opened, start, checks, backlog,
                   nextOffset, outstanding, tally>>

Take(a) ==
    /\ pc = "waiting" /\ a \in answers
    /\ answers' = answers \ {a}
    /\ outstanding' = outstanding \ {a.range}

\* Mutant: nothing limits the empty DATA.
TolerableZeros(a) == a.count <= a.range.length

\* A DATA may be short but never long, and one only may be empty.
Tolerable(a) == a.count <= a.range.length /\ ~(a.count = 0 /\ seenZero)

\* Where a payload of n bytes for r goes.
Payload(r, n) == r.offset .. r.offset + n - 1

\* Mutant: the missing part is taken to begin where the range does.
RestMisplaced(r, n) ==
    IF n < r.length THEN <<[offset |-> r.offset, length |-> r.length - n]>> ELSE <<>>

\* The part of r that n bytes leave out, to be asked for again.
Rest(r, n) ==
    IF n < r.length THEN <<[offset |-> r.offset + n, length |-> r.length - n]>> ELSE <<>>

\* Mutant: a short DATA is taken for the end of its range.
ShortIsWhole(a) ==
    /\ Take(a) /\ a.kind = "data" /\ Tolerable(a)
    /\ landed' = landed \cup Payload(a.range, a.count)
    /\ held' = held \cup Payload(a.range, a.count)
    /\ length' = IF a.count = 0 THEN length ELSE Greater(length, a.range.offset + a.count)
    /\ written' = written + a.count
    /\ seenZero' = (seenZero \/ a.count = 0)
    /\ pc' = "filling"
    /\ UNCHANGED <<remote, exists, call, opened, start, checks, backlog,
                   nextOffset, eofSeen, ended>>

\* _handle_data: write it where it belongs, ask again for what is missing.
HandleData(a) ==
    /\ Take(a) /\ a.kind = "data" /\ Tolerable(a)
    /\ landed' = landed \cup Payload(a.range, a.count)
    /\ held' = held \cup Payload(a.range, a.count)
    /\ length' = IF a.count = 0 THEN length ELSE Greater(length, a.range.offset + a.count)
    /\ written' = written + a.count
    /\ seenZero' = (seenZero \/ a.count = 0)
    /\ backlog' = backlog \o Rest(a.range, a.count)
    /\ pc' = "filling"
    /\ UNCHANGED <<remote, exists, call, opened, start, checks, nextOffset,
                   eofSeen, ended>>

\* _handle_status: EOF stops the issuing of ranges never asked for.
HandleEOF(a) ==
    /\ Take(a) /\ a.kind = "eof"
    /\ eofSeen' = TRUE
    /\ ended' = ended \cup Cells(a.range)
    /\ pc' = "filling"
    /\ UNCHANGED <<remote, local, call, opened, start, checks, backlog, nextOffset,
                   written, seenZero, landed>>

\* A refused READ, an overlong DATA or a second empty one ends the transfer.
HandleRefusal(a) ==
    /\ Take(a)
    /\ a.kind = "refused" \/ (a.kind = "data" /\ ~Tolerable(a))
    /\ pc' = "cleanup"
    /\ UNCHANGED <<remote, local, call, opened, start, checks, backlog, nextOffset,
                   tally>>

Dispatch(a) == HandleData(a) \/ HandleEOF(a) \/ HandleRefusal(a)

\* Nothing arrives for idle_timeout with READs outstanding.
IdleTimeout ==
    /\ pc = "waiting" /\ answers = {}
    /\ pc' = "cleanup"
    /\ UNCHANGED <<remote, local, call, opened, start, checks, window, tally>>

\* The caller's deadline or cancellation, at an await of the transfer.
Cancelled ==
    /\ "transfer" \in CancelsIn
    /\ Transferring
    /\ pc' = "cleanup"
    /\ UNCHANGED <<remote, local, call, opened, start, checks, window, tally>>

\* The session has failed: whatever this call awaits raises, and a CLOSE is moot.
LinkFails ==
    /\ link = "down"
    /\ pc \in {"opening", "reopening", "filling", "waiting", "cleanup", "cleaning",
              "closing", "parting"}
    /\ pc' = IF pc \in {"opening", "reopening", "filling", "waiting"} THEN AfterFailure
             ELSE "raised"
    /\ opening' = {}
    /\ UNCHANGED <<remote, local, call, handle, attrs, start, checks, window, tally>>

-------------------------------------------------------------------------------
(* CLOSE, at the end of a transfer and, in close_quietly, of a failed one *)

\* CLOSE is written: from here on the server is to close the handle.
SendClose ==
    /\ pc \in {"closing", "cleanup"} /\ link = "up"
    /\ closes' = closes + 1
    /\ handle' = FALSE
    /\ pc' = IF pc = "closing" THEN "parting" ELSE "cleaning"
    /\ UNCHANGED <<size, handles, link, left, local, call, opening, attrs, start, checks,
                   window, tally>>

\* CLOSE is given up before it is written.  The last close of a transfer is awaited
\* bare, so a caller's cancellation ends it; close_quietly is shielded from that, but
\* either is ended by the request deadline while somebody else holds the send lock.
CloseCut ==
    /\ pc \in {"closing", "cleanup"} /\ link = "up"
    /\ Congested \/ (pc = "closing" /\ "closing" \in CancelsIn)
    /\ Leave
    /\ pc' = "raised"
    /\ UNCHANGED <<size, handles, link, closes, local, call, opening, attrs, start, checks,
                   window, tally>>

\* The CLOSE is performed and answered; refusing that of a finished transfer fails
\* the call all the same.
CloseAnswered ==
    /\ pc \in {"parting", "cleaning"} /\ link = "up"
    /\ handles' = handles - 1
    /\ closes' = closes - 1
    /\ pc' \in IF pc = "parting" THEN {"confirming", "raised"} ELSE {"raised"}
    /\ UNCHANGED <<size, link, left, local, call, opened, start, checks, window, tally>>

\* The deadline of the request, or of the caller, comes before the answer.
CloseUnanswered ==
    /\ pc \in {"parting", "cleaning"} /\ link = "up"
    /\ pc' = "raised"
    /\ UNCHANGED <<remote, local, call, opened, start, checks, window, tally>>

\* The server performs a CLOSE whose sender has gone.
AwaitedCloses == IF pc \in {"parting", "cleaning"} THEN 1 ELSE 0
LateClose ==
    /\ link = "up" /\ closes > AwaitedCloses
    /\ handles' = handles - 1
    /\ closes' = closes - 1
    /\ UNCHANGED <<size, link, left, local, call, pc, opened, start, checks, window, tally>>

-------------------------------------------------------------------------------
(* After the last byte *)

Arrived == start + written

\* Mutant: one byte less than was announced is let through.
SizeVerdictShort ==
    CASE ~ask.verifySize -> "skipped"
      [] ask.verifySize /\ attrs.size = Unknown -> "unavailable"
      [] ask.verifySize /\ attrs.size # Unknown ->
           IF Arrived >= attrs.size - 1 THEN "matched" ELSE "refused"

\* _confirm_download_size.
SizeVerdict ==
    CASE ~ask.verifySize -> "skipped"
      [] ask.verifySize /\ attrs.size = Unknown -> "unavailable"
      [] ask.verifySize /\ attrs.size # Unknown ->
           IF Arrived = attrs.size THEN "matched" ELSE "refused"

\* verify_downloaded_content, at the rung asked for.
ContentVerdict ==
    CASE ask.verify = "size" -> "skipped"
      [] ask.verify # "size" /\ ~Comparable(ask.verify) -> "unavailable"
      [] ask.verify # "size" /\ Comparable(ask.verify) ->
           IF PrefixAgrees(Arrived) THEN "matched" ELSE "refused"

ContentCompares ==
    /\ ask.verify # "size" /\ Comparable(ask.verify)
    /\ SizeVerdict # "refused" /\ Arrived > 0

\* The comparison is refused, times out, is cancelled or finds the link down.
ConfirmFails ==
    /\ pc = "confirming" /\ ContentCompares
    /\ ProbeCloses(TRUE)
    /\ pc' = "raised"
    /\ UNCHANGED <<size, link, local, call, opened, start, checks, window, tally>>

Confirm ==
    /\ pc = "confirming"
    /\ ContentCompares => link = "up"
    /\ ProbeCloses(ContentCompares)
    /\ checks' = [checks EXCEPT !.size = SizeVerdict, !.content = ContentVerdict]
    /\ pc' = IF "refused" \in {SizeVerdict, ContentVerdict} THEN "raised" ELSE "returned"
    /\ UNCHANGED <<size, link, local, call, opened, start, window, tally>>

-------------------------------------------------------------------------------
(* The environment *)

\* The connection or the process on either side dies; the server forgets its
\* handles, and the local file stays as it is.
LinkDrops ==
    /\ link = "up" /\ pc \notin {"idle", "returned", "raised"}
    /\ link' = "down" /\ handles' = 0 /\ closes' = 0 /\ left' = 0
    /\ UNCHANGED <<size, local, call, pc, opened, start, checks, window, tally>>

\* Somebody appends to the remote file or truncates it.
FileShifts ==
    /\ Shifting
    /\ size' \in {size - 1, size + 1} \cap (0..scene.largest)
    /\ UNCHANGED <<handles, link, closes, left, local, call, pc, opened, start, checks, window, tally>>

Step ==
    \/ \E options \in Options : Get(options)
    \/ StatAnswered \/ OpenAnswered \/ OpeningRefused \/ OpeningCancelled
    \/ ModeRefused \/ ResumeRefused \/ ResumeOffset
    \/ GateFails \/ GateRefuses \/ GatePasses \/ AlreadyComplete
    \/ ReopenAnswered \/ ReopenRefused \/ CreateLocal \/ LocalRefused
    \/ Issue \/ WindowFilled
    \/ \E r \in outstanding : ServerReads(r)
    \/ \E a \in answers : Dispatch(a)
    \/ IdleTimeout \/ Cancelled \/ LinkFails
    \/ SendClose \/ CloseCut \/ CloseAnswered \/ CloseUnanswered \/ LateClose
    \/ ConfirmFails \/ Confirm
    \/ LinkDrops \/ FileShifts

Next == Step /\ UNCHANGED scene
Spec == Init /\ [][Next]_vars

\* The client's own steps are the event loop's; its waits are bounded by the
\* idle and request deadlines.  The server owes nothing, and neither the link,
\* the caller's cancellation nor the file is fair.
ClientSteps ==
    \/ ModeRefused \/ ResumeRefused \/ ResumeOffset
    \/ GateRefuses \/ GatePasses \/ AlreadyComplete \/ ReopenAnswered
    \/ CreateLocal \/ Issue \/ WindowFilled \/ IdleTimeout \/ LinkFails
    \/ SendClose \/ CloseCut \/ Confirm
    \/ \E a \in answers : Dispatch(a)

\* A request nobody answers is refused by its deadline.
DeadlineSteps ==
    OpeningRefused \/ ReopenRefused \/ CloseUnanswered \/ GateFails \/ ConfirmFails

FairSpec == Spec /\ WF_vars(ClientSteps /\ UNCHANGED scene)
                 /\ WF_vars(DeadlineSteps /\ UNCHANGED scene)

-------------------------------------------------------------------------------
(* Properties *)

Checks == [resume  : {"skipped", "unavailable", "matched"},
           size    : {"skipped", "unavailable", "matched", "refused"},
           content : {"skipped", "unavailable", "matched", "refused"}]

\* Every variable has its type; an answer is to a READ the reader still expects.
TypeOK ==
    /\ size \in 0..MaxSize /\ handles \in Nat /\ link \in {"up", "down"}
    /\ closes \in Nat /\ left \in Nat
    /\ held \subseteq Nat /\ length \in Nat /\ exists \in BOOLEAN
    /\ calls \in Nat /\ ask \in [resume : BOOLEAN, verifySize : BOOLEAN,
                                 verify : {"size", "hash", "reread"}, preserve : BOOLEAN]
    /\ pc \in {"idle", "opening", "gating", "reopening", "creating", "filling",
               "waiting", "closing", "parting", "confirming", "cleanup", "cleaning",
               "returned", "raised"}
    /\ opening \subseteq {"STAT", "OPEN"} /\ handle \in BOOLEAN
    /\ attrs \in [size : Nat \cup {Unknown}, permissions : BOOLEAN]
    /\ start \in Nat /\ checks \in Checks
    /\ backlog \in Seq(Ranges) /\ nextOffset \in Nat
    /\ outstanding \subseteq Ranges /\ answers \subseteq Answers
    /\ written \in Nat /\ eofSeen \in BOOLEAN /\ seenZero \in BOOLEAN
    /\ landed \subseteq Nat /\ ended \subseteq Nat
    /\ \A a \in answers : a.range \in outstanding

\* Where the offsets that were ever asked for are.
Accounted ==
    /\ landed \cup CellsOf(outstanding) \cup CellsOf(Queued) \cup ended
         = start .. nextOffset - 1
    /\ landed \cap (CellsOf(outstanding) \cup CellsOf(Queued) \cup ended) = {}
    /\ ended \cap (CellsOf(outstanding) \cup CellsOf(Queued)) = {}
    /\ CellsOf(outstanding) \cap CellsOf(Queued) = {}
    /\ \A r, s \in outstanding : r # s => Cells(r) \cap Cells(s) = {}
    /\ \A i, j \in DOMAIN backlog : i # j => Cells(backlog[i]) \cap Cells(backlog[j]) = {}
    /\ SpanEnd # Unknown => nextOffset <= Greater(start, SpanEnd)

\* The offsets of the span that were ever asked for are split between the bytes
\* that landed, the ranges in flight, the shortfalls waiting to be asked for
\* again and those past an EOF: a short, late or reordered answer neither loses
\* an offset nor asks for one twice (_next_range, _handle_data).  The count the size
\* check compares is the number of bytes that landed (_written).
EveryByteOnce ==
    /\ TypeOK
    /\ written = Cardinality(landed)
    /\ Transferring \/ pc = "closing" => Accounted

\* A size reported as matched is a whole file, whatever the server reordered,
\* cut short or appended meanwhile, unless an unchecked partial was adopted
\* (_confirm_download_size).
MatchedIsWhole ==
    (/\ pc = "returned" /\ checks.size = "matched"
     /\ start = 0 \/ checks.resume = "matched")
    => held = 0 .. attrs.size - 1 /\ length = attrs.size

\* Of a file nobody changes every byte arrives, with no size to compare against
\* and no check asked for: short answers and EOFs past the end lose nothing.
StableFileIsWhole ==
    (/\ ~Shifting /\ pc = "returned"
     /\ start = 0 \/ checks.resume = "matched")
    => held = 0 .. size - 1 /\ length = size

\* A content check that passed compared the whole of the local file, so it
\* holds no hole, even after an unchecked resume (verify_downloaded_content).
CheckedContentHasNoHole ==
    pc = "returned" /\ checks.content = "matched" => held = 0 .. length - 1

\* A call that returned and says so, or of a file nobody changed, has the file whole
\* (_confirm_download_size, _verify_content, _handle_eof).
ReturnedIsWhole == MatchedIsWhole /\ StableFileIsWhole /\ CheckedContentHasNoHole

\* Three ends of a call leave its handle open on a live link: callers who give up
\* between STAT and OPEN; a mode to preserve that the server does not tell; and a CLOSE
\* given up before it was written, by a caller's cancellation of the last close or by
\* the request deadline behind a held send lock.
LeavesNone ==
    /\ CancelsIn \cap {"opening", "closing"} = {}
    /\ ~Congested
    /\ TRUE \in Terse => \A options \in Options : ~options.preserve

\* However its calls end (get's close_quietly and close, the pair's handler, the handle
\* of a comparison), every handle the server still holds has a CLOSE on its way or is
\* one of those that LeavesNone excludes; where none of these can happen there are none.
HandlesReturned ==
    pc \in {"returned", "raised"} =>
        /\ handles = closes + left
        /\ LeavesNone => left = 0

\* A call that began ends, although the server may go silent, answer nothing
\* but empty DATA, or drop the link: the window never waits for a READ nobody
\* sent, and the second empty DATA is refused.
CallsEnd == pc = "opening" ~> pc \in {"returned", "raised"}

\* The state of this transfer, as its caller sees it.  A call that does not know or
\* does not check the size promises nothing, and counts as failed from its start.
Begun == pc \in {"filling", "waiting", "closing", "parting", "confirming", "returned"}
Promising == attrs.size # Unknown /\ ask.verifySize
Report ==
    CASE Begun /\ ~Promising -> "failed"
      [] Begun /\ Promising /\ pc # "returned" -> "moving"
      [] Promising /\ pc = "returned" -> "whole"
      [] pc \in {"cleanup", "cleaning", "raised"} -> "failed"
      [] OTHER -> "idle"
Promised == IF Begun /\ Promising THEN start .. SpanEnd - 1 ELSE {}
Delivered == IF Begun /\ Promising THEN landed ELSE {}
Promise == INSTANCE Transfer WITH
    MaxOffset <- MaxSize, status <- Report, wanted <- Promised, moved <- Delivered

\* Every step of a download whose size is known and checked is a step of the
\* promise: success is reported only with every byte of the span in the file.
KeepsPromise == Promise!Spec

-------------------------------------------------------------------------------
(* What the documentation says *)

\* tests/test_resume.py: "a download killed partway resumes to a byte identical
\* file".  It says so of the partial that an interrupted get leaves behind.
ResumedIsByteIdentical ==
    pc = "returned" /\ ask.resume => held = 0 .. size - 1
===============================================================================
