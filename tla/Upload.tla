-------------------------------- MODULE Upload --------------------------------
(***************************************************************************)
(* The pipelined writer, _Uploader of session/_upload.py: one task reads   *)
(* the source and sends WRITEs, another takes the answers, and a semaphore *)
(* keeps Depth of them in flight.  The two meet in `outstanding', in the   *)
(* semaphore and in the event `finished', which is set by whichever of     *)
(* them sees that everything was sent and everything acknowledged.         *)
(*                                                                         *)
(* A byte is its offset.  The frames, the ids and the send lock are in     *)
(* Dispatcher; here a WRITE is recorded, then at some later moment on the  *)
(* wire, and its answer may come before the sender has resumed.            *)
(***************************************************************************)
EXTENDS Integers, FiniteSets

CONSTANTS
    WriteLength,   \* payload bytes in one WRITE
    Depth,         \* WRITEs in flight
    IdleDeadline,  \* whether idle_timeout is set; None waits forever
    MaxSize        \* bound: the longest the source gets

ASSUME UploadAssumption ==
    /\ WriteLength \in Nat \ {0}
    /\ Depth \in Nat \ {0}
    /\ MaxSize \in Nat
    /\ IdleDeadline \in BOOLEAN

VARIABLES
    source,        \* the local file's length now
    least,         \* history: the shortest it has been since the run began
    start, end,    \* the span: end is what os.fstat said when the run began
    snd,           \* the sender: "new", "reading", "acquiring", "sending",
                   \* "sent" (its frame is out, it has not resumed),
                   \* "waiting" (on the event) or "over"
    offset,        \* where the sender reads next
    chunk,         \* bytes the sender has in hand
    permits,       \* free places of the semaphore
    outstanding,   \* chunks sent or being sent and not acknowledged
    wire,          \* chunks whose frame the server has
    answers,       \* the server's answers, not yet taken by the receiver
    acknowledged,  \* bytes the server has confirmed
    allSent,       \* the sender has left its loop
    finished,      \* the event
    stored,        \* offsets of this run's bytes that the server holds
    result         \* "none", "returned" or "raised"

sender   == <<snd, offset, chunk, allSent>>
receiver == <<acknowledged>>
shared   == <<permits, outstanding, finished>>
span     == <<start, end>>
file == <<source, least>>
vars == <<file, span, sender, receiver, shared, wire, answers, stored, result>>

Lesser(a, b) == IF a < b THEN a ELSE b

Chunks == [offset : Nat, length : Nat \ {0}]
Cells(c) == c.offset .. c.offset + c.length - 1
CellsOf(cs) == UNION {Cells(c) : c \in cs}

Running == result = "none"

-------------------------------------------------------------------------------
Init ==
    /\ source \in 0..MaxSize
    /\ end = source /\ least = source /\ start \in 0..source
    /\ snd = "new" /\ offset = start /\ chunk = 0 /\ allSent = FALSE
    /\ permits = Depth /\ outstanding = {} /\ finished = FALSE
    /\ wire = {} /\ answers = {}
    /\ acknowledged = 0 /\ stored = {} /\ result = "none"

\* Nothing left to send is a success that opens no task group.
NothingLeft ==
    /\ snd = "new" /\ start >= end
    /\ snd' = "over" /\ result' = "returned"
    /\ UNCHANGED <<file, span, offset, chunk, allSent, receiver, shared, wire,
                   answers, stored>>

Begin ==
    /\ snd = "new" /\ start < end
    /\ snd' = "reading"
    /\ UNCHANGED <<file, span, offset, chunk, allSent, receiver, shared, wire,
                   answers, stored, result>>

-------------------------------------------------------------------------------
(* The sender: _send_all *)

\* Mutant: the read is not clamped to the span.
ReadableUnclamped == Lesser(WriteLength, source - offset)

\* How many bytes a read at the offset returns: clamped to the span, and what
\* the file has now.
Readable == Lesser(Lesser(WriteLength, end - offset), source - offset)

ReadSource ==
    /\ Running /\ snd = "reading" /\ offset < end
    /\ Readable > 0
    /\ chunk' = Readable
    /\ snd' = "acquiring"
    /\ UNCHANGED <<file, span, offset, allSent, receiver, shared, wire, answers,
                   stored, result>>

\* _settle: the event is set once all is sent and nothing is outstanding.
Settled(sent, left) == finished \/ (sent /\ left = {})

\* Mutant: only an acknowledgement looks whether that was all.
SentUnsettled ==
    /\ Running /\ snd = "reading"
    /\ offset >= end \/ Readable <= 0
    /\ snd' = "waiting"
    /\ allSent' = TRUE
    /\ UNCHANGED <<file, span, offset, chunk, receiver, shared, wire, answers,
                   stored, result>>

\* The span is sent, or the source has shrunk and is empty from here on.
SentAll ==
    /\ Running /\ snd = "reading"
    /\ offset >= end \/ Readable <= 0
    /\ snd' = "waiting"
    /\ allSent' = TRUE
    /\ finished' = Settled(TRUE, outstanding)
    /\ UNCHANGED <<file, span, offset, chunk, receiver, permits, outstanding,
                   wire, answers, stored, result>>

InHand == [offset |-> offset, length |-> chunk]

\* Mutant: the chunk is not in the table while its frame is sent.
AcquireUnrecorded ==
    /\ Running /\ snd = "acquiring" /\ permits > 0
    /\ permits' = permits - 1
    /\ snd' = "sending"
    /\ UNCHANGED <<file, span, offset, chunk, allSent, receiver, outstanding,
                   finished, wire, answers, stored, result>>

\* A place in the window; the chunk is recorded before it is sent.
Acquire ==
    /\ Running /\ snd = "acquiring" /\ permits > 0
    /\ permits' = permits - 1
    /\ outstanding' = outstanding \cup {InHand}
    /\ snd' = "sending"
    /\ UNCHANGED <<file, span, offset, chunk, allSent, receiver, finished, wire,
                   answers, stored, result>>

\* The frame is handed to the transport; the sender is still inside send().
FrameWritten ==
    /\ Running /\ snd = "sending"
    /\ wire' = wire \cup {InHand}
    /\ snd' = "sent"
    /\ UNCHANGED <<file, span, offset, chunk, allSent, receiver, shared, answers,
                   stored, result>>

SenderResumes ==
    /\ Running /\ snd = "sent"
    /\ offset' = offset + chunk
    /\ snd' = "reading"
    /\ UNCHANGED <<file, span, chunk, allSent, receiver, shared, wire, answers,
                   stored, result>>

\* The event is set: the task group is cancelled and the run returns.
RunReturns ==
    /\ Running /\ snd = "waiting" /\ finished
    /\ snd' = "over" /\ result' = "returned"
    /\ UNCHANGED <<file, span, offset, chunk, allSent, receiver, shared, wire,
                   answers, stored>>

-------------------------------------------------------------------------------
(* The receiver: _receive_replies *)

Listening == Running /\ snd # "new" /\ ~finished

TakeAnswer(a) ==
    /\ Listening /\ a \in answers
    /\ answers' = answers \ {a}
    /\ outstanding' = outstanding \ {a.chunk}

\* _acknowledge of an OK: counted, the place given back, perhaps the last one.
Acknowledge(a) ==
    /\ TakeAnswer(a) /\ a.ok
    /\ acknowledged' = acknowledged + a.chunk.length
    /\ permits' = permits + 1
    /\ finished' = Settled(allSent, outstanding \ {a.chunk})
    /\ UNCHANGED <<file, span, sender, wire, stored, result>>

\* Mutant: a refused WRITE is counted with the others.
RefusalCounted(a) ==
    /\ TakeAnswer(a) /\ ~a.ok
    /\ acknowledged' = acknowledged + a.chunk.length
    /\ permits' = permits + 1
    /\ finished' = Settled(allSent, outstanding \ {a.chunk})
    /\ UNCHANGED <<file, span, sender, wire, stored, result>>

\* A refused WRITE raises, which cancels the sender wherever it is.
Refusal(a) ==
    /\ TakeAnswer(a) /\ ~a.ok
    /\ result' = "raised" /\ snd' = "over"
    /\ UNCHANGED <<file, span, offset, chunk, allSent, receiver, permits,
                   finished, wire, stored>>

\* Nothing arrives within idle_timeout, outstanding or not: the receiver waits
\* from the moment the task group starts, also while the source is read.
IdleTimeout ==
    /\ IdleDeadline
    /\ Listening /\ answers = {}
    /\ result' = "raised" /\ snd' = "over"
    /\ UNCHANGED <<file, span, offset, chunk, allSent, receiver, shared, wire,
                   answers, stored>>

-------------------------------------------------------------------------------
(* The environment *)

\* The server performs a WRITE it has, in any order, or refuses it.
ServerWrites(c) ==
    /\ c \in wire
    /\ wire' = wire \ {c}
    /\ \E ok \in BOOLEAN :
         /\ answers' = answers \cup {[chunk |-> c, ok |-> ok]}
         /\ stored' = IF ok THEN stored \cup Cells(c) ELSE stored
    /\ UNCHANGED <<file, span, sender, receiver, shared, result>>

\* The session fails or the caller gives up, at any await.
Interrupt ==
    /\ Running /\ snd # "new"
    /\ result' = "raised" /\ snd' = "over"
    /\ UNCHANGED <<file, span, offset, chunk, allSent, receiver, shared, wire,
                   answers, stored>>

SourceShifts ==
    /\ Running
    /\ source' \in {source - 1, source + 1} \cap (0..MaxSize)
    /\ least' = Lesser(least, source')
    /\ UNCHANGED <<span, sender, receiver, shared, wire, answers, stored, result>>

SenderSteps ==
    \/ NothingLeft \/ Begin \/ ReadSource \/ SentAll \/ Acquire
    \/ FrameWritten \/ SenderResumes \/ RunReturns
ReceiverSteps == \E a \in answers : Acknowledge(a) \/ Refusal(a)
ServerSteps == \E c \in wire : ServerWrites(c)

Next ==
    \/ SenderSteps \/ ReceiverSteps \/ IdleTimeout
    \/ ServerSteps \/ Interrupt \/ SourceShifts

Spec == Init /\ [][Next]_vars

\* The event loop runs both tasks, and the server answers what it was sent.  The
\* idle deadline is not relied on: it may be None.
Fairness == WF_vars(SenderSteps) /\ WF_vars(ReceiverSteps) /\ WF_vars(ServerSteps)

FairSpec == Spec /\ Fairness

-------------------------------------------------------------------------------
(* Properties *)

\* Every variable has its type.
TypeOK ==
    /\ source \in Nat /\ least \in Nat /\ start \in Nat /\ end \in Nat
    /\ snd \in {"new", "reading", "acquiring", "sending", "sent", "waiting", "over"}
    /\ offset \in Nat /\ chunk \in Nat
    /\ permits \in Nat /\ outstanding \subseteq Chunks
    /\ wire \subseteq Chunks /\ answers \subseteq [chunk : Chunks, ok : BOOLEAN]
    /\ acknowledged \in Nat /\ allSent \in BOOLEAN /\ finished \in BOOLEAN
    /\ stored \subseteq Nat /\ result \in {"none", "returned", "raised"}

\* The semaphore and the table agree: a place is taken for exactly the WRITEs
\* nobody has acknowledged, so the window neither overruns nor shrinks
\* (_window, _outstanding).
WindowBalanced ==
    Running => permits + Cardinality(outstanding) = Depth

\* Every answer finds its WRITE in the table, however early it comes: no reply
\* is taken for one to a WRITE never sent (_acknowledge).
RepliesAreExpected ==
    /\ TypeOK /\ WindowBalanced
    /\ Running => \A a \in answers : a.chunk \in outstanding

\* The offsets the sender has put in the table so far.
Recorded ==
    start .. offset - 1 + (IF snd \in {"sending", "sent"} THEN chunk ELSE 0)

\* A run that returns has its bytes on the server from the start on with no
\* hole, all of the span unless the source shrank under it (run).
ReturnedIsStored ==
    result = "returned" =>
        /\ stored = start .. start + acknowledged - 1
        /\ least >= end => start + acknowledged = end

\* What was sent and is not outstanding is on the server, byte for byte, and it
\* is what is counted: no byte is reported that may still be refused
\* (_acknowledged).
AcknowledgedIsStored ==
    /\ Running =>
        /\ Recorded \ CellsOf(outstanding) \subseteq stored
        /\ stored \subseteq start .. end - 1
        /\ acknowledged = Cardinality(Recorded \ CellsOf(outstanding))
    /\ ReturnedIsStored

\* A run that began ends: the event is set by whichever task is last, also when
\* the source ran out before the span did (_settle).
RunEnds == <>(result # "none")

\* The state of this transfer, as its caller sees it.  A sender that meets the end
\* of a source that has shrunk wants no more than what it has read.
Wanted == start .. (IF allSent /\ least < end THEN offset ELSE end) - 1
Report == CASE snd = "new" -> "idle"
            [] Running /\ snd # "new" -> "moving"
            [] result = "returned" -> "whole"
            [] OTHER -> "failed"
Promised == IF snd = "new" \/ result = "raised" THEN {} ELSE Wanted
Delivered == IF snd = "new" \/ result = "raised" THEN {} ELSE stored
Promise == INSTANCE Transfer WITH
    MaxOffset <- MaxSize, status <- Report, wanted <- Promised, moved <- Delivered

\* Every step of an upload is a step of the promise: it returns only with every
\* byte of the span on the server, or of as much as the source still had.
KeepsPromise == Promise!Spec
===============================================================================
