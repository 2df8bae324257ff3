------------------------------- MODULE Framing --------------------------------
(* The frame splitter of codec/_framing.py and the codec's reading of what it    *)
(* yields (codec/_codec.py: receive, _handle).  A stream is a sequence of cells: *)
(* a prefix of two cells that says how many cells of body follow, then the body. *)
(* Both work on a value that holds the buffer and the codec's state, so that     *)
(* whoever owns the connection's receive can apply them to its own variables.    *)
EXTENDS Naturals, Sequences, SequencesExt

CONSTANTS
    MaxFrameLength,    \* cells of the longest body that is accepted
    CompactThreshold   \* consumed cells at which the buffer is moved

ASSUME FramingAssumption ==
    /\ MaxFrameLength \in Nat \ {0}
    /\ CompactThreshold \in Nat \ {0}

PrefixSize == 2
Prefix(n) == <<<<"length", n \div 2>>, <<"length", n % 2>>>>
Framed(body) == Prefix(Len(body)) \o body

\* A packet's body: its type first, and what the codec looks at.
VersionBody(v) == <<<<"version", v>>>>
ReplyBody(id, answer) == <<<<"reply", id, answer>>>>

NewSplitter == [buf |-> <<>>, start |-> 0]
Buffered(sp) == Len(sp.buf) - sp.start

\* _reclaim: drop what was consumed when it is all there is, or enough to be worth it.
Reclaimed(sp) ==
    IF sp.start > 0 /\ (sp.start >= CompactThreshold \/ sp.start = Len(sp.buf))
    THEN [buf |-> SubSeq(sp.buf, sp.start + 1, Len(sp.buf)), start |-> 0]
    ELSE sp

\* A defect: the new buffer starts from the old one's beginning.
ResumesBehind(sp, data, referenced) ==
    IF referenced THEN [buf |-> sp.buf \o data, start |-> 0]
    ELSE [Reclaimed(sp) EXCEPT !.buf = @ \o data]

\* _absorb: a buffer of which a frame is still referenced is left to its reader, and
\* what is not yet parsed moves to a new one.
Absorb(sp, data, referenced) ==
    IF referenced
    THEN [buf |-> SubSeq(sp.buf, sp.start + 1, Len(sp.buf)) \o data, start |-> 0]
    ELSE [Reclaimed(sp) EXCEPT !.buf = @ \o data]

\* _next_frame: the frame that is complete at the splitter's place is one more of those that
\* were fed; or none is, or its length cannot be believed.
NextFrame(fed) ==
    LET sp == fed.splitter
        body == sp.start + PrefixSize
        length == 2 * sp.buf[sp.start + 1][2] + sp.buf[sp.start + 2][2]
    IN  IF fed.bad \/ Buffered(sp) < PrefixSize THEN fed
        ELSE IF length = 0 \/ length > MaxFrameLength THEN [fed EXCEPT !.bad = TRUE]
        ELSE IF Buffered(sp) - PrefixSize < length THEN fed
        ELSE [fed EXCEPT !.splitter = [sp EXCEPT !.start = body + length],
                         !.frames = Append(@, SubSeq(sp.buf, body + 1, body + length))]

\* Until there is no next one.
Feed(sp, data, referenced) ==
    LET most == Len(sp.buf) + Len(data)
        fed[n \in 0 .. most] ==
            IF n = 0 THEN [splitter |-> Absorb(sp, data, referenced), frames |-> <<>>, bad |-> FALSE]
            ELSE NextFrame(fed[n - 1])
    IN  fed[most]

-------------------------------------------------------------------------------
(* Codec.receive.  A codec is its lifecycle state and the ids in flight. *)

NewCodec == [state |-> "new", outstanding |-> {}, next |-> 1]

\* _handle, _handle_version and _handle_response: what one packet does to the codec.
Handle(r, body) ==
    LET refused == [r EXCEPT !.bad = TRUE]
        type == body[1][1]
    IN  IF r.bad THEN r
        ELSE CASE type = "version" ->
                    IF r.codec.state # "awaiting" \/ body[1][2] # 3 THEN refused
                    ELSE [r EXCEPT !.codec.state = "ready"]
               [] type = "reply" ->
                    IF r.codec.state # "ready" \/ body[1][2] \notin r.codec.outstanding
                    THEN refused
                    ELSE [r EXCEPT !.codec.outstanding = @ \ {body[1][2]},
                                   !.events = Append(@, [id |-> body[1][2],
                                                         answer |-> body[1][3]])]
               [] OTHER -> refused

\* What was decoded before a packet that fails is discarded with it, and the codec
\* accepts nothing any more.
CodecReceive(codec, fed) ==
    LET after[n \in 0 .. Len(fed.frames)] ==
            IF n = 0 THEN [codec |-> codec, events |-> <<>>, bad |-> FALSE]
            ELSE Handle(after[n - 1], fed.frames[n])
        handled == after[Len(fed.frames)]
    IN  IF handled.bad \/ fed.bad
        THEN [codec |-> [handled.codec EXCEPT !.state = "failed"], events |-> <<>>, bad |-> TRUE]
        ELSE handled
===============================================================================
