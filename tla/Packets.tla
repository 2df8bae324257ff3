------------------------------- MODULE Packets --------------------------------
(***************************************************************************)
(* The packets of filexfer v3 (codec/_packets.py), their attributes        *)
(* (codec/_attrs.py), the reader and the writer they are made with         *)
(* (codec/_wire.py) and the extension payloads (codec/_extensions.py).     *)
(*                                                                         *)
(* A body is a sequence of cells: an integer of any width is one, a string *)
(* is its length and then as many as it has bytes.  (How an integer is cut *)
(* into bytes and frames out of a stream is Framing.)  A packet is its     *)
(* type and the values of its fields; what they are called is left out.    *)
(***************************************************************************)
EXTENDS Naturals, Sequences, SequencesExt

CONSTANTS
    MaxInt,      \* the largest integer a field holds
    Defined,     \* STATUS codes filexfer v3 defines, with 4, SSH_FX_FAILURE
    Words,       \* strings of the packets to be sent
    Numbers,     \* integers of the packets to be sent, some too large for a field
    Cells,       \* cells of the frames to be read
    MaxCells     \* and how many of them at most

ASSUME PacketsAssumption ==
    /\ MaxInt \in Nat /\ Defined \subseteq Nat /\ 4 \in Defined /\ MaxCells \in Nat

VARIABLE sample     \* a packet to send, or a frame to read

Refusal == [type |-> "refused", fields |-> <<>>]

-------------------------------------------------------------------------------
(* The layouts, in the order the fields are written. *)

PathBody == <<"int", "string">>
HandleBody == <<"int", "string">>
PathAttrsBody == <<"int", "string", "attrs">>
InitBody == <<"int", "pairs">>
VersionPacketBody == <<"int", "pairs">>
OpenBody == <<"int", "string", "pflags", "attrs">>
ReadBody == <<"int", "string", "int", "int">>
WriteBody == <<"int", "string", "int", "string">>
FSetStatBody == <<"int", "string", "attrs">>
RenameBody == <<"int", "string", "string">>
SymLinkBody == <<"int", "string", "string">>
ExtendedBody == <<"int", "string", "rest">>
StatusBody == <<"int", "code", "optional", "optional">>
DataBody == <<"int", "string">>
NameBody == <<"int", "names">>
AttrsBody == <<"int", "attrs">>
ExtendedReplyBody == <<"int", "rest">>
\* What is behind the name of an extended request.
PosixRenameBody == <<"string", "string">>
LSetStatBody == <<"string", "attrs">>
FsyncBody == <<"string">>
CheckFileBody == <<"string", "string", "int", "int", "int">>
CheckFileReplyBody == <<"string", "string", "rest">>

\* _DECODERS
Layout == [
    INIT |-> InitBody, VERSION |-> VersionPacketBody, OPEN |-> OpenBody, CLOSE |-> HandleBody,
    READ |-> ReadBody, WRITE |-> WriteBody, LSTAT |-> PathBody, FSTAT |-> HandleBody,
    SETSTAT |-> PathAttrsBody, FSETSTAT |-> FSetStatBody, OPENDIR |-> PathBody,
    READDIR |-> HandleBody, REMOVE |-> PathBody, MKDIR |-> PathAttrsBody, RMDIR |-> PathBody,
    REALPATH |-> PathBody, STAT |-> PathBody, RENAME |-> RenameBody, READLINK |-> PathBody,
    SYMLINK |-> SymLinkBody, EXTENDED |-> ExtendedBody, STATUS |-> StatusBody,
    HANDLE |-> HandleBody, DATA |-> DataBody, NAME |-> NameBody, ATTRS |-> AttrsBody,
    EXTENDED_REPLY |-> ExtendedReplyBody,
    posix_rename |-> PosixRenameBody, lsetstat |-> LSetStatBody, fsync |-> FsyncBody,
    check_file |-> CheckFileBody, check_file_reply |-> CheckFileReplyBody]
Types == DOMAIN Layout
Payloads == {"posix_rename", "lsetstat", "fsync", "check_file", "check_file_reply"}

-------------------------------------------------------------------------------
(* Attributes: a flag for every field that is there, then those fields. *)

FlagOf == [size |-> 1, owner |-> 2, permissions |-> 4, times |-> 8, extended |-> 16]
Undefined == 32
\* Of the flags of an OPEN six are defined.
UndefinedPflags == 64
HasFlag(flags, name) == (flags \div FlagOf[name]) % 2 = 1
NoAttrs == [size |-> <<>>, owner |-> <<>>, permissions |-> <<>>, times |-> <<>>, extended |-> <<>>]

-------------------------------------------------------------------------------
(* WireWriter and the encoders: cells, and whether every integer fits its field. *)

Put(cells) == [cells |-> cells, fits |-> \A i \in DOMAIN cells : cells[i] <= MaxInt]
PutString(s) == [cells |-> <<Len(s)>> \o s, fits |-> TRUE]
And(a, b) == [cells |-> a.cells \o b.cells, fits |-> a.fits /\ b.fits]
PutAll(written) == FoldLeft(And, Put(<<>>), written)
PutPairs(pairs) ==
    PutAll([i \in 1 .. Len(pairs) |-> And(PutString(pairs[i][1]), PutString(pairs[i][2]))])

Flags(a) ==
    (IF a.size = <<>> THEN 0 ELSE 1) + (IF a.owner = <<>> THEN 0 ELSE 2)
    + (IF a.permissions = <<>> THEN 0 ELSE 4) + (IF a.times = <<>> THEN 0 ELSE 8)
    + (IF a.extended = <<>> THEN 0 ELSE 16)
\* encode_attrs
PutAttrs(a) ==
    PutAll(<<Put(<<Flags(a)>>), Put(a.size), Put(a.owner), Put(a.permissions), Put(a.times)>>
           \o IF a.extended = <<>> THEN <<>>
              ELSE <<Put(<<Len(a.extended)>>), PutPairs(a.extended)>>)

\* A code or a set of flags nobody defined is kept behind the one it is taken for.
Wire(v) == Put(<<v[Len(v)]>>)
PutNames(entries) ==
    PutAll(<<Put(<<Len(entries)>>)>>
           \o [i \in 1 .. Len(entries) |->
                  And(And(PutString(entries[i][1]), PutString(entries[i][2])),
                      PutAttrs(entries[i][3]))])

PutField(kind, v) ==
    CASE kind = "int" -> Put(<<v>>)
      [] kind \in {"string", "optional"} -> PutString(v)
      [] kind = "rest" -> [cells |-> v, fits |-> TRUE]
      [] kind \in {"code", "pflags"} -> Wire(v)
      [] kind = "attrs" -> PutAttrs(v)
      [] kind = "pairs" -> PutPairs(v)
      [] kind = "names" -> PutNames(v)
\* encode: the frame, or what write_uint32 and write_uint64 raise.
Encode(p) ==
    LET written == PutAll([i \in DOMAIN p.fields |-> PutField(Layout[p.type][i], p.fields[i])])
    IN  IF written.fits THEN [type |-> p.type, cells |-> written.cells] ELSE Refusal

-------------------------------------------------------------------------------
(* WireReader and the decoders: what is left to read, what was read, whether all was there. *)

Refused(r) == [r EXCEPT !.ok = FALSE]
AtEnd(r) == r.rest = <<>>
Got(r, v, n) == [r EXCEPT !.got = Append(@, v), !.rest = SubSeq(@, n + 1, Len(@))]
TakeInt(r) == IF ~r.ok \/ AtEnd(r) THEN Refused(r) ELSE Got(r, Head(r.rest), 1)
\* _take: never more than there is.
TakeString(r) ==
    IF ~r.ok \/ AtEnd(r) \/ Head(r.rest) > Len(r.rest) - 1 THEN Refused(r)
    ELSE Got(r, SubSeq(r.rest, 2, Head(r.rest) + 1), Head(r.rest) + 1)

\* A few fields as one value.
Inner(r, Take(_), Make(_)) ==
    LET inner == Take([r EXCEPT !.got = <<>>])
    IN  [inner EXCEPT !.got = IF inner.ok THEN Append(r.got, Make(inner.got)) ELSE r.got]
Same(got) == got
Repeated(n, Take(_), r) == FoldLeft(LAMBDA s, i : Take(s), r, [i \in 1 .. n |-> i])

TakePair(r) == Inner(r, LAMBDA s : TakeString(TakeString(s)), Same)
\* read_count: a count that the rest of the frame cannot hold is not counted to.
Counted(r, least, Take(_)) ==
    IF ~r.ok \/ AtEnd(r) \/ Head(r.rest) * least > Len(r.rest) - 1 THEN Refused(r)
    ELSE Repeated(Head(r.rest), Take, [r EXCEPT !.rest = Tail(@)])
\* _decode_extension_pairs: until the frame ends.
TakePairs(r) ==
    Inner(r, LAMBDA s : Repeated(Len(s.rest), LAMBDA t : IF AtEnd(t) THEN t ELSE TakePair(t), s),
          Same)

\* decode_attrs, a field after the other as the flags say.
TakeFlagged(flags, name, r, Take(_)) == IF HasFlag(flags, name) THEN Take(r) ELSE Got(r, <<>>, 0)
\* (A defect: as a later version of the protocol orders them.)
TimesBeforeMode(r) ==
    IF ~r.ok \/ AtEnd(r) \/ Head(r.rest) >= Undefined THEN Refused(r)
    ELSE LET flags == Head(r.rest)
             One(s) == Inner(s, TakeInt, Same)
             Two(s) == Inner(s, LAMBDA t : TakeInt(TakeInt(t)), Same)
             Extra(s) == Inner(s, LAMBDA t : Counted(t, 2, TakePair), Same)
             from == [r EXCEPT !.rest = Tail(@)]
         IN  Inner(from,
                   LAMBDA s : TakeFlagged(flags, "extended",
                       TakeFlagged(flags, "permissions",
                           TakeFlagged(flags, "times",
                               TakeFlagged(flags, "owner",
                                   TakeFlagged(flags, "size", s, One), Two), Two), One), Extra),
                   LAMBDA g : [size |-> g[1], owner |-> g[2], permissions |-> g[4],
                               times |-> g[3], extended |-> g[5]])
TakeAttrs(r) ==
    IF ~r.ok \/ AtEnd(r) \/ Head(r.rest) >= Undefined THEN Refused(r)
    ELSE LET flags == Head(r.rest)
             One(s) == Inner(s, TakeInt, Same)
             Two(s) == Inner(s, LAMBDA t : TakeInt(TakeInt(t)), Same)
             Extra(s) == Inner(s, LAMBDA t : Counted(t, 2, TakePair), Same)
             from == [r EXCEPT !.rest = Tail(@)]
         IN  Inner(from,
                   LAMBDA s : TakeFlagged(flags, "extended",
                       TakeFlagged(flags, "times",
                           TakeFlagged(flags, "permissions",
                               TakeFlagged(flags, "owner",
                                   TakeFlagged(flags, "size", s, One), Two), One), Two), Extra),
                   LAMBDA g : [size |-> g[1], owner |-> g[2], permissions |-> g[3],
                               times |-> g[4], extended |-> g[5]])

TakeName(r) == Inner(r, LAMBDA s : TakeAttrs(TakeString(TakeString(s))), Same)

\* Status.decode_body: SSH_FX_FAILURE for a code nobody defined, which is kept; message and
\* language may be missing.  _split_pflags: the defined flags, and all of them if more.
CodeRead(v) == IF v \in Defined THEN <<v>> ELSE <<4, v>>
PflagsRead(v) == IF v < UndefinedPflags THEN <<v>> ELSE <<v % UndefinedPflags, v>>

TakeField(r, kind) ==
    CASE kind = "int" -> TakeInt(r)
      [] kind = "string" -> TakeString(r)
      [] kind = "optional" -> IF r.ok /\ AtEnd(r) THEN Got(r, <<>>, 0) ELSE TakeString(r)
      [] kind = "rest" -> IF r.ok THEN Got(r, r.rest, Len(r.rest)) ELSE r
      [] kind = "code" -> Inner(r, TakeInt, LAMBDA g : CodeRead(g[1]))
      [] kind = "pflags" -> Inner(r, TakeInt, LAMBDA g : PflagsRead(g[1]))
      [] kind = "attrs" -> TakeAttrs(r)
      [] kind = "pairs" -> TakePairs(r)
      [] kind = "names" -> Inner(r, LAMBDA s : Counted(s, 3, TakeName), Same)

\* decode: the whole frame, no more and no less; a payload behind an extension's name may
\* be longer.
Decode(frame) ==
    IF frame.type \notin Types THEN Refusal
    ELSE LET from == [rest |-> frame.cells, got |-> <<>>, ok |-> TRUE]
             read == FoldLeft(TakeField, from, Layout[frame.type])
         IN  IF read.ok /\ (AtEnd(read) \/ frame.type \in Payloads) THEN [type |-> frame.type, fields |-> read.got]
             ELSE Refusal

-------------------------------------------------------------------------------
(* What is tried: packets with every field at its ends, and short frames of any content. *)

Options(S) == {<<>>} \cup {<<v>> : v \in S}
SomeAttrs ==
    [size : Options(Numbers), owner : {<<>>} \cup {<<u, g>> : u, g \in Numbers},
     permissions : Options(Numbers), times : {<<>>} \cup {<<0, m>> : m \in Numbers},
     extended : {<<>>} \cup {<<<<w, <<>>>>>> : w \in Words}]
Few == {NoAttrs, [NoAttrs EXCEPT !.size = <<0>>, !.times = <<1, 2>>],
        [NoAttrs EXCEPT !.permissions = <<1>>, !.extended = <<<<<<>>, <<1>>>>, <<<<0>>, <<>>>>>>]}
Values(kind, type) ==
    CASE kind = "int" -> Numbers
      [] kind \in {"string", "optional", "rest"} -> Words
      [] kind = "code" -> {CodeRead(v) : v \in Numbers}
      [] kind = "pflags" -> {PflagsRead(v) : v \in Numbers}
      [] kind = "attrs" -> IF type = "ATTRS" THEN SomeAttrs ELSE Few
      [] kind = "pairs" -> {<<>>, <<<<<<1>>, <<>>>>, <<<<>>, <<0, 2>>>>>>}
      [] kind = "names" -> {<<>>} \cup {<<<<w, <<>>, a>>>> : w \in Words, a \in Few}
                                 \cup {<<<<w, w, a>>, <<<<1>>, <<0>>, NoAttrs>>>> : w \in Words, a \in Few}
Packets(type) ==
    FoldLeft(LAMBDA some, kind : {Append(f, v) : f \in some, v \in Values(kind, type)},
             {<<>>}, Layout[type])

PacketsInit ==
    \/ \E type \in Types : \E f \in Packets(type) :
           sample = [is |-> "packet", type |-> type, fields |-> f]
    \/ \E type \in Types \cup {"unknown"}, n \in 0 .. MaxCells :
           \E cells \in [1 .. n -> Cells] :
               sample = [is |-> "frame", type |-> type, cells |-> cells]

-------------------------------------------------------------------------------
\* A packet whose integers fit is read as it was written, and no other is sent.  A frame
\* that is read is the one that would be written for what was read; only a STATUS may be
\* short of its strings, a payload longer, and an empty list of attributes announced.
CodecIsFaithful ==
    /\ sample.is = "packet" =>
          LET p == [type |-> sample.type, fields |-> sample.fields]
              frame == Encode(p)
          IN  frame # Refusal => Decode(frame) = p
    /\ sample.is = "frame" =>
          LET p == Decode([type |-> sample.type, cells |-> sample.cells])
              again == Encode(p)
          IN  p # Refusal =>
                  /\ Decode(again) = p
                  /\ CASE sample.type = "STATUS" -> IsPrefix(sample.cells, again.cells)
                       [] sample.type \in {"posix_rename", "fsync", "check_file"} ->
                              IsPrefix(again.cells, sample.cells)
                       [] "attrs" \in ToSet(Layout[sample.type]) \/ sample.type = "NAME" -> TRUE
                       [] OTHER -> again.cells = sample.cells
===============================================================================
