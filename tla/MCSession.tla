------------------------------ MODULE MCSession ------------------------------
(***************************************************************************)
(* Small instances, for TLC, of the parts that are checked for safety      *)
(* alone: tree synchronisation, operations of one request, the blocking    *)
(* facade, the fsspec files, and the pure algorithms.  The parts are       *)
(* independent; a behaviour is one of a part's, the subject, while the     *)
(* others stay in an initial state.                                        *)
(***************************************************************************)
EXTENDS Sync, Operations, Packets, Paths, Facade, Filesystem, Probes, TLC

CONSTANTS Subjects, c1, c2
VARIABLE subject

-------------------------------------------------------------------------------
(* Synchronisation: two files in two directories, and one whose name is to be replaced. *)

DirsDef == <<"top", "sub">>
HomeDef == [f \in {"a", "b", "l"} |-> IF f = "b" THEN "sub" ELSE "top"]
AboveDef == [d \in {"top", "sub"} |-> "top"]
SizeDef == [v \in {1, 2} |-> 1]
FlatDef == [f \in {"a", "b", "l"} |-> IF f = "l" THEN "a" ELSE f]
ListsDef == {<<"a", "b">>, <<"a", "l">>}
Both == [f \in {"a", "b", "l"} |-> IF f = "l" THEN 0 ELSE 1]
One == [f \in {"a", "b", "l"} |-> IF f = "a" THEN 2 ELSE 0]
Mirrors1(what, atomically, times, terse, files) ==
    [job |-> what, atomic |-> atomically, preserve |-> times, laconic |-> terse, source |-> files]
MirrorDef ==
    {Mirrors1("sync", TRUE, TRUE, "nowhere", Both), Mirrors1("sync", TRUE, TRUE, "listings", One),
     Mirrors1("sync", FALSE, TRUE, "nowhere", One),
     Mirrors1("tree", TRUE, TRUE, "nowhere", Both), Mirrors1("preview", TRUE, TRUE, "nowhere", Both),
     Mirrors1("preview", TRUE, TRUE, "everywhere", Both)}
    \cup {Mirrors1("many", FALSE, FALSE, "nowhere", s) : s \in {Both, One}}
TheMirror == CHOOSE m \in Mirror : TRUE
SyncIdle ==
    SyncInit /\ job = TheMirror.job /\ atomic = TheMirror.atomic /\ preserve = TheMirror.preserve
             /\ laconic = TheMirror.laconic /\ source = TheMirror.source

-------------------------------------------------------------------------------
(* Operations: a directory A with B in it, or nothing, or a link; two callers. *)

Callers == Permutations({c1, c2})
UpDef == [p \in {"T", "A", "B", "C"} |-> CASE p = "B" -> "A" [] p = "C" -> "B" [] OTHER -> "T"]
UnderDef == [p \in {"T", "A", "B", "C"} |-> CASE p = "T" -> "A" [] p = "A" -> "B" [] OTHER -> "C"]
Contents1(a, b) == [p \in {"T", "A", "B", "C"} |->
    CASE p = "T" -> "dir" [] p = "A" -> a [] p = "B" -> b [] OTHER -> "absent"]
ContentsDef == {Contents1("absent", "absent"), Contents1("dir", "link")}
AskedDef ==
    {[op |-> c[1], path |-> c[2], ok |-> c[3]] : c \in
        {<<"exists", "r", FALSE>>, <<"lexists", "B", FALSE>>, <<"isdir", "B", FALSE>>,
         <<"mkdir", "r", TRUE>>, <<"mkdir", "B", FALSE>>, <<"makedirs", "B", FALSE>>,
         <<"makedirs", "B", TRUE>>, <<"chdir", "r", FALSE>>, <<"chdir", "A", FALSE>>,
         <<"getcwd", "T", FALSE>>, <<"posix_rename_if_supported", "T", FALSE>>,
         <<"lchmod", "T", FALSE>>, <<"check_file", "T", FALSE>>}}
OffersDef == {{"posix-rename", "lsetstat"}}
\* With a working directory nobody asks for the default one.
OpsDiffer == rooted \/ cwd = NoPath
OpsIdle ==
    /\ OpsInit /\ cwd = NoPath /\ rooted = TRUE
    /\ there = CHOOSE c \in Contents : TRUE

-------------------------------------------------------------------------------
(* The facade: a directory in three batches, one of them of dots alone. *)

BatchesDef == <<<<".", "x">>, <<"..">>, <<"y", "z">>>>
DrivesDef == {[t \in {"t1", "t2"} |-> IF t = "t1" THEN d[1] ELSE d[2]] :
                 d \in {<<"scan", "reader">>, <<"writer", "scan">>}}
FacadeIdle == FacadeInit /\ kind = CHOOSE d \in Drives : TRUE

-------------------------------------------------------------------------------
(* fsspec: two files that are read, one that is written, and one whole read. *)

TargetDef == [o \in {"f", "g", "w", "c"} |-> CASE o = "f" -> "p" [] o = "w" -> "r" [] OTHER -> "q"]
ModeDef == [o \in {"f", "g", "w", "c"} |-> CASE o = "w" -> "wb" [] o = "c" -> "cat" [] OTHER -> "rb"]

-------------------------------------------------------------------------------
(* Probes: a server that can do everything, and some that cannot or answer otherwise. *)

Good == [offers |-> Extensions, creates |-> TRUE, removes |-> TRUE, pretends |-> FALSE,
         realpath |-> "ok", root |-> "/", messages |-> "tells", limits |-> "stated",
         folds |-> "gone", rename |-> "refused", times |-> "kept", posix |-> "ok", fsync |-> "ok",
         lsetstat |-> "link", hash |-> "true", largest |-> "whole"]
Poor == [Good EXCEPT !.offers = Extensions \ {"limits"}, !.removes = FALSE, !.pretends = TRUE,
         !.realpath = "refused", !.root = "other", !.messages = "silent", !.folds = "ok",
         !.rename = "ok", !.times = "changed", !.fsync = "unsupported", !.lsetstat = "neither",
         !.hash = "wrong", !.largest = "hangs up"]
Worse == [Good EXCEPT !.root = "refused", !.messages = "restates", !.limits = "none",
          !.folds = "refused", !.rename = "ok", !.times = "none", !.posix = "refused",
          !.fsync = "refused", !.lsetstat = "target", !.hash = "refused", !.largest = "short"]
ServerDef ==
    {Good, Poor, Worse, [Good EXCEPT !.offers = {}], [Good EXCEPT !.creates = FALSE],
     [Poor EXCEPT !.removes = TRUE, !.pretends = FALSE],
     [Worse EXCEPT !.messages = "accepts", !.posix = "unsupported", !.lsetstat = "refused",
                   !.largest = "refused"]}
ProbesIdle ==
    /\ host = [offers |-> {}] /\ writes = FALSE /\ at = [fact |-> 1, step |-> 1, up |-> TRUE]
    /\ strewn = {} /\ claimed = <<>> /\ findings = <<>> /\ left = {} /\ unheard = {}

-------------------------------------------------------------------------------
(* Packets: three strings and numbers that fit or do not. *)

WordsDef == {<<>>, <<1>>, <<0, 2>>}

-------------------------------------------------------------------------------
(* Text, in bytes: "*?[!]\-." and letters; classes of lower and of upper case letters. *)

NamedDef == (<<108>> :> 97 .. 122) @@ (<<117>> :> 65 .. 90)
NamesDef ==
    UNION {[1 .. n -> {97, 98, 65, 46}] : n \in 0 .. 2} \cup [1 .. 3 -> {97, 98}]
    \cup [1 .. 4 -> {97, 98}] \cup {<<93>>, <<92>>, <<45>>, <<91>>, <<33>>, <<91, 97>>}
Chunks == {<<42>>, <<63>>, <<91>>, <<91, 33>>, <<93>>, <<92>>, <<97>>, <<98>>, <<65>>, <<46>>, <<45>>,
           <<91, 58, 108, 58, 93>>, <<91, 58, 120, 58, 93>>, <<91, 61, 97, 61, 93>>}
Glued(chunks, n) == {FlattenSeq(c) : c \in [1 .. n -> chunks]}
PatternsDef == UNION {Glued(Chunks, n) : n \in 0 .. 3}
               \cup Glued({<<42>>, <<97>>, <<98>>, <<63>>, <<91, 33, 97, 93>>}, 5)
Item1(is, low, high, name) == [is |-> is, low |-> low, high |-> high, name |-> name]
Items ==
    {Item1("byte", b, b, <<>>) : b \in {97, 65, 93, 45, 33, 91}}
    \cup {Item1("escaped", b, b, <<>>) : b \in {93, 45, 92, 98}}
    \cup {Item1("range", r[1], r[2], <<>>) : r \in {<<97, 98>>, <<66, 90>>, <<33, 64>>, <<98, 97>>}}
    \cup {Item1("class", 0, 0, c) : c \in {<<108>>, <<117>>, <<120>>}}
BracketsDef == [negated : BOOLEAN, items : UNION {[1 .. n -> Items] : n \in 1 .. 2}]
PathsDef == UNION {[1 .. n -> {47, 97, 42, 92}] : n \in 0 .. 5}
Entry1(name, told, lstat, is) == [name |-> name, told |-> told, lstat |-> lstat, is |-> is]
Plain(name, is) == Entry1(name, is, is, is)
Lists1(entries) == [answer |-> "listed", entries |-> entries]
Refuses1(why) == [answer |-> why, entries |-> <<>>]
\* A directory a with what is in it, a file b and a hidden link.
Tree1(sub, inside) ==
    (<<>> :> Lists1(<<sub, Plain(<<98>>, "file"), Plain(<<46, 97>>, "link")>>))
    @@ (<<<<97>>>> :> inside)
    @@ (<<<<97>>, <<97>>>> :> Lists1(<<Plain(<<98>>, "file"), Entry1(<<97>>, "untold", "absent", "absent")>>))
ListingsDef ==
    {Tree1(Entry1(<<97>>, t[1], t[2], "dir"), inside) :
        t \in {<<"dir", "dir">>, <<"untold", "dir">>, <<"untold", "refused">>, <<"untold", "untold">>},
        inside \in {Lists1(<<Plain(<<97>>, "dir"), Plain(<<98>>, "link")>>), Lists1(<<>>),
                    Refuses1("absent"), Refuses1("denied")}}
\* "*", "a" and "**", one to three of them, and whatever else begins with or ends in a name.
SearchesDef ==
    LET Joint(parts) == FlattenSeq([i \in DOMAIN parts |-> IF i = 1 THEN parts[i] ELSE <<47>> \o parts[i]])
        Some(n) == [1 .. n -> {<<42>>, <<97>>, <<42, 42>>}]
    IN  {Joint(p) : p \in Some(1) \cup Some(2) \cup Some(3)}
        \cup {Joint(p) \o <<47>> : p \in Some(1) \cup Some(2)}
        \cup {Joint(p) : p \in {<<<<46, 97>>>>, <<<<46, 97>>, <<42>>>>, <<<<97>>, <<97>>, <<98>>>>,
                                <<<<98>>, <<42, 42>>>>, <<<<42>>, <<97>>, <<98>>>>}}
WholeDef == UNION {[1 .. n -> {47, 97, 46, 98}] : n \in 0 .. 4}
BasesDef == UNION {[1 .. n -> {47, 97, 46, 98}] : n \in 0 .. 3}
GivenDef == {<<>>, <<46>>, <<46, 46>>, <<97>>, <<98, 46, 97>>, <<46, 97>>, <<97, 46>>, <<97, 47, 98>>,
             <<46, 46, 97>>, <<97, 46, 46, 98>>}
FiltersDef == {<<97>>, <<42>>, <<47, 42>>, <<42, 42>>, <<47, 42, 42, 47, 97>>, <<97, 47, 42, 42>>,
               <<42, 47, 42, 42, 47, 98>>, <<42, 42, 47, 42, 42>>, <<65, 47, 63>>, <<>>, <<47>>}

-------------------------------------------------------------------------------
(* One subject at a time. *)

NoSample == sample = [is |-> "nothing"]
SessionInit ==
    /\ subject \in Subjects
    /\ IF subject = "sync" THEN SyncInit ELSE SyncIdle
    /\ IF subject = "operations" THEN OpsInit /\ OpsDiffer ELSE OpsIdle
    /\ IF subject = "facade" THEN FacadeInit ELSE FacadeIdle
    /\ IF subject = "probes" THEN ProbesInit ELSE ProbesIdle
    /\ FsInit
    /\ CASE subject = "packets" -> PacketsInit
         [] subject = "text" -> sample \in GlobCases \cup PathCases
         [] OTHER -> NoSample

\* Bounds: two disturbances only where files are written in place, a third run only where not.
Mirrors ==
    /\ subject = "sync" /\ UNCHANGED <<opVars, facadeVars, fsVars, probeVars>> /\ SyncNext
    /\ edits' + mishaps' = 2 => ~atomic
    /\ runs' = 3 => atomic /\ laconic = "nowhere"
Operates == subject = "operations" /\ UNCHANGED <<syncVars, pool, facadeVars, fsVars, probeVars>> /\ OpsNext
\* Bound: four calls of a thread, six of both.
Threads ==
    /\ subject = "facade" /\ UNCHANGED <<syncVars, pool, opVars, fsVars, probeVars>> /\ FacadeNext
    /\ asks'["t1"] + asks'["t2"] <= 6
Files == subject = "filesystem" /\ UNCHANGED <<syncVars, pool, opVars, facadeVars, probeVars>> /\ FsNext
Diagnoses == subject = "probes" /\ UNCHANGED <<syncVars, pool, opVars, facadeVars, fsVars>> /\ ProbesNext
SessionNext == UNCHANGED <<subject, sample>> /\ (Mirrors \/ Operates \/ Threads \/ Files \/ Diagnoses)
SessionVars == <<subject, sample, syncVars, pool, opVars, facadeVars, fsVars, probeVars>>
\* What tells two states apart: the rest is as it was when the subject was chosen.
SubjectView ==
    CASE subject = "sync" -> <<subject, syncVars, pool>>
      [] subject = "operations" -> <<subject, opVars>>
      [] subject = "facade" -> <<subject, facadeVars>>
      [] subject = "filesystem" -> <<subject, fsVars>>
      [] subject = "probes" -> <<subject, probeVars>>
      [] OTHER -> <<subject, sample>>
Spec == SessionInit /\ [][SessionNext]_SessionVars

-------------------------------------------------------------------------------
(* Properties of the algorithms, each about the cases it is for. *)

\* A pattern matches what it says, byte by byte and over a tree; a path is a pattern's
\* components whatever is escaped; the arithmetic of paths keeps a name below its directory,
\* and its filter agrees with the search (_glob.py and path.py).
TextIsFaithful ==
    CASE sample.is = "pattern" -> MatchesAsWritten(sample.pattern, sample.exact)
      [] sample.is = "bracket" -> BracketsAsWritten(sample.bracket, sample.exact)
      [] sample.is = "path" -> SplitsAsWritten(sample.pattern, sample.exact)
      [] sample.is = "search" -> FindsWhatIsThere(sample.tree, sample.glob)
                                 /\ FilterAgreesWithSearch(sample.tree, sample.glob)
      [] sample.is = "name" -> NamesStayBelow(sample.path, sample.name)
      [] sample.is = "below" -> RelativeIsBelow(sample.path, sample.other)
      [] sample.is = "filter" -> FilterFindsAlignment(sample.path, sample.pattern, sample.exact)
      [] OTHER -> TRUE

\* What is encoded is what is decoded, and what is written is what is meant (the codec's
\* packets, the patterns and the paths).
DataIsFaithful == CodecIsFaithful /\ TextIsFaithful

\* "`glob` has no ``Skipped`` channel", so nothing it could not look into may be left out of a
\* result that looks complete (is_directory, _glob.py).
SearchesAreComplete == sample.is = "search" => LooksComplete(sample.tree, sample.glob)
===============================================================================
