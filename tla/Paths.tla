-------------------------------- MODULE Paths ---------------------------------
(***************************************************************************)
(* The arithmetic of SFTPPath (path.py): paths are bytes that are never    *)
(* rewritten, seen as components.  Bytes, components and the matching of   *)
(* one component are Glob's.                                               *)
(***************************************************************************)
EXTENDS Glob

CONSTANTS Whole,    \* paths to try
          Bases,   \* what they may be below
          Given,    \* names to join, stems and suffixes
          Filters   \* patterns to match whole paths with

Root == <<Slash>>
Here == <<Dot>>
NoSuchPath == <<NoByte>>    \* an exception in the place of a path

\* _SEPARATOR.join
Joined(parts) == FoldLeft(LAMBDA s, part : IF s = <<>> THEN part ELSE s \o Root \o part, <<>>, parts)
IsAbsolute(path) == At(path, 1, Slash)
Rooted(path, parts) == IF IsAbsolute(path) THEN Root \o Joined(parts) ELSE Joined(parts)

\* path_parts, name_of, parent_of
PathParts(path) == IF IsAbsolute(path) THEN <<Root>> \o Parts(path) ELSE Parts(path)
NameOf(path) == IF Parts(path) = <<>> THEN <<>> ELSE Last(Parts(path))
ParentOf(path) ==
    IF Len(Parts(path)) <= 1 THEN (IF IsAbsolute(path) THEN Root ELSE Here)
    ELSE Rooted(path, Front(Parts(path)))

\* _ancestors
RECURSIVE Ancestry(_)
Ancestry(path) == IF ParentOf(path) = path THEN <<>> ELSE <<ParentOf(path)>> \o Ancestry(ParentOf(path))

\* suffix_of, stem_of: rfind of the dot, from 1 here.
DotsIn(name) == {i \in DOMAIN name : name[i] = Dot}
LastDot(name) == IF DotsIn(name) = {} THEN 0 ELSE CHOOSE i \in DotsIn(name) : \A j \in DotsIn(name) : j <= i
HasSuffix(name) == LastDot(name) > 1 /\ LastDot(name) < Len(name)
SuffixOf(name) == IF HasSuffix(name) THEN SubSeq(name, LastDot(name), Len(name)) ELSE <<>>
StemOf(name) == IF HasSuffix(name) THEN SubSeq(name, 1, LastDot(name) - 1) ELSE name

\* suffixes_of: what the dots after the leading ones begin.
SuffixesOf(name) ==
    LET leading == First({i \in 1 .. Len(name) + 1 : ~At(name, i, Dot)}) - 1
        starts == {i \in DotsIn(name) : i > leading}
        from(k) == CHOOSE i \in starts : Cardinality({j \in starts : j < i}) = k - 1
        upto(k) == IF k = Cardinality(starts) THEN Len(name) ELSE from(k + 1) - 1
    IN  IF At(name, Len(name), Dot) THEN <<>>
        ELSE [k \in 1 .. Cardinality(starts) |-> SubSeq(name, from(k), upto(k))]

\* remote_component_reason, check_component; join_remote; joinpath
OneComponent(name) == name \notin {<<>>, Here, <<Dot, Dot>>} /\ \A i \in DOMAIN name : name[i] \notin {Slash, 0}
JoinRemote(parent, name) ==
    IF parent = <<>> \/ Last(parent) = Slash THEN parent \o name ELSE parent \o Root \o name
JoinPath(path, name) == IF OneComponent(name) THEN JoinRemote(path, name) ELSE NoSuchPath

\* with_name, with_stem, with_suffix
WithName(path, name) ==
    IF Parts(path) = <<>> \/ ~OneComponent(name) THEN NoSuchPath
    ELSE Rooted(path, Append(Front(Parts(path)), name))
WithStem(path, stem) == WithName(path, stem \o SuffixOf(NameOf(path)))
WithSuffix(path, suffix) ==
    IF suffix # <<>> /\ ~At(suffix, 1, Dot) THEN NoSuchPath
    ELSE WithName(path, StemOf(NameOf(path)) \o suffix)

\* A defect: bytes are compared, not components.
\* relative_components, relative_to
IsBelow(path, other) ==
    IsAbsolute(path) = IsAbsolute(other) /\ IsPrefix(Parts(other), Parts(path))
RelativeTo(path, other) ==
    LET rest == SubSeq(Parts(path), Len(Parts(other)) + 1, Len(Parts(path)))
    IN  IF ~IsBelow(path, other) THEN NoSuchPath ELSE IF rest = <<>> THEN Here ELSE Joined(rest)

\* _spread, match_components: how many names the pattern so far accounts for.
Spread(reachable) == {n \in 0 .. 20 : \E m \in reachable : m <= n}
Steps(element, reachable, names, exact) ==
    IF element = Recursive THEN {n \in Spread(reachable) : n <= Len(names)}
    ELSE {n \in DOMAIN names : n - 1 \in reachable /\ Match(element, names[n], exact) = "yes"}
MatchComponents(pattern, names, exact) ==
    Len(names) \in FoldLeft(LAMBDA reachable, element : Steps(element, reachable, names, exact),
                            {0}, pattern)

\* match_path
NotAPattern(pattern) == pattern = <<>> \/ ~ValidPattern(pattern)
MatchPath(pattern, path, exact) ==
    /\ IsAbsolute(pattern) => IsAbsolute(path)
    /\ MatchComponents(IF IsAbsolute(pattern) THEN Parts(pattern) ELSE <<Recursive>> \o Parts(pattern),
                       Parts(path), exact)

-------------------------------------------------------------------------------
(* What the arithmetic promises. *)

PathCases ==
    {[is |-> "name", path |-> p, name |-> n] : p \in Whole, n \in Given}
    \cup {[is |-> "below", path |-> p, other |-> q] : p \in Whole, q \in Bases}
    \cup {[is |-> "filter", path |-> p, pattern |-> s, exact |-> x] :
             p \in Whole, s \in Filters, x \in BOOLEAN}

\* A name that is one component is joined below its path and nowhere else; replacing a name
\* keeps the directory; the stem and the suffix of a name make it, and the suffixes end in the
\* suffix; going up ends.
NamesStayBelow(path, name) ==
    LET joined == JoinPath(path, name)
        named == WithName(path, name)
        own == NameOf(path)
    IN  /\ joined # NoSuchPath =>
             /\ Parts(joined) = Append(Parts(path), name) /\ NameOf(joined) = name
             /\ IsAbsolute(joined) = IsAbsolute(path)
             /\ RelativeTo(joined, path) = name
             /\ Parts(path) # <<>> => Parts(ParentOf(joined)) = Parts(path)
        /\ named # NoSuchPath => NameOf(named) = name /\ PathParts(ParentOf(named)) = PathParts(ParentOf(path))
        /\ StemOf(own) \o SuffixOf(own) = own
        /\ SuffixesOf(own) # <<>> => Last(SuffixesOf(own)) = SuffixOf(own)
        /\ OneComponent(own) => \A same \in {WithSuffix(path, SuffixOf(own)), WithStem(path, StemOf(own))} :
                                    PathParts(same) = PathParts(path)
        /\ Len(Ancestry(path)) <= Len(Parts(path)) + 1

\* What is below another path is that path and the rest; nothing else is, and a path is below
\* all its ancestors that name something.
RelativeIsBelow(path, other) ==
    LET rest == RelativeTo(path, other)
    IN  /\ rest # NoSuchPath =>
             PathParts(path) = PathParts(other) \o (IF Parts(path) = Parts(other) THEN <<>> ELSE Parts(rest))
        /\ (\E k \in 0 .. Len(PathParts(path)) : SubSeq(PathParts(path), 1, k) = PathParts(other))
             /\ IsAbsolute(path) = IsAbsolute(other) => rest # NoSuchPath
        /\ \A a \in ToSet(Ancestry(path)) : a # Here => IsBelow(path, a)

\* What it is to match: each "**" is any run of names.
RECURSIVE Aligned(_, _, _)
Aligned(pattern, names, exact) ==
    IF pattern = <<>> THEN names = <<>>
    ELSE IF Head(pattern) = Recursive
         THEN \E k \in 0 .. Len(names) : Aligned(Tail(pattern), SubSeq(names, k + 1, Len(names)), exact)
         ELSE /\ names # <<>> /\ Match(Head(pattern), Head(names), exact) = "yes"
              /\ Aligned(Tail(pattern), Tail(names), exact)

\* The sweep finds an alignment when there is one, at the end of the path or over all of it.
FilterFindsAlignment(path, pattern, exact) ==
    ~NotAPattern(pattern) =>
        (MatchPath(pattern, path, exact) <=>
            IF IsAbsolute(pattern) THEN IsAbsolute(path) /\ Aligned(Parts(pattern), Parts(path), exact)
            ELSE \E k \in 0 .. Len(Parts(path)) :
                    Aligned(Parts(pattern), SubSeq(Parts(path), k + 1, Len(Parts(path))), exact))

\* The filter and the search agree on what a pattern matches (SFTPPath.match: "The dialect is
\* glob's").
FilterAgreesWithSearch(tree, glob) ==
    \A result \in {Search(tree, [glob EXCEPT !.only = FALSE, !.depth = 9])} :
        ~result.failed =>
            \A found \in ToSet(result.found) : MatchComponents(glob.base \o glob.parts, found, TRUE)
===============================================================================
