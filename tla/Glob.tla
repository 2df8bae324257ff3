--------------------------------- MODULE Glob ---------------------------------
(***************************************************************************)
(* Glob patterns (session/_glob.py): the matcher of one name against one   *)
(* component of a pattern, the split of a pattern into a directory and     *)
(* components, and the traversal that lists directories and matches.       *)
(*                                                                         *)
(* Patterns and names are sequences of bytes.  A directory tree is what    *)
(* the server answers while the glob runs: the entries of its listings,    *)
(* the kinds they give, and what an LSTAT says where they give none.       *)
(***************************************************************************)
EXTENDS Naturals, FiniteSets, SequencesExt, TLC

CONSTANTS
    NamedClasses,     \* [names -> sets of bytes]: the classes of the C locale there are
    Names,            \* names to be matched
    Patterns,         \* components to match them with
    Brackets,         \* bracket expressions by what they list
    Paths,            \* whole patterns to be split
    Listings,         \* trees: [paths of directories -> [answer, entries]], none if refused
    Searches, Depths  \* whole patterns of one component at least; and max_depth

Slash == 47
Star == 42
Question == 63
Open == 91
Close == 93
Escape == 92
Bang == 33
Caret == 94
Dot == 46
Dash == 45
Colon == 58
Equals == 61
Recursive == <<Star, Star>>
Upper == 65 .. 90
Lower == 97 .. 122

\* _fold, _swap_case: ASCII letters only.
Fold(b) == IF b \in Upper THEN b + 32 ELSE b
SwapCase(b) == IF b \in Upper THEN b + 32 ELSE IF b \in Lower THEN b - 32 ELSE b
Equal(a, b, exact) == IF exact THEN a = b ELSE Fold(a) = Fold(b)
InRange(low, high, b, exact) ==
    \/ low <= b /\ b <= high
    \/ ~exact /\ Fold(low) <= Fold(b) /\ Fold(b) <= Fold(high)

At(s, p, b) == p \in DOMAIN s /\ s[p] = b
\* bytes.find of two bytes
Find(s, b, from) == {p \in from .. Len(s) - 1 : s[p] = b /\ s[p + 1] = Close}
First(S) == CHOOSE p \in S : \A q \in S : p <= q

-------------------------------------------------------------------------------
(* Bracket expressions.  A scan has got to "next", and hit the byte or not; a pattern no *)
(* name is matched against is "refused".                                                 *)

Scan(next, hit) == [next |-> next, hit |-> hit, refused |-> FALSE]
RefusedScan(p) == [next |-> p, hit |-> FALSE, refused |-> TRUE]
NotOne == [next |-> 0, hit |-> FALSE, refused |-> FALSE]

OrElse(scan, other) == IF scan # NotOne THEN scan ELSE other

\* _read_named_class and _read_sub_expression: NotOne where glibc backs off as well.
NamedClass(s, p, name, b, exact) ==
    IF \E i \in DOMAIN name : name[i] \notin Lower THEN NotOne
    ELSE IF name \notin DOMAIN NamedClasses THEN RefusedScan(p)
    ELSE Scan(p + Len(name) + 4, \E c \in {b} \cup (IF exact THEN {} ELSE {SwapCase(b)}) : c \in NamedClasses[name])
SubExpression(s, p, b, exact) ==
    LET Ends(marker) == IF At(s, p + 1, marker) THEN Find(s, marker, p + 2) ELSE {}
    IN  IF s[p] # Open \/ p = Len(s) THEN NotOne
        ELSE IF Ends(Colon) # {}
        THEN NamedClass(s, p, SubSeq(s, p + 2, First(Ends(Colon)) - 1), b, exact)
        ELSE IF Ends(Equals) \cup Ends(Dot) # {} THEN RefusedScan(p) ELSE NotOne

\* _match_class_item
ClassItem(s, p, b, exact) ==
    LET escapes == s[p] = Escape /\ p < Len(s)
    IN  OrElse(SubExpression(s, p, b, exact),
               IF escapes THEN Scan(p + 2, Equal(s[p + 1], b, exact))
               ELSE IF At(s, p + 1, Dash) /\ p + 2 <= Len(s) /\ s[p + 2] # Close
               THEN Scan(p + 3, InRange(s[p], s[p + 2], b, exact))
               ELSE Scan(p + 1, Equal(s[p], b, exact)))

\* _scan_class: the "[" is one of its own where the expression does not end.
WithItem(item, others) ==
    IF item.refused THEN item
    ELSE IF others = NotOne THEN NotOne ELSE [others EXCEPT !.hit = @ \/ item.hit]
RECURSIVE ClassItems(_, _, _, _, _)
ClassItems(s, p, first, b, exact) ==
    IF p > Len(s) THEN NotOne
    ELSE IF s[p] = Close /\ p > first THEN Scan(p + 1, FALSE)
    ELSE LET item == ClassItem(s, p, b, exact)
         IN  WithItem(item, ClassItems(s, item.next, first, b, exact))
Expression(items, negated) ==
    IF items.refused \/ items = NotOne THEN items ELSE [items EXCEPT !.hit = @ # negated]
ScanClass(s, p, b, exact) ==
    LET negated == At(s, p + 1, Bang) \/ At(s, p + 1, Caret)
        first == IF negated THEN p + 2 ELSE p + 1
    IN  OrElse(Expression(ClassItems(s, first, first, b, exact), negated),
               Scan(p + 1, Equal(Open, b, exact)))

\* validate_pattern, with the matcher's own scan.
NoByte == 1000
RECURSIVE ValidFrom(_, _)
ValidFrom(s, p) ==
    CASE p > Len(s) -> TRUE
      [] p <= Len(s) /\ s[p] = Escape -> ValidFrom(s, p + 2)
      [] p <= Len(s) /\ s[p] = Open ->
             LET scan == ScanClass(s, p, NoByte, TRUE)
             IN  ~scan.refused /\ ValidFrom(s, scan.next)
      [] OTHER -> ValidFrom(s, p + 1)
ValidPattern(s) == ValidFrom(s, 1)

-------------------------------------------------------------------------------
(* The matcher. *)

\* _match_single
Single(s, p, b, exact) ==
    CASE p > Len(s) -> Scan(p, FALSE)
      [] p <= Len(s) /\ s[p] = Question -> Scan(p + 1, TRUE)
      [] p <= Len(s) /\ s[p] = Open -> ScanClass(s, p, b, exact)
      [] p <= Len(s) /\ s[p] = Escape /\ p < Len(s) -> Scan(p + 2, Equal(s[p + 1], b, exact))
      [] OTHER -> Scan(p + 1, Equal(s[p], b, exact))

\* A defect: the star takes all up to where the match failed.
BacksUpShort(at) == [at EXCEPT !.taken = at.n, !.n = @ + 1, !.p = at.star + 1]
\* Back to the last star, which takes one byte more.
BacksUp(at) == [at EXCEPT !.taken = @ + 1, !.n = at.taken + 1, !.p = at.star + 1]

\* _match_here: two places and one to go back to.
RECURSIVE MatchFrom(_, _, _, _)
MatchFrom(s, name, exact, at) ==
    IF at.n > Len(name)
    THEN IF \A i \in at.p .. Len(s) : s[i] = Star THEN "yes" ELSE "no"
    ELSE IF At(s, at.p, Star)
    THEN MatchFrom(s, name, exact, [p |-> at.p + 1, n |-> at.n, star |-> at.p, taken |-> at.n])
    ELSE LET one == Single(s, at.p, name[at.n], exact)
         IN  CASE one.refused -> "refused"
               [] one.hit -> MatchFrom(s, name, exact, [at EXCEPT !.p = one.next, !.n = @ + 1])
               [] ~one.hit /\ ~one.refused /\ at.star = 0 -> "no"
               [] OTHER -> MatchFrom(s, name, exact, BacksUp(at))

\* _matches_leading_dot
DotFirst(s) == At(s, 1, Dot) \/ (At(s, 1, Escape) /\ At(s, 2, Dot))
\* match_component
Match(s, name, exact) ==
    IF At(name, 1, Dot) /\ ~DotFirst(s) THEN "no"
    ELSE MatchFrom(s, name, exact, [p |-> 1, n |-> 1, star |-> 0, taken |-> 0])

\* What it is to match: a star is any bytes, another element one.
RECURSIVE Denotes(_, _, _, _, _)
Denotes(s, p, name, n, exact) ==
    IF p > Len(s) THEN n > Len(name)
    ELSE IF s[p] = Star THEN \E m \in n .. Len(name) + 1 : Denotes(s, p + 1, name, m, exact)
    ELSE n <= Len(name) /\ LET one == Single(s, p, name[n], exact)
                           IN  one.hit /\ Denotes(s, one.next, name, n + 1, exact)

\* A bracket expression is written from what it lists: a byte as it is, or escaped, a range,
\* and a class by its name; negated or not.
Written(item) ==
    CASE item.is = "byte" -> <<item.low>>
      [] item.is = "escaped" -> <<Escape, item.low>>
      [] item.is = "range" -> <<item.low, Dash, item.high>>
      [] item.is = "class" -> <<Open, Colon>> \o item.name \o <<Colon, Close>>
Bracket(b) ==
    <<Open>> \o (IF b.negated THEN <<Bang>> ELSE <<>>)
             \o FlattenSeq([i \in DOMAIN b.items |-> Written(b.items[i])]) \o <<Close>>
\* Where bytes that have a meaning stand for themselves: a "]" first, a "-" first or last, and
\* a "!" anywhere but where it negates.
WellWritten(b) ==
    \A i \in DOMAIN b.items :
        b.items[i].is \in {"byte", "range"} =>
            CASE b.items[i].low = Close -> i = 1
              [] b.items[i].low = Dash -> i = 1 \/ (b.items[i].is = "byte" /\ i = Len(b.items))
              [] b.items[i].low \in {Bang, Caret} -> i > 1 \/ b.negated
              [] OTHER -> b.items[i].low # Escape
\* The bytes it stands for; where case does not count, those of either case.
Listing(item) ==
    CASE item.is \in {"byte", "escaped"} -> {item.low}
      [] item.is = "range" -> item.low .. item.high
      [] item.is = "class" -> NamedClasses[item.name]
StandsFor(b, byte, exact) ==
    b.negated # \E i \in DOMAIN b.items : \E c \in {byte} \cup (IF exact THEN {} ELSE {SwapCase(byte)}) :
                    c \in Listing(b.items[i])
KnownClasses(b) == \A i \in DOMAIN b.items : b.items[i].is = "class" => b.items[i].name \in DOMAIN NamedClasses

-------------------------------------------------------------------------------
(* split_pattern *)

Parts(s) ==
    LET ends == {i \in 1 .. Len(s) + 1 : i = Len(s) + 1 \/ s[i] = Slash}
        starts == {i \in 1 .. Len(s) : s[i] # Slash /\ (i = 1 \/ s[i - 1] = Slash)}
    IN  [k \in 1 .. Cardinality(starts) |->
            LET from == CHOOSE i \in starts : Cardinality({j \in starts : j < i}) = k - 1
            IN  SubSeq(s, from, First({e \in ends : e >= from}) - 1)]
HasMagic(part) == \E i \in DOMAIN part : part[i] \in {Star, Question, Open}
LessOne(n) == IF n = 0 THEN 0 ELSE n - 1
Split(s, exact) ==
    LET parts == Parts(s)
        magic == First({i \in DOMAIN parts : HasMagic(parts[i])} \cup {Len(parts) + 1}) - 1
        index == IF exact THEN magic ELSE IF magic < Len(parts) THEN magic ELSE LessOne(Len(parts))
    IN  [absolute |-> At(s, 1, Slash), base |-> SubSeq(parts, 1, index),
         parts |-> SubSeq(parts, index + 1, Len(parts)),
         only |-> Len(s) > 1 /\ Last(s) = Slash]

-------------------------------------------------------------------------------
(* GlobRunner.  A tree gives for every directory what listing it answers, and for an entry *)
(* its name, the kind the listing gives ("untold" where there are no permissions), the     *)
(* answer to an LSTAT of it, and what it truly is.                                          *)

Nothing == [found |-> <<>>, failed |-> FALSE]
Fails == [found |-> <<>>, failed |-> TRUE]
Finds(path) == [found |-> <<path>>, failed |-> FALSE]
\* One after the other, until one fails.
Then(a, b) == IF a.failed THEN a ELSE [b EXCEPT !.found = a.found \o @]
InTurn(results) == FoldLeft(Then, Nothing, results)

\* _settle_kind: the listing's word, or an LSTAT's.
Settled(e) == IF e.told # "untold" THEN e.told ELSE e.lstat
\* is_directory: gone is no directory; what cannot be told is not guessed.
Untellable(e) == Settled(e) \in {"refused", "untold"}
IsDir(e) == Settled(e) = "dir"

\* listing: a directory that is gone has no entries.
Listed(tree, dir) == tree[dir].entries
Refuses(tree, dir) == tree[dir].answer = "denied"

\* walk and _walk_one: the directories of the tree in the order they are visited, and what
\* it could not tell left out of it; only a listing that is refused ends it.
RECURSIVE Walked(_, _, _)
Walked(tree, dir, depth) ==
    IF tree[dir].answer # "listed" THEN Fails
    ELSE LET below == SelectSeq(Listed(tree, dir), LAMBDA e : IsDir(e) /\ depth > 0)
         IN  Then(Finds(dir), InTurn([i \in DOMAIN below |-> Walked(tree, Append(dir, below[i].name), depth - 1)]))

\* match_in, descend and recursive: what the components from the k-th on match below dir.
\* A "**" that is the last one is followed by a "*".
MatchIn(tree, from, parts, only, depth) ==
    LET all == IF Last(parts) = Recursive THEN Append(parts, <<Star>>) ELSE parts
        Found[dir \in DOMAIN tree, k \in 1 .. Len(all)] ==
            LET last == k = Len(all)
                Onward(path) == IF last THEN Finds(path) ELSE Found[path, k + 1]
                Visit(walk) == IF walk.failed THEN Fails
                               ELSE InTurn([i \in DOMAIN walk.found |-> Onward(walk.found[i])])
                Descend(hits) ==
                    InTurn([i \in DOMAIN hits |->
                        IF (~last \/ only) /\ Untellable(hits[i]) THEN Fails
                        ELSE IF (~last \/ only) /\ ~IsDir(hits[i]) THEN Nothing
                        ELSE Onward(Append(dir, hits[i].name))])
            IN  IF all[k] = Recursive THEN Visit(Walked(tree, dir, depth))
                ELSE IF Refuses(tree, dir) THEN Fails
                ELSE Descend(SelectSeq(Listed(tree, dir),
                                       LAMBDA e : Match(all[k], e.name, TRUE) = "yes"))
    IN  Found[from, 1]

\* literal: one LSTAT, whose refusal is not an absence.
EntryAt(tree, path) ==
    IF Front(path) \in DOMAIN tree THEN {e \in ToSet(tree[Front(path)].entries) : e.name = Last(path)} ELSE {}
LiteralSwallows(tree, path, only) ==    \* a defect: a refusal is an absence
    IF \E e \in EntryAt(tree, path) : e.lstat \notin {"absent", "refused"} /\ (only => e.lstat = "dir")
    THEN Finds(path) ELSE Nothing
Literal(tree, path, only) ==
    LET there == {e \in EntryAt(tree, path) : e.lstat # "absent"}
    IN  IF \E e \in there : e.lstat = "refused" THEN Fails
        ELSE IF \E e \in there : only => e.lstat = "dir" THEN Finds(path) ELSE Nothing

\* Session.glob, when the pattern is valid: from the directory it names; one that is missing
\* lists as an empty one and cannot be walked.
Search(tree, glob) ==
    IF glob.parts = <<>> THEN Literal(tree, glob.base, glob.only)
    ELSE IF glob.base \in DOMAIN tree THEN MatchIn(tree, glob.base, glob.parts, glob.only, glob.depth)
    ELSE IF Head(glob.parts) = Recursive THEN Fails ELSE Nothing

\* What there is to find: paths of which every component matches, with "**" any directories.
RECURSIVE Wanted(_, _, _, _, _)
Wanted(tree, dir, parts, only, depth) ==
    IF dir \notin DOMAIN tree THEN {}
    ELSE LET entries == ToSet(tree[dir].entries)
         IN  IF Head(parts) = Recursive
             THEN LET rest == IF Len(parts) = 1 THEN <<<<Star>>>> ELSE Tail(parts)
                      Down[d \in DOMAIN tree, n \in 0 .. depth] ==
                          {d} \cup IF n = 0 THEN {}
                                   ELSE UNION {Down[Append(d, e.name), n - 1] :
                                                   e \in {f \in ToSet(tree[d].entries) : f.is = "dir"}}
                  IN  UNION {Wanted(tree, d, rest, only, depth) : d \in Down[dir, depth]}
             ELSE LET hits == {e \in entries : Match(Head(parts), e.name, TRUE) = "yes"}
                  IN  IF Len(parts) = 1
                      THEN {Append(dir, e.name) : e \in {f \in hits : only => f.is = "dir"}}
                      ELSE UNION {Wanted(tree, Append(dir, e.name), Tail(parts), only, depth) :
                                      e \in {f \in hits : f.is = "dir"}}
ToFind(tree, glob) ==
    IF glob.parts # <<>> THEN Wanted(tree, glob.base, glob.parts, glob.only, glob.depth)
    ELSE {glob.base : e \in {f \in EntryAt(tree, glob.base) :
                                f.is # "absent" /\ (glob.only => f.is = "dir")}}

-------------------------------------------------------------------------------
(* What is tried. *)

GlobCases ==
    {[is |-> "pattern", pattern |-> s, exact |-> x] : s \in Patterns, x \in BOOLEAN}
    \cup {[is |-> "bracket", bracket |-> b, exact |-> x] : b \in {e \in Brackets : WellWritten(e)}, x \in BOOLEAN}
    \cup {[is |-> "path", pattern |-> s, exact |-> x] : s \in Paths, x \in BOOLEAN}
    \cup {[is |-> "search", tree |-> t, glob |-> Split(s, TRUE) @@ [depth |-> d]] :
              t \in Listings, s \in Searches, d \in Depths}

\* The one place to go back to is enough; a leading period is matched by none but itself; a
\* pattern is refused before it has met a name, or by none (_match_here, match_component,
\* validate_pattern).
MatchesAsWritten(s, exact) ==
    ValidPattern(s) =>
        \A name \in Names :
            Match(s, name, exact) =
                IF Denotes(s, 1, name, 1, exact) /\ (At(name, 1, Dot) => DotFirst(s))
                THEN "yes" ELSE "no"

\* A bracket expression matches one byte, of those it lists or of the others, and what follows it
\* is matched behind that byte; an unknown class is refused (_match_class and what it calls).
BracketsAsWritten(b, exact) ==
    LET pattern == Append(Bracket(b), 97)
    IN  /\ ValidPattern(pattern) <=> KnownClasses(b)
        /\ KnownClasses(b) =>
              \A name \in {n \in Names : Len(n) = 1 /\ n[1] # Dot} :
                  /\ Match(pattern, name \o <<97>>, exact) = IF StandsFor(b, name[1], exact) THEN "yes" ELSE "no"
                  /\ Match(pattern, name, exact) = "no"

\* A pattern is taken apart, and nothing of it is lost: what is opened without being matched
\* has nothing to match, and the last name is matched where case does not count.
SplitsAsWritten(s, exact) ==
    LET split == Split(s, exact)
    IN  /\ split.base \o split.parts = Parts(s)
        /\ \A i \in DOMAIN split.base : ~HasMagic(split.base[i])
        /\ exact /\ split.parts # <<>> => HasMagic(Head(split.parts))
        /\ ~exact /\ Parts(s) # <<>> => split.parts # <<>>

\* The directories the k-th component is applied in: the base, and below it the directories
\* the components before match, those of a "**" at most so deep.  A "**" that ends a pattern is
\* followed by a "*".
EntriesOf(tree, dir) == IF dir \in DOMAIN tree THEN ToSet(tree[dir].entries) ELSE {}
Below(tree, dir, depth) ==
    {dir} \cup {path \in DOMAIN tree :
                   /\ IsPrefix(dir, path) /\ Len(path) - Len(dir) <= depth
                   /\ \A i \in Len(dir) + 1 .. Len(path) :
                         \E e \in EntryAt(tree, SubSeq(path, 1, i)) : IsDir(e)}
Applied(tree, glob) ==
    LET parts == IF Last(glob.parts) = Recursive THEN Append(glob.parts, <<Star>>) ELSE glob.parts
        In[k \in DOMAIN parts] ==
            IF k = 1 THEN {glob.base}
            ELSE UNION {IF parts[k - 1] = Recursive THEN Below(tree, dir, glob.depth)
                        ELSE {Append(dir, e.name) :
                                e \in {f \in EntriesOf(tree, dir) :
                                          IsDir(f) /\ Match(parts[k - 1], f.name, TRUE) = "yes"}} :
                        dir \in In[k - 1]}
    IN  [k \in DOMAIN parts |-> [part |-> parts[k], dirs |-> In[k], last |-> k = Len(parts)]]

\* What the server declined to answer: a listing of a directory that was reached, or the kind of
\* an entry that matched and is to be entered, or to be a directory; of a pattern without
\* anything to match, the LSTAT.
Declined(tree, glob) ==
    IF glob.parts = <<>> THEN \E e \in EntryAt(tree, glob.base) : e.lstat = "refused"
    ELSE \E step \in Range(Applied(tree, glob)) : \E dir \in step.dirs :
            \/ dir \in DOMAIN tree /\ Refuses(tree, dir)
            \/ /\ step.part # Recursive /\ (~step.last \/ glob.only)
               /\ \E e \in EntriesOf(tree, dir) :
                     Untellable(e) /\ Match(step.part, e.name, TRUE) = "yes"
\* What only a "**" fails on: a directory it starts from, or comes to, that is not there.
WalksNothing(tree, glob) ==
    /\ glob.parts # <<>>
    /\ \E step \in Range(Applied(tree, glob)) : \E dir \in step.dirs :
          /\ step.part = Recursive
          /\ \E path \in Below(tree, dir, glob.depth) :
                path \notin DOMAIN tree \/ tree[path].answer = "absent"

\* A search raises if and only if the server declined to answer something the pattern reached,
\* or a "**" met a directory that is not there: a path that does not exist matches nothing
\* everywhere else, and is an error only there, because "**" walks where the other components
\* list (recursive against listing; Session.glob and docs/listing-and-matching.md promise an
\* empty result for both).  A search that ends found nothing that is not there, and left out
\* only what is, or lies beneath, an entry whose kind cannot be told.  Links and what is gone are
\* no directories.
FindsWhatIsThere(tree, glob) ==
    \A result \in {Search(tree, glob)}, wanted \in {ToFind(tree, glob)} :
        /\ result.failed <=> (Declined(tree, glob) \/ WalksNothing(tree, glob))
        /\ ~result.failed =>
             /\ ToSet(result.found) \subseteq wanted
             /\ \A path \in wanted \ ToSet(result.found) :
                   \E i \in DOMAIN path : \E e \in EntryAt(tree, SubSeq(path, 1, i)) :
                       IF glob.parts = <<>> THEN e.lstat = "untold" ELSE Untellable(e)

\* is_directory's docstring: what cannot be told is not dropped, with everything beneath it,
\* "into a result that looks complete".
LooksComplete(tree, glob) ==
    \A result \in {Search(tree, glob)} :
        ~result.failed => ToFind(tree, glob) \subseteq ToSet(result.found)
===============================================================================
