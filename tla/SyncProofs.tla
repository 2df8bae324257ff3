------------------------------ MODULE SyncProofs ------------------------------
(***************************************************************************)
(* Proofs about Sync: a run that returns has left on the server what the   *)
(* source holds, a run over what did not change sends nothing, and the     *)
(* remote directories keep the times they were given.                      *)
(*                                                                         *)
(* What a run decides rests on what earlier runs recorded, so the          *)
(* invariant says what an entry is worth (EntryTrue): whatever the server  *)
(* holds that looks like what was recorded is what was sent, unless that   *)
(* was changed on its way.  It survives because nothing lands twice in one *)
(* run (Sorted), because what lands in a later one bears the time of that  *)
(* run or the mtime of the source, and because what is on its way is known *)
(* to be the source's as long as nobody touched it (OnItsWay).  A listing  *)
(* is as old as the walk's last step into a directory, and still true of   *)
(* what was not sent or changed since (Fresh).                             *)
(***************************************************************************)
EXTENDS Sync, SequenceTheorems, FiniteSetTheorems, TLAPS

Item == File \cup {NoItem}
Place == ToSet(Dirs)
Stamps == {<<>>} \cup (Nat \X Int)
Entry == [local : Stamps, remote : Stamps]
Copies == [content : Version \cup {Gone, Torn, Alien}, size : Nat, mtime : Int]
Errors == {"none", "server", "local", "value", "cancelled"}
Verdicts == {"none", "transfer", "undecidable", "skipped"}

SyncTypeOK ==
    /\ job \in {"sync", "tree", "preview", "many"}
    /\ atomic \in BOOLEAN /\ preserve \in BOOLEAN
    /\ laconic \in {"nowhere", "listings", "everywhere"}
    /\ source \in [File -> Version \cup {Gone}]
    /\ server \in [File -> Copies]
    /\ manifest \in [entries : [File -> Entry], cut : BOOLEAN]
    /\ memory \in [File -> Entry]
    /\ mirror \in [dirs : Seq(Place), names : Seq(File), present : [File -> Stamps],
                   verdict : [File -> Verdicts], decided : Seq(File), times : Seq(Place),
                   skipped : SUBSET File]
    /\ sending \in [Worker -> [phase : {"idle", "sending", "sent", "landed"},
                               content : Version \cup {Gone}, landed : Stamps]]
    /\ ended \in Errors \cup {"returned", "killed"}
    /\ runs \in Nat \ {0}
    /\ changed \subseteq File /\ tainted \subseteq File /\ mixed \subseteq File \X Stamps
    /\ calm \in {"no", "so_far", "settled"}
    /\ pool \in [gen : {"running", "sending", "suspended", "closed"}, offered : Item,
                 held : [Worker -> Item], error : Errors, over : BOOLEAN]

\* The pool hands each file to one worker, and is empty when it is over.
Pooled ==
    /\ pool.over => /\ pool.gen = "closed" /\ pool.offered = NoItem
                    /\ \A w \in Worker : pool.held[w] = NoItem
    /\ pool.offered # NoItem <=> pool.gen = "sending"
    /\ pool.gen = "sending" => ~Sequential
    /\ Sequential /\ pool.error = "none" /\ pool.gen = "running" =>
          \A w \in Worker : pool.held[w] = NoItem
    /\ \A v, w \in Worker : v # w /\ pool.held[v] # NoItem => pool.held[v] # pool.held[w]
    /\ \A w \in Worker : pool.held[w] # NoItem => pool.held[w] # pool.offered
    /\ ended # "none" => pool.over

\* Where a file is while a run lasts.
Named == ToSet(mirror.names)
Handling == ({pool.held[w] : w \in Worker} \cup {pool.offered}) \ {NoItem}
Decided == ToSet(mirror.decided)
Met == Named \cup Handling \cup Decided
Ahead(f) == mirror.dirs # <<>> /\ (job = "many" \/ Home[f] \in ToSet(mirror.dirs))

\* In one of these places at a time, so that it is sent once; and no two files to one name.
Sorted ==
    /\ IsInjective(mirror.dirs) /\ IsInjective(mirror.names) /\ IsInjective(mirror.decided)
    /\ \A f \in Met : ~Ahead(f)
    /\ Named \cap (Handling \cup Decided) = {}
    /\ pool.offered \notin Decided
    /\ \A w \in Worker :
          /\ pool.held[w] = NoItem => sending[w].phase = "idle"
          /\ pool.held[w] # NoItem =>
                (pool.held[w] \in Decided <=> sending[w].phase \in {"sent", "landed"})
          /\ sending[w].phase \in {"sent", "landed"} => job = "sync"
          /\ sending[w].phase = "sending" => job # "preview"
    /\ \A f, g \in Met : Landing(f) = Landing(g) => f = g

Sound == pool.error = "none" /\ ended # "killed"
\* And in one of them as soon as its directory was entered, while nothing has failed.
Covered ==
    /\ job # "many" => \A f \in Met \ changed : source[f] # Gone
    /\ Sound /\ job # "many" =>
          \A f \in File \ changed : source[f] # Gone => Ahead(f) \/ f \in Met
    /\ Sound /\ pool.gen = "closed" => mirror.dirs = <<>> /\ mirror.names = <<>>
    /\ ended = "returned" => pool.error = "none"

\* A listing is true of what is still to be compared.
Fresh ==
    /\ job = "sync" => \A f \in Named \ changed : mirror.present[f] = RemoteStamp(server[f])
    /\ job # "sync" => \A f \in File : mirror.verdict[f] # "skipped"

\* What a copy of the source's content is told to be.
Stamped(f) == <<Size[source[f]], IF preserve THEN source[f] ELSE Now>>

\* What an entry is worth.
EntryTrue(f, entry) ==
    entry # NoEntry =>
        /\ entry.remote # <<>> /\ entry.remote[2] >= Now
        /\ entry.remote[2] = Now => f \in Decided
        /\ <<f, entry.remote>> \notin mixed =>
              /\ entry.remote[2] # 0
              /\ preserve => entry.local = entry.remote
              /\ entry.remote = RemoteStamp(server[f]) =>
                    server[f].content \in Version /\ entry.local = LocalStamp(server[f].content)
Truth ==
    /\ \A f \in File : EntryTrue(f, memory[f]) /\ EntryTrue(f, manifest.entries[f])
    /\ job # "sync" => \A f \in File : memory[f] = NoEntry /\ manifest.entries[f] = NoEntry
    /\ \A f \in File : server[f].mtime >= Now

\* What a worker has read and what has landed of it are the source's, if nobody came between.
OnItsWay ==
    \A w \in Worker : LET f == pool.held[w] IN
        f # NoItem =>
          /\ sending[w].phase # "idle" =>
                /\ sending[w].content \in Version /\ (f \in tainted => f \in changed)
                /\ f \in tainted \/ sending[w].content = source[f]
          /\ sending[w].phase = "sent" =>
                f \in tainted \/ /\ server[f].content = source[f]
                                 /\ RemoteStamp(server[f]) = Stamped(f)
          /\ sending[w].phase = "landed" =>
                /\ sending[w].landed # <<>> /\ sending[w].landed[2] >= Now
                /\ f \in tainted \/
                      /\ sending[w].landed = Stamped(f)
                      /\ RemoteStamp(server[f]) = sending[w].landed => server[f].content = source[f]
                /\ f \in changed \/ sending[w].landed = RemoteStamp(server[f])

\* What was decided is as it should be, with the excuses of MirrorIsCurrent.
Kept ==
    job # "preview" => \A f \in Decided :
        \/ {f, Landing(f)} \cap changed # {}
        \/ mirror.verdict[f] = "skipped" /\ <<f, RemoteStamp(server[f])>> \in mixed
        \/ server[Landing(f)].content = source[f]

Matches(f, entry) ==
    entry # NoEntry /\ server[f] # NoFile
    /\ entry.local = LocalStamp(source[f]) /\ entry.remote = RemoteStamp(server[f])
\* What a run without a change has recorded, and what the next one makes of it.
Quiet ==
    /\ calm # "no" => changed = {}
    /\ ended = "returned" /\ job = "sync" => manifest.entries = memory
    /\ calm = "so_far" /\ job = "sync" /\ laconic = "nowhere" /\ Sound =>
          \A f \in Decided \ Handling : Matches(f, memory[f])
    /\ calm = "settled" =>
          /\ job = "sync" /\ laconic = "nowhere" /\ Handling = {}
          /\ \A f \in File : source[f] # Gone =>
                Matches(f, memory[f]) /\ manifest.entries[f] = memory[f]
          /\ \A f \in File : mirror.verdict[f] \in {"none", "skipped"}

\* Every directory but the first is dated in the end, or will be.
Dating ==
    /\ preserve /\ job \in {"sync", "tree"} =>
          Place \ {Dirs[1]} \subseteq ToSet(mirror.times) \cup ToSet(mirror.dirs)
    /\ RemoteTimesStick

IndInv ==
    SyncTypeOK /\ Pooled /\ Sorted /\ Covered /\ Fresh /\ Truth /\ OnItsWay /\ Kept /\ Quiet /\ Dating

-------------------------------------------------------------------------------
(* Sequences without repetition *)

LEMMA EmptySet == ToSet(<<>>) = {} /\ IsInjective(<<>>)
BY DEF ToSet, IsInjective

LEMMA InjTail ==
    ASSUME NEW S, NEW s \in Seq(S), s # <<>>
    PROVE  /\ ToSet(s) = ToSet(Tail(s)) \cup {Head(s)}
           /\ IsInjective(s) => IsInjective(Tail(s)) /\ Head(s) \notin ToSet(Tail(s))
<1>1. Len(s) \in Nat \ {0} /\ DOMAIN s = 1 .. Len(s) BY EmptySeq
<1>2. /\ Tail(s) \in Seq(S) /\ Len(Tail(s)) = Len(s) - 1 /\ Head(s) = s[1]
      /\ \A i \in 1 .. Len(Tail(s)) : Tail(s)[i] = s[i + 1]
  BY HeadTailProperties
<1>3. DOMAIN Tail(s) = 1 .. Len(s) - 1 BY <1>2
<1>4. \A i \in 1 .. Len(s) - 1 : i + 1 \in 1 .. Len(s) /\ i + 1 # 1 BY <1>1
<1>5. \A i \in 1 .. Len(s) : i = 1 \/ (i - 1 \in 1 .. Len(s) - 1 /\ i = (i - 1) + 1) BY <1>1
<1>6. ToSet(s) = ToSet(Tail(s)) \cup {s[1]}
  <2>1. ASSUME NEW i \in 1 .. Len(s) PROVE s[i] \in ToSet(Tail(s)) \cup {s[1]}
    <3>1. CASE i = 1 BY <3>1
    <3>2. CASE i - 1 \in 1 .. Len(s) - 1 /\ i = (i - 1) + 1
      <4>1. Tail(s)[i - 1] = s[i] BY <1>2, <3>2
      <4> QED BY <1>3, <3>2, <4>1 DEF ToSet
    <3> QED BY <1>5, <3>1, <3>2
  <2>2. \A i \in 1 .. Len(s) - 1 : Tail(s)[i] \in ToSet(s) BY <1>1, <1>2, <1>4 DEF ToSet
  <2>3. s[1] \in ToSet(s) BY <1>1 DEF ToSet
  <2> QED BY <1>1, <1>3, <2>1, <2>2, <2>3 DEF ToSet
<1>7. ASSUME IsInjective(s) PROVE IsInjective(Tail(s)) /\ s[1] \notin ToSet(Tail(s))
  <2>1. IsInjective(Tail(s))
    <3> SUFFICES ASSUME NEW a \in 1 .. Len(s) - 1, NEW b \in 1 .. Len(s) - 1,
                        Tail(s)[a] = Tail(s)[b]
                 PROVE  a = b
      BY <1>3 DEF IsInjective
    <3>1. s[a + 1] = s[b + 1] BY <1>2
    <3>2. a + 1 = b + 1 BY <1>1, <1>4, <1>7, <3>1 DEF IsInjective
    <3> QED BY <1>1, <3>2
  <2>2. \A i \in 1 .. Len(s) - 1 : Tail(s)[i] # s[1]
    BY <1>1, <1>2, <1>4, <1>7 DEF IsInjective
  <2> QED BY <1>3, <2>1, <2>2 DEF ToSet
<1> QED BY <1>2, <1>6, <1>7

LEMMA InjAppend ==
    ASSUME NEW S, NEW s \in Seq(S), NEW e \in S
    PROVE  /\ ToSet(Append(s, e)) = ToSet(s) \cup {e}
           /\ IsInjective(s) /\ e \notin ToSet(s) => IsInjective(Append(s, e))
<1> DEFINE t == Append(s, e)
<1>1. /\ Len(s) \in Nat /\ DOMAIN s = 1 .. Len(s) /\ t \in Seq(S) /\ Len(t) = Len(s) + 1
      /\ t[Len(s) + 1] = e /\ \A i \in 1 .. Len(s) : t[i] = s[i]
  OBVIOUS
<1>2. DOMAIN t = 1 .. Len(s) + 1 BY <1>1
<1> HIDE DEF t
<1>3. \A i \in 1 .. Len(s) + 1 : i \in 1 .. Len(s) \/ i = Len(s) + 1 BY <1>1
<1>4. \A i \in 1 .. Len(s) : i \in 1 .. Len(s) + 1 BY <1>1
<1>5. Len(s) + 1 \in 1 .. Len(s) + 1 BY <1>1
<1>6. ToSet(t) = ToSet(s) \cup {e} BY <1>1, <1>2, <1>3, <1>4, <1>5 DEF ToSet
<1>7. ASSUME IsInjective(s), e \notin ToSet(s) PROVE IsInjective(t)
  BY <1>1, <1>2, <1>3, <1>7 DEF IsInjective, ToSet
<1> QED BY <1>6, <1>7 DEF t

LEMMA ToSetTyped == ASSUME NEW S, NEW s \in Seq(S) PROVE ToSet(s) \subseteq S
BY DEF ToSet

LEMMA HeadThere == ASSUME NEW S, NEW s \in Seq(S), s # <<>>
  PROVE Head(s) \in ToSet(s) /\ Head(s) \in S
<1>1. Head(s) = s[1] /\ Len(s) \in Nat \ {0} /\ DOMAIN s = 1 .. Len(s)
  BY EmptySeq, HeadTailProperties
<1> QED BY <1>1 DEF ToSet

\* A finite set is written as a sequence once each.
LEMMA SetToSeqIs ==
    ASSUME NEW S, IsFiniteSet(S)
    PROVE  SetToSeq(S) \in Seq(S) /\ IsInjective(SetToSeq(S)) /\ ToSet(SetToSeq(S)) = S
<1> DEFINE n == Cardinality(S)
           q == SetToSeq(S)
<1>1. n \in Nat /\ ExistsBijection(1 .. n, S) BY FS_CardinalityType
<1>2. PICK b : b \in Bijection(1 .. n, S) BY <1>1 DEF ExistsBijection
<1>3. b \in [1 .. n -> S] /\ IsInjective(b)
  BY <1>2 DEF Bijection, Injection
<1>4. q \in [1 .. n -> S] /\ IsInjective(q) BY <1>3 DEF SetToSeq
<1> HIDE DEF n, q
<1>5. DOMAIN q = 1 .. n /\ ToSet(q) \subseteq S /\ q \in [1 .. n -> ToSet(q)]
  BY <1>4 DEF ToSet
<1>6. q \in Surjection(1 .. n, ToSet(q)) /\ q \in Injection(1 .. n, ToSet(q))
  BY <1>4, <1>5 DEF Surjection, Injection, ToSet
<1>7. IsFiniteSet(1 .. n) /\ Cardinality(1 .. n) = n BY <1>1, FS_Interval
<1>8. Cardinality(ToSet(q)) = n BY <1>6, <1>7, FS_Surjection
<1>9. ToSet(q) = S BY <1>5, <1>8, FS_Subset DEF n
<1> QED BY <1>1, <1>4, <1>9 DEF q

-------------------------------------------------------------------------------
(* Types *)

LEMMA Basics ==
    /\ NoItem \notin File /\ NoItem \in Item /\ File \subseteq Item
    /\ Dirs \in Seq(Place) /\ Dirs # <<>> /\ IsInjective(Dirs) /\ Dirs[1] \in Place
    /\ \A f \in File : Home[f] \in Place /\ Landing(f) \in File
    /\ \A v \in Version : v \in Nat /\ v # 0 /\ v \in Int /\ Size[v] \in Nat
    /\ Gone \notin Version /\ Torn \notin Version /\ Alien \notin Version
    /\ \A f \in File : job # "many" => Landing(f) = f
<1>1. \A v \in Version : v \in Nat /\ v # 0 /\ v \in Int /\ Size[v] \in Nat BY SyncAssumption
<1>2. Gone \notin Version /\ Torn \notin Version /\ Alien \notin Version
  BY <1>1 DEF Gone, Torn, Alien
<1>3. Dirs[1] \in Place
  <2>1. Head(Dirs) \in ToSet(Dirs) /\ Head(Dirs) = Dirs[1] BY SyncAssumption, HeadThere
  <2> QED BY <2>1 DEF Place
<1>4. \A f \in File : Home[f] \in Place /\ Landing(f) \in File
  BY SyncAssumption DEF Place, Landing
<1> QED BY <1>1, <1>2, <1>3, <1>4, SyncAssumption DEF Place, Item, Landing

LEMMA StampsTyped ==
    /\ \A v \in Version : LocalStamp(v) \in Stamps /\ LocalStamp(v) = <<Size[v], v>> /\ LocalStamp(v) # <<>>
    /\ \A c \in Version \cup {Gone, Torn, Alien} : SizeOf(c) \in Nat
    /\ \A r \in Copies : /\ RemoteStamp(r) \in Stamps
                         /\ RemoteStamp(r) = <<>> <=> r = NoFile
                         /\ r # NoFile => RemoteStamp(r) = <<r.size, r.mtime>>
    /\ NoFile \in Copies /\ NoEntry \in Entry
<1>1. \A a, b : <<a, b>> # <<>> OBVIOUS
<1>2. \A v \in Version : LocalStamp(v) \in Stamps /\ LocalStamp(v) = <<Size[v], v>> /\ LocalStamp(v) # <<>>
  BY <1>1, Basics DEF LocalStamp, Stamps
<1>3. \A c \in Version \cup {Gone, Torn, Alien} : SizeOf(c) \in Nat
  BY Basics DEF SizeOf
<1>4. NoFile \in Copies /\ NoEntry \in Entry
  BY DEF NoFile, NoEntry, Copies, Entry, Stamps
<1>5. ASSUME NEW r \in Copies
      PROVE  /\ RemoteStamp(r) \in Stamps
             /\ RemoteStamp(r) = <<>> <=> r = NoFile
             /\ r # NoFile => RemoteStamp(r) = <<r.size, r.mtime>>
  <2>1. r.size \in Nat /\ r.mtime \in Int BY DEF Copies
  <2> QED BY <1>1, <2>1 DEF RemoteStamp, Stamps
<1> QED BY <1>2, <1>3, <1>4, <1>5

LEMMA EntriesIs ==
    ASSUME NEW d
    PROVE  /\ Entries(d) \in Seq(File) /\ IsInjective(Entries(d))
           /\ ToSet(Entries(d)) = {f \in File : Home[f] = d /\ source[f] # Gone}
<1> DEFINE S == {f \in File : Home[f] = d /\ source[f] # Gone}
<1>1. S \subseteq File /\ IsFiniteSet(S) BY SyncAssumption, FS_Subset
<1>2. Entries(d) = SetToSeq(S) BY DEF Entries
<1> HIDE DEF S
<1>3. Entries(d) \in Seq(S) /\ IsInjective(Entries(d)) /\ ToSet(Entries(d)) = S
  BY <1>1, <1>2, SetToSeqIs
<1>4. Seq(S) \subseteq Seq(File) BY <1>1
<1> QED BY <1>3, <1>4 DEF S

PoolTyped(p) == p \in [gen : {"running", "sending", "suspended", "closed"}, offered : Item,
                       held : [Worker -> Item], error : Errors, over : BOOLEAN]
\* Everything a step can do to the pool, when it offers nothing and when it may.
PoolRest ==
    \/ \E w \in Worker : Take(w) \/ Handled(w)
    \/ \E w \in Worker, e \in Errors \ {"none"} : HandlerFails(w, e)
    \/ \E e \in Errors \ {"none"} : ProducerFails(e)
    \/ Exhausted \/ CancelPool \/ Unwind \/ Join \/ UNCHANGED pool

LEMMA NewPoolTyped ==
    /\ PoolTyped(NewPool) /\ NewPool.gen = "running" /\ NewPool.offered = NoItem
    /\ NewPool.error = "none" /\ ~NewPool.over /\ \A w \in Worker : NewPool.held[w] = NoItem
BY Basics DEF PoolTyped, NewPool, Errors

LEMMA PoolStepTyped ==
    ASSUME PoolTyped(pool), PoolRest \/ \E f \in File : Offer(f)
    PROVE  PoolTyped(pool')
<1> USE Basics DEF PoolTyped
<1>1. ASSUME NEW w \in Worker, Take(w) PROVE PoolTyped(pool') BY <1>1 DEF Take
<1>2. ASSUME NEW w \in Worker, Handled(w) PROVE PoolTyped(pool') BY <1>2 DEF Handled
<1>3. ASSUME NEW w \in Worker, NEW e \in Errors, HandlerFails(w, e) PROVE PoolTyped(pool')
  BY <1>3 DEF HandlerFails, Raised
<1>4. ASSUME NEW e \in Errors, ProducerFails(e) PROVE PoolTyped(pool')
  BY <1>4 DEF ProducerFails
<1>5. ASSUME Exhausted \/ Join \/ UNCHANGED pool PROVE PoolTyped(pool')
  BY <1>5 DEF Exhausted, Join
<1>6. ASSUME CancelPool PROVE PoolTyped(pool') BY <1>6 DEF CancelPool, Errors
<1>7. ASSUME Unwind PROVE PoolTyped(pool')
  <2>1. ASSUME NEW w \in Worker, pool' = [pool EXCEPT !.held[w] = NoItem] PROVE PoolTyped(pool')
    BY <2>1
  <2>2. ASSUME \/ pool' = [pool EXCEPT !.gen = "closed"]
               \/ pool' = [pool EXCEPT !.gen = "suspended", !.offered = NoItem]
        PROVE  PoolTyped(pool')
    BY <2>2
  <2> QED BY <1>7, <2>1, <2>2 DEF Unwind
<1>8. ASSUME NEW f \in File, Offer(f) PROVE PoolTyped(pool')
  <2>1. CASE Sequential BY <1>8, <2>1 DEF Offer
  <2>2. CASE ~Sequential BY <1>8, <2>2 DEF Offer
  <2> QED BY <2>1, <2>2
<1> QED BY <1>1, <1>2, <1>3, <1>4, <1>5, <1>6, <1>7, <1>8 DEF PoolRest

\* What each step does to the pool.
LEMMA StepsOfPool ==
    ASSUME SyncTypeOK, [SyncNext]_<<syncVars, pool>>
    PROVE  \/ (PoolRest \/ \E f \in File : Offer(f)) /\ UNCHANGED runs
           \/ NextRun \/ Kill
<1> DEFINE Goal == (PoolRest \/ \E f \in File : Offer(f)) /\ UNCHANGED runs
<1>0. "server" \in Errors \ {"none"} /\ "value" \in Errors \ {"none"}
      /\ "local" \in Errors \ {"none"} /\ "cancelled" \in Errors \ {"none"}
  BY DEF Errors
<1>1. EnterDirectory => Goal BY DEF EnterDirectory, PoolRest, counts
<1>2. DirectoryFails \/ StartMany \/ MirrorWalked => Goal
  BY <1>0 DEF DirectoryFails, StartMany, MirrorWalked, PoolRest, syncVars, counts
<1>3. ASSUME NEW f \in File, Consider(f) PROVE Goal
  BY <1>0, <1>3 DEF Consider, PoolRest, counts
<1>4. ASSUME NEW w \in Worker, TakeFile(w) \/ SendBegin(w) \/ SendEnd(w) PROVE Goal
  <2>1. CASE TakeFile(w) BY <2>1 DEF TakeFile, PoolRest, syncVars, counts
  <2>2. CASE SendBegin(w) BY <2>2 DEF SendBegin, PoolRest, counts
  <2>3. CASE SendEnd(w) BY <2>3 DEF SendEnd, PoolRest, counts
  <2> QED BY <1>4, <2>1, <2>2, <2>3
<1>5. ASSUME NEW w \in Worker, Measure(w) \/ StatLanded(w) \/ Record(w) \/ SendFails(w) PROVE Goal
  <2>1. CASE Measure(w) BY <2>1 DEF Measure, PoolRest, counts
  <2>2. CASE StatLanded(w) BY <2>2 DEF StatLanded, PoolRest, counts
  <2>3. CASE Record(w) BY <2>3 DEF Record, PoolRest
  <2>4. CASE SendFails(w) BY <1>0, <2>4 DEF SendFails, PoolRest, counts
  <2> QED BY <1>5, <2>1, <2>2, <2>3, <2>4
<1>6. UnwindMirror \/ JoinMirror \/ CancelMirror \/ EndRun => Goal
  BY DEF UnwindMirror, JoinMirror, CancelMirror, EndRun, PoolRest, syncVars, counts
<1>7. ASSUME NEW f \in File, Interfere(f) PROVE Goal BY <1>7 DEF Interfere, PoolRest
<1>8. ASSUME NEW f \in File, NEW v \in Version \cup {Gone}, Edit(f, v) PROVE Goal
  BY <1>8 DEF Edit, PoolRest
<1>9. UNCHANGED <<syncVars, pool>> => Goal BY DEF PoolRest, syncVars, counts
<1> QED BY <1>1, <1>2, <1>3, <1>4, <1>5, <1>6, <1>7, <1>8, <1>9 DEF SyncNext, SyncStep

MirrorTyped(m) ==
    m \in [dirs : Seq(Place), names : Seq(File), present : [File -> Stamps],
           verdict : [File -> Verdicts], decided : Seq(File), times : Seq(Place),
           skipped : SUBSET File]
SendingTyped(s) ==
    s \in [Worker -> [phase : {"idle", "sending", "sent", "landed"},
                      content : Version \cup {Gone}, landed : Stamps]]
\* The parts of a state that only some steps change.
GivenTyped == /\ job \in {"sync", "tree", "preview", "many"}
              /\ atomic \in BOOLEAN /\ preserve \in BOOLEAN
              /\ laconic \in {"nowhere", "listings", "everywhere"}
RestTyped ==
    /\ source \in [File -> Version \cup {Gone}]
    /\ server \in [File -> Copies]
    /\ manifest \in [entries : [File -> Entry], cut : BOOLEAN]
    /\ memory \in [File -> Entry]
    /\ ended \in Errors \cup {"returned", "killed"}
    /\ runs \in Nat \ {0}
    /\ changed \subseteq File /\ tainted \subseteq File /\ mixed \subseteq File \X Stamps
    /\ calm \in {"no", "so_far", "settled"}

LEMMA TypeParts ==
    SyncTypeOK <=> /\ GivenTyped /\ RestTyped /\ MirrorTyped(mirror) /\ SendingTyped(sending)
                   /\ PoolTyped(pool)
BY DEF SyncTypeOK, GivenTyped, RestTyped, MirrorTyped, SendingTyped, PoolTyped

LEMMA IdleTyped == /\ Idle \in [phase : {"idle", "sending", "sent", "landed"},
                               content : Version \cup {Gone}, landed : Stamps]
                   /\ Idle.phase = "idle"
BY DEF Idle, Stamps

LEMMA NoMirrorTyped ==
    /\ MirrorTyped(NoMirror) /\ NoMirror.dirs = Dirs /\ NoMirror.names = <<>>
    /\ NoMirror.decided = <<>> /\ NoMirror.times = <<>>
    /\ \A f \in File : NoMirror.verdict[f] = "none"
BY Basics DEF NoMirror, MirrorTyped, Stamps, Verdicts

LEMMA InitiallyTyped == SyncInit => SyncTypeOK
<1> SUFFICES ASSUME SyncInit PROVE SyncTypeOK OBVIOUS
<1>1. PICK m \in Mirror : job = m.job /\ atomic = m.atomic /\ preserve = m.preserve
                          /\ laconic = m.laconic /\ source = m.source
  BY DEF SyncInit
<1>2. GivenTyped /\ source \in [File -> Version \cup {Gone}] BY <1>1, SyncAssumption DEF GivenTyped
<1>3. RestTyped BY <1>2, StampsTyped DEF RestTyped, SyncInit, Errors
<1>4. SendingTyped(sending) BY IdleTyped DEF SyncInit, SendingTyped
<1> QED BY <1>2, <1>3, <1>4, NewPoolTyped, NoMirrorTyped, TypeParts DEF SyncInit

LEMMA VerdictTyped == \A v, p, e : Verdict(v, p, e) \in Verdicts
BY DEF Verdict, Verdicts

LEMMA WalkTyped ==
    ASSUME SyncTypeOK,
           EnterDirectory \/ DirectoryFails \/ StartMany \/ MirrorWalked \/ \E f \in File : Consider(f)
    PROVE  MirrorTyped(mirror') /\ UNCHANGED <<given, source, server, manifest, memory, sending,
                                              ended, runs, history>>
<1>1. MirrorTyped(mirror) BY TypeParts
<1>2. CASE EnterDirectory
  <2> DEFINE d == Head(mirror.dirs)
  <2>1. mirror.dirs \in Seq(Place) /\ mirror.dirs # <<>>
    BY <1>1, <1>2 DEF EnterDirectory, MirrorTyped
  <2>2. d \in Place /\ Tail(mirror.dirs) \in Seq(Place) BY <2>1, HeadThere, HeadTailProperties
  <2>3. Entries(d) \in Seq(File) BY EntriesIs
  <2>4. Present(d) \in [File -> Stamps]
    <3>1. \A f \in File : server[f] \in Copies BY DEF SyncTypeOK
    <3> QED BY <3>1, StampsTyped DEF Present, Stamps
  <2>5. mirror' = [mirror EXCEPT !.dirs = Tail(@), !.names = Entries(d), !.present = Present(d),
                                 !.times = IF preserve /\ d # Dirs[1] THEN Append(@, d) ELSE @,
                                 !.skipped = @ \cup {f \in Odd : Home[f] = d}]
    BY <1>2 DEF EnterDirectory
  <2>6. Odd \subseteq File BY SyncAssumption
  <2> HIDE DEF d
  <2>7. PICK times \in Seq(Place) : mirror' =
            [mirror EXCEPT !.dirs = Tail(mirror.dirs), !.names = Entries(d), !.present = Present(d),
                 !.times = times, !.skipped = mirror.skipped \cup {f \in Odd : Home[f] = d}]
    <3>1. mirror.times \in Seq(Place) BY <1>1 DEF MirrorTyped
    <3>2. Append(mirror.times, d) \in Seq(Place) BY <2>2, <3>1
    <3> QED BY <2>5, <3>1, <3>2
  <2>8. MirrorTyped(mirror') BY <1>1, <2>2, <2>3, <2>4, <2>6, <2>7 DEF MirrorTyped
  <2> QED BY <1>2, <2>8 DEF EnterDirectory, counts
<1>3. CASE DirectoryFails \/ MirrorWalked
  BY <1>1, <1>3 DEF DirectoryFails, MirrorWalked, syncVars, counts
<1>4. CASE StartMany
  <2>1. PICK list \in Lists :
          mirror' = mirror \/ mirror' = [mirror EXCEPT !.dirs = <<>>, !.names = list]
    BY <1>4 DEF StartMany
  <2>2. list \in Seq(File) /\ <<>> \in Seq(Place) BY SyncAssumption
  <2>3. MirrorTyped(mirror') BY <1>1, <2>1, <2>2 DEF MirrorTyped
  <2> QED BY <1>4, <2>3 DEF StartMany, counts
<1>5. ASSUME NEW f \in File, Consider(f)
      PROVE  MirrorTyped(mirror') /\ UNCHANGED <<given, source, server, manifest, memory, sending,
                                                ended, runs, history>>
  <2>1. mirror.names \in Seq(File) /\ mirror.names # <<>> BY <1>1, <1>5 DEF Consider, MirrorTyped
  <2>2. Tail(mirror.names) \in Seq(File) BY <2>1, HeadTailProperties
  <2>3. PICK verdict \in Verdicts :
           \/ mirror' = mirror
           \/ mirror' = [mirror EXCEPT
                  !.names = Tail(@), !.verdict[f] = verdict,
                  !.decided = IF verdict = "skipped" THEN Append(@, f) ELSE @]
    <3> DEFINE verdict == IF job = "sync" THEN Verdict(source[f], mirror.present[f], memory[f])
                          ELSE "transfer"
    <3>1. verdict \in Verdicts BY VerdictTyped DEF Verdicts
    <3>2. \/ mirror' = mirror
          \/ mirror' = [mirror EXCEPT
                 !.names = Tail(@), !.verdict[f] = verdict,
                 !.decided = IF verdict = "skipped" THEN Append(@, f) ELSE @]
      BY <1>5 DEF Consider
    <3> QED BY <3>1, <3>2
  <2>4. mirror.decided \in Seq(File) /\ Append(mirror.decided, f) \in Seq(File)
    BY <1>1 DEF MirrorTyped
  <2>5. MirrorTyped(mirror')
    <3>1. CASE mirror' = mirror BY <1>1, <3>1
    <3>2. ASSUME NEW decided \in Seq(File),
                 mirror' = [mirror EXCEPT !.names = Tail(mirror.names), !.verdict[f] = verdict,
                                          !.decided = decided]
          PROVE  MirrorTyped(mirror')
      BY <1>1, <2>2, <3>2 DEF MirrorTyped
    <3> QED BY <2>3, <2>4, <3>1, <3>2
  <2> QED BY <1>5, <2>5 DEF Consider, counts
<1> QED BY <1>2, <1>3, <1>4, <1>5

\* A copy of what was read, as it lands.
Copy(c, f) == [content |-> c, size |-> SizeOf(c), mtime |-> IF preserve THEN source[f] ELSE Now]

LEMMA HandlersTyped ==
    ASSUME SyncTypeOK, NEW w \in Worker,
           TakeFile(w) \/ SendBegin(w) \/ SendEnd(w) \/ Measure(w) \/ StatLanded(w) \/ Record(w)
              \/ SendFails(w)
    PROVE  GivenTyped' /\ RestTyped' /\ MirrorTyped(mirror') /\ SendingTyped(sending')
<1>1. GivenTyped /\ RestTyped /\ MirrorTyped(mirror) /\ SendingTyped(sending) /\ PoolTyped(pool)
  BY TypeParts
<1>2. Now \in Int BY <1>1 DEF RestTyped, Now
<1>3. CASE TakeFile(w)
  BY <1>1, <1>3 DEF TakeFile, syncVars, given, counts, history, GivenTyped, RestTyped
<1>4. ASSUME Sent(w) # NoItem PROVE Sent(w) \in File /\ Landing(Sent(w)) \in File
  <2>1. Sent(w) \in File BY <1>1, <1>4 DEF Sent, PoolTyped, Item
  <2> QED BY <2>1, Basics
<1>5. CASE SendBegin(w)
  <2>1. Sent(w) \in File /\ Landing(Sent(w)) \in File BY <1>4, <1>5 DEF SendBegin, Reached
  <2>2. SendingTyped(sending')
    BY ZenonT(30), <1>1, <1>5, <2>1 DEF SendBegin, SendingTyped, RestTyped
  <2>3. server' \in [File -> Copies]
    <3>1. [content |-> Torn, size |-> 0, mtime |-> Now] \in Copies BY <1>2 DEF Copies
    <3> QED BY <1>1, <1>5, <2>1, <3>1 DEF SendBegin, RestTyped
  <2>4. tainted' \subseteq File BY <1>1, <1>5 DEF SendBegin, RestTyped
  <2>5. GivenTyped' /\ RestTyped'
    BY <1>1, <1>5, <2>3, <2>4 DEF SendBegin, given, counts, GivenTyped, RestTyped
  <2> QED BY <1>1, <1>5, <2>2, <2>5 DEF SendBegin
<1>6. CASE SendEnd(w)
  <2> DEFINE f == Sent(w)
  <2>1. f \in File /\ Landing(f) \in File BY <1>4, <1>6 DEF SendEnd, Reached
  <2>2. PICK c \in {sending[w].content, source[f]} :
           server' = [server EXCEPT ![Landing(f)] = Copy(c, f)] /\ Mixes(f, RemoteStamp(Copy(c, f)))
    BY <1>6 DEF SendEnd, Copy
  <2>3. c \in Version \cup {Gone} BY <1>1, <2>1 DEF SendingTyped, RestTyped
  <2>4. (IF preserve THEN source[f] ELSE Now) \in Int
    BY <1>1, <1>2, <2>1, Basics DEF RestTyped, Gone
  <2>5. Copy(c, f) \in Copies BY <2>3, <2>4, StampsTyped DEF Copy, Copies
  <2>6. server' \in [File -> Copies] BY <1>1, <2>2, <2>5 DEF RestTyped
  <2>7. mixed' \subseteq File \X Stamps
    BY <1>1, <2>1, <2>2, <2>5, StampsTyped DEF Mixes, RestTyped
  <2>8. MirrorTyped(mirror')
    <3>1. Append(mirror.decided, f) \in Seq(File) BY <1>1, <2>1 DEF MirrorTyped
    <3>2. mirror' = [mirror EXCEPT !.decided = Append(mirror.decided, f)] BY <1>6 DEF SendEnd
    <3> QED BY <1>1, <3>1, <3>2 DEF MirrorTyped
  <2>9. SendingTyped(sending') BY <1>1, <1>6, IdleTyped DEF SendEnd, SendingTyped
  <2> QED BY <1>1, <1>6, <2>6, <2>7, <2>8, <2>9 DEF SendEnd, given, counts, GivenTyped, RestTyped
<1>7. CASE Measure(w)
  <2>1. Sent(w) \in File BY <1>4, <1>7 DEF Measure
  <2>2. MirrorTyped(mirror')
    <3>1. Append(mirror.decided, Sent(w)) \in Seq(File) BY <1>1, <2>1 DEF MirrorTyped
    <3>2. mirror' = [mirror EXCEPT !.decided = Append(mirror.decided, Sent(w))]
      BY <1>7 DEF Measure
    <3> QED BY <1>1, <3>1, <3>2 DEF MirrorTyped
  <2> QED BY <1>1, <1>7, <2>2 DEF Measure, given, counts, history, GivenTyped, RestTyped
<1>8. CASE StatLanded(w)
  <2>1. Sent(w) \in File /\ Landing(Sent(w)) \in File BY <1>4, <1>8 DEF StatLanded, Reached
  <2>2. RemoteStamp(server[Landing(Sent(w))]) \in Stamps
    BY <1>1, <2>1, StampsTyped DEF RestTyped
  <2>3. SendingTyped(sending') BY <1>1, <1>8, <2>2 DEF StatLanded, SendingTyped
  <2> QED BY <1>1, <1>8, <2>3 DEF StatLanded, given, counts, history, GivenTyped, RestTyped
<1>9. CASE Record(w)
  <2> DEFINE f == Sent(w)
             entry == [local |-> LocalStamp(source[f]), remote |-> sending[w].landed]
  <2>1. f \in File /\ source[f] \in Version BY <1>1, <1>4, <1>9 DEF Record, Reached, RestTyped
  <2>2. entry \in Entry /\ entry.remote \in Stamps
    BY <1>1, <2>1, StampsTyped DEF Entry, SendingTyped
  <2>3. \/ UNCHANGED <<manifest, memory, mixed>>
        \/ /\ memory' = [memory EXCEPT ![f] = entry] /\ Mixes(f, entry.remote)
           /\ manifest' = Appended(f, entry) \/ manifest' = [manifest EXCEPT !.cut = TRUE]
    BY <1>9 DEF Record, Remembered
  <2>4. SendingTyped(sending') BY <1>1, <1>9, IdleTyped DEF Record, SendingTyped
  <2> HIDE DEF entry
  <2>5. memory' \in [File -> Entry] /\ mixed' \subseteq File \X Stamps
    BY <1>1, <2>1, <2>2, <2>3 DEF Mixes, RestTyped
  <2>6. manifest' \in [entries : [File -> Entry], cut : BOOLEAN]
    <3>1. manifest \in [entries : [File -> Entry], cut : BOOLEAN] BY <1>1 DEF RestTyped
    <3>2. Appended(f, entry) \in [entries : [File -> Entry], cut : BOOLEAN]
      <4>1. [manifest EXCEPT !.cut = FALSE] \in [entries : [File -> Entry], cut : BOOLEAN] BY <3>1
      <4>2. [manifest EXCEPT !.entries[f] = entry] \in [entries : [File -> Entry], cut : BOOLEAN]
        BY <2>1, <2>2, <3>1
      <4> QED BY <4>1, <4>2 DEF Appended
    <3>3. [manifest EXCEPT !.cut = TRUE] \in [entries : [File -> Entry], cut : BOOLEAN] BY <3>1
    <3> QED BY <2>3, <3>1, <3>2, <3>3
  <2> QED BY <1>1, <1>9, <2>4, <2>5, <2>6 DEF Record, given, GivenTyped, RestTyped
<1>10. CASE SendFails(w)
  <2>1. SendingTyped(sending') BY <1>1, <1>10, IdleTyped DEF SendFails, SendingTyped
  <2> QED BY <1>1, <1>10, <2>1 DEF SendFails, given, counts, history, GivenTyped, RestTyped
<1> QED BY <1>3, <1>5, <1>6, <1>7, <1>8, <1>9, <1>10

LEMMA OthersTyped ==
    ASSUME SyncTypeOK,
           \/ UnwindMirror \/ JoinMirror \/ CancelMirror \/ EndRun \/ NextRun \/ Kill
           \/ \E f \in File : Interfere(f) \/ \E v \in Version \cup {Gone} : Edit(f, v)
           \/ UNCHANGED <<syncVars, pool>>
    PROVE  GivenTyped' /\ RestTyped' /\ MirrorTyped(mirror') /\ SendingTyped(sending')
<1>1. GivenTyped /\ RestTyped /\ MirrorTyped(mirror) /\ SendingTyped(sending) /\ PoolTyped(pool)
  BY TypeParts
<1>2. CASE UnwindMirror
  <2>1. SendingTyped(sending') BY <1>1, <1>2, IdleTyped DEF UnwindMirror, SendingTyped
  <2> QED BY <1>1, <1>2, <2>1 DEF UnwindMirror, given, counts, history, GivenTyped, RestTyped
<1>3. CASE JoinMirror \/ CancelMirror \/ UNCHANGED <<syncVars, pool>>
  BY <1>1, <1>3
     DEF JoinMirror, CancelMirror, syncVars, given, counts, history, GivenTyped, RestTyped
<1>4. CASE EndRun
  <2>1. ended' \in Errors \cup {"returned", "killed"}
    BY <1>1, <1>4 DEF EndRun, PoolTyped, Errors
  <2>2. manifest' \in [entries : [File -> Entry], cut : BOOLEAN]
    <3>1. manifest \in [entries : [File -> Entry], cut : BOOLEAN] BY <1>1 DEF RestTyped
    <3>2. [entries |-> memory, cut |-> FALSE] \in [entries : [File -> Entry], cut : BOOLEAN]
      BY <1>1 DEF RestTyped
    <3>3. manifest' = manifest \/ manifest' = Rewritten BY <1>4 DEF EndRun
    <3> QED BY <3>1, <3>2, <3>3 DEF Rewritten
  <2> QED BY <1>1, <1>4, <2>1, <2>2 DEF EndRun, given, counts, history, GivenTyped, RestTyped
<1>5. CASE NextRun
  <2>1. SendingTyped(sending') BY <1>5, IdleTyped DEF NextRun, SendingTyped
  <2>2. MirrorTyped(mirror') BY <1>5, NoMirrorTyped DEF NextRun
  <2>3. memory' \in [File -> Entry] /\ runs' \in Nat \ {0} BY <1>1, <1>5 DEF NextRun, RestTyped
  <2>4. calm' \in {"no", "so_far", "settled"} /\ ended' \in Errors BY <1>5 DEF NextRun, Errors
  <2>5. RestTyped' BY <1>1, <1>5, <2>3, <2>4 DEF NextRun, RestTyped
  <2> QED BY <1>1, <1>5, <2>1, <2>2, <2>5 DEF NextRun, given, GivenTyped
<1>6. CASE Kill
  <2>1. SendingTyped(sending') BY <1>6, IdleTyped DEF Kill, SendingTyped
  <2> QED BY <1>1, <1>6, <2>1 DEF Kill, given, counts, history, GivenTyped, RestTyped
<1>7. ASSUME NEW f \in File, Interfere(f)
      PROVE  GivenTyped' /\ RestTyped' /\ MirrorTyped(mirror') /\ SendingTyped(sending')
  <2>1. server' \in [File -> Copies]
    <3>1. server[f] \in Copies BY <1>1 DEF RestTyped
    <3>2. [content |-> Alien, size |-> server[f].size, mtime |-> 0] \in Copies BY <3>1 DEF Copies
    <3> QED BY <1>1, <1>7, <3>2, StampsTyped DEF Interfere, RestTyped
  <2>2. changed' \subseteq File /\ tainted' \subseteq File /\ calm' = "no" /\ mixed' = mixed
    BY <1>1, <1>7 DEF Interfere, Disturbed, RestTyped
  <2> QED BY <1>1, <1>7, <2>1, <2>2 DEF Interfere, given, GivenTyped, RestTyped
<1>8. ASSUME NEW f \in File, NEW v \in Version \cup {Gone}, Edit(f, v)
      PROVE  GivenTyped' /\ RestTyped' /\ MirrorTyped(mirror') /\ SendingTyped(sending')
  <2>1. changed' \subseteq File /\ tainted' \subseteq File /\ calm' = "no" /\ mixed' = mixed
    BY <1>1, <1>8 DEF Edit, Disturbed, RestTyped
  <2> QED BY <1>1, <1>8, <2>1 DEF Edit, given, GivenTyped, RestTyped
<1> QED BY <1>2, <1>3, <1>4, <1>5, <1>6, <1>7, <1>8

LEMMA KilledTyped ==
    ASSUME Kill
    PROVE  PoolTyped(pool') /\ pool'.gen = "closed" /\ pool'.over /\ pool'.offered = NoItem
           /\ pool'.error = "none" /\ \A w \in Worker : pool'.held[w] = NoItem
BY NewPoolTyped DEF Kill, PoolTyped, NewPool

LEMMA TypeKeeps == SyncTypeOK /\ [SyncNext]_<<syncVars, pool>> => SyncTypeOK'
<1> SUFFICES ASSUME SyncTypeOK, [SyncNext]_<<syncVars, pool>> PROVE SyncTypeOK' OBVIOUS
<1>1. GivenTyped /\ RestTyped /\ MirrorTyped(mirror) /\ SendingTyped(sending) /\ PoolTyped(pool)
  BY TypeParts
<1>2. PoolTyped(pool')
  <2>1. NextRun => PoolTyped(pool') BY NewPoolTyped DEF NextRun
  <2> QED BY <1>1, <2>1, StepsOfPool, PoolStepTyped, KilledTyped
<1>3. SyncTypeOK' <=> /\ GivenTyped' /\ RestTyped' /\ MirrorTyped(mirror') /\ SendingTyped(sending')
                      /\ PoolTyped(pool')
  BY DEF SyncTypeOK, GivenTyped, RestTyped, MirrorTyped, SendingTyped, PoolTyped
<1>4. CASE EnterDirectory \/ DirectoryFails \/ StartMany \/ MirrorWalked \/ \E f \in File : Consider(f)
  <2>1. MirrorTyped(mirror') /\ UNCHANGED <<given, source, server, manifest, memory, sending,
                                            ended, runs, history>>
    BY <1>4, WalkTyped
  <2> QED BY <1>1, <1>2, <1>3, <2>1 DEF given, history, GivenTyped, RestTyped
<1>5. ASSUME NEW w \in Worker,
             TakeFile(w) \/ SendBegin(w) \/ SendEnd(w) \/ Measure(w) \/ StatLanded(w) \/ Record(w)
                \/ SendFails(w)
      PROVE  SyncTypeOK'
  BY <1>2, <1>3, <1>5, HandlersTyped
<1>6. CASE \/ UnwindMirror \/ JoinMirror \/ CancelMirror \/ EndRun \/ NextRun \/ Kill
           \/ \E f \in File : Interfere(f) \/ \E v \in Version \cup {Gone} : Edit(f, v)
           \/ UNCHANGED <<syncVars, pool>>
  BY <1>2, <1>3, <1>6, OthersTyped
<1> QED BY <1>4, <1>5, <1>6 DEF SyncNext, SyncStep

-------------------------------------------------------------------------------
(* The pool *)

LEMMA Alone == Sequential => \A v, w \in Worker : v = w
<1> SUFFICES ASSUME Sequential PROVE \A v, w \in Worker : v = w OBVIOUS
<1>1. IsFiniteSet(Worker) /\ Cardinality(Worker) = 1 BY PoolAssumption DEF Sequential
<1>2. \E w : Worker = {w} BY <1>1, FS_Singleton
<1> QED BY <1>2

\* The part of Pooled that is about the pool alone.
Pool1(p) ==
    /\ p.over => p.gen = "closed" /\ p.offered = NoItem /\ \A w \in Worker : p.held[w] = NoItem
    /\ p.offered # NoItem <=> p.gen = "sending"
    /\ p.gen = "sending" => ~Sequential
    /\ Sequential /\ p.error = "none" /\ p.gen = "running" => \A w \in Worker : p.held[w] = NoItem
    /\ \A v, w \in Worker : v # w /\ p.held[v] # NoItem => p.held[v] # p.held[w]
    /\ \A w \in Worker : p.held[w] # NoItem => p.held[w] # p.offered

LEMMA PooledParts == Pooled <=> Pool1(pool) /\ (ended # "none" => pool.over)
BY DEF Pooled, Pool1

LEMMA HandlingIs ==
    /\ \A m : m \in Handling <=> m # NoItem /\ (m = pool.offered \/ \E w \in Worker : pool.held[w] = m)
    /\ \A m : m \in Handling' <=>
          m # NoItem /\ (m = pool'.offered \/ \E w \in Worker : pool'.held[w] = m)
BY DEF Handling

LEMMA PoolKeeps ==
    ASSUME PoolTyped(pool), Pool1(pool), PoolRest \/ \E f \in File \ Handling : Offer(f)
    PROVE  Pool1(pool')
<1> USE Basics DEF PoolTyped
<1>1. ASSUME NEW w \in Worker, Take(w) PROVE Pool1(pool')
  <2>1. /\ pool'.offered = NoItem /\ pool'.held[w] = pool.offered /\ pool.held[w] = NoItem
        /\ \A v \in Worker \ {w} : pool'.held[v] = pool.held[v]
        /\ pool'.gen = "running" /\ pool.gen = "sending" /\ pool'.over = pool.over
    BY <1>1 DEF Take
  <2> QED BY <2>1 DEF Pool1
<1>2. ASSUME NEW w \in Worker, Handled(w) PROVE Pool1(pool')
  <2>1. /\ pool'.offered = pool.offered /\ pool'.held[w] = NoItem /\ pool.held[w] # NoItem
        /\ pool'.gen = (IF Sequential /\ pool.error = "none" THEN "running" ELSE pool.gen)
        /\ pool'.error = pool.error /\ pool'.over = pool.over
        /\ \A v \in Worker \ {w} : pool'.held[v] = pool.held[v]
    BY <1>2 DEF Handled
  <2>2. CASE Sequential BY <2>1, <2>2, Alone DEF Pool1
  <2>3. CASE ~Sequential BY <2>1, <2>3 DEF Pool1
  <2> QED BY <2>2, <2>3
<1>3. ASSUME NEW w \in Worker, NEW e \in Errors \ {"none"}, HandlerFails(w, e) PROVE Pool1(pool')
  <2>1. /\ pool'.offered = pool.offered /\ pool'.held[w] = NoItem /\ pool.held[w] # NoItem
        /\ pool'.gen = pool.gen /\ pool'.over = pool.over
        /\ \A v \in Worker \ {w} : pool'.held[v] = pool.held[v]
        /\ pool'.error = "none" => pool.error = "none"
    BY <1>3 DEF HandlerFails, Raised
  <2> QED BY <2>1 DEF Pool1
<1>4. ASSUME NEW e \in Errors \ {"none"}, ProducerFails(e) PROVE Pool1(pool')
  BY <1>4 DEF ProducerFails, Producing, Pool1
<1>5. ASSUME Exhausted \/ CancelPool \/ UNCHANGED pool PROVE Pool1(pool')
  BY <1>5 DEF Exhausted, CancelPool, Producing, Pool1
<1>6. ASSUME Join PROVE Pool1(pool')
  <2>1. /\ pool'.offered = pool.offered /\ pool'.held = pool.held /\ pool'.gen = "closed"
        /\ pool'.error = pool.error /\ pool.gen \in {"suspended", "closed"}
        /\ \A w \in Worker : pool.held[w] = NoItem
    BY <1>6 DEF Join
  <2> QED BY <2>1 DEF Pool1
<1>7. ASSUME Unwind PROVE Pool1(pool')
  <2>0. pool.error # "none" BY <1>7 DEF Unwind
  <2>1. ASSUME NEW w \in Worker, pool.held[w] # NoItem, pool' = [pool EXCEPT !.held[w] = NoItem]
        PROVE Pool1(pool')
    <3>1. /\ pool'.offered = pool.offered /\ pool'.held[w] = NoItem
          /\ pool'.gen = pool.gen /\ pool'.over = pool.over /\ pool'.error = pool.error
          /\ \A v \in Worker \ {w} : pool'.held[v] = pool.held[v]
      BY <2>1
    <3> QED BY <2>0, <2>1, <3>1 DEF Pool1
  <2>2. ASSUME pool.gen = "running", pool' = [pool EXCEPT !.gen = "closed"] PROVE Pool1(pool')
    BY <2>0, <2>2 DEF Pool1
  <2>3. ASSUME pool.gen = "sending", pool' = [pool EXCEPT !.gen = "suspended", !.offered = NoItem]
        PROVE  Pool1(pool')
    BY <2>0, <2>3 DEF Pool1
  <2> QED BY <1>7, <2>1, <2>2, <2>3 DEF Unwind
<1>8. ASSUME NEW f \in File \ Handling, Offer(f) PROVE Pool1(pool')
  <2>1. pool.gen = "running" /\ pool.error = "none" /\ ~pool.over BY <1>8 DEF Offer, Producing
  <2>2. CASE Sequential
    <3>1. /\ pool'.gen = "suspended" /\ pool'.offered = pool.offered /\ ~pool'.over
          /\ \A w \in Worker : pool'.held[w] = f
      BY <1>8, <2>1, <2>2 DEF Offer
    <3> QED BY <2>1, <2>2, <3>1, Alone DEF Pool1
  <2>3. CASE ~Sequential
    <3>1. /\ pool'.gen = "sending" /\ pool'.offered = f /\ ~pool'.over /\ pool'.held = pool.held
      BY <1>8, <2>1, <2>3 DEF Offer
    <3> QED BY <1>8, <2>1, <2>3, <3>1, HandlingIs DEF Pool1
  <2> QED BY <2>2, <2>3
<1> QED BY <1>1, <1>2, <1>3, <1>4, <1>5, <1>6, <1>7, <1>8 DEF PoolRest

\* What comes into the pool's hands and what leaves them.
LEMMA HandlingSteps ==
    ASSUME PoolTyped(pool), Pool1(pool)
    PROVE  /\ \A w \in Worker : Take(w) => Handling' = Handling
           /\ \A w \in Worker : Handled(w) =>
                  Handling' = Handling \ {pool.held[w]} /\ pool.held[w] \in Handling
           /\ \A f \in File : Offer(f) => Handling' = Handling \cup {f}
           /\ PoolRest => Handling' \subseteq Handling
           /\ UNCHANGED pool \/ Exhausted \/ Join \/ CancelPool => Handling' = Handling
<1> USE Basics DEF PoolTyped
<1>1. ASSUME NEW w \in Worker, Take(w) PROVE Handling' = Handling
  <2>1. /\ pool'.offered = NoItem /\ pool'.held[w] = pool.offered /\ pool.held[w] = NoItem
        /\ \A v \in Worker \ {w} : pool'.held[v] = pool.held[v]
    BY <1>1 DEF Take
  <2>2. \A m : m \in Handling' <=> m \in Handling BY <2>1, HandlingIs
  <2> QED BY <2>2
<1>2. ASSUME NEW w \in Worker, Handled(w)
      PROVE  Handling' = Handling \ {pool.held[w]} /\ pool.held[w] \in Handling
  <2>1. /\ pool'.offered = pool.offered /\ pool'.held[w] = NoItem /\ pool.held[w] # NoItem
        /\ \A v \in Worker \ {w} : pool'.held[v] = pool.held[v]
    BY <1>2 DEF Handled
  <2>2. pool.held[w] # pool.offered /\ \A v \in Worker \ {w} : pool.held[v] # pool.held[w]
    BY <2>1 DEF Pool1
  <2>3. \A m : m \in Handling' <=> m \in Handling /\ m # pool.held[w]
    BY <2>1, <2>2, HandlingIs
  <2> QED BY <2>1, <2>3, HandlingIs
<1>3. ASSUME NEW f \in File, Offer(f) PROVE Handling' = Handling \cup {f}
  <2>1. pool.gen = "running" /\ pool.error = "none" /\ pool.offered = NoItem
    BY <1>3 DEF Offer, Producing, Pool1
  <2>2. CASE Sequential
    <3>1. pool'.offered = pool.offered /\ \A w \in Worker : pool'.held[w] = f
      BY <1>3, <2>2 DEF Offer
    <3>2. \A w \in Worker : pool.held[w] = NoItem BY <2>1, <2>2 DEF Pool1
    <3>3. \E w : w \in Worker BY PoolAssumption
    <3>4. \A m : m \in Handling' <=> m \in Handling \/ m = f
      BY <2>1, <3>1, <3>2, <3>3, HandlingIs
    <3> QED BY <3>4
  <2>3. CASE ~Sequential
    <3>1. pool'.offered = f /\ pool'.held = pool.held BY <1>3, <2>3 DEF Offer
    <3>2. \A m : m \in Handling' <=> m \in Handling \/ m = f BY <2>1, <3>1, HandlingIs
    <3> QED BY <3>2
  <2> QED BY <2>2, <2>3
<1>4. ASSUME UNCHANGED pool \/ Exhausted \/ Join \/ CancelPool PROVE Handling' = Handling
  <2>1. pool'.offered = pool.offered /\ pool'.held = pool.held
    BY <1>4 DEF Exhausted, Join, CancelPool
  <2> QED BY <2>1 DEF Handling
<1>5. ASSUME NEW w \in Worker, NEW e \in Errors, HandlerFails(w, e)
  PROVE Handling' \subseteq Handling
  <2>1. /\ pool'.offered = pool.offered /\ pool'.held[w] = NoItem
        /\ \A v \in Worker \ {w} : pool'.held[v] = pool.held[v]
    BY <1>5 DEF HandlerFails
  <2> QED BY <2>1, HandlingIs
<1>6. ASSUME NEW e \in Errors \ {"none"}, ProducerFails(e) PROVE Handling' \subseteq Handling
  <2>1. pool'.offered = pool.offered /\ pool'.held = pool.held BY <1>6 DEF ProducerFails
  <2> QED BY <2>1 DEF Handling
<1>7. ASSUME Unwind PROVE Handling' \subseteq Handling
  <2>1. \A v \in Worker : pool'.held[v] = pool.held[v] \/ pool'.held[v] = NoItem
    <3>1. CASE \E w \in Worker : pool' = [pool EXCEPT !.held[w] = NoItem]
      <4>1. PICK w \in Worker : pool' = [pool EXCEPT !.held[w] = NoItem] BY <3>1
      <4>2. pool'.held = [pool.held EXCEPT ![w] = NoItem] BY <4>1
      <4> QED BY <4>2
    <3>2. CASE pool'.held = pool.held BY <3>2
    <3> QED BY <1>7, <3>1, <3>2 DEF Unwind
  <2>2. pool'.offered = pool.offered \/ pool'.offered = NoItem BY <1>7 DEF Unwind
  <2> QED BY <2>1, <2>2, HandlingIs
<1> QED BY <1>1, <1>2, <1>3, <1>4, <1>5, <1>6, <1>7 DEF PoolRest

-------------------------------------------------------------------------------
(* Where the files are *)

LEMMA GivenStays == [SyncNext]_<<syncVars, pool>> => UNCHANGED given
<1>1. SyncStep => UNCHANGED given
  BY DEF SyncStep, EnterDirectory, DirectoryFails, StartMany, MirrorWalked, Consider, TakeFile,
         SendBegin, SendEnd, Measure, StatLanded, Record, SendFails, UnwindMirror, JoinMirror,
         EndRun, syncVars
<1> QED BY <1>1 DEF SyncNext, NextRun, CancelMirror, Kill, Interfere, Edit, syncVars

\* The two halves of Sorted: the places, and what each worker does to its file.
Places ==
    /\ IsInjective(mirror.dirs) /\ IsInjective(mirror.names) /\ IsInjective(mirror.decided)
    /\ \A f \in Met : ~Ahead(f)
    /\ Named \cap (Handling \cup Decided) = {}
    /\ \A f, g \in Met : Landing(f) = Landing(g) => f = g
Doing(w) ==
    /\ pool.held[w] = NoItem => sending[w].phase = "idle"
    /\ pool.held[w] # NoItem =>
          (pool.held[w] \in Decided <=> sending[w].phase \in {"sent", "landed"})
    /\ sending[w].phase \in {"sent", "landed"} => job = "sync"
    /\ sending[w].phase = "sending" => job # "preview"
LEMMA SortedParts ==
    Sorted <=> Places /\ pool.offered \notin Decided /\ \A w \in Worker : Doing(w)
BY DEF Sorted, Places, Doing

LEMMA SetsTyped ==
    ASSUME SyncTypeOK
    PROVE  /\ Named \subseteq File /\ Decided \subseteq File /\ Handling \subseteq File
           /\ Met \subseteq File /\ NoItem \notin Met
           /\ mirror.names \in Seq(File) /\ mirror.decided \in Seq(File) /\ mirror.dirs \in Seq(Place)
<1>1. /\ mirror.names \in Seq(File) /\ mirror.decided \in Seq(File) /\ mirror.dirs \in Seq(Place)
  BY DEF SyncTypeOK
<1>2. Named \subseteq File /\ Decided \subseteq File BY <1>1, ToSetTyped DEF Named, Decided
<1>3. Handling \subseteq File BY DEF Handling, SyncTypeOK, Item
<1> QED BY <1>1, <1>2, <1>3, Basics DEF Met

LEMMA PlacesKept ==
    ASSUME Places, UNCHANGED job, mirror'.dirs = mirror.dirs,
           IsInjective(mirror'.names), IsInjective(mirror'.decided),
           Met' \subseteq Met, Named' \cap (Handling' \cup Decided') = {}
    PROVE  Places'
<1>1. \A f : Ahead(f)' <=> Ahead(f) BY DEF Ahead
<1>2. \A f : Landing(f)' = Landing(f) BY DEF Landing
<1> QED BY <1>1, <1>2 DEF Places

\* A step of the pool that decides nothing.
LEMMA PoolSorts ==
    ASSUME SyncTypeOK, Pool1(pool), Sorted, UNCHANGED <<job, mirror>>, PoolRest,
           \A w \in Worker : \/ pool'.held[w] = pool.held[w] /\ sending'[w] = sending[w]
                             \/ pool'.held[w] = NoItem /\ sending'[w].phase = "idle"
                             \/ Take(w) /\ sending'[w] = sending[w]
    PROVE  Sorted'
<1>0. PoolTyped(pool) BY TypeParts
<1>1. Handling' \subseteq Handling BY <1>0, HandlingSteps
<1>2. Named' = Named /\ Decided' = Decided BY DEF Named, Decided
<1>3. Met' \subseteq Met BY <1>1, <1>2 DEF Met
<1>4. Places'
  <2>1. Places BY SortedParts
  <2>2. /\ mirror'.dirs = mirror.dirs /\ IsInjective(mirror'.names) /\ IsInjective(mirror'.decided)
        /\ Named' \cap (Handling' \cup Decided') = {}
    BY <1>1, <1>2, <2>1 DEF Places
  <2> QED BY <1>3, <2>1, <2>2, PlacesKept
<1>5. pool'.offered \notin Decided'
  <2>1. NoItem \notin Decided BY SetsTyped DEF Met
  <2>2. pool'.offered = NoItem \/ pool'.offered \in Handling' BY HandlingIs
  <2>3. ASSUME pool'.offered # NoItem PROVE pool'.offered = pool.offered
    BY <2>3, <1>0 DEF PoolRest, PoolTyped, Take, Handled, HandlerFails, ProducerFails, Exhausted,
                      CancelPool, Unwind, Join
  <2> QED BY <1>2, <2>1, <2>3 DEF Sorted
<1>6. ASSUME NEW w \in Worker PROVE Doing(w)'
  <2>1. Doing(w) /\ pool.offered \notin Decided BY SortedParts
  <2>2. CASE pool'.held[w] = pool.held[w] /\ sending'[w] = sending[w]
    BY <1>2, <2>1, <2>2 DEF Doing
  <2>3. CASE pool'.held[w] = NoItem /\ sending'[w].phase = "idle" BY <2>3 DEF Doing
  <2>4. CASE Take(w) /\ sending'[w] = sending[w]
    <3>1. pool'.held[w] = pool.offered /\ pool.held[w] = NoItem
      BY <1>0, <2>4 DEF Take, PoolTyped
    <3> QED BY <1>2, <2>1, <2>4, <3>1 DEF Doing
  <2> QED BY <2>2, <2>3, <2>4
<1>7. Sorted' <=> Places' /\ pool'.offered \notin Decided' /\ \A w \in Worker : Doing(w)'
  BY DEF Sorted, Places, Doing
<1> QED BY <1>4, <1>5, <1>6, <1>7

LEMMA EnterSorts ==
    ASSUME SyncTypeOK, Sorted, EnterDirectory
    PROVE  /\ Sorted' /\ Handling' = Handling /\ Decided' = Decided
           /\ Named = {} /\ job # "many"
           /\ Named' = {f \in File : Home[f] = Head(mirror.dirs) /\ source[f] # Gone}
           /\ mirror.dirs # <<>> /\ Head(mirror.dirs) \in Place
           /\ ToSet(mirror.dirs) = ToSet(mirror'.dirs) \cup {Head(mirror.dirs)}
           /\ \A f \in File : Ahead(f)' => Ahead(f)
           /\ \A f \in File : Ahead(f) => Ahead(f)' \/ Home[f] = Head(mirror.dirs)
<1> DEFINE d == Head(mirror.dirs)
           rest == Tail(mirror.dirs)
<1>1. Places BY SortedParts
<1>2. mirror.dirs \in Seq(Place) /\ mirror.dirs # <<>> /\ job # "many" /\ mirror.names = <<>>
  BY SetsTyped DEF EnterDirectory, Mirroring
<1>3. /\ mirror'.dirs = rest /\ mirror'.names = Entries(d) /\ mirror'.decided = mirror.decided
      /\ UNCHANGED <<job, pool, sending>>
  BY DEF EnterDirectory, SyncTypeOK, given
<1>4. /\ ToSet(mirror.dirs) = ToSet(rest) \cup {d} /\ d \in Place
      /\ IsInjective(rest) /\ d \notin ToSet(rest)
  <2>1. IsInjective(mirror.dirs) BY <1>1 DEF Places
  <2> QED BY <1>2, <2>1, InjTail, HeadThere
<1>5. /\ IsInjective(Entries(d))
      /\ ToSet(Entries(d)) = {f \in File : Home[f] = d /\ source[f] # Gone}
  BY EntriesIs
<1>6. rest = <<>> => ToSet(rest) = {} BY EmptySet
<1> HIDE DEF d, rest
<1>7. /\ Named = {} /\ Named' = {f \in File : Home[f] = d /\ source[f] # Gone}
      /\ Handling' = Handling /\ Decided' = Decided
  BY <1>2, <1>3, <1>5, EmptySet DEF Named, Handling, Decided
<1>8. \A f : Ahead(f) <=> Home[f] \in ToSet(rest) \cup {d} BY <1>2, <1>4 DEF Ahead
<1>9. \A f : Ahead(f)' <=> Home[f] \in ToSet(rest) BY <1>2, <1>3, <1>6 DEF Ahead
<1>10. Places'
  <2>1. IsInjective(mirror'.dirs) /\ IsInjective(mirror'.names) /\ IsInjective(mirror'.decided)
    BY <1>1, <1>3, <1>4, <1>5 DEF Places
  <2>2. \A f \in Met' : ~Ahead(f)'
    <3>1. \A f \in Named' : ~Ahead(f)' BY <1>4, <1>7, <1>9
    <3>2. \A f \in Handling \cup Decided : ~Ahead(f)' BY <1>1, <1>8, <1>9 DEF Places, Met
    <3> QED BY <1>7, <3>1, <3>2 DEF Met
  <2>3. \A f \in Named' : Ahead(f) BY <1>7, <1>8
  <2>4. Named' \cap (Handling' \cup Decided') = {} BY <1>1, <1>7, <2>3 DEF Places, Met
  <2>5. \A f : Landing(f)' = f BY <1>2, <1>3 DEF Landing
  <2> QED BY <2>1, <2>2, <2>4, <2>5 DEF Places
<1>11. pool'.offered \notin Decided' /\ \A w \in Worker : Doing(w)'
  BY <1>3, <1>7, SortedParts DEF Doing
<1>12. Sorted' <=> Places' /\ pool'.offered \notin Decided' /\ \A w \in Worker : Doing(w)'
  BY DEF Sorted, Places, Doing
<1>13. \A f \in File : Ahead(f)' => Ahead(f) BY <1>8, <1>9
<1>14. \A f \in File : Ahead(f) => Ahead(f)' \/ Home[f] = d BY <1>8, <1>9
<1> QED BY <1>2, <1>3, <1>4, <1>7, <1>10, <1>11, <1>12, <1>13, <1>14 DEF d

\* A list of put_many in which no two files go to one name.
LEMMA StartSorts ==
    ASSUME SyncTypeOK, Sorted, StartMany
    PROVE  \/ ProducerFails("value") /\ UNCHANGED <<mirror, sending, job>>
           \/ /\ Sorted' /\ UNCHANGED <<pool, sending>>
              /\ Named = {} /\ Handling = {} /\ Decided = {} /\ Handling' = {} /\ Decided' = {}
              /\ job = "many" /\ Named' \subseteq File
<1>1. PICK list \in Lists :
          IF \E i, j \in DOMAIN list : i # j /\ Flat[list[i]] = Flat[list[j]]
          THEN ProducerFails("value") /\ UNCHANGED mirror
          ELSE /\ mirror' = [mirror EXCEPT !.dirs = <<>>, !.names = list]
               /\ UNCHANGED pool
  BY DEF StartMany
<1>2. job = "many" /\ mirror.dirs # <<>> /\ UNCHANGED <<job, sending>> BY DEF StartMany, given
<1>3. SUFFICES ASSUME \A i, j \in DOMAIN list : Flat[list[i]] = Flat[list[j]] => i = j,
                      mirror' = [mirror EXCEPT !.dirs = <<>>, !.names = list], UNCHANGED pool
               PROVE  /\ Sorted' /\ Named = {} /\ Handling = {} /\ Decided = {} /\ Handling' = {}
                      /\ Decided' = {} /\ Named' \subseteq File
  BY <1>1, <1>2
<1>4. Places /\ \A f : Ahead(f) BY <1>2, SortedParts DEF Ahead
<1>5. Met = {} BY <1>4 DEF Places
<1>6. mirror'.dirs = <<>> /\ mirror'.names = list /\ mirror'.decided = mirror.decided
  BY <1>3 DEF SyncTypeOK
<1>7. Named = {} /\ Handling = {} /\ Decided = {} /\ Handling' = {} /\ Decided' = {}
  BY <1>3, <1>5, <1>6 DEF Met, Handling, Decided
<1>8. list \in Seq(File) BY SyncAssumption
<1>9. Named' \subseteq File /\ Named' = ToSet(list) BY <1>6, <1>8, ToSetTyped DEF Named
<1>10. Met' = ToSet(list) BY <1>7, <1>9 DEF Met
<1>11. \A f : Landing(f)' = Flat[f] BY <1>2 DEF Landing
<1>12. \A f : ~Ahead(f)' BY <1>6 DEF Ahead
<1>13. IsInjective(list) BY <1>3 DEF IsInjective
<1>14. \A f, g \in ToSet(list) : Flat[f] = Flat[g] => f = g BY <1>3 DEF ToSet
<1>15. Places'
  BY <1>4, <1>6, <1>7, <1>10, <1>11, <1>12, <1>13, <1>14, EmptySet DEF Places
<1>16. pool'.offered \notin Decided' /\ \A w \in Worker : Doing(w)'
  BY <1>2, <1>3, <1>7, SortedParts DEF Doing
<1>17. Sorted' <=> Places' /\ pool'.offered \notin Decided' /\ \A w \in Worker : Doing(w)'
  BY DEF Sorted, Places, Doing
<1> QED BY <1>7, <1>9, <1>15, <1>16, <1>17

\* The next name is skipped, offered, or the run fails.
LEMMA ConsiderSorts ==
    ASSUME SyncTypeOK, Pool1(pool), Sorted, NEW f \in File, Consider(f)
    PROVE  \/ ProducerFails("local") /\ UNCHANGED <<mirror, sending, job>>
           \/ /\ Sorted' /\ UNCHANGED sending
              /\ f \in Named /\ f \notin Handling \cup Decided /\ source[f] # Gone
              /\ Named' = Named \ {f} /\ mirror'.dirs = mirror.dirs
              /\ mirror'.present = mirror.present
              /\ \/ /\ job = "sync" /\ Verdict(source[f], mirror.present[f], memory[f]) = "skipped"
                    /\ mirror'.verdict = [mirror.verdict EXCEPT ![f] = "skipped"]
                    /\ Decided' = Decided \cup {f} /\ Handling' = Handling /\ UNCHANGED pool
                 \/ /\ \E v \in Verdicts \ {"skipped"} :
                          /\ mirror'.verdict = [mirror.verdict EXCEPT ![f] = v]
                          /\ job = "sync" => v = Verdict(source[f], mirror.present[f], memory[f])
                    /\ Decided' = Decided /\ Handling' = Handling \cup {f} /\ Offer(f)
<1> DEFINE verdict == IF job = "sync" THEN Verdict(source[f], mirror.present[f], memory[f])
                      ELSE "transfer"
<1>0. PoolTyped(pool) BY TypeParts
<1>1. /\ mirror.names \in Seq(File) /\ mirror.names # <<>> /\ f = Head(mirror.names)
      /\ UNCHANGED <<job, sending>>
  BY SetsTyped DEF Consider, given
<1>2. verdict \in Verdicts BY VerdictTyped DEF Verdicts
<1>3. \/ ProducerFails("local") /\ UNCHANGED mirror
      \/ /\ source[f] # Gone
         /\ mirror' = [mirror EXCEPT
                !.names = Tail(@), !.verdict[f] = verdict,
                !.decided = IF verdict = "skipped" THEN Append(@, f) ELSE @]
         /\ IF verdict = "skipped" THEN UNCHANGED pool ELSE Offer(f)
  BY DEF Consider
<1> HIDE DEF verdict
<1>4. SUFFICES ASSUME source[f] # Gone,
                      mirror' = [mirror EXCEPT
                         !.names = Tail(@), !.verdict[f] = verdict,
                         !.decided = IF verdict = "skipped" THEN Append(@, f) ELSE @],
                      IF verdict = "skipped" THEN UNCHANGED pool ELSE Offer(f)
               PROVE  /\ Sorted' /\ UNCHANGED sending
                      /\ f \in Named /\ f \notin Handling \cup Decided /\ source[f] # Gone
                      /\ Named' = Named \ {f} /\ mirror'.dirs = mirror.dirs
                      /\ mirror'.present = mirror.present
                      /\ \/ /\ verdict = "skipped" /\ mirror'.verdict = [mirror.verdict EXCEPT ![f] = "skipped"]
                            /\ Decided' = Decided \cup {f} /\ Handling' = Handling
                         \/ /\ verdict # "skipped" /\ mirror'.verdict = [mirror.verdict EXCEPT ![f] = verdict]
                            /\ Decided' = Decided /\ Handling' = Handling \cup {f}
  BY <1>1, <1>2, <1>3 DEF verdict
<1>5. /\ mirror'.dirs = mirror.dirs /\ mirror'.names = Tail(mirror.names)
      /\ mirror'.verdict = [mirror.verdict EXCEPT ![f] = verdict]
      /\ mirror'.present = mirror.present
      /\ mirror'.decided = IF verdict = "skipped" THEN Append(mirror.decided, f) ELSE mirror.decided
  BY <1>4 DEF SyncTypeOK
<1>6. Places BY SortedParts
<1>7. /\ Named = ToSet(Tail(mirror.names)) \cup {f} /\ f \notin ToSet(Tail(mirror.names))
      /\ IsInjective(Tail(mirror.names))
  BY <1>1, <1>6, InjTail DEF Named, Places
<1>8. Named' = Named \ {f} /\ f \in Named BY <1>5, <1>7 DEF Named
<1>9. f \notin Handling \cup Decided BY <1>6, <1>8 DEF Places
<1>10. mirror.decided \in Seq(File) /\ IsInjective(mirror.decided) BY <1>6, SetsTyped DEF Places
<1>11. IsInjective(mirror'.decided)
       /\ Decided' = IF verdict = "skipped" THEN Decided \cup {f} ELSE Decided
  <2>1. /\ ToSet(Append(mirror.decided, f)) = ToSet(mirror.decided) \cup {f}
        /\ IsInjective(Append(mirror.decided, f))
    <3>1. f \notin ToSet(mirror.decided) BY <1>9 DEF Decided
    <3> QED BY <1>10, <3>1, InjAppend
  <2> QED BY <1>5, <1>10, <2>1 DEF Decided
<1>12. Handling' = IF verdict = "skipped" THEN Handling ELSE Handling \cup {f}
  BY <1>0, <1>4, HandlingSteps
<1>13. Places'
  <2>1. Met' \subseteq Met BY <1>8, <1>11, <1>12 DEF Met
  <2>2. Named' \cap (Handling' \cup Decided') = {} BY <1>6, <1>8, <1>11, <1>12 DEF Places
  <2> QED BY <1>1, <1>5, <1>6, <1>7, <1>11, <2>1, <2>2, PlacesKept
<1>14. pool'.offered \notin Decided' /\ \A w \in Worker : Doing(w)'
  <2>1. pool.offered \notin Decided /\ \A w \in Worker : Doing(w) BY SortedParts
  <2>2. CASE verdict = "skipped"
    <3>1. pool'.offered = pool.offered /\ pool'.held = pool.held BY <1>4, <2>2
    <3>2. pool.offered # f /\ \A w \in Worker : pool.held[w] # f BY <1>9, Basics, HandlingIs
    <3> QED BY <1>1, <1>11, <2>1, <2>2, <3>1, <3>2 DEF Doing
  <2>3. CASE verdict # "skipped" /\ Sequential
    <3>1. pool'.offered = pool.offered /\ \A w \in Worker : pool'.held[w] = f
      <4>1. Offer(f) BY <1>4, <2>3
      <4> QED BY <1>0, <2>3, <4>1 DEF Offer, PoolTyped
    <3>2. \A w \in Worker : pool.held[w] = NoItem BY <1>4, <2>3 DEF Offer, Producing, Pool1
    <3> QED BY <1>1, <1>9, <1>11, <2>1, <2>3, <3>1, <3>2 DEF Doing
  <2>4. CASE verdict # "skipped" /\ ~Sequential
    <3>1. pool'.offered = f /\ pool'.held = pool.held BY <1>0, <1>4, <2>4 DEF Offer, PoolTyped
    <3> QED BY <1>1, <1>9, <1>11, <2>1, <2>4, <3>1 DEF Doing
  <2> QED BY <2>2, <2>3, <2>4
<1>15. Sorted' <=> Places' /\ pool'.offered \notin Decided' /\ \A w \in Worker : Doing(w)'
  BY DEF Sorted, Places, Doing
<1> QED BY <1>1, <1>4, <1>5, <1>8, <1>9, <1>11, <1>12, <1>13, <1>14, <1>15

LEMMA HeldIs ==
    ASSUME SyncTypeOK, Pool1(pool), NEW w \in Worker, pool.held[w] # NoItem
    PROVE  /\ Sent(w) = pool.held[w] /\ pool.held[w] \in File /\ pool.held[w] \in Handling
           /\ Landing(pool.held[w]) \in File
           /\ pool.offered # pool.held[w] /\ \A v \in Worker \ {w} : pool.held[v] # pool.held[w]
<1>1. pool.held[w] \in File BY DEF SyncTypeOK, Item
<1> QED BY <1>1, Basics, HandlingIs DEF Sent, Pool1

\* What was held is decided: by its put, or measured by a dry run.
LEMMA DecideSorts ==
    ASSUME SyncTypeOK, Pool1(pool), Sorted, UNCHANGED job, NEW w \in Worker,
           pool.held[w] # NoItem, pool.held[w] \notin Decided,
           mirror' = [mirror EXCEPT !.decided = Append(@, pool.held[w])],
           \A v \in Worker \ {w} : sending'[v] = sending[v],
           \/ UNCHANGED pool /\ sending'[w].phase = "sent" /\ job = "sync"
           \/ Handled(w) /\ sending'[w].phase = "idle"
    PROVE  /\ Sorted' /\ Named' = Named /\ Decided' = Decided \cup {pool.held[w]}
           /\ Handling' = Handling \/ Handling' = Handling \ {pool.held[w]}
           /\ mirror'.dirs = mirror.dirs
<1> DEFINE f == pool.held[w]
<1>0. PoolTyped(pool) BY TypeParts
<1>1. /\ f \in File /\ f \in Handling /\ pool.offered # f
      /\ \A v \in Worker \ {w} : pool.held[v] # f
  BY HeldIs
<1>2. /\ mirror'.dirs = mirror.dirs /\ mirror'.names = mirror.names
      /\ mirror'.decided = Append(mirror.decided, f)
  BY DEF SyncTypeOK
<1> HIDE DEF f
<1>3. Places BY SortedParts
<1>4. ToSet(mirror'.decided) = Decided \cup {f} /\ IsInjective(mirror'.decided)
  <2>1. mirror.decided \in Seq(File) /\ IsInjective(mirror.decided) /\ f \notin ToSet(mirror.decided)
    BY <1>3, SetsTyped DEF Places, Decided, f
  <2> QED BY <1>1, <1>2, <2>1, InjAppend DEF Decided
<1>5. Named' = Named /\ Decided' = Decided \cup {f} BY <1>2, <1>4 DEF Named, Decided
<1>6. Handling' = Handling \/ Handling' = Handling \ {f} BY <1>0, HandlingSteps DEF f
<1>7. Places'
  <2>1. Met' \subseteq Met BY <1>1, <1>5, <1>6 DEF Met
  <2>2. Named' \cap (Handling' \cup Decided') = {} BY <1>1, <1>3, <1>5, <1>6 DEF Places
  <2>3. IsInjective(mirror'.names) BY <1>2, <1>3 DEF Places
  <2> QED BY <1>2, <1>3, <1>4, <2>1, <2>2, <2>3, PlacesKept
<1>8. pool'.offered = pool.offered BY <1>0 DEF Handled, PoolTyped
<1>9. \A v \in Worker \ {w} : pool'.held[v] = pool.held[v] BY <1>0 DEF Handled, PoolTyped
<1>10. \A v \in Worker \ {w} : Doing(v)'
  BY <1>1, <1>5, <1>9, SortedParts DEF Doing
<1>11. Doing(w)'
  <2>1. CASE UNCHANGED pool /\ sending'[w].phase = "sent" /\ job = "sync"
    BY <1>5, <2>1 DEF Doing, f
  <2>2. CASE Handled(w) /\ sending'[w].phase = "idle"
    <3>1. pool'.held[w] = NoItem BY <1>0, <2>2 DEF Handled, PoolTyped
    <3> QED BY <2>2, <3>1 DEF Doing
  <2> QED BY <2>1, <2>2
<1>12. pool'.offered \notin Decided' BY <1>1, <1>5, <1>8, SortedParts
<1>13. Sorted' <=> Places' /\ pool'.offered \notin Decided' /\ \A v \in Worker : Doing(v)'
  BY DEF Sorted, Places, Doing
<1> QED BY <1>2, <1>5, <1>6, <1>7, <1>10, <1>11, <1>12, <1>13 DEF f

\* The state of a worker's put before and after its steps.
LEMMA BeginIs ==
    ASSUME SyncTypeOK, Pool1(pool), Sorted, NEW w \in Worker, SendBegin(w)
    PROVE  /\ pool.held[w] # NoItem /\ pool.held[w] \notin Decided /\ source[pool.held[w]] # Gone
           /\ Sorted' /\ job # "preview"
           /\ sending[w].phase = "idle" /\ sending'[w].phase = "sending"
           /\ sending'[w].content = source[pool.held[w]]
           /\ \A v \in Worker \ {w} : sending'[v] = sending[v]
           /\ UNCHANGED <<pool, mirror>>
<1>1. /\ pool.held[w] # NoItem /\ source[pool.held[w]] # Gone /\ job # "preview"
      /\ sending[w].phase = "idle" /\ UNCHANGED <<pool, mirror, job>>
      /\ sending' = [sending EXCEPT ![w].phase = "sending", ![w].content = source[pool.held[w]]]
  BY DEF SendBegin, Reached, Sent, given
<1>2. /\ sending'[w].phase = "sending" /\ sending'[w].content = source[pool.held[w]]
      /\ \A v \in Worker \ {w} : sending'[v] = sending[v]
  BY <1>1 DEF SyncTypeOK
<1>3. Doing(w) BY SortedParts
<1>4. pool.held[w] \notin Decided BY <1>1, <1>3 DEF Doing
<1>5. Places' /\ Decided' = Decided
  <2>1. Named' = Named /\ Decided' = Decided /\ Handling' = Handling /\ Met' = Met
    BY <1>1 DEF Named, Decided, Handling, Met
  <2>2. Places /\ mirror'.dirs = mirror.dirs /\ mirror'.names = mirror.names
        /\ mirror'.decided = mirror.decided
    BY <1>1, SortedParts
  <2> QED BY <1>1, <2>1, <2>2, PlacesKept DEF Places
<1>6. \A v \in Worker : Doing(v)'
  <2>1. \A v \in Worker \ {w} : Doing(v)' BY <1>1, <1>2, <1>5, SortedParts DEF Doing
  <2>2. Doing(w)' BY <1>1, <1>2, <1>4, <1>5 DEF Doing
  <2> QED BY <2>1, <2>2
<1>7. Sorted' <=> Places' /\ pool'.offered \notin Decided' /\ \A v \in Worker : Doing(v)'
  BY DEF Sorted, Places, Doing
<1> QED BY <1>1, <1>2, <1>4, <1>5, <1>6, <1>7, SortedParts

LEMMA EndIs ==
    ASSUME SyncTypeOK, Pool1(pool), Sorted, NEW w \in Worker, SendEnd(w)
    PROVE  /\ pool.held[w] # NoItem /\ pool.held[w] \notin Decided /\ source[pool.held[w]] # Gone
           /\ sending[w].phase = "sending" /\ job # "preview"
           /\ Sorted' /\ Named' = Named /\ Decided' = Decided \cup {pool.held[w]}
           /\ Handling' = Handling \/ Handling' = Handling \ {pool.held[w]}
           /\ \A v \in Worker \ {w} : sending'[v] = sending[v] /\ pool'.held[v] = pool.held[v]
           /\ IF job = "sync" THEN UNCHANGED pool /\ sending'[w].phase = "sent"
                                   /\ sending'[w].content = sending[w].content
              ELSE Handled(w) /\ sending'[w].phase = "idle" /\ pool'.held[w] = NoItem
           /\ mirror' = [mirror EXCEPT !.decided = Append(@, pool.held[w])]
<1>0. PoolTyped(pool) BY TypeParts
<1>1. /\ pool.held[w] # NoItem /\ source[pool.held[w]] # Gone /\ sending[w].phase = "sending"
      /\ mirror' = [mirror EXCEPT !.decided = Append(@, pool.held[w])] /\ UNCHANGED job
      /\ IF job = "sync" THEN sending' = [sending EXCEPT ![w].phase = "sent"] /\ UNCHANGED pool
         ELSE sending' = [sending EXCEPT ![w] = Idle] /\ Handled(w)
  BY DEF SendEnd, Reached, Sent, given
<1>2. /\ \A v \in Worker \ {w} : sending'[v] = sending[v]
      /\ IF job = "sync" THEN UNCHANGED pool /\ sending'[w].phase = "sent"
                              /\ sending'[w].content = sending[w].content
         ELSE Handled(w) /\ sending'[w].phase = "idle"
  BY <1>1, IdleTyped DEF SyncTypeOK
<1>3. Doing(w) BY SortedParts
<1>4. pool.held[w] \notin Decided /\ job # "preview" BY <1>1, <1>3 DEF Doing
<1>5. /\ \A v \in Worker \ {w} : pool'.held[v] = pool.held[v]
      /\ Handled(w) => pool'.held[w] = NoItem
  BY ZenonT(30), <1>0, <1>2 DEF Handled, PoolTyped
<1> QED BY <1>1, <1>2, <1>4, <1>5, DecideSorts

LEMMA MeasureIs ==
    ASSUME SyncTypeOK, Pool1(pool), Sorted, NEW w \in Worker, Measure(w)
    PROVE  /\ pool.held[w] # NoItem /\ pool.held[w] \notin Decided /\ job = "preview"
           /\ Sorted' /\ Named' = Named /\ Decided' = Decided \cup {pool.held[w]}
           /\ Handling' = Handling \/ Handling' = Handling \ {pool.held[w]}
           /\ mirror' = [mirror EXCEPT !.decided = Append(@, pool.held[w])]
           /\ Handled(w) /\ UNCHANGED sending
<1>1. /\ pool.held[w] # NoItem /\ job = "preview" /\ UNCHANGED <<job, sending>>
      /\ mirror' = [mirror EXCEPT !.decided = Append(@, pool.held[w])] /\ Handled(w)
  BY DEF Measure, Sent, given
<1>2. sending[w].phase = "idle" /\ pool.held[w] \notin Decided
  <2>1. Doing(w) /\ sending[w].phase \in {"idle", "sending", "sent", "landed"}
    BY SortedParts DEF SyncTypeOK
  <2> QED BY <1>1, <2>1 DEF Doing
<1> QED BY <1>1, <1>2, DecideSorts

\* The steps that neither walk nor decide: some put may begin or come to its end.
Passing ==
    /\ PoolRest /\ UNCHANGED <<mirror, job>>
    /\ \A w \in Worker : \/ pool'.held[w] = pool.held[w] /\ sending'[w] = sending[w]
                         \/ pool'.held[w] = NoItem /\ sending'[w].phase = "idle"
                         \/ Take(w) /\ sending'[w] = sending[w]

LEMMA PassingSteps ==
    ASSUME SyncTypeOK,
           \/ DirectoryFails \/ MirrorWalked \/ UnwindMirror \/ JoinMirror \/ CancelMirror \/ EndRun
           \/ \E w \in Worker : TakeFile(w) \/ Record(w) \/ SendFails(w)
           \/ \E f \in File : Interfere(f) \/ \E v \in Version \cup {Gone} : Edit(f, v)
           \/ UNCHANGED <<syncVars, pool>>
    PROVE  Passing
<1>0. PoolTyped(pool) /\ SendingTyped(sending) BY TypeParts
<1>1. "server" \in Errors \ {"none"} BY DEF Errors
<1>2. CASE DirectoryFails
  BY <1>0, <1>1, <1>2
     DEF DirectoryFails, ProducerFails, PoolRest, Passing, syncVars, given, PoolTyped
<1>3. CASE MirrorWalked
  BY <1>0, <1>3 DEF MirrorWalked, Exhausted, PoolRest, Passing, syncVars, given, PoolTyped
<1>4. CASE UnwindMirror
  <2>1. \A w \in Worker : pool'.held[w] = pool.held[w] \/ pool'.held[w] = NoItem
    <3>1. ASSUME NEW v \in Worker, pool' = [pool EXCEPT !.held[v] = NoItem]
          PROVE  \A w \in Worker : pool'.held[w] = pool.held[w] \/ pool'.held[w] = NoItem
      BY <1>0, <3>1 DEF PoolTyped
    <3>2. ASSUME \/ pool' = [pool EXCEPT !.gen = "closed"]
                 \/ pool' = [pool EXCEPT !.gen = "suspended", !.offered = NoItem]
          PROVE  \A w \in Worker : pool'.held[w] = pool.held[w] \/ pool'.held[w] = NoItem
      BY <1>0, <3>2 DEF PoolTyped
    <3> QED BY <1>4, <3>1, <3>2 DEF UnwindMirror, Unwind
  <2>2. \A w \in Worker : sending'[w] = IF pool'.held[w] = NoItem THEN Idle ELSE sending[w]
    BY <1>4 DEF UnwindMirror
  <2> QED BY <1>4, <2>1, <2>2, IdleTyped DEF UnwindMirror, PoolRest, Passing, given
<1>5. CASE JoinMirror
  BY <1>0, <1>5 DEF JoinMirror, Join, PoolRest, Passing, syncVars, given, PoolTyped
<1>6. CASE CancelMirror
  BY <1>0, <1>6 DEF CancelMirror, CancelPool, PoolRest, Passing, syncVars, given, PoolTyped
<1>7. CASE EndRun BY <1>7 DEF EndRun, PoolRest, Passing, given
<1>8. ASSUME NEW w \in Worker, TakeFile(w) PROVE Passing
  <2>1. Take(w) /\ UNCHANGED <<sending, mirror, job>> BY <1>8 DEF TakeFile, syncVars, given
  <2>2. \A v \in Worker \ {w} : pool'.held[v] = pool.held[v] BY <1>0, <2>1 DEF Take, PoolTyped
  <2> QED BY <2>1, <2>2 DEF PoolRest, Passing
<1>9. ASSUME NEW w \in Worker, Record(w) \/ SendFails(w) PROVE Passing
  <2>1. /\ Handled(w) \/ HandlerFails(w, "server")
        /\ sending' = [sending EXCEPT ![w] = Idle] /\ UNCHANGED <<mirror, job>>
    BY <1>9 DEF Record, SendFails, given
  <2>2. pool'.held = [pool.held EXCEPT ![w] = NoItem]
    BY <1>0, <2>1 DEF Handled, HandlerFails, PoolTyped
  <2>3. pool'.held[w] = NoItem /\ \A v \in Worker \ {w} : pool'.held[v] = pool.held[v]
    BY <1>0, <2>2 DEF PoolTyped
  <2>4. sending'[w].phase = "idle" /\ \A v \in Worker \ {w} : sending'[v] = sending[v]
    BY <1>0, <2>1, IdleTyped DEF SendingTyped
  <2> QED BY <1>1, <2>1, <2>3, <2>4 DEF PoolRest, Passing
<1>10. ASSUME NEW f \in File, Interfere(f) PROVE Passing
  BY <1>10 DEF Interfere, PoolRest, Passing, given
<1>11. ASSUME NEW f \in File, NEW v \in Version \cup {Gone}, Edit(f, v) PROVE Passing
  BY <1>11 DEF Edit, PoolRest, Passing, given
<1>12. CASE UNCHANGED <<syncVars, pool>> BY <1>12 DEF PoolRest, Passing, syncVars, given
<1> QED BY <1>2, <1>3, <1>4, <1>5, <1>6, <1>7, <1>8, <1>9, <1>10, <1>11, <1>12

\* A walk that fails is one of them.
LEMMA WalkFails ==
    ASSUME SyncTypeOK, NEW e \in Errors \ {"none"}, ProducerFails(e), UNCHANGED <<mirror, sending, job>>
    PROVE  Passing
<1>1. PoolTyped(pool) BY TypeParts
<1> QED BY <1>1 DEF ProducerFails, PoolRest, Passing, PoolTyped

LEMMA PassingIs ==
    ASSUME SyncTypeOK, Pool1(pool), Sorted, Passing
    PROVE  Sorted' /\ Handling' \subseteq Handling /\ Named' = Named /\ Decided' = Decided
           /\ Met' \subseteq Met
<1>1. Sorted' BY PoolSorts DEF Passing
<1>2. PoolTyped(pool) BY TypeParts
<1>3. Handling' \subseteq Handling BY <1>2, HandlingSteps DEF Passing
<1>4. Named' = Named /\ Decided' = Decided BY DEF Passing, Named, Decided
<1> QED BY <1>1, <1>3, <1>4 DEF Met

LEMMA StatIs ==
    ASSUME SyncTypeOK, Pool1(pool), Sorted, NEW w \in Worker, StatLanded(w)
    PROVE  /\ pool.held[w] # NoItem /\ sending[w].phase = "sent" /\ sending'[w].phase = "landed"
           /\ job = "sync" /\ server[pool.held[w]] # NoFile
           /\ sending'[w].landed = RemoteStamp(server[pool.held[w]])
           /\ sending'[w].content = sending[w].content
           /\ \A v \in Worker \ {w} : sending'[v] = sending[v]
           /\ UNCHANGED <<pool, mirror>> /\ Sorted'
<1>1. /\ pool.held[w] # NoItem /\ sending[w].phase = "sent" /\ UNCHANGED <<pool, mirror, job>>
      /\ sending' = [sending EXCEPT ![w].phase = "landed",
                                    ![w].landed = RemoteStamp(server[Landing(pool.held[w])])]
      /\ server[Landing(pool.held[w])] # NoFile
  BY DEF StatLanded, Reached, Sent, given
<1>2. job = "sync" BY <1>1, SortedParts DEF Doing
<1>3. Landing(pool.held[w]) = pool.held[w] BY <1>2 DEF Landing
<1>4. /\ sending'[w].phase = "landed" /\ sending'[w].landed = RemoteStamp(server[pool.held[w]])
      /\ sending'[w].content = sending[w].content
      /\ \A v \in Worker \ {w} : sending'[v] = sending[v]
  BY <1>1, <1>3 DEF SyncTypeOK
<1>5. Named' = Named /\ Decided' = Decided /\ Handling' = Handling /\ Met' = Met
  BY <1>1 DEF Named, Decided, Handling, Met
<1>6. Places'
  <2>1. Places /\ mirror'.dirs = mirror.dirs /\ mirror'.names = mirror.names
        /\ mirror'.decided = mirror.decided
    BY <1>1, SortedParts
  <2> QED BY <1>1, <1>5, <2>1, PlacesKept DEF Places
<1>7. \A v \in Worker : Doing(v)'
  <2>1. \A v \in Worker \ {w} : Doing(v)' BY <1>1, <1>4, <1>5, SortedParts DEF Doing
  <2>2. Doing(w)' BY <1>1, <1>2, <1>4, <1>5, SortedParts DEF Doing
  <2> QED BY <2>1, <2>2
<1>8. Sorted' <=> Places' /\ pool'.offered \notin Decided' /\ \A v \in Worker : Doing(v)'
  BY DEF Sorted, Places, Doing
<1> QED BY <1>1, <1>2, <1>3, <1>4, <1>5, <1>6, <1>7, <1>8, SortedParts

\* A run that begins has everything before it; one that is killed has nothing in hand.
LEMMA AfreshSorts ==
    ASSUME mirror = NoMirror, pool = NewPool, \A w \in Worker : sending[w].phase = "idle"
    PROVE  Sorted /\ Pool1(pool) /\ Met = {} /\ Named = {} /\ Decided = {} /\ Handling = {}
<1>1. Named = {} /\ Decided = {} /\ Handling = {} /\ Met = {}
  BY NoMirrorTyped, NewPoolTyped, EmptySet DEF Named, Decided, Handling, Met
<1>2. Places BY <1>1, NoMirrorTyped, EmptySet, Basics DEF Places
<1>3. \A w \in Worker : Doing(w) BY NewPoolTyped DEF Doing
<1>4. Pool1(pool) BY NewPoolTyped DEF Pool1
<1> QED BY <1>1, <1>2, <1>3, <1>4, SortedParts

LEMMA KillSorts ==
    ASSUME SyncTypeOK, Pool1(pool), Sorted, Kill
    PROVE  Sorted' /\ Pool1(pool') /\ Handling' = {} /\ Named' = Named /\ Decided' = Decided
<1>1. UNCHANGED <<mirror, job>> /\ \A w \in Worker : sending'[w].phase = "idle"
  BY IdleTyped DEF Kill, given
<1>2. /\ pool'.gen = "closed" /\ pool'.offered = NoItem /\ \A w \in Worker : pool'.held[w] = NoItem
  BY KilledTyped
<1>3. Named' = Named /\ Decided' = Decided /\ Handling' = {}
  BY <1>1, <1>2 DEF Named, Decided, Handling
<1>4. Places'
  <2>1. Places /\ mirror'.dirs = mirror.dirs /\ mirror'.names = mirror.names
        /\ mirror'.decided = mirror.decided
    BY <1>1, SortedParts
  <2>2. Met' \subseteq Met BY <1>3 DEF Met
  <2> QED BY <1>1, <1>3, <2>1, <2>2, PlacesKept DEF Places
<1>5. pool'.offered \notin Decided' /\ \A w \in Worker : Doing(w)'
  BY <1>1, <1>2, <1>3, SetsTyped DEF Doing, Met
<1>6. Sorted' <=> Places' /\ pool'.offered \notin Decided' /\ \A w \in Worker : Doing(w)'
  BY DEF Sorted, Places, Doing
<1>7. Pool1(pool') BY <1>2 DEF Pool1
<1> QED BY <1>3, <1>4, <1>5, <1>6, <1>7

\* What a step of the pool leaves alone.
LEMMA PoolLasts ==
    ASSUME PoolTyped(pool), Pool1(pool), PoolRest \/ \E f \in File : Offer(f)
    PROVE  /\ pool.over => pool'.over /\ pool'.error = pool.error
           /\ pool'.error = "none" => pool.error = "none"
           /\ PoolRest /\ pool'.error = "none" =>
                 /\ Handling' = Handling \/ \E w \in Worker : Handled(w)
                 /\ pool'.gen = "closed" => pool.gen = "closed" \/ Exhausted
<1> DEFINE Lasts == /\ pool.over => pool'.over /\ pool'.error = pool.error
                    /\ pool'.error = "none" => pool.error = "none"
           Calmly == pool'.error = "none" =>
                        /\ Handling' = Handling \/ \E w \in Worker : Handled(w)
                        /\ pool'.gen = "closed" => pool.gen = "closed" \/ Exhausted
<1> USE DEF PoolTyped
<1>1. ASSUME NEW w \in Worker, Take(w) PROVE Lasts /\ Calmly
  <2>1. Handling' = Handling BY <1>1, HandlingSteps
  <2> QED BY <1>1, <2>1 DEF Take
<1>2. ASSUME NEW w \in Worker, Handled(w) PROVE Lasts /\ Calmly
  <2>1. pool'.over = pool.over /\ pool'.error = pool.error
        /\ (pool'.gen = pool.gen \/ pool'.gen = "running")
    BY <1>2 DEF Handled
  <2> QED BY <1>2, <2>1
<1>3. ASSUME NEW w \in Worker, NEW e \in Errors \ {"none"}, HandlerFails(w, e) PROVE Lasts /\ Calmly
  <2>1. pool'.over = pool.over /\ pool.held[w] # NoItem /\ pool'.error # "none"
    BY <1>3 DEF HandlerFails, Raised
  <2> QED BY <2>1 DEF Pool1
<1>4. ASSUME NEW e \in Errors \ {"none"}, ProducerFails(e) PROVE Lasts /\ Calmly
  <2>1. ~pool.over /\ pool'.error # "none" BY <1>4 DEF ProducerFails, Producing
  <2> QED BY <2>1
<1>5. ASSUME Exhausted \/ UNCHANGED pool PROVE Lasts /\ Calmly
  <2>1. Handling' = Handling BY <1>5, HandlingSteps
  <2>2. pool'.over = pool.over /\ pool'.error = pool.error BY <1>5 DEF Exhausted
  <2> QED BY <1>5, <2>1, <2>2
<1>6. ASSUME CancelPool PROVE Lasts /\ Calmly
  <2>1. ~pool.over /\ pool'.error # "none" BY <1>6 DEF CancelPool
  <2> QED BY <2>1
<1>7. ASSUME Join PROVE Lasts /\ Calmly
  <2>1. Handling' = Handling BY <1>7, HandlingSteps
  <2>2. /\ ~pool.over /\ pool'.error = pool.error
        /\ pool.gen = "closed" \/ pool.error # "none"
    BY <1>7 DEF Join
  <2> QED BY <2>1, <2>2
<1>8. ASSUME Unwind PROVE Lasts /\ Calmly
  <2>1. pool.error # "none" BY <1>8 DEF Unwind
  <2>2. pool'.over = pool.over /\ pool'.error = pool.error
    <3>1. ASSUME NEW v \in Worker, pool' = [pool EXCEPT !.held[v] = NoItem]
          PROVE  pool'.over = pool.over /\ pool'.error = pool.error
      BY <3>1
    <3>2. ASSUME \/ pool' = [pool EXCEPT !.gen = "closed"]
                 \/ pool' = [pool EXCEPT !.gen = "suspended", !.offered = NoItem]
          PROVE  pool'.over = pool.over /\ pool'.error = pool.error
      BY <3>2
    <3> QED BY <1>8, <3>1, <3>2 DEF Unwind
  <2> QED BY <2>1, <2>2
<1>9. ASSUME NEW f \in File, Offer(f) PROVE Lasts
  <2>1. ~pool.over /\ pool.error = "none" BY <1>9 DEF Offer, Producing
  <2> QED BY <2>1
<1> QED BY <1>1, <1>2, <1>3, <1>4, <1>5, <1>6, <1>7, <1>8, <1>9 DEF PoolRest

\* A worker that has a file has it during a run.
LEMMA Running ==
    ASSUME Pooled
    PROVE  /\ \A w \in Worker : pool.held[w] # NoItem => ended = "none" /\ ~pool.over
           /\ pool.gen # "closed" => ended = "none" /\ ~pool.over
BY DEF Pooled

LEMMA EndedSteps ==
    ASSUME SyncTypeOK, [SyncNext]_<<syncVars, pool>>
    PROVE  UNCHANGED ended \/ EndRun \/ NextRun \/ Kill
<1>1. EnterDirectory \/ DirectoryFails \/ StartMany \/ MirrorWalked \/ UnwindMirror \/ JoinMirror
        => UNCHANGED ended
  BY DEF EnterDirectory, DirectoryFails, StartMany, MirrorWalked, UnwindMirror, JoinMirror, syncVars
<1>2. \A f \in File : Consider(f) => UNCHANGED ended BY DEF Consider
<1>3. \A w \in Worker : TakeFile(w) \/ SendBegin(w) \/ SendEnd(w) \/ Measure(w)
                          \/ StatLanded(w) \/ Record(w) \/ SendFails(w) => UNCHANGED ended
  BY DEF TakeFile, SendBegin, SendEnd, Measure, StatLanded, Record, SendFails, syncVars
<1>4. SyncStep => UNCHANGED ended \/ EndRun BY <1>1, <1>2, <1>3 DEF SyncStep
<1>5. CancelMirror \/ (\E f \in File : Interfere(f) \/ \E v \in Version \cup {Gone} : Edit(f, v))
        => UNCHANGED ended
  BY DEF CancelMirror, Interfere, Edit, syncVars
<1> QED BY <1>4, <1>5 DEF SyncNext, syncVars

\* The steps that leave alone what the properties speak of, unless the run fails or ends.
Idling ==
    /\ Passing /\ UNCHANGED <<given, source, server, memory, mirror, runs, history>>
    /\ UNCHANGED <<ended, dated, manifest>> \/ EndRun
    /\ pool'.error = "none" =>
          /\ pool.error = "none" /\ Handling' = Handling
          /\ pool'.gen = "closed" => pool.gen = "closed" \/ (mirror.dirs = <<>> /\ mirror.names = <<>>)

LEMMA IdlingSteps ==
    ASSUME SyncTypeOK, Pool1(pool),
           \/ DirectoryFails \/ MirrorWalked \/ UnwindMirror \/ JoinMirror \/ CancelMirror \/ EndRun
           \/ \E w \in Worker : TakeFile(w) \/ SendFails(w)
           \/ UNCHANGED <<syncVars, pool>>
    PROVE  Idling
<1> DEFINE Same == UNCHANGED <<given, source, server, memory, mirror, runs, history>>
           Kept1 == UNCHANGED <<ended, dated, manifest>>
           Ends == pool'.error = "none" =>
                      /\ pool.error = "none" /\ Handling' = Handling
                      /\ pool'.gen = "closed" =>
                            pool.gen = "closed" \/ (mirror.dirs = <<>> /\ mirror.names = <<>>)
<1>0. PoolTyped(pool) /\ Passing /\ PoolRest BY TypeParts, PassingSteps DEF Passing
<1>1. CASE DirectoryFails
  <2>1. pool'.error # "none" BY <1>0, <1>1 DEF DirectoryFails, ProducerFails, PoolTyped
  <2> QED BY <1>0, <1>1, <2>1 DEF DirectoryFails, Idling, syncVars, counts
<1>2. CASE MirrorWalked
  <2>1. Handling' = Handling BY <1>0, <1>2, HandlingSteps DEF MirrorWalked
  <2>2. pool.error = "none" /\ mirror.dirs = <<>> /\ mirror.names = <<>>
    BY <1>2 DEF MirrorWalked, Producing
  <2> QED BY <1>0, <1>2, <2>1, <2>2 DEF MirrorWalked, Idling, syncVars, counts
<1>3. CASE UnwindMirror
  <2>1. pool.error # "none" BY <1>3 DEF UnwindMirror, Unwind
  <2>2. pool'.error # "none" BY <1>0, <2>1, PoolLasts
  <2> QED BY <1>0, <1>3, <2>2 DEF UnwindMirror, Idling, counts
<1>4. CASE JoinMirror
  <2>1. Handling' = Handling BY <1>0, <1>4, HandlingSteps DEF JoinMirror
  <2>2. pool'.error = pool.error /\ (pool.gen = "closed" \/ pool.error # "none")
    BY <1>0, <1>4 DEF JoinMirror, Join, PoolTyped
  <2> QED BY <1>0, <1>4, <2>1, <2>2 DEF JoinMirror, Idling, syncVars, counts
<1>5. CASE CancelMirror
  <2>1. pool'.error # "none" BY <1>0, <1>5 DEF CancelMirror, CancelPool, PoolTyped
  <2> QED BY <1>0, <1>5, <2>1 DEF CancelMirror, Idling, syncVars, counts
<1>6. CASE EndRun
  <2>1. Handling' = Handling /\ UNCHANGED pool BY <1>6 DEF EndRun, Handling
  <2> QED BY <1>0, <1>6, <2>1 DEF EndRun, Idling, counts
<1>7. ASSUME NEW w \in Worker, TakeFile(w) PROVE Idling
  <2>1. Handling' = Handling BY <1>0, <1>7, HandlingSteps DEF TakeFile
  <2>2. pool'.error = pool.error /\ pool'.gen = "running"
    BY <1>0, <1>7 DEF TakeFile, Take, PoolTyped
  <2> QED BY <1>0, <1>7, <2>1, <2>2 DEF TakeFile, Idling, syncVars, counts
<1>8. ASSUME NEW w \in Worker, SendFails(w) PROVE Idling
  <2>1. pool'.error # "none" BY <1>0, <1>8 DEF SendFails, HandlerFails, Raised, PoolTyped
  <2> QED BY <1>0, <1>8, <2>1 DEF SendFails, Idling, counts
<1>9. CASE UNCHANGED <<syncVars, pool>>
  <2>1. Handling' = Handling BY <1>9 DEF Handling
  <2> QED BY <1>0, <1>9, <2>1 DEF Idling, syncVars, counts
<1> QED BY <1>1, <1>2, <1>3, <1>4, <1>5, <1>6, <1>7, <1>8, <1>9

LEMMA WalkIdles ==
    ASSUME SyncTypeOK, NEW e \in Errors \ {"none"}, ProducerFails(e),
           UNCHANGED <<given, source, server, memory, mirror, runs, history, ended, dated, manifest,
                       sending>>
    PROVE  Idling
<1>1. Passing BY WalkFails DEF given
<1>2. pool'.error # "none" BY TypeParts DEF ProducerFails, PoolTyped
<1> QED BY <1>1, <1>2 DEF Idling

\* Which steps there are.
StepOf(w) == SendBegin(w) \/ SendEnd(w) \/ Measure(w) \/ StatLanded(w) \/ Record(w)
Walking == \/ EnterDirectory
           \/ pool'.error = "none" /\ (StartMany \/ \E f \in File : Consider(f))
LEMMA StepKinds ==
    ASSUME SyncTypeOK, Pool1(pool), Sorted, [SyncNext]_<<syncVars, pool>>
    PROVE  \/ Idling \/ Walking \/ NextRun \/ Kill
           \/ \E w \in Worker : StepOf(w)
           \/ \E f \in File : Interfere(f) \/ \E v \in Version \cup {Gone} : Edit(f, v)
<1>0. "value" \in Errors \ {"none"} /\ "local" \in Errors \ {"none"} BY DEF Errors
<1>1. StartMany => Idling \/ Walking
  <2> SUFFICES ASSUME StartMany PROVE Idling \/ Walking OBVIOUS
  <2>1. ASSUME ProducerFails("value"), UNCHANGED mirror PROVE Idling
    BY <1>0, <2>1, WalkIdles DEF StartMany, counts
  <2>2. ASSUME UNCHANGED pool PROVE Walking BY <2>2 DEF StartMany, Producing, Walking
  <2> QED BY <2>1, <2>2, StartSorts
<1>2. ASSUME NEW f \in File, Consider(f) PROVE Idling \/ Walking
  <2>1. ASSUME ProducerFails("local"), UNCHANGED mirror PROVE Idling
    BY <1>0, <1>2, <2>1, WalkIdles DEF Consider, counts
  <2>2. ASSUME UNCHANGED pool PROVE Walking BY <1>2, <2>2 DEF Consider, Producing, Walking
  <2>3. ASSUME Offer(f) PROVE Walking
    <3>1. pool'.error = "none" BY <2>3, TypeParts DEF Offer, Producing, PoolTyped
    <3> QED BY <1>2, <3>1 DEF Walking
  <2> QED BY <1>2, <2>1, <2>2, <2>3, ConsiderSorts
<1>3. EnterDirectory => Walking BY DEF Walking
<1>4. \A w \in Worker : SendBegin(w) \/ SendEnd(w) \/ Measure(w) \/ StatLanded(w) \/ Record(w) => StepOf(w)
  BY DEF StepOf
<1>5. \/ DirectoryFails \/ MirrorWalked \/ UnwindMirror \/ JoinMirror \/ CancelMirror \/ EndRun
      \/ \E w \in Worker : TakeFile(w) \/ SendFails(w)
      \/ UNCHANGED <<syncVars, pool>>
      => Idling
  BY IdlingSteps
<1> QED BY <1>1, <1>2, <1>3, <1>4, <1>5 DEF SyncNext, SyncStep

\* A list that is sent, and a name that is skipped or offered.
LEMMA StartIs ==
    ASSUME SyncTypeOK, Sorted, StartMany, pool'.error = "none"
    PROVE  /\ Sorted' /\ UNCHANGED <<pool, sending>>
           /\ Named = {} /\ Handling = {} /\ Decided = {} /\ Handling' = {} /\ Decided' = {}
           /\ job = "many" /\ Named' \subseteq File
<1>1. ~ProducerFails("value") BY TypeParts DEF ProducerFails, PoolTyped
<1> QED BY <1>1, StartSorts

LEMMA ConsiderIs ==
    ASSUME SyncTypeOK, Pool1(pool), Sorted, NEW f \in File, Consider(f), pool'.error = "none"
    PROVE  /\ Sorted' /\ UNCHANGED sending
           /\ f \in Named /\ f \notin Handling \cup Decided /\ source[f] # Gone
           /\ Named' = Named \ {f} /\ mirror'.dirs = mirror.dirs
           /\ mirror'.present = mirror.present
           /\ \/ /\ job = "sync" /\ Verdict(source[f], mirror.present[f], memory[f]) = "skipped"
                 /\ mirror'.verdict = [mirror.verdict EXCEPT ![f] = "skipped"]
                 /\ Decided' = Decided \cup {f} /\ Handling' = Handling /\ UNCHANGED pool
              \/ /\ \E v \in Verdicts \ {"skipped"} :
                       /\ mirror'.verdict = [mirror.verdict EXCEPT ![f] = v]
                       /\ job = "sync" => v = Verdict(source[f], mirror.present[f], memory[f])
                 /\ Decided' = Decided /\ Handling' = Handling \cup {f} /\ Offer(f)
<1>1. ~ProducerFails("local") BY TypeParts DEF ProducerFails, PoolTyped
<1> QED BY <1>1, ConsiderSorts

LEMMA RecordIs ==
    ASSUME SyncTypeOK, Pool1(pool), Sorted, NEW w \in Worker, Record(w)
    PROVE  /\ pool.held[w] \in Decided /\ source[pool.held[w]] \in Version /\ job = "sync"
           /\ sending[w].phase = "landed" /\ pool.held[w] # NoItem
           /\ Handling' = Handling \ {pool.held[w]} /\ Passing /\ Handled(w)
<1>1. PoolTyped(pool) /\ Passing BY TypeParts, PassingSteps
<1>2. /\ pool.held[w] # NoItem /\ sending[w].phase = "landed" /\ Handled(w)
      /\ source[pool.held[w]] # Gone
  BY DEF Record, Reached, Sent
<1>3. Handling' = Handling \ {pool.held[w]} BY <1>1, <1>2, HandlingSteps
<1>4. pool.held[w] \in Decided /\ job = "sync" BY <1>2, SortedParts DEF Doing
<1>5. source[pool.held[w]] \in Version BY <1>2, HeldIs DEF SyncTypeOK
<1> QED BY <1>1, <1>2, <1>3, <1>4, <1>5

LEMMA NextRunIs ==
    ASSUME NextRun
    PROVE  /\ Sorted' /\ Pool1(pool') /\ Met' = {} /\ Named' = {} /\ Decided' = {} /\ Handling' = {}
           /\ \A w \in Worker : sending'[w].phase = "idle" /\ pool'.held[w] = NoItem
<1>1. /\ mirror' = NoMirror /\ pool' = NewPool
      /\ \A w \in Worker : sending'[w] = Idle
  BY DEF NextRun
<1>2. \A w \in Worker : sending'[w].phase = "idle" BY <1>1, IdleTyped
<1>3. Named' = {} /\ Decided' = {} /\ Handling' = {} /\ Met' = {}
  BY <1>1, NoMirrorTyped, NewPoolTyped, EmptySet DEF Named, Decided, Handling, Met
<1>4. Places' BY <1>1, <1>3, NoMirrorTyped, EmptySet, Basics DEF Places
<1>5. \A w \in Worker : Doing(w)' BY <1>1, <1>2, NewPoolTyped DEF Doing
<1>6. Pool1(pool') BY <1>1, NewPoolTyped DEF Pool1
<1>7. pool'.offered \notin Decided' BY <1>3
<1>8. Sorted' <=> Places' /\ pool'.offered \notin Decided' /\ \A w \in Worker : Doing(w)'
  BY DEF Sorted, Places, Doing
<1> QED BY <1>1, <1>2, <1>3, <1>4, <1>5, <1>6, <1>7, <1>8, NewPoolTyped

\* Every step keeps the files in their places and the pool in order.
LEMMA OrderKeeps ==
    ASSUME SyncTypeOK, Pooled, Sorted, [SyncNext]_<<syncVars, pool>>
    PROVE  Pooled' /\ Sorted'
<1>0. PoolTyped(pool) /\ Pool1(pool) BY TypeParts, PooledParts
<1>1. Sorted' /\ Pool1(pool')
  <2>1. CASE Idling
    <3>1. PoolRest BY <2>1 DEF Idling, Passing
    <3> QED BY <1>0, <2>1, <3>1, PassingIs, PoolKeeps DEF Idling
  <2>2. CASE EnterDirectory
    <3>1. PoolRest BY <2>2 DEF EnterDirectory, PoolRest
    <3> QED BY <1>0, <2>2, <3>1, EnterSorts, PoolKeeps
  <2>3. CASE StartMany /\ pool'.error = "none"
    <3>1. UNCHANGED pool /\ Sorted' BY <2>3, StartIs
    <3> QED BY <1>0, <3>1, PoolKeeps DEF PoolRest
  <2>4. ASSUME NEW f \in File, Consider(f), pool'.error = "none" PROVE Sorted' /\ Pool1(pool')
    <3>1. Sorted' /\ f \in File \ Handling /\ (UNCHANGED pool \/ Offer(f)) BY <1>0, <2>4, ConsiderIs
    <3> QED BY <1>0, <3>1, PoolKeeps DEF PoolRest
  <2>5. ASSUME NEW w \in Worker, StepOf(w) PROVE Sorted' /\ Pool1(pool')
    <3>1. CASE SendBegin(w)
      <4>1. Sorted' /\ PoolRest BY <1>0, <3>1, BeginIs DEF PoolRest
      <4> QED BY <1>0, <4>1, PoolKeeps
    <3>2. CASE SendEnd(w)
      <4>1. Sorted' /\ PoolRest BY <1>0, <3>2, EndIs DEF PoolRest
      <4> QED BY <1>0, <4>1, PoolKeeps
    <3>3. CASE Measure(w)
      <4>1. Sorted' /\ PoolRest BY <1>0, <3>3, MeasureIs DEF PoolRest
      <4> QED BY <1>0, <4>1, PoolKeeps
    <3>4. CASE StatLanded(w)
      <4>1. Sorted' /\ PoolRest BY <1>0, <3>4, StatIs DEF PoolRest
      <4> QED BY <1>0, <4>1, PoolKeeps
    <3>5. CASE Record(w)
      <4>1. Sorted' /\ PoolRest BY <1>0, <3>5, RecordIs, PassingIs DEF Passing
      <4> QED BY <1>0, <4>1, PoolKeeps
    <3> QED BY <2>5, <3>1, <3>2, <3>3, <3>4, <3>5 DEF StepOf
  <2>6. CASE NextRun BY <2>6, NextRunIs
  <2>7. CASE Kill BY <1>0, <2>7, KillSorts
  <2>8. ASSUME NEW f \in File, Interfere(f) \/ \E v \in Version \cup {Gone} : Edit(f, v)
        PROVE  Sorted' /\ Pool1(pool')
    <3>1. Passing BY <2>8, PassingSteps
    <3>2. PoolRest BY <3>1 DEF Passing
    <3> QED BY <1>0, <3>1, <3>2, PassingIs, PoolKeeps
  <2> QED BY <1>0, <2>1, <2>2, <2>3, <2>4, <2>5, <2>6, <2>7, <2>8, StepKinds DEF Walking
<1>2. ended' # "none" => pool'.over
  <2>1. CASE NextRun BY <2>1 DEF NextRun
  <2>2. CASE Kill BY <2>2, KilledTyped
  <2>3. CASE EndRun BY <2>3 DEF EndRun
  <2>4. CASE UNCHANGED ended /\ (PoolRest \/ \E f \in File : Offer(f))
    <3>1. pool.over => pool'.over BY <1>0, <2>4, PoolLasts
    <3> QED BY <2>4, <3>1, PooledParts
  <2> QED BY <2>1, <2>2, <2>3, <2>4, EndedSteps, StepsOfPool
<1>3. Pooled' <=> Pool1(pool') /\ (ended' # "none" => pool'.over) BY DEF Pooled, Pool1
<1> QED BY <1>1, <1>2, <1>3

-------------------------------------------------------------------------------
(* Nothing is overlooked, and a listing is true of what is still to be compared *)

LEMMA CoveredKeeps ==
    ASSUME SyncTypeOK, Pooled, Sorted, Covered, [SyncNext]_<<syncVars, pool>>
    PROVE  Covered'
<1> DEFINE There == job # "many" => \A f \in Met \ changed : source[f] # Gone
           All == Sound /\ job # "many" =>
                     \A f \in File \ changed : source[f] # Gone => Ahead(f) \/ f \in Met
           Done == Sound /\ pool.gen = "closed" => mirror.dirs = <<>> /\ mirror.names = <<>>
           Fine == ended = "returned" => pool.error = "none"
<1>0. PoolTyped(pool) /\ Pool1(pool) BY TypeParts, PooledParts
<1>1. There /\ All /\ Done /\ Fine BY DEF Covered
<1>2. UNCHANGED job BY GivenStays DEF given
<1>3. Covered' <=> There' /\ All' /\ Done' /\ Fine' BY DEF Covered, Sound
<1>4. Fine'
  <2>1. CASE NextRun BY <2>1 DEF NextRun
  <2>2. CASE Kill BY <2>2 DEF Kill
  <2>3. CASE EndRun BY <2>3, <1>0 DEF EndRun, PoolTyped, Errors
  <2>4. CASE UNCHANGED ended /\ (PoolRest \/ \E f \in File : Offer(f))
    <3>1. pool.over => pool'.error = pool.error BY <1>0, <2>4, PoolLasts
    <3> QED BY <1>1, <2>4, <3>1 DEF Pooled
  <2> QED BY <2>1, <2>2, <2>3, <2>4, EndedSteps, StepsOfPool
<1>5. CASE Idling
  <2>1. /\ Named' = Named /\ Decided' = Decided /\ Met' \subseteq Met
        /\ UNCHANGED <<source, mirror, changed>>
    BY <1>0, <1>5, PassingIs DEF Idling, history
  <2>2. Sound' => Sound /\ Handling' = Handling
    <3>1. CASE UNCHANGED ended BY <1>5, <3>1 DEF Idling, Sound
    <3>2. CASE EndRun
      <4>1. ended # "killed" BY <3>2 DEF EndRun
      <4> QED BY <1>5, <4>1 DEF Idling, Sound
    <3> QED BY <1>5, <3>1, <3>2 DEF Idling
  <2>3. Sound' => Met' = Met BY <2>1, <2>2 DEF Met
  <2>4. \A f : Ahead(f)' <=> Ahead(f) BY <1>2, <2>1 DEF Ahead
  <2>5. Done' BY <1>1, <1>5, <2>1, <2>2 DEF Idling, Sound
  <2>6. There' BY <1>1, <1>2, <2>1
  <2>7. All' BY <1>1, <1>2, <2>1, <2>2, <2>3, <2>4
  <2> QED BY <1>3, <1>4, <2>5, <2>6, <2>7
<1>6. CASE EnterDirectory
  <2>1. UNCHANGED <<source, changed, ended, pool>> BY <1>6 DEF EnterDirectory, history
  <2>2. pool.gen = "running" BY <1>6 DEF EnterDirectory, Mirroring, Producing
  <2>3. /\ Handling' = Handling /\ Decided' = Decided /\ Named = {}
        /\ Named' = {f \in File : Home[f] = Head(mirror.dirs) /\ source[f] # Gone}
        /\ \A f \in File : Ahead(f) => Ahead(f)' \/ Home[f] = Head(mirror.dirs)
    BY <1>6, EnterSorts
  <2>4. There' BY <1>1, <1>2, <2>1, <2>3 DEF Met
  <2>5. All' BY <1>1, <1>2, <2>1, <2>3 DEF Met, Sound
  <2> QED BY <1>3, <1>4, <2>1, <2>2, <2>4, <2>5 DEF Sound
<1>7. CASE StartMany /\ pool'.error = "none"
  <2>1. UNCHANGED pool /\ job = "many" /\ pool.gen = "running"
    BY <1>7, StartIs DEF StartMany, Producing
  <2> QED BY <1>2, <1>3, <1>4, <2>1
<1>8. ASSUME NEW f \in File, Consider(f), pool'.error = "none" PROVE Covered'
  <2>1. UNCHANGED <<source, changed, ended>> BY <1>8 DEF Consider, history
  <2>2. /\ f \in Named /\ Named' = Named \ {f} /\ mirror'.dirs = mirror.dirs
        /\ \/ Decided' = Decided \cup {f} /\ Handling' = Handling /\ UNCHANGED pool
           \/ Decided' = Decided /\ Handling' = Handling \cup {f} /\ Offer(f)
    BY <1>0, <1>8, ConsiderIs
  <2>3. Met' = Met BY <2>2 DEF Met
  <2>4. pool'.gen # "closed" BY <1>0, <1>8, <2>2 DEF Consider, Producing, Offer, PoolTyped
  <2>5. \A g : Ahead(g)' <=> Ahead(g) BY <1>2, <2>2 DEF Ahead
  <2>6. Sound' => Sound BY <1>8, <2>1 DEF Sound, Consider, Producing
  <2>7. All' BY <1>1, <1>2, <2>1, <2>3, <2>5, <2>6
  <2>8. There' BY <1>1, <1>2, <2>1, <2>3
  <2> QED BY <1>3, <1>4, <2>4, <2>7, <2>8
<1>9. ASSUME NEW w \in Worker, StepOf(w) PROVE Covered'
  <2>1. /\ UNCHANGED <<source, changed, ended>> /\ mirror'.dirs = mirror.dirs
        /\ mirror'.names = mirror.names
    BY <1>9 DEF StepOf, SendBegin, SendEnd, Measure, StatLanded, Record, history, SyncTypeOK
  <2>2. Met' = Met
    <3>1. CASE SendBegin(w) \/ StatLanded(w)
      <4>1. UNCHANGED <<pool, mirror>> BY <3>1 DEF SendBegin, StatLanded
      <4> QED BY <4>1 DEF Met, Named, Handling, Decided
    <3>2. CASE SendEnd(w)
      <4>1. pool.held[w] \in Handling BY <1>0, <3>2, EndIs, HeldIs
      <4> QED BY <1>0, <3>2, <4>1, EndIs DEF Met
    <3>3. CASE Measure(w)
      <4>1. pool.held[w] \in Handling BY <1>0, <3>3, MeasureIs, HeldIs
      <4> QED BY <1>0, <3>3, <4>1, MeasureIs DEF Met
    <3>4. CASE Record(w)
      <4>1. Handling' = Handling \ {pool.held[w]} /\ pool.held[w] \in Decided /\ Passing
        BY <1>0, <3>4, RecordIs
      <4>2. Named' = Named /\ Decided' = Decided BY <1>0, <4>1, PassingIs
      <4> QED BY <4>1, <4>2 DEF Met
    <3> QED BY <1>9, <3>1, <3>2, <3>3, <3>4 DEF StepOf
  <2>3. pool'.error = pool.error /\ (pool'.gen = pool.gen \/ pool'.gen = "running")
    BY <1>0, <1>9 DEF StepOf, SendBegin, SendEnd, Measure, StatLanded, Record, Handled, PoolTyped
  <2>4. \A g : Ahead(g)' <=> Ahead(g) BY <1>2, <2>1 DEF Ahead
  <2>5. Sound' => Sound BY <2>1, <2>3 DEF Sound
  <2>6. All' BY <1>1, <1>2, <2>1, <2>2, <2>4, <2>5
  <2>7. There' BY <1>1, <1>2, <2>1, <2>2
  <2>8. Done' BY <1>1, <2>1, <2>3, <2>5
  <2> QED BY <1>3, <1>4, <2>6, <2>7, <2>8
<1>10. CASE NextRun
  <2>1. mirror' = NoMirror /\ pool' = NewPool BY <1>10 DEF NextRun
  <2>2. Met' = {} /\ pool'.gen = "running" BY <1>10, <2>1, NextRunIs, NewPoolTyped
  <2>3. \A f \in File : Ahead(f)' BY <2>1, Basics, NoMirrorTyped DEF Ahead, Place
  <2> QED BY <1>3, <1>4, <2>2, <2>3
<1>11. CASE Kill
  <2>1. ~Sound' BY <1>11 DEF Kill, Sound
  <2>2. Met' \subseteq Met /\ UNCHANGED <<source, changed>>
    <3>1. Handling' = {} /\ Named' = Named /\ Decided' = Decided BY <1>0, <1>11, KillSorts
    <3>2. UNCHANGED <<source, changed>> BY <1>11 DEF Kill, history
    <3> QED BY <3>1, <3>2 DEF Met
  <2> QED BY <1>1, <1>2, <1>3, <1>4, <2>1, <2>2
<1>12. ASSUME NEW f \in File, Interfere(f) \/ \E v \in Version \cup {Gone} : Edit(f, v)
       PROVE  Covered'
  <2>1. /\ UNCHANGED <<mirror, pool, ended>> /\ changed' = changed \cup {f}
        /\ \A g \in File \ {f} : source'[g] = source[g]
    <3>1. CASE Interfere(f) BY <3>1 DEF Interfere, Disturbed
    <3>2. ASSUME NEW v \in Version \cup {Gone}, Edit(f, v)
          PROVE  /\ UNCHANGED <<mirror, pool, ended>> /\ changed' = changed \cup {f}
                 /\ \A g \in File \ {f} : source'[g] = source[g]
      BY <3>2 DEF Edit, Disturbed, SyncTypeOK
    <3> QED BY <1>12, <3>1, <3>2
  <2>2. Met' = Met /\ (Sound' <=> Sound) /\ Met \subseteq File
    BY <2>1, SetsTyped DEF Met, Named, Handling, Decided, Sound
  <2>3. \A g : Ahead(g)' <=> Ahead(g) BY <1>2, <2>1 DEF Ahead
  <2>4. There' /\ All' BY <1>1, <1>2, <2>1, <2>2, <2>3
  <2> QED BY <1>1, <1>3, <1>4, <2>1, <2>2, <2>4
<1> QED BY <1>0, <1>5, <1>6, <1>7, <1>8, <1>9, <1>10, <1>11, <1>12, StepKinds DEF Walking

\* In a mirror every file goes to its own name.
LEMMA LandsAt ==
    ASSUME SyncTypeOK, NEW f \in File
    PROVE  Landing(f) \in File /\ (job # "many" => Landing(f) = f)
BY Basics

\* What a put does to the server: it changes one name, of a file that was not decided.
LEMMA ServerSteps ==
    ASSUME SyncTypeOK, Pool1(pool), Sorted, NEW w \in Worker, StepOf(w)
    PROVE  LET f == pool.held[w] IN
           /\ UNCHANGED <<source, changed, runs>>
           /\ mirror'.verdict = mirror.verdict /\ mirror'.present = mirror.present
           /\ \/ UNCHANGED server
              \/ /\ f \in File /\ f \notin Decided /\ f \in Handling /\ Landing(f) \in File
                 /\ \A g \in File \ {Landing(f)} : server'[g] = server[g]
                 /\ \/ /\ SendBegin(w)
                       /\ server'[Landing(f)] = [content |-> Torn, size |-> 0, mtime |-> Now]
                    \/ /\ SendEnd(w)
                       /\ \E c \in {sending[w].content, source[f]} :
                             /\ server'[Landing(f)] = Copy(c, f)
                             /\ Mixes(f, RemoteStamp(Copy(c, f)))
<1> DEFINE f == pool.held[w]
<1>1. UNCHANGED <<source, changed, runs>> /\ mirror'.verdict = mirror.verdict
      /\ mirror'.present = mirror.present
  BY DEF StepOf, SendBegin, SendEnd, Measure, StatLanded, Record, history, counts, SyncTypeOK
<1>2. Measure(w) \/ StatLanded(w) \/ Record(w) => UNCHANGED server
  BY DEF Measure, StatLanded, Record
<1>3. CASE SendBegin(w)
  <2>1. f # NoItem /\ f \notin Decided BY <1>3, BeginIs
  <2>2. f \in File /\ f \in Handling /\ Landing(f) \in File /\ Sent(w) = f BY <2>1, HeldIs
  <2>3. UNCHANGED server
        \/ server' = [server EXCEPT ![Landing(f)] = [content |-> Torn, size |-> 0, mtime |-> Now]]
    BY <1>3, <2>2 DEF SendBegin
  <2>4. UNCHANGED server
        \/ /\ server'[Landing(f)] = [content |-> Torn, size |-> 0, mtime |-> Now]
           /\ \A g \in File \ {Landing(f)} : server'[g] = server[g]
    BY <2>2, <2>3 DEF SyncTypeOK
  <2> QED BY <1>1, <1>3, <2>1, <2>2, <2>4
<1>4. CASE SendEnd(w)
  <2>1. f # NoItem /\ f \notin Decided BY <1>4, EndIs
  <2>2. f \in File /\ f \in Handling /\ Landing(f) \in File /\ Sent(w) = f BY <2>1, HeldIs
  <2>3. PICK c \in {sending[w].content, source[f]} :
           server' = [server EXCEPT ![Landing(f)] = Copy(c, f)] /\ Mixes(f, RemoteStamp(Copy(c, f)))
    BY <1>4, <2>2 DEF SendEnd, Copy
  <2>4. /\ server'[Landing(f)] = Copy(c, f)
        /\ \A g \in File \ {Landing(f)} : server'[g] = server[g]
    BY <2>2, <2>3 DEF SyncTypeOK
  <2> QED BY <1>1, <1>4, <2>1, <2>2, <2>3, <2>4
<1> QED BY <1>1, <1>2, <1>3, <1>4 DEF StepOf

\* What somebody else does.
LEMMA OtherSteps ==
    ASSUME SyncTypeOK, Pool1(pool), NEW f \in File,
           Interfere(f) \/ \E v \in Version \cup {Gone} : Edit(f, v)
    PROVE  /\ UNCHANGED <<mirror, pool, ended, sending, memory, manifest, runs, mixed, dated>>
           /\ changed' = changed \cup {f} /\ calm' = "no"
           /\ \A g \in File \ {f} : source'[g] = source[g] /\ server'[g] = server[g]
           /\ Named' = Named /\ Handling' = Handling /\ Decided' = Decided /\ Met' = Met
           /\ \/ /\ UNCHANGED server
                 /\ tainted' = IF InFlight(f, {"sending", "sent", "landed"}) THEN tainted \cup {f}
                               ELSE tainted
              \/ /\ UNCHANGED source
                 /\ server'[f] = NoFile
                    \/ server'[f] = [content |-> Alien, size |-> server[f].size, mtime |-> 0]
                 /\ tainted' = IF InFlight(f, {"sending", "sent"}) THEN tainted \cup {f}
                               ELSE tainted
<1>1. CASE Interfere(f)
  <2>1. \/ server' = [server EXCEPT ![f] = NoFile]
        \/ server' = [server EXCEPT ![f] = [content |-> Alien, size |-> server[f].size, mtime |-> 0]]
    BY <1>1 DEF Interfere
  <2>2. /\ \A g \in File \ {f} : server'[g] = server[g]
        /\ server'[f] = NoFile
           \/ server'[f] = [content |-> Alien, size |-> server[f].size, mtime |-> 0]
    BY <2>1 DEF SyncTypeOK
  <2>3. UNCHANGED <<mirror, pool, ended, sending, memory, manifest, runs, mixed, source, dated>>
    BY <1>1 DEF Interfere, Disturbed
  <2>4. /\ changed' = changed \cup {f} /\ calm' = "no"
        /\ tainted' = IF InFlight(f, {"sending", "sent"}) THEN tainted \cup {f} ELSE tainted
    BY <1>1 DEF Interfere, Disturbed
  <2>5. Named' = Named /\ Handling' = Handling /\ Decided' = Decided /\ Met' = Met
    BY <2>3 DEF Met, Named, Handling, Decided
  <2> QED BY <2>2, <2>3, <2>4, <2>5
<1>2. ASSUME NEW v \in Version \cup {Gone}, Edit(f, v)
      PROVE  /\ UNCHANGED <<mirror, pool, ended, sending, memory, manifest, runs, mixed, server, dated>>
             /\ changed' = changed \cup {f} /\ calm' = "no"
             /\ \A g \in File \ {f} : source'[g] = source[g]
             /\ tainted' = IF InFlight(f, {"sending", "sent", "landed"}) THEN tainted \cup {f}
                           ELSE tainted
  BY <1>2 DEF Edit, Disturbed, SyncTypeOK
<1>3. UNCHANGED <<mirror, pool>> =>
        Named' = Named /\ Handling' = Handling /\ Decided' = Decided /\ Met' = Met
  BY DEF Met, Named, Handling, Decided
<1> QED BY <1>1, <1>2, <1>3

LEMMA FreshKeeps ==
    ASSUME SyncTypeOK, Pooled, Sorted, Fresh, [SyncNext]_<<syncVars, pool>>
    PROVE  Fresh'
<1> DEFINE True1 == job = "sync" =>
                       \A f \in Named \ changed : mirror.present[f] = RemoteStamp(server[f])
           Bare == job # "sync" => \A f \in File : mirror.verdict[f] # "skipped"
<1>0. PoolTyped(pool) /\ Pool1(pool) /\ Named \subseteq File
  BY TypeParts, PooledParts, SetsTyped
<1>1. True1 /\ Bare BY DEF Fresh
<1>2. UNCHANGED job BY GivenStays DEF given
<1>3. Fresh' <=> True1' /\ Bare' BY DEF Fresh
<1>4. CASE Idling
  <2>1. Named' = Named /\ UNCHANGED <<server, mirror, changed>>
    BY <1>0, <1>4, PassingIs DEF Idling, history
  <2> QED BY <1>1, <1>2, <1>3, <2>1
<1>5. CASE EnterDirectory
  <2>1. /\ Named' = {f \in File : Home[f] = Head(mirror.dirs) /\ source[f] # Gone}
        /\ UNCHANGED <<server, changed>>
    BY <1>5, EnterSorts DEF EnterDirectory, history
  <2>2. mirror'.verdict = mirror.verdict /\ mirror'.present = Present(Head(mirror.dirs))
    BY <1>5 DEF EnterDirectory, SyncTypeOK
  <2>3. True1' BY <2>1, <2>2 DEF Present
  <2> QED BY <1>1, <1>2, <1>3, <2>2, <2>3
<1>6. CASE StartMany /\ pool'.error = "none"
  <2>1. job = "many" /\ UNCHANGED pool BY <1>6, StartIs
  <2>2. mirror'.verdict = mirror.verdict BY <1>6 DEF StartMany, SyncTypeOK
  <2> QED BY <1>1, <1>2, <1>3, <2>1, <2>2
<1>7. ASSUME NEW f \in File, Consider(f), pool'.error = "none" PROVE Fresh'
  <2>1. /\ Named' \subseteq Named /\ mirror'.present = mirror.present
        /\ UNCHANGED <<server, changed>>
    BY <1>0, <1>7, ConsiderIs DEF Consider, history
  <2>2. job # "sync" => \E v \in Verdicts \ {"skipped"} :
           mirror'.verdict = [mirror.verdict EXCEPT ![f] = v]
    BY <1>0, <1>7, ConsiderIs
  <2>3. mirror.verdict \in [File -> Verdicts] BY DEF SyncTypeOK
  <2>4. Bare' BY <1>1, <1>2, <2>2, <2>3
  <2>5. True1' BY <1>1, <1>2, <2>1
  <2> QED BY <1>3, <2>4, <2>5
<1>8. ASSUME NEW w \in Worker, StepOf(w) PROVE Fresh'
  <2> DEFINE f == pool.held[w]
  <2>1. /\ UNCHANGED changed
        /\ mirror'.verdict = mirror.verdict /\ mirror'.present = mirror.present
        /\ UNCHANGED server \/ /\ f \in Handling /\ f \in File
                               /\ \A g \in File \ {Landing(f)} : server'[g] = server[g]
    BY <1>0, <1>8, ServerSteps
  <2>2. mirror'.names = mirror.names
    BY <1>8 DEF StepOf, SendBegin, SendEnd, Measure, StatLanded, Record, SyncTypeOK
  <2>3. Named' = Named BY <2>2 DEF Named
  <2> HIDE DEF f
  <2>4. f \in Handling => f \notin Named BY DEF Sorted
  <2>5. True1'
    <3> SUFFICES ASSUME job = "sync", NEW g \in Named \ changed
                 PROVE  mirror'.present[g] = RemoteStamp(server'[g])
      BY <1>2, <2>1, <2>3
    <3>1. mirror.present[g] = RemoteStamp(server[g]) /\ g \in File BY <1>0, <1>1
    <3>2. f \in File => Landing(f) = f BY LandsAt
    <3>3. server'[g] = server[g] BY <2>1, <2>4, <3>1, <3>2
    <3> QED BY <2>1, <3>1, <3>3
  <2>6. Bare' BY <1>1, <1>2, <2>1
  <2> QED BY <1>3, <2>5, <2>6
<1>9. CASE NextRun
  <2>1. Named' = {} /\ job = "sync" BY <1>9, NextRunIs DEF NextRun
  <2> QED BY <1>2, <1>3, <2>1
<1>10. CASE Kill
  <2>1. Named' = Named /\ UNCHANGED <<server, mirror, changed>>
    BY <1>0, <1>10, KillSorts DEF Kill, history
  <2> QED BY <1>1, <1>2, <1>3, <2>1
<1>11. ASSUME NEW f \in File, Interfere(f) \/ \E v \in Version \cup {Gone} : Edit(f, v)
       PROVE  Fresh'
  <2>1. /\ UNCHANGED mirror /\ changed' = changed \cup {f} /\ Named' = Named
        /\ \A g \in File \ {f} : server'[g] = server[g]
    BY <1>0, <1>11, OtherSteps
  <2> QED BY <1>0, <1>1, <1>2, <1>3, <2>1
<1> QED BY <1>0, <1>4, <1>5, <1>6, <1>7, <1>8, <1>9, <1>10, <1>11, StepKinds DEF Walking

-------------------------------------------------------------------------------
(* What an entry is worth *)

LEMMA NowIs == ASSUME SyncTypeOK PROVE Now \in Int /\ Now < 0 /\ (UNCHANGED runs => Now' = Now)
BY DEF SyncTypeOK, Now

\* A step of a run that decides more, lets more be mixed and records nothing new keeps what
\* the entries say, as long as whatever it puts on the server is of what they say.
LEMMA TruthLasts ==
    ASSUME SyncTypeOK, Truth, UNCHANGED <<job, preserve, runs>>,
           Decided \subseteq Decided', mixed \subseteq mixed',
           \A f \in File : /\ memory'[f] \in {memory[f], manifest.entries[f]}
                           /\ manifest'.entries[f] \in {memory[f], manifest.entries[f]},
           \A f \in File :
              /\ server'[f].mtime >= Now
              /\ \/ server'[f] = server[f] \/ job # "sync"
                 \/ \A e \in Entry :
                       EntryTrue(f, e) /\ e # NoEntry /\ e.remote = RemoteStamp(server'[f])
                       /\ <<f, e.remote>> \notin mixed'
                       => server'[f].content \in Version
                          /\ e.local = LocalStamp(server'[f].content)
    PROVE  Truth'
<1>1. Now' = Now BY NowIs
<1> DEFINE True1(f, e) ==
       e # NoEntry =>
          /\ e.remote # <<>> /\ e.remote[2] >= Now'
          /\ e.remote[2] = Now' => f \in Decided'
          /\ <<f, e.remote>> \notin mixed' =>
                /\ e.remote[2] # 0
                /\ preserve' => e.local = e.remote
                /\ e.remote = RemoteStamp(server'[f]) =>
                      server'[f].content \in Version
                      /\ e.local = LocalStamp(server'[f].content)
<1>2. ASSUME NEW f \in File, NEW e \in Entry, EntryTrue(f, e), job # "sync" => e = NoEntry
      PROVE  True1(f, e)
  BY <1>1, <1>2 DEF EntryTrue
<1>3. ASSUME NEW f \in File
      PROVE  /\ memory[f] \in Entry /\ manifest.entries[f] \in Entry
             /\ EntryTrue(f, memory[f]) /\ EntryTrue(f, manifest.entries[f])
             /\ job # "sync" => memory[f] = NoEntry /\ manifest.entries[f] = NoEntry
  BY DEF Truth, SyncTypeOK
<1>4. ASSUME NEW f \in File PROVE EntryTrue(f, memory[f])' /\ EntryTrue(f, manifest.entries[f])'
  <2>1. True1(f, memory[f]) /\ True1(f, manifest.entries[f]) BY <1>2, <1>3
  <2>2. /\ memory'[f] \in {memory[f], manifest.entries[f]}
        /\ manifest'.entries[f] \in {memory[f], manifest.entries[f]}
    OBVIOUS
  <2> HIDE DEF True1
  <2>3. True1(f, memory'[f]) /\ True1(f, manifest'.entries[f]) BY <2>1, <2>2
  <2> QED BY <2>3 DEF EntryTrue, True1
<1>6. job' # "sync" => \A f \in File : memory'[f] = NoEntry /\ manifest'.entries[f] = NoEntry
  BY <1>3
<1>7. \A f \in File : server'[f].mtime >= Now' BY <1>1
<1> QED BY <1>4, <1>6, <1>7 DEF Truth

\* What a put leaves is what the entries that look like it say.
LEMMA PutIsTrue ==
    ASSUME SyncTypeOK, Pool1(pool), Sorted, Truth, OnItsWay, NEW w \in Worker, StepOf(w)
    PROVE  \A f \in File :
              /\ server'[f].mtime >= Now
              /\ \/ server'[f] = server[f] \/ job # "sync"
                 \/ \A e \in Entry :
                       EntryTrue(f, e) /\ e # NoEntry /\ e.remote = RemoteStamp(server'[f])
                       /\ <<f, e.remote>> \notin mixed'
                       => server'[f].content \in Version
                          /\ e.local = LocalStamp(server'[f].content)
<1>0. Now \in Int /\ Now < 0 BY NowIs
<1> DEFINE h == pool.held[w]
           Good(f) == \/ server'[f] = server[f] \/ job # "sync"
                      \/ \A e \in Entry :
                            EntryTrue(f, e) /\ e # NoEntry /\ e.remote = RemoteStamp(server'[f])
                            /\ <<f, e.remote>> \notin mixed'
                            => server'[f].content \in Version
                               /\ e.local = LocalStamp(server'[f].content)
<1>1. CASE UNCHANGED server BY <1>1 DEF Truth
<1>2. CASE /\ h \in File /\ h \notin Decided /\ Landing(h) \in File
           /\ \A g \in File \ {Landing(h)} : server'[g] = server[g]
           /\ SendBegin(w)
           /\ server'[Landing(h)] = [content |-> Torn, size |-> 0, mtime |-> Now]
  <2>1. \A f \in File : server'[f].mtime >= Now BY <1>0, <1>2 DEF Truth
  <2>2. ASSUME NEW f \in File, server'[f] # server[f], job = "sync" PROVE Good(f)
    <3>1. f = h /\ Landing(h) = h BY <1>2, <2>2, LandsAt
    <3>2. RemoteStamp(server'[f]) = <<0, Now>>
      BY <1>2, <3>1 DEF RemoteStamp, NoFile, Torn, Gone
    <3>3. ASSUME NEW e \in Entry, EntryTrue(f, e), e # NoEntry, e.remote = <<0, Now>> PROVE FALSE
      <4>1. e.remote[2] = Now BY <3>3
      <4> QED BY <1>2, <3>1, <3>3, <4>1 DEF EntryTrue
    <3> QED BY <3>2, <3>3
  <2> QED BY <2>1, <2>2
<1>3. CASE /\ h \in File /\ h \notin Decided /\ h \in Handling /\ Landing(h) \in File
           /\ \A g \in File \ {Landing(h)} : server'[g] = server[g]
           /\ SendEnd(w)
           /\ \E c \in {sending[w].content, source[h]} :
                  server'[Landing(h)] = Copy(c, h) /\ Mixes(h, RemoteStamp(Copy(c, h)))
  <2>1. PICK c \in {sending[w].content, source[h]} :
           server'[Landing(h)] = Copy(c, h) /\ Mixes(h, RemoteStamp(Copy(c, h)))
    BY <1>3
  <2>2. h # NoItem /\ source[h] # Gone /\ sending[w].phase = "sending" BY <1>3, EndIs
  <2>3. source[h] \in Version BY <1>3, <2>2 DEF SyncTypeOK
  <2>4. source[h] \in Nat \ {0} /\ Size[source[h]] \in Nat BY <2>3, Basics
  <2>5. Copy(c, h).mtime >= Now BY <1>0, <2>4 DEF Copy
  <2>6. \A f \in File : server'[f].mtime >= Now BY <1>3, <2>1, <2>5 DEF Truth
  <2>7. ASSUME NEW f \in File, server'[f] # server[f], job = "sync" PROVE Good(f)
    <3>1. f = h /\ server'[f] = Copy(c, h) BY <1>3, <2>1, <2>7, LandsAt
    <3>2. CASE h \in tainted
      <4>1. <<h, RemoteStamp(Copy(c, h))>> \in mixed' BY <2>1, <3>2 DEF Mixes
      <4> QED BY <3>1, <4>1
    <3>3. CASE h \notin tainted
      <4>1. c = source[h] BY <2>1, <2>2, <3>3 DEF OnItsWay
      <4>2. /\ Copy(c, h).content = source[h] /\ Copy(c, h) # NoFile
            /\ RemoteStamp(Copy(c, h)) = <<Size[source[h]], IF preserve THEN source[h] ELSE Now>>
        BY <2>3, <4>1, Basics DEF Copy, RemoteStamp, NoFile, SizeOf, Gone
      <4>3. mixed' = mixed BY <2>1, <3>3 DEF Mixes
      <4>4. ASSUME NEW e \in Entry, EntryTrue(f, e), e # NoEntry,
                   e.remote = RemoteStamp(server'[f]), <<f, e.remote>> \notin mixed'
            PROVE  e.local = LocalStamp(source[h])
        <5>1. CASE preserve
          <6>1. e.local = e.remote BY <4>3, <4>4, <5>1 DEF EntryTrue
          <6> QED BY <3>1, <4>2, <4>4, <5>1, <6>1 DEF LocalStamp
        <5>2. CASE ~preserve
          <6>1. e.remote[2] = Now BY <3>1, <4>2, <4>4, <5>2
          <6> QED BY <1>3, <3>1, <4>4, <6>1 DEF EntryTrue
        <5> QED BY <5>1, <5>2
      <4> QED BY <2>3, <3>1, <4>2, <4>4
    <3> QED BY <3>2, <3>3
  <2> QED BY <2>6, <2>7
<1> QED BY <1>1, <1>2, <1>3, ServerSteps

\* What is recorded of a file is what the server was told of it.
LEMMA RecordIsTrue ==
    ASSUME SyncTypeOK, Pooled, Sorted, Truth, OnItsWay, NEW w \in Worker, Record(w)
    PROVE  Truth'
<1> DEFINE h == pool.held[w]
           entry == [local |-> LocalStamp(source[h]), remote |-> sending[w].landed]
<1>0. Pool1(pool) /\ Now \in Int /\ Now < 0 BY PooledParts, NowIs
<1>1. /\ h \in Decided /\ source[h] \in Version /\ job = "sync" /\ h # NoItem
      /\ sending[w].phase = "landed"
  BY <1>0, RecordIs
<1>2. h \in File /\ Sent(w) = h BY <1>0, <1>1, HeldIs
<1>3. /\ UNCHANGED <<given, source, server, mirror, runs, tainted>>
      /\ \/ UNCHANGED <<manifest, memory, mixed>>
         \/ /\ memory' = [memory EXCEPT ![h] = entry] /\ Mixes(h, entry.remote)
            /\ manifest' = Appended(h, entry) \/ manifest' = [manifest EXCEPT !.cut = TRUE]
  BY <1>2 DEF Record, Remembered
<1>4. UNCHANGED <<job, preserve>> /\ Decided' = Decided BY <1>3 DEF given, Decided
<1>5. CASE UNCHANGED <<manifest, memory, mixed>>
  <2>1. \A f \in File : server[f].mtime >= Now BY DEF Truth
  <2> QED BY <1>3, <1>4, <1>5, <2>1, TruthLasts
<1>6. CASE /\ memory' = [memory EXCEPT ![h] = entry] /\ Mixes(h, entry.remote)
           /\ manifest' = Appended(h, entry) \/ manifest' = [manifest EXCEPT !.cut = TRUE]
  <2>1. source[h] \in Nat \ {0} /\ Size[source[h]] \in Nat BY <1>1, Basics
  <2>2. /\ entry.remote = sending[w].landed /\ entry.local = <<Size[source[h]], source[h]>>
        /\ entry # NoEntry
    <3>1. <<Size[source[h]], source[h]>> # <<>> OBVIOUS
    <3>2. entry.local # <<>> BY <3>1 DEF LocalStamp
    <3> QED BY <3>2 DEF LocalStamp, NoEntry
  <2>3. sending[w].landed # <<>> /\ sending[w].landed[2] >= Now
    BY <1>1 DEF OnItsWay
  <2>4. h \in tainted => <<h, sending[w].landed>> \in mixed'
    BY <1>6, <2>2 DEF Mixes
  <2>5. h \notin tainted =>
           /\ sending[w].landed = <<Size[source[h]], IF preserve THEN source[h] ELSE Now>>
           /\ RemoteStamp(server[h]) = sending[w].landed => server[h].content = source[h]
    BY <1>1 DEF OnItsWay, Stamped
  <2>6. mixed \subseteq mixed' BY <1>6 DEF Mixes
  <2>7. /\ memory'[h] = entry /\ \A f \in File \ {h} : memory'[f] = memory[f]
        /\ manifest'.entries[h] \in {entry, manifest.entries[h]}
        /\ \A f \in File \ {h} : manifest'.entries[f] = manifest.entries[f]
    <3>1. /\ memory'[h] = entry /\ \A f \in File \ {h} : memory'[f] = memory[f]
      BY <1>2, <1>6 DEF SyncTypeOK
    <3>2. CASE manifest'.entries = manifest.entries BY <3>1, <3>2
    <3>3. CASE manifest'.entries = [manifest.entries EXCEPT ![h] = entry]
      BY <1>2, <3>1, <3>3 DEF SyncTypeOK
    <3>4. manifest'.entries = manifest.entries
          \/ manifest'.entries = [manifest.entries EXCEPT ![h] = entry]
      BY <1>6 DEF Appended, SyncTypeOK
    <3> QED BY <3>2, <3>3, <3>4
  <2> HIDE DEF entry, h
  <2>8. /\ entry.remote # <<>> /\ entry.remote[2] >= Now /\ h \in Decided'
        /\ <<h, entry.remote>> \notin mixed' =>
              /\ entry.remote[2] # 0
              /\ preserve => entry.local = entry.remote
              /\ entry.remote = RemoteStamp(server[h]) =>
                    server[h].content \in Version /\ entry.local = LocalStamp(server[h].content)
    BY <1>0, <1>1, <1>4, <2>1, <2>2, <2>3, <2>4, <2>5 DEF LocalStamp
  <2>9. Now' = Now BY <1>3, NowIs
  <2>10. ASSUME NEW f \in File, NEW e, (e = entry /\ f = h) \/ EntryTrue(f, e)
         PROVE  e # NoEntry =>
                   /\ e.remote # <<>> /\ e.remote[2] >= Now'
                   /\ e.remote[2] = Now' => f \in Decided'
                   /\ <<f, e.remote>> \notin mixed' =>
                         /\ e.remote[2] # 0
                         /\ preserve' => e.local = e.remote
                         /\ e.remote = RemoteStamp(server'[f]) =>
                               server'[f].content \in Version
                               /\ e.local = LocalStamp(server'[f].content)
    <3>1. CASE e = entry /\ f = h BY <1>3, <1>4, <2>8, <2>9, <3>1
    <3>2. CASE EntryTrue(f, e) BY <1>3, <1>4, <2>6, <2>9, <3>2 DEF EntryTrue
    <3> QED BY <2>10, <3>1, <3>2
  <2>11. ASSUME NEW f \in File PROVE EntryTrue(f, memory[f])' /\ EntryTrue(f, manifest.entries[f])'
    <3>1. /\ (memory'[f] = entry /\ f = h) \/ EntryTrue(f, memory'[f])
          /\ (manifest'.entries[f] = entry /\ f = h) \/ EntryTrue(f, manifest'.entries[f])
      BY <2>7 DEF Truth
    <3> QED BY <2>10, <3>1 DEF EntryTrue
  <2> QED BY <1>1, <1>3, <1>4, <2>9, <2>11 DEF Truth
<1> QED BY <1>3, <1>5, <1>6

LEMMA TruthKeeps ==
    ASSUME SyncTypeOK, Pooled, Sorted, Truth, OnItsWay, [SyncNext]_<<syncVars, pool>>
    PROVE  Truth'
<1>0. PoolTyped(pool) /\ Pool1(pool) BY TypeParts, PooledParts
<1>1. UNCHANGED <<job, preserve>> BY GivenStays DEF given
<1>2. /\ \A f \in File : server[f].mtime >= Now
      /\ job # "sync" => \A f \in File : memory[f] = NoEntry /\ manifest.entries[f] = NoEntry
  BY DEF Truth
<1>3. CASE Idling
  <2>1. Decided' = Decided BY <1>0, <1>3, PassingIs DEF Idling
  <2>2. UNCHANGED <<server, memory, runs, mixed>> BY <1>3 DEF Idling, history
  <2>3. manifest' = manifest \/ manifest' = Rewritten BY <1>3 DEF Idling, EndRun
  <2>4. \A f \in File : manifest'.entries[f] \in {memory[f], manifest.entries[f]}
    BY <2>3 DEF Rewritten
  <2> QED BY <1>1, <1>2, <2>1, <2>2, <2>4, TruthLasts
<1>4. CASE Walking
  <2>1. UNCHANGED <<server, memory, manifest, runs, mixed>>
    BY <1>4 DEF Walking, EnterDirectory, StartMany, Consider, counts, history
  <2>2. Decided \subseteq Decided'
    <3>1. ASSUME NEW f \in File, Consider(f), pool'.error = "none" PROVE Decided \subseteq Decided'
      BY <1>0, <3>1, ConsiderIs
    <3> QED BY <1>0, <1>4, <3>1, EnterSorts, StartIs DEF Walking
  <2> QED BY <1>1, <1>2, <2>1, <2>2, TruthLasts
<1>5. ASSUME NEW w \in Worker, StepOf(w), ~Record(w) PROVE Truth'
  <2>1. UNCHANGED <<memory, manifest, runs>>
    BY <1>5 DEF StepOf, SendBegin, SendEnd, Measure, StatLanded, counts
  <2>2. mixed \subseteq mixed'
    BY <1>5 DEF StepOf, SendBegin, SendEnd, Mixes, Measure, StatLanded, history
  <2>3. Decided \subseteq Decided'
    <3>1. SendBegin(w) \/ StatLanded(w) => Decided' = Decided
      BY DEF SendBegin, StatLanded, Decided
    <3> QED BY <1>0, <1>5, <3>1, EndIs, MeasureIs DEF StepOf
  <2>4. \A f \in File :
              /\ server'[f].mtime >= Now
              /\ \/ server'[f] = server[f] \/ job # "sync"
                 \/ \A e \in Entry :
                       EntryTrue(f, e) /\ e # NoEntry /\ e.remote = RemoteStamp(server'[f])
                       /\ <<f, e.remote>> \notin mixed'
                       => server'[f].content \in Version
                          /\ e.local = LocalStamp(server'[f].content)
    BY <1>0, <1>5, PutIsTrue
  <2> QED BY <1>1, <2>1, <2>2, <2>3, <2>4, TruthLasts
<1>6. CASE NextRun
  <2>1. /\ memory' = manifest.entries /\ Decided' = {} /\ runs' = runs + 1 /\ job = "sync"
        /\ UNCHANGED <<server, manifest, mixed>>
    BY <1>6, NextRunIs DEF NextRun
  <2>2. Now \in Int /\ Now' = Now - 1 BY <2>1, NowIs DEF Now, SyncTypeOK
  <2>3. \A f \in File : server'[f].mtime >= Now'
    <3>1. \A f \in File : server[f].mtime \in Int BY DEF SyncTypeOK, Copies
    <3> QED BY <1>2, <2>1, <2>2, <3>1
  <2>4. ASSUME NEW f \in File
        PROVE  EntryTrue(f, memory[f])' /\ EntryTrue(f, manifest.entries[f])'
    <3> DEFINE e == manifest.entries[f]
    <3>1. EntryTrue(f, e) /\ e \in Entry BY DEF Truth, SyncTypeOK
    <3>2. memory'[f] = e /\ manifest'.entries[f] = e BY <2>1
    <3> HIDE DEF e
    <3>3. e # NoEntry => e.remote[2] \in Int BY <3>1 DEF EntryTrue, Entry, Stamps
    <3>4. e # NoEntry => e.remote[2] >= Now' /\ e.remote[2] # Now'
      BY <2>2, <3>1, <3>3 DEF EntryTrue
    <3> QED BY <1>1, <2>1, <3>1, <3>2, <3>4 DEF EntryTrue
  <2> QED BY <1>1, <2>1, <2>3, <2>4 DEF Truth
<1>7. CASE Kill
  <2>1. Decided' = Decided /\ UNCHANGED <<server, memory, manifest, runs, mixed>>
    BY <1>0, <1>7, KillSorts DEF Kill, counts, history
  <2> QED BY <1>1, <1>2, <2>1, TruthLasts
<1>8. ASSUME NEW f \in File, Interfere(f) \/ \E v \in Version \cup {Gone} : Edit(f, v)
      PROVE  Truth'
  <2>1. /\ UNCHANGED <<memory, manifest, runs, mixed>> /\ Decided' = Decided
        /\ \A g \in File \ {f} : server'[g] = server[g]
        /\ \/ UNCHANGED server
           \/ server'[f] = NoFile
           \/ server'[f] = [content |-> Alien, size |-> server[f].size, mtime |-> 0]
    BY <1>0, <1>8, OtherSteps
  <2>2. Now \in Int /\ Now < 0 BY NowIs
  <2>3. ASSUME NEW g \in File, server'[g] # server[g]
        PROVE  /\ server'[g].mtime >= Now
               /\ \A e \in Entry :
                     EntryTrue(g, e) /\ e # NoEntry /\ e.remote = RemoteStamp(server'[g])
                     => <<g, e.remote>> \in mixed
    <3>1. g = f BY <2>1, <2>3
    <3>2. CASE server'[f] = NoFile
      <4>1. RemoteStamp(server'[f]) = <<>> BY <3>2 DEF RemoteStamp
      <4>2. server'[f].mtime = 0 BY <3>2 DEF NoFile
      <4> QED BY <2>2, <3>1, <4>1, <4>2 DEF EntryTrue
    <3>3. CASE server'[f] = [content |-> Alien, size |-> server[f].size, mtime |-> 0]
      <4>1. RemoteStamp(server'[f]) = <<server[f].size, 0>> /\ server'[f].mtime = 0
        BY <3>3 DEF RemoteStamp, NoFile, Alien, Gone
      <4>2. \A e \in Entry : e.remote = <<server[f].size, 0>> => e.remote[2] = 0 OBVIOUS
      <4> QED BY <2>2, <3>1, <4>1, <4>2 DEF EntryTrue
    <3> QED BY <2>1, <2>3, <3>1, <3>2, <3>3
  <2>4. \A g \in File : server'[g].mtime >= Now BY <1>2, <2>3
  <2>5. \A g \in File :
           \/ server'[g] = server[g] \/ job # "sync"
           \/ \A e \in Entry :
                 EntryTrue(g, e) /\ e # NoEntry /\ e.remote = RemoteStamp(server'[g])
                 /\ <<g, e.remote>> \notin mixed'
                 => server'[g].content \in Version /\ e.local = LocalStamp(server'[g].content)
    BY <2>1, <2>3
  <2> QED BY <1>1, <2>1, <2>4, <2>5, TruthLasts
<1> QED BY <1>0, <1>3, <1>4, <1>5, <1>6, <1>7, <1>8, StepKinds, RecordIsTrue

-------------------------------------------------------------------------------
(* What is on its way *)

\* What OnItsWay says of one worker.
Way(w) ==
    LET f == pool.held[w] IN
        f # NoItem =>
          /\ sending[w].phase # "idle" =>
                /\ sending[w].content \in Version /\ (f \in tainted => f \in changed)
                /\ f \in tainted \/ sending[w].content = source[f]
          /\ sending[w].phase = "sent" =>
                f \in tainted \/ /\ server[f].content = source[f]
                                 /\ RemoteStamp(server[f]) = Stamped(f)
          /\ sending[w].phase = "landed" =>
                /\ sending[w].landed # <<>> /\ sending[w].landed[2] >= Now
                /\ f \in tainted \/
                      /\ sending[w].landed = Stamped(f)
                      /\ RemoteStamp(server[f]) = sending[w].landed => server[f].content = source[f]
                /\ f \in changed \/ sending[w].landed = RemoteStamp(server[f])
LEMMA WayParts == /\ OnItsWay <=> \A w \in Worker : Way(w)
                  /\ OnItsWay' <=> \A w \in Worker : Way(w)'
BY DEF OnItsWay, Way

\* A worker whose file nobody touches.
LEMMA WayStays ==
    ASSUME NEW w \in Worker, Way(w), UNCHANGED <<preserve, runs>>,
           pool'.held[w] = pool.held[w], sending'[w] = sending[w],
           LET f == pool.held[w] IN
              f # NoItem => /\ source'[f] = source[f] /\ (f \in tainted' <=> f \in tainted)
                            /\ f \in changed' <=> f \in changed
                            /\ sending[w].phase \in {"sent", "landed"} => server'[f] = server[f]
    PROVE  Way(w)'
<1>1. Now' = Now BY DEF Now
<1> QED BY <1>1 DEF Way, Stamped

LEMMA WayIdle ==
    ASSUME NEW w \in Worker, pool'.held[w] = NoItem \/ sending'[w].phase = "idle"
    PROVE  Way(w)'
BY DEF Way

LEMMA WayKeeps ==
    ASSUME SyncTypeOK, Pooled, Sorted, Truth, OnItsWay, [SyncNext]_<<syncVars, pool>>
    PROVE  OnItsWay'
<1>0. PoolTyped(pool) /\ Pool1(pool) BY TypeParts, PooledParts
<1>1. UNCHANGED <<job, preserve>> BY GivenStays DEF given
<1>2. \A w \in Worker : Way(w) /\ Doing(w) BY WayParts, SortedParts
<1>3. CASE Passing /\ UNCHANGED <<source, server, changed, tainted, runs>>
  <2> SUFFICES ASSUME NEW w \in Worker PROVE Way(w)' BY WayParts
  <2>1. CASE pool'.held[w] = pool.held[w] /\ sending'[w] = sending[w]
    BY <1>1, <1>2, <1>3, <2>1, WayStays
  <2>2. CASE pool'.held[w] = NoItem BY <2>2, WayIdle
  <2>3. CASE Take(w) /\ sending'[w] = sending[w]
    <3>1. sending[w].phase = "idle" BY <1>2, <2>3 DEF Take, Doing
    <3> QED BY <2>3, <3>1, WayIdle
  <2> QED BY <1>3, <2>1, <2>2, <2>3 DEF Passing
<1>4. CASE Walking
  <2>1. UNCHANGED <<sending, source, server, changed, tainted, runs>>
    BY <1>4 DEF Walking, EnterDirectory, StartMany, Consider, counts, history
  <2>2. \A w \in Worker : pool'.held[w] = pool.held[w] \/ pool.held[w] = NoItem
    <3>1. ASSUME NEW f \in File, Offer(f)
          PROVE  \A w \in Worker : pool'.held[w] = pool.held[w] \/ pool.held[w] = NoItem
      BY <1>0, <3>1 DEF Offer, Producing, Pool1, PoolTyped
    <3>2. ASSUME NEW f \in File, Consider(f), pool'.error = "none" PROVE UNCHANGED pool \/ Offer(f)
      BY <1>0, <3>2, ConsiderIs
    <3>3. EnterDirectory => UNCHANGED pool BY DEF EnterDirectory
    <3> QED BY <1>4, <3>1, <3>2, <3>3, StartIs DEF Walking
  <2> SUFFICES ASSUME NEW w \in Worker PROVE Way(w)' BY WayParts
  <2>3. CASE pool'.held[w] = pool.held[w] BY <1>1, <1>2, <2>1, <2>3, WayStays
  <2>4. CASE pool.held[w] = NoItem
    <3>1. sending'[w].phase = "idle" BY <1>2, <2>1, <2>4 DEF Doing
    <3> QED BY <3>1, WayIdle
  <2> QED BY <2>2, <2>3, <2>4
<1>5. ASSUME NEW w \in Worker, StepOf(w), ~Record(w) PROVE OnItsWay'
  <2> DEFINE h == pool.held[w]
  <2>1. /\ h # NoItem /\ Sent(w) = h
        /\ \A v \in Worker \ {w} : sending'[v] = sending[v] /\ pool'.held[v] = pool.held[v]
    <3>1. SendBegin(w) \/ StatLanded(w) => UNCHANGED pool BY DEF SendBegin, StatLanded
    <3>2. CASE Measure(w)
      <4>1. Handled(w) /\ UNCHANGED sending BY <3>2 DEF Measure
      <4>2. \A v \in Worker \ {w} : pool'.held[v] = pool.held[v]
        BY <1>0, <4>1 DEF Handled, PoolTyped
      <4> QED BY <4>1, <4>2 DEF Handled, Sent
    <3> QED BY <1>0, <1>5, <3>1, <3>2, BeginIs, EndIs, StatIs DEF StepOf, Sent
  <2>2. h \in File /\ \A v \in Worker \ {w} : pool.held[v] # h BY <1>0, <2>1, HeldIs
  <2>3. /\ UNCHANGED <<source, changed, runs>>
        /\ \A g \in File \ {h} : g \in tainted' <=> g \in tainted
    BY <1>5, <2>1 DEF StepOf, SendBegin, SendEnd, Measure, StatLanded, history, counts
  <2> HIDE DEF h
  <2>4. ASSUME NEW v \in Worker \ {w} PROVE Way(v)'
    <3> DEFINE g == pool.held[v]
    <3>1. g # NoItem => g \in File \ {h} BY <2>2 DEF SyncTypeOK, Item
    <3>2. g # NoItem /\ sending[v].phase \in {"sent", "landed"} => server'[g] = server[g]
      <4> SUFFICES ASSUME g # NoItem, sending[v].phase \in {"sent", "landed"}
                   PROVE  server'[g] = server[g]
        OBVIOUS
      <4>1. job = "sync" BY <1>2 DEF Doing
      <4>2. Landing(h) = h BY <2>2, <4>1, LandsAt
      <4>3. UNCHANGED server \/ \A x \in File \ {Landing(h)} : server'[x] = server[x]
        BY <1>0, <1>5, ServerSteps DEF h
      <4> QED BY <3>1, <4>2, <4>3
    <3> QED BY <1>1, <1>2, <2>1, <2>3, <3>1, <3>2, WayStays
  <2>5. Now' = Now BY <2>3 DEF Now
  <2>6. Way(w)'
    <3>1. CASE SendBegin(w)
      <4>1. /\ sending'[w].phase = "sending" /\ sending'[w].content = source[h]
            /\ source[h] # Gone /\ pool'.held[w] = h
        BY <1>0, <3>1, BeginIs DEF h
      <4>2. h \notin tainted' BY <2>1, <3>1 DEF SendBegin
      <4>3. source[h] \in Version BY <2>2, <4>1 DEF SyncTypeOK
      <4> QED BY <2>3, <4>1, <4>2, <4>3 DEF Way
    <3>2. CASE SendEnd(w) /\ job = "sync"
      <4>1. /\ pool'.held[w] = h /\ sending'[w].phase = "sent" /\ source[h] # Gone
            /\ sending'[w].content = sending[w].content /\ sending[w].phase = "sending"
        BY <1>0, <3>2, EndIs DEF h
      <4>2. /\ sending[w].content \in Version /\ (h \in tainted => h \in changed)
            /\ h \in tainted \/ sending[w].content = source[h]
        BY <1>2, <2>1, <4>1 DEF Way, h
      <4>3. Landing(h) = h BY <2>2, <3>2, LandsAt
      <4>4. tainted' = tainted BY <3>2 DEF SendEnd
      <4>5. PICK c \in {sending[w].content, source[h]} : server' = [server EXCEPT ![h] = Copy(c, h)]
        BY <2>1, <3>2, <4>3 DEF SendEnd, Copy
      <4>6. server'[h] = Copy(c, h) BY <2>2, <4>5 DEF SyncTypeOK
      <4>7. h \in tainted \/ /\ server'[h].content = source[h]
                             /\ RemoteStamp(server'[h]) = Stamped(h)
        <5> SUFFICES ASSUME h \notin tainted
                     PROVE  /\ server'[h].content = source[h]
                            /\ RemoteStamp(server'[h]) = Stamped(h)
          OBVIOUS
        <5>1. c = source[h] /\ source[h] \in Version BY <4>2, <4>5
        <5>2. source[h] # Gone BY <4>1
        <5> QED BY <4>6, <5>1, <5>2 DEF Copy, RemoteStamp, NoFile, SizeOf, Stamped
      <4> QED BY <1>1, <2>3, <2>5, <4>1, <4>2, <4>4, <4>7 DEF Way, Stamped
    <3>3. CASE SendEnd(w) /\ job # "sync"
      <4>1. pool'.held[w] = NoItem BY <1>0, <3>3, EndIs
      <4> QED BY <4>1, WayIdle
    <3>4. CASE Measure(w)
      <4>1. pool'.held[w] = NoItem BY <1>0, <3>4 DEF Measure, Handled, PoolTyped
      <4> QED BY <4>1, WayIdle
    <3>5. CASE StatLanded(w)
      <4>1. /\ pool'.held[w] = h /\ sending[w].phase = "sent" /\ sending'[w].phase = "landed"
            /\ server[h] # NoFile /\ sending'[w].landed = RemoteStamp(server[h])
            /\ sending'[w].content = sending[w].content
        BY <1>0, <3>5, StatIs DEF h
      <4>2. /\ sending[w].content \in Version /\ (h \in tainted => h \in changed)
            /\ h \in tainted \/ /\ sending[w].content = source[h]
                                /\ server[h].content = source[h]
                                /\ RemoteStamp(server[h]) = Stamped(h)
        BY <1>2, <2>1, <4>1 DEF Way, h
      <4>3. UNCHANGED <<server, tainted>> BY <3>5 DEF StatLanded, history
      <4>4. RemoteStamp(server[h]) = <<server[h].size, server[h].mtime>> /\ server[h].mtime >= Now
        BY <2>2, <4>1 DEF RemoteStamp, Truth
      <4>5. RemoteStamp(server[h]) # <<>> /\ RemoteStamp(server[h])[2] >= Now BY <4>4
      <4> QED BY <1>1, <2>3, <2>5, <4>1, <4>2, <4>3, <4>5 DEF Way, Stamped
    <3> QED BY <1>5, <3>1, <3>2, <3>3, <3>4, <3>5 DEF StepOf
  <2> QED BY <2>4, <2>6, WayParts
<1>6. ASSUME NEW w \in Worker, Record(w) PROVE OnItsWay'
  <2>1. Passing /\ UNCHANGED <<source, server, changed, tainted, runs>>
    BY <1>0, <1>6, RecordIs DEF Record
  <2> QED BY <1>3, <2>1
<1>7. CASE NextRun BY <1>7, NextRunIs, WayIdle, WayParts
<1>8. CASE Kill BY <1>8, KilledTyped, WayIdle, WayParts
<1>9. ASSUME NEW f \in File, Interfere(f) \/ \E v \in Version \cup {Gone} : Edit(f, v)
      PROVE  OnItsWay'
  <2>1. /\ UNCHANGED <<pool, sending, runs>> /\ changed' = changed \cup {f}
        /\ \A g \in File \ {f} : source'[g] = source[g] /\ server'[g] = server[g]
        /\ \/ /\ UNCHANGED server
              /\ tainted' = IF InFlight(f, {"sending", "sent", "landed"}) THEN tainted \cup {f}
                            ELSE tainted
           \/ /\ UNCHANGED source
              /\ server'[f] = NoFile
                 \/ server'[f] = [content |-> Alien, size |-> server[f].size, mtime |-> 0]
              /\ tainted' = IF InFlight(f, {"sending", "sent"}) THEN tainted \cup {f}
                            ELSE tainted
    BY <1>0, <1>9, OtherSteps
  <2> SUFFICES ASSUME NEW w \in Worker PROVE Way(w)' BY WayParts
  <2>2. CASE pool.held[w] # f
    <3>1. pool.held[w] # NoItem => pool.held[w] \in File \ {f} BY <2>2 DEF SyncTypeOK, Item
    <3> QED BY <1>1, <1>2, <2>1, <2>2, <3>1, WayStays
  <2>3. CASE pool.held[w] = f /\ sending[w].phase # "idle"
    <3>1. f # NoItem /\ Way(w) /\ Sent(w) = f BY <1>2, <2>3, Basics DEF Sent
    <3>2. f \in changed' /\ Now' = Now BY <2>1 DEF Now
    <3>3. /\ sending[w].content \in Version
          /\ sending[w].phase = "landed" =>
                sending[w].landed # <<>> /\ sending[w].landed[2] >= Now
      BY <2>3, <3>1 DEF Way
    <3>4. CASE f \in tainted' BY <2>1, <2>3, <3>2, <3>3, <3>4 DEF Way
    <3>5. CASE f \notin tainted'
      <4>0. sending[w].phase \in {"sending", "sent", "landed"} BY <2>3 DEF SyncTypeOK
      <4>1. UNCHANGED source /\ sending[w].phase = "landed" /\ f \notin tainted
        BY <2>1, <3>1, <3>5, <4>0 DEF InFlight
      <4>2. RemoteStamp(server'[f]) = <<>> \/ RemoteStamp(server'[f])[2] = 0
        BY <2>1, <3>5, <3>1, <4>0 DEF InFlight, RemoteStamp, NoFile, Alien, Gone
      <4>3. sending[w].landed = Stamped(f) BY <2>3, <3>1, <4>1 DEF Way
      <4>4. Stamped(f)' = Stamped(f) BY <1>1, <3>2, <4>1 DEF Stamped
      <4>5. Stamped(f) # <<>> /\ Stamped(f)[2] # 0
        <5>1. Now < 0 /\ Now \in Int BY NowIs
        <5>2. source[f] \in Version BY <2>3, <3>1, <4>1 DEF Way
        <5>3. source[f] # 0 BY <5>2, Basics
        <5> QED BY <5>1, <5>3 DEF Stamped
      <4>6. sending[w].content = source[f] BY <2>3, <3>1, <4>1 DEF Way
      <4>7. RemoteStamp(server'[f]) # sending[w].landed BY <4>2, <4>3, <4>5
      <4>8. /\ pool'.held[w] = f /\ sending'[w] = sending[w] /\ source'[f] = source[f]
            /\ sending[w].phase = "landed"
        BY <2>1, <2>3, <4>1
      <4> QED BY <3>2, <3>3, <4>3, <4>4, <4>6, <4>7, <4>8 DEF Way
    <3> QED BY <3>4, <3>5
  <2>4. CASE sending[w].phase = "idle" BY <2>1, <2>4, WayIdle
  <2> QED BY <2>2, <2>3, <2>4
<1>10. Idling => Passing /\ UNCHANGED <<source, server, changed, tainted, runs>>
  BY DEF Idling, history
<1> QED BY <1>0, <1>3, <1>4, <1>5, <1>6, <1>7, <1>8, <1>9, <1>10, StepKinds

-------------------------------------------------------------------------------
(* What was decided *)

\* What is skipped is there as it was recorded, and as it is.
LEMMA SkippedIs ==
    ASSUME SyncTypeOK, Truth, Fresh, NEW f \in File, f \in Named, f \notin changed, job = "sync",
           Verdict(source[f], mirror.present[f], memory[f]) = "skipped"
    PROVE  /\ Matches(f, memory[f]) /\ laconic = "nowhere"
           /\ \/ <<f, RemoteStamp(server[f])>> \in mixed
              \/ source[f] # Gone => server[f].content = source[f]
<1>1. mirror.present[f] = RemoteStamp(server[f]) BY DEF Fresh
<1>2. /\ memory[f] # NoEntry /\ memory[f].local = LocalStamp(source[f])
      /\ RemoteStamp(server[f]) # <<>> /\ memory[f].remote = RemoteStamp(server[f])
      /\ laconic = "nowhere"
  BY <1>1 DEF Verdict
<1>3. server[f] # NoFile BY <1>2 DEF RemoteStamp
<1>4. ASSUME <<f, RemoteStamp(server[f])>> \notin mixed, source[f] # Gone
      PROVE  server[f].content = source[f]
  <2>1. server[f].content \in Version /\ memory[f].local = LocalStamp(server[f].content)
    BY <1>2, <1>4 DEF Truth, EntryTrue
  <2>2. LocalStamp(server[f].content) = LocalStamp(source[f]) BY <1>2, <2>1
  <2> QED BY <2>2 DEF LocalStamp
<1> QED BY <1>2, <1>3, <1>4 DEF Matches

LEMMA KeptKeeps ==
    ASSUME SyncTypeOK, Pooled, Sorted, Fresh, Truth, OnItsWay, Kept, [SyncNext]_<<syncVars, pool>>
    PROVE  Kept'
<1>0. PoolTyped(pool) /\ Pool1(pool) /\ Decided \subseteq File /\ Decided \subseteq Met
  BY TypeParts, PooledParts, SetsTyped DEF Met
<1>1. UNCHANGED job BY GivenStays DEF given
<1>2. \A g \in File : Landing(g)' = Landing(g) BY <1>1 DEF Landing
<1>3. ASSUME Decided' \subseteq Decided,
             UNCHANGED <<server, source, changed>>, mixed \subseteq mixed',
             \A g \in Decided' : mirror'.verdict[g] = mirror.verdict[g]
      PROVE  Kept'
  BY <1>0, <1>1, <1>2, <1>3 DEF Kept
<1>4. CASE Idling
  <2>1. Decided' = Decided /\ UNCHANGED <<server, source, changed, mixed, mirror>>
    BY <1>0, <1>4, PassingIs DEF Idling, history
  <2> QED BY <1>3, <2>1
<1>5. CASE EnterDirectory
  <2>1. /\ Decided' = Decided /\ UNCHANGED <<server, source, changed, mixed>>
        /\ mirror'.verdict = mirror.verdict
    BY <1>5, EnterSorts DEF EnterDirectory, history, SyncTypeOK
  <2> QED BY <1>3, <2>1
<1>6. CASE StartMany /\ pool'.error = "none"
  <2>1. Decided' = {} BY <1>6, StartIs
  <2> QED BY <2>1 DEF Kept
<1>7. ASSUME NEW f \in File, Consider(f), pool'.error = "none" PROVE Kept'
  <2>1. UNCHANGED <<server, source, changed, mixed>> BY <1>7 DEF Consider, history
  <2>2. mirror.verdict \in [File -> Verdicts] BY DEF SyncTypeOK
  <2>3. f \in Named /\ f \notin Decided /\ source[f] # Gone BY <1>0, <1>7, ConsiderIs
  <2>4. CASE /\ job = "sync" /\ Verdict(source[f], mirror.present[f], memory[f]) = "skipped"
             /\ mirror'.verdict = [mirror.verdict EXCEPT ![f] = "skipped"]
             /\ Decided' = Decided \cup {f}
    <3>1. Landing(f) = f BY <2>4, LandsAt
    <3>2. \/ f \in changed \/ <<f, RemoteStamp(server[f])>> \in mixed
          \/ server[f].content = source[f]
      BY <2>3, <2>4, SkippedIs
    <3>3. /\ mirror'.verdict[f] = "skipped"
          /\ \A g \in Decided : g # f /\ mirror'.verdict[g] = mirror.verdict[g]
      BY <1>0, <2>2, <2>3, <2>4
    <3> QED BY <1>0, <1>1, <1>2, <2>1, <2>4, <3>1, <3>2, <3>3 DEF Kept
  <2>5. CASE /\ \E v \in Verdicts : mirror'.verdict = [mirror.verdict EXCEPT ![f] = v]
             /\ Decided' = Decided
    <3>1. \A g \in Decided : mirror'.verdict[g] = mirror.verdict[g] BY <1>0, <2>2, <2>3, <2>5
    <3> QED BY <1>3, <2>1, <2>5, <3>1
  <2> QED BY <1>0, <1>7, <2>4, <2>5, ConsiderIs
<1>8. ASSUME NEW w \in Worker, StepOf(w) PROVE Kept'
  <2> DEFINE h == pool.held[w]
  <2>1. /\ UNCHANGED <<source, changed>> /\ mirror'.verdict = mirror.verdict
    BY <1>0, <1>8, ServerSteps
  <2>2. mixed \subseteq mixed'
    BY <1>8 DEF StepOf, SendBegin, SendEnd, Mixes, Measure, StatLanded, Record, history
  <2>3. CASE UNCHANGED server /\ ~SendEnd(w) /\ ~Measure(w)
    <3>1. Decided' = Decided
      <4>1. UNCHANGED mirror BY <1>8, <2>3 DEF StepOf, SendBegin, StatLanded, Record
      <4> QED BY <4>1 DEF Decided
    <3> QED BY <1>3, <2>1, <2>2, <2>3, <3>1
  <2>4. CASE Measure(w) BY <1>1, <2>4 DEF Measure, Kept
  <2>5. ASSUME h \in File, h \notin Decided, h \in Handling, Landing(h) \in File,
               \A g \in File \ {Landing(h)} : server'[g] = server[g],
               NEW g \in Decided, job # "preview"
        PROVE  \/ {g, Landing(g)} \cap changed' # {}
               \/ mirror'.verdict[g] = "skipped" /\ <<g, RemoteStamp(server'[g])>> \in mixed'
               \/ server'[Landing(g)].content = source'[g]
    <3>1. g \in File /\ g \in Met /\ h \in Met /\ g # h BY <1>0, <2>5 DEF Met
    <3>2. Landing(g) # Landing(h) BY <3>1 DEF Sorted
    <3>3. Landing(g) \in File BY <3>1, LandsAt
    <3>4. server'[Landing(g)] = server[Landing(g)] BY <2>5, <3>2, <3>3
    <3>5. mirror.verdict[g] = "skipped" => server'[g] = server[g]
      <4>1. mirror.verdict[g] = "skipped" => job = "sync" BY <3>1 DEF Fresh
      <4>2. job = "sync" => Landing(g) = g BY <3>1, LandsAt
      <4> QED BY <3>4, <4>1, <4>2
    <3> QED BY <2>1, <2>2, <2>5, <3>4, <3>5 DEF Kept
  <2>6. CASE SendBegin(w)
    <3>1. Decided' = Decided BY <2>6 DEF SendBegin, Decided
    <3>2. CASE UNCHANGED server BY <1>3, <2>1, <2>2, <3>1, <3>2
    <3>3. CASE ~UNCHANGED server
      <4>1. /\ h \in File /\ h \notin Decided /\ h \in Handling /\ Landing(h) \in File
            /\ \A g \in File \ {Landing(h)} : server'[g] = server[g]
        BY <1>0, <1>8, <3>3, ServerSteps
      <4> QED BY <1>0, <1>1, <1>2, <2>5, <3>1, <4>1 DEF Kept
    <3> QED BY <3>2, <3>3
  <2>7. CASE SendEnd(w)
    <3>1. /\ h # NoItem /\ h \notin Decided /\ Decided' = Decided \cup {h} /\ job # "preview"
          /\ sending[w].phase = "sending"
      BY <1>0, <2>7, EndIs
    <3>2. h \in File /\ h \in Handling /\ Landing(h) \in File /\ Sent(w) = h BY <1>0, <3>1, HeldIs
    <3>3. PICK c \in {sending[w].content, source[h]} : server' = [server EXCEPT ![Landing(h)] = Copy(c, h)]
      BY <2>7, <3>2 DEF SendEnd, Copy
    <3>4. /\ \A g \in File \ {Landing(h)} : server'[g] = server[g]
          /\ server'[Landing(h)] = Copy(c, h)
      BY <3>2, <3>3 DEF SyncTypeOK
    <3>5. h \in changed \/ server'[Landing(h)].content = source[h]
      <4>1. (h \in tainted => h \in changed) /\ (h \in tainted \/ sending[w].content = source[h])
        BY <3>1 DEF OnItsWay
      <4> QED BY <3>3, <3>4, <4>1 DEF Copy
    <3> QED BY <1>0, <1>1, <1>2, <2>1, <2>5, <3>1, <3>2, <3>4, <3>5 DEF Kept
  <2>8. StatLanded(w) \/ Record(w) => UNCHANGED server BY DEF StatLanded, Record
  <2> QED BY <1>8, <2>3, <2>4, <2>6, <2>7, <2>8 DEF StepOf
<1>9. CASE NextRun
  <2>1. Decided' = {} BY <1>9, NextRunIs
  <2> QED BY <2>1 DEF Kept
<1>10. CASE Kill
  <2>1. Decided' = Decided /\ UNCHANGED <<server, source, changed, mixed, mirror>>
    BY <1>0, <1>10, KillSorts DEF Kill, history
  <2> QED BY <1>3, <2>1
<1>11. ASSUME NEW f \in File, Interfere(f) \/ \E v \in Version \cup {Gone} : Edit(f, v)
       PROVE  Kept'
  <2>1. /\ UNCHANGED <<mirror, mixed>> /\ changed' = changed \cup {f} /\ Decided' = Decided
        /\ \A g \in File \ {f} : source'[g] = source[g] /\ server'[g] = server[g]
    BY <1>0, <1>11, OtherSteps
  <2>2. ASSUME NEW g \in Decided, job # "preview"
        PROVE  \/ {g, Landing(g)} \cap changed' # {}
               \/ mirror'.verdict[g] = "skipped" /\ <<g, RemoteStamp(server'[g])>> \in mixed'
               \/ server'[Landing(g)].content = source'[g]
    <3>1. g \in File /\ Landing(g) \in File BY <1>0, LandsAt
    <3>2. CASE f \in {g, Landing(g)} BY <2>1, <3>2
    <3>3. CASE f \notin {g, Landing(g)}
      <4>1. server'[g] = server[g] /\ source'[g] = source[g]
            /\ server'[Landing(g)] = server[Landing(g)]
        BY <2>1, <3>1, <3>3
      <4> QED BY <2>1, <2>2, <4>1 DEF Kept
    <3> QED BY <3>2, <3>3
  <2> QED BY <1>0, <1>1, <1>2, <2>1, <2>2 DEF Kept
<1> QED BY <1>0, <1>4, <1>5, <1>6, <1>7, <1>8, <1>9, <1>10, <1>11, StepKinds DEF Walking

-------------------------------------------------------------------------------
(* A run over what did not change *)

\* The parts of Quiet.
Unchanged == calm # "no" => changed = {}
Saved == ended = "returned" /\ job = "sync" => manifest.entries = memory
Recorded == calm = "so_far" /\ job = "sync" /\ laconic = "nowhere" /\ Sound =>
               \A f \in Decided \ Handling : Matches(f, memory[f])
Settled ==
    calm = "settled" =>
          /\ job = "sync" /\ laconic = "nowhere" /\ Handling = {}
          /\ \A f \in File : source[f] # Gone =>
                Matches(f, memory[f]) /\ manifest.entries[f] = memory[f]
          /\ \A f \in File : mirror.verdict[f] \in {"none", "skipped"}
LEMMA QuietParts == /\ Quiet <=> Unchanged /\ Saved /\ Recorded /\ Settled
                    /\ Quiet' <=> Unchanged' /\ Saved' /\ Recorded' /\ Settled'
BY DEF Quiet, Unchanged, Saved, Recorded, Settled, Sound

LEMMA SavedKeeps ==
    ASSUME SyncTypeOK, Pooled, Sorted, Saved, [SyncNext]_<<syncVars, pool>>
    PROVE  Saved'
<1>0. Pool1(pool) /\ UNCHANGED job BY PooledParts, GivenStays DEF given
<1>1. CASE Idling
  <2>1. CASE UNCHANGED <<ended, manifest>> /\ UNCHANGED memory BY <1>0, <2>1 DEF Saved
  <2>2. CASE EndRun
    <3>1. ended' = "returned" => manifest' = Rewritten
      BY <2>2 DEF EndRun, SyncTypeOK, Errors
    <3>2. UNCHANGED memory BY <2>2 DEF EndRun
    <3> QED BY <1>0, <3>1, <3>2 DEF Saved, Rewritten
  <2> QED BY <1>1, <2>1, <2>2 DEF Idling
<1>2. CASE Walking
  <2>1. UNCHANGED <<memory, manifest, ended>>
    BY <1>2 DEF Walking, EnterDirectory, StartMany, Consider
  <2> QED BY <1>0, <2>1 DEF Saved
<1>3. ASSUME NEW w \in Worker, StepOf(w) PROVE Saved'
  <2>1. pool.held[w] # NoItem /\ UNCHANGED ended
    BY <1>3 DEF StepOf, SendBegin, SendEnd, Measure, StatLanded, Record, Reached, Sent
  <2>2. ended = "none" BY <2>1, Running
  <2> QED BY <2>1, <2>2 DEF Saved
<1>4. NextRun \/ Kill => Saved' BY DEF NextRun, Kill, Saved
<1>5. ASSUME NEW f \in File, Interfere(f) \/ \E v \in Version \cup {Gone} : Edit(f, v)
      PROVE  Saved'
  <2>1. UNCHANGED <<memory, manifest, ended>> BY <1>0, <1>5, OtherSteps
  <2> QED BY <1>0, <2>1 DEF Saved
<1> QED BY <1>0, <1>1, <1>2, <1>3, <1>4, <1>5, StepKinds

LEMMA RecordedKeeps ==
    ASSUME SyncTypeOK, Pooled, Sorted, Fresh, Truth, OnItsWay, Unchanged, Recorded,
           [SyncNext]_<<syncVars, pool>>
    PROVE  Recorded'
<1>0. PoolTyped(pool) /\ Pool1(pool) /\ Decided \subseteq File BY TypeParts, PooledParts, SetsTyped
<1>1. UNCHANGED <<job, laconic>> BY GivenStays DEF given
<1>2. CASE Idling
  <2>1. Decided' = Decided /\ UNCHANGED <<server, source, memory, calm>>
    BY <1>0, <1>2, PassingIs DEF Idling, history
  <2>2. Sound' => Sound /\ Handling' = Handling
    <3>1. CASE UNCHANGED ended BY <1>2, <3>1 DEF Idling, Sound
    <3>2. CASE EndRun
      <4>1. ended # "killed" BY <3>2 DEF EndRun
      <4> QED BY <1>2, <4>1 DEF Idling, Sound
    <3> QED BY <1>2, <3>1, <3>2 DEF Idling
  <2> QED BY <1>0, <1>1, <2>1, <2>2 DEF Recorded, Matches
<1>3. CASE EnterDirectory
  <2>1. /\ Decided' = Decided /\ Handling' = Handling
        /\ UNCHANGED <<server, source, memory, calm, pool, ended>>
    BY <1>3, EnterSorts DEF EnterDirectory, history
  <2> QED BY <1>0, <1>1, <2>1 DEF Recorded, Matches, Sound
<1>4. CASE StartMany /\ pool'.error = "none"
  <2>1. Decided' = {} BY <1>4, StartIs
  <2> QED BY <2>1 DEF Recorded
<1>5. ASSUME NEW f \in File, Consider(f), pool'.error = "none" PROVE Recorded'
  <2>1. UNCHANGED <<server, source, memory, calm, ended, changed>> BY <1>5 DEF Consider, history
  <2>2. Sound' => Sound BY <1>5, <2>1 DEF Consider, Producing, Sound
  <2>3. f \in Named /\ \/ /\ job = "sync" /\ Verdict(source[f], mirror.present[f], memory[f]) = "skipped"
                          /\ Decided' = Decided \cup {f} /\ Handling' = Handling
                       \/ Decided' = Decided /\ Handling' = Handling \cup {f}
    BY <1>0, <1>5, ConsiderIs
  <2>4. CASE Decided' = Decided /\ Handling' = Handling \cup {f}
    BY <1>0, <1>1, <2>1, <2>2, <2>4 DEF Recorded, Matches
  <2>5. CASE /\ job = "sync" /\ Verdict(source[f], mirror.present[f], memory[f]) = "skipped"
             /\ Decided' = Decided \cup {f} /\ Handling' = Handling
    <3>1. calm = "so_far" => Matches(f, memory[f]) BY <2>3, <2>5, SkippedIs DEF Unchanged
    <3> QED BY <1>0, <1>1, <2>1, <2>2, <2>5, <3>1 DEF Recorded, Matches
  <2> QED BY <2>3, <2>4, <2>5
<1>6. ASSUME NEW w \in Worker, StepOf(w), job = "sync" PROVE Recorded'
  <2> DEFINE h == pool.held[w]
  <2>1. /\ UNCHANGED <<source, calm, ended, changed>>
    BY <1>6 DEF StepOf, SendBegin, SendEnd, Measure, StatLanded, Record, history
  <2>2. pool'.error = pool.error
    BY <1>0, <1>6 DEF StepOf, SendBegin, SendEnd, Measure, StatLanded, Record, Handled, PoolTyped
  <2>3. Sound' <=> Sound BY <2>1, <2>2 DEF Sound
  <2>4. CASE SendBegin(w) \/ SendEnd(w)
    <3>1. /\ h \notin Decided /\ h # NoItem /\ UNCHANGED pool
          /\ Decided' = Decided \/ Decided' = Decided \cup {h}
      <4>1. SendBegin(w) => Decided' = Decided BY DEF SendBegin, Decided
      <4> QED BY <1>0, <1>6, <2>4, <4>1, BeginIs, EndIs
    <3>2. h \in Handling /\ Handling' = Handling /\ h \in File
      BY <1>0, <3>1, HeldIs DEF Handling
    <3>3. Landing(h) = h /\ UNCHANGED memory BY <1>6, <2>4, <3>2, LandsAt DEF SendBegin, SendEnd
    <3>4. \A g \in File \ {h} : server'[g] = server[g]
      BY <1>0, <1>6, <3>3, ServerSteps
    <3>5. \A g \in Decided' \ Handling' : g \in Decided \ Handling /\ server'[g] = server[g]
      BY <1>0, <3>1, <3>2, <3>4
    <3> QED BY <1>1, <2>1, <2>3, <3>3, <3>5 DEF Recorded, Matches
  <2>5. CASE StatLanded(w)
    <3>1. UNCHANGED <<server, memory, mirror, pool>> BY <2>5 DEF StatLanded
    <3>2. Decided' = Decided /\ Handling' = Handling BY <3>1 DEF Decided, Handling
    <3> QED BY <1>1, <2>1, <2>3, <3>1, <3>2 DEF Recorded, Matches
  <2>6. CASE Measure(w) BY <1>6, <2>6 DEF Measure
  <2>7. CASE Record(w)
    <3>1. /\ h \in Decided /\ source[h] \in Version /\ h # NoItem /\ sending[w].phase = "landed"
          /\ Handling' = Handling \ {h} /\ Passing
      BY <1>0, <2>7, RecordIs
    <3>2. Decided' = Decided BY <1>0, <3>1, PassingIs
    <3>3. h \in File /\ Sent(w) = h BY <1>0, <3>1, HeldIs
    <3> SUFFICES ASSUME calm = "so_far", laconic = "nowhere", Sound,
                        NEW g \in Decided' \ Handling'
                 PROVE  Matches(g, memory[g])'
      BY <1>1, <2>1, <2>3 DEF Recorded
    <3>4. UNCHANGED server
          /\ memory' = [memory EXCEPT ![h] = [local |-> LocalStamp(source[h]), remote |-> sending[w].landed]]
      BY <2>7, <3>3 DEF Record, Remembered
    <3>5. CASE g = h
      <4>1. memory'[h] = [local |-> LocalStamp(source[h]), remote |-> sending[w].landed]
        BY <3>3, <3>4 DEF SyncTypeOK
      <4>2. sending[w].landed # <<>> /\ (h \in changed \/ sending[w].landed = RemoteStamp(server[h]))
        BY <3>1 DEF OnItsWay
      <4>3. sending[w].landed = RemoteStamp(server[h]) BY <4>2 DEF Unchanged
      <4>4. server[h] # NoFile BY <4>2, <4>3 DEF RemoteStamp
      <4>5. LocalStamp(source[h]) # <<>> BY <3>1, StampsTyped
      <4>6. memory'[h] # NoEntry BY <4>1, <4>5 DEF NoEntry
      <4>7. memory'[h].local = LocalStamp(source[h]) /\ memory'[h].remote = RemoteStamp(server[h])
        BY <4>1, <4>3
      <4> QED BY <2>1, <3>4, <3>5, <4>4, <4>6, <4>7 DEF Matches
    <3>6. CASE g # h
      <4>1. g \in Decided \ Handling /\ g \in File BY <1>0, <3>1, <3>2, <3>6
      <4>2. memory'[g] = memory[g] BY <3>4, <3>6, <4>1 DEF SyncTypeOK
      <4>3. Matches(g, memory[g]) BY <1>6, <4>1 DEF Recorded
      <4> QED BY <2>1, <3>4, <4>2, <4>3 DEF Matches
    <3> QED BY <3>5, <3>6
  <2> QED BY <1>6, <2>4, <2>5, <2>6, <2>7 DEF StepOf
<1>7. CASE NextRun
  <2>1. Decided' = {} BY <1>7, NextRunIs
  <2> QED BY <2>1 DEF Recorded
<1>8. CASE Kill BY <1>8 DEF Kill, Recorded, Sound
<1>9. ASSUME NEW f \in File, Interfere(f) \/ \E v \in Version \cup {Gone} : Edit(f, v)
      PROVE  Recorded'
  <2>1. calm' = "no" BY <1>0, <1>9, OtherSteps
  <2> QED BY <2>1 DEF Recorded
<1>10. job # "sync" => Recorded' BY <1>1 DEF Recorded
<1> QED BY <1>0, <1>2, <1>3, <1>4, <1>5, <1>6, <1>7, <1>8, <1>9, <1>10, StepKinds DEF Walking

LEMMA UnchangedKeeps ==
    ASSUME SyncTypeOK, Pool1(pool), Sorted, Unchanged, [SyncNext]_<<syncVars, pool>>
    PROVE  Unchanged'
<1>1. CASE Idling BY <1>1 DEF Idling, history, Unchanged
<1>2. CASE Walking
  BY <1>2 DEF Walking, EnterDirectory, StartMany, Consider, history, Unchanged
<1>3. ASSUME NEW w \in Worker, StepOf(w) PROVE Unchanged'
  BY <1>3 DEF StepOf, SendBegin, SendEnd, Measure, StatLanded, Record, history, Unchanged
<1>4. NextRun \/ Kill => Unchanged' BY DEF NextRun, Kill, history, Unchanged
<1>5. ASSUME NEW f \in File, Interfere(f) \/ \E v \in Version \cup {Gone} : Edit(f, v)
      PROVE  Unchanged'
  <2>1. calm' = "no" BY <1>5, OtherSteps
  <2> QED BY <2>1 DEF Unchanged
<1> QED BY <1>1, <1>2, <1>3, <1>4, <1>5, StepKinds

LEMMA SettledKeeps ==
    ASSUME SyncTypeOK, Pooled, Sorted, Covered, Fresh, Truth, Unchanged, Saved, Recorded, Settled,
           [SyncNext]_<<syncVars, pool>>
    PROVE  Settled'
<1>0. PoolTyped(pool) /\ Pool1(pool) /\ Decided \subseteq File BY TypeParts, PooledParts, SetsTyped
<1>1. UNCHANGED <<job, laconic>> BY GivenStays DEF given
<1>2. ASSUME UNCHANGED <<server, source, memory, calm>>, calm = "settled" => Handling' = {},
             calm = "settled" => \A f \in File : manifest'.entries[f] \in {manifest.entries[f], memory[f]},
             calm = "settled" => \A f \in File : mirror'.verdict[f] \in {mirror.verdict[f], "none", "skipped"}
      PROVE  Settled'
  <2>1. calm = "settled" => \A f \in File : source[f] # Gone =>
           Matches(f, memory[f])' /\ manifest'.entries[f] = memory'[f]
    BY <1>2 DEF Settled, Matches
  <2>2. calm = "settled" => \A f \in File : mirror'.verdict[f] \in {"none", "skipped"}
    BY <1>2 DEF Settled
  <2> QED BY <1>1, <1>2, <2>1, <2>2 DEF Settled
<1>3. CASE Idling
  <2>1. Handling' \subseteq Handling /\ UNCHANGED <<server, source, memory, calm, mirror>>
    BY <1>0, <1>3, PassingIs DEF Idling, history
  <2>2. manifest' = manifest \/ manifest' = Rewritten BY <1>3 DEF Idling, EndRun
  <2>3. \A f \in File : manifest'.entries[f] \in {manifest.entries[f], memory[f]}
    BY <2>2 DEF Rewritten
  <2> QED BY <1>2, <2>1, <2>3 DEF Settled
<1>4. CASE EnterDirectory
  <2>1. /\ Handling' = Handling /\ mirror'.verdict = mirror.verdict
        /\ UNCHANGED <<server, source, memory, calm, manifest>>
    BY <1>4, EnterSorts DEF EnterDirectory, history, SyncTypeOK
  <2> QED BY <1>2, <2>1 DEF Settled
<1>5. CASE StartMany /\ pool'.error = "none"
  <2>1. job = "many" /\ UNCHANGED calm BY <1>5, StartIs DEF StartMany, history
  <2> QED BY <2>1 DEF Settled
<1>6. ASSUME NEW f \in File, Consider(f), pool'.error = "none" PROVE Settled'
  <2>1. UNCHANGED <<server, source, memory, calm, manifest>> BY <1>6 DEF Consider, history
  <2>2. mirror.verdict \in [File -> Verdicts] BY DEF SyncTypeOK
  <2>3. f \in Named /\ source[f] # Gone BY <1>0, <1>6, ConsiderIs
  <2>4. ASSUME calm = "settled"
        PROVE  job = "sync" /\ Verdict(source[f], mirror.present[f], memory[f]) = "skipped"
    <3>1. /\ mirror.present[f] = RemoteStamp(server[f]) /\ job = "sync" /\ laconic = "nowhere"
          /\ Matches(f, memory[f])
      BY <2>3, <2>4 DEF Fresh, Unchanged, Settled
    <3>2. server[f] \in Copies BY DEF SyncTypeOK
    <3>3. mirror.present[f] # <<>> BY <3>1, <3>2, StampsTyped DEF Matches
    <3> QED BY <3>1, <3>3 DEF Matches, Verdict
  <2>5. calm = "settled" =>
           Handling' = Handling /\ mirror'.verdict = [mirror.verdict EXCEPT ![f] = "skipped"]
    BY <1>0, <1>6, <2>4, ConsiderIs
  <2>6. calm = "settled" => \A g \in File : mirror'.verdict[g] \in {mirror.verdict[g], "skipped"}
    BY <2>2, <2>5
  <2> QED BY <1>2, <2>1, <2>5, <2>6 DEF Settled
<1>7. ASSUME NEW w \in Worker, StepOf(w) PROVE Settled'
  <2>1. pool.held[w] # NoItem /\ UNCHANGED calm
    BY <1>7 DEF StepOf, SendBegin, SendEnd, Measure, StatLanded, Record, Reached, Sent, history
  <2>2. Handling # {} BY <1>0, <2>1, HeldIs
  <2> QED BY <2>1, <2>2 DEF Settled
<1>8. CASE NextRun
  <2>1. /\ Handling' = {} /\ job = "sync" /\ UNCHANGED <<server, source, manifest>>
        /\ memory' = manifest.entries /\ mirror' = NoMirror
    BY <1>8, NextRunIs DEF NextRun
  <2>2. \A f \in File : mirror'.verdict[f] = "none" BY <2>1, NoMirrorTyped
  <2>3. calm' = "settled" =>
           calm = "settled" \/ (calm = "so_far" /\ ended = "returned" /\ laconic = "nowhere")
    BY <1>8 DEF NextRun
  <2>4. CASE calm = "settled"
    BY <1>1, <2>1, <2>2, <2>4 DEF Settled, Matches
  <2>5. CASE calm = "so_far" /\ ended = "returned" /\ laconic = "nowhere"
    <3>1. Sound /\ pool.gen = "closed" /\ Handling = {} /\ manifest.entries = memory
      <4>1. pool.over BY <2>5 DEF Pooled
      <4>2. Handling = {} BY <4>1 DEF Pooled, Handling
      <4> QED BY <2>1, <2>5, <4>1, <4>2 DEF Covered, Sound, Pooled, Saved
    <3>2. mirror.dirs = <<>> /\ Named = {}
      <4>1. mirror.dirs = <<>> /\ mirror.names = <<>> BY <3>1 DEF Covered
      <4> QED BY <4>1, EmptySet DEF Named
    <3>3. changed = {} BY <2>5 DEF Unchanged
    <3>4. \A f \in File : source[f] # Gone => f \in Decided
      BY <2>1, <3>1, <3>2, <3>3 DEF Covered, Ahead, Met
    <3>5. \A f \in File : source[f] # Gone => Matches(f, memory[f])
      BY <2>1, <2>5, <3>1, <3>4 DEF Recorded
    <3> QED BY <1>1, <2>1, <2>2, <2>5, <3>1, <3>5 DEF Settled, Matches
  <2> QED BY <2>3, <2>4, <2>5 DEF Settled
<1>9. CASE Kill
  <2>1. Handling' = {} /\ UNCHANGED <<server, source, memory, calm, manifest, mirror>>
    BY <1>0, <1>9, KillSorts DEF Kill, history
  <2> QED BY <1>2, <2>1
<1>10. ASSUME NEW f \in File, Interfere(f) \/ \E v \in Version \cup {Gone} : Edit(f, v)
       PROVE  Settled'
  <2>1. calm' = "no" BY <1>0, <1>10, OtherSteps
  <2> QED BY <2>1 DEF Settled
<1> QED BY <1>0, <1>3, <1>4, <1>5, <1>6, <1>7, <1>8, <1>9, <1>10, StepKinds DEF Walking

-------------------------------------------------------------------------------
(* The times of the directories *)

LEMMA DatingKeeps ==
    ASSUME SyncTypeOK, Pooled, Sorted, Covered, Dating, [SyncNext]_<<syncVars, pool>>
    PROVE  Dating'
<1> DEFINE Listed == preserve /\ job \in {"sync", "tree"} =>
                        Place \ {Dirs[1]} \subseteq ToSet(mirror.times) \cup ToSet(mirror.dirs)
<1>0. PoolTyped(pool) /\ Pool1(pool) /\ Listed /\ RemoteTimesStick
  BY TypeParts, PooledParts DEF Dating
<1>1. UNCHANGED <<job, preserve>> BY GivenStays DEF given
<1>2. Dating' <=> Listed' /\ RemoteTimesStick' BY DEF Dating
<1>3. ASSUME mirror'.times = mirror.times, mirror'.dirs = mirror.dirs,
             UNCHANGED <<ended, dated>> \/ ended' # "returned"
      PROVE  Dating'
  BY <1>0, <1>1, <1>2, <1>3 DEF RemoteTimesStick
<1>4. CASE Idling
  <2>1. UNCHANGED mirror BY <1>4 DEF Idling, Passing
  <2>2. CASE UNCHANGED <<ended, dated>> BY <1>3, <2>1, <2>2
  <2>3. CASE EndRun
    <3>1. CASE ended' # "returned" BY <1>3, <2>1, <3>1
    <3>2. CASE ended' = "returned"
      <4>1. pool.error = "none" /\ pool.over /\ ended = "none"
            /\ (job \in {"sync", "tree"} => dated' = DirectoriesDated)
        BY <2>3, <3>2 DEF EndRun, SyncTypeOK, Errors
      <4>2. mirror.dirs = <<>> BY <4>1 DEF Covered, Sound, Pooled
      <4>3. ToSet(mirror.dirs) = {} BY <4>2, EmptySet
      <4>4. RemoteTimesStick'
        BY <1>0, <1>1, <4>1, <4>3 DEF RemoteTimesStick, DirectoriesDated, Place
      <4> QED BY <1>0, <1>1, <1>2, <2>1, <4>4
    <3> QED BY <3>1, <3>2
  <2> QED BY <1>4, <2>2, <2>3 DEF Idling
<1>5. CASE EnterDirectory
  <2> DEFINE d == Head(mirror.dirs)
  <2>1. /\ d \in Place /\ ToSet(mirror.dirs) = ToSet(mirror'.dirs) \cup {d}
    BY <1>5, EnterSorts
  <2>2. mirror'.times = IF preserve /\ d # Dirs[1] THEN Append(mirror.times, d) ELSE mirror.times
    BY <1>5 DEF EnterDirectory, SyncTypeOK
  <2>3. mirror.times \in Seq(Place) BY DEF SyncTypeOK
  <2>4. ToSet(Append(mirror.times, d)) = ToSet(mirror.times) \cup {d} BY <2>1, <2>3, InjAppend
  <2>5. ended' = "none" BY <1>5 DEF EnterDirectory, Mirroring
  <2>6. Listed' BY <1>0, <1>1, <2>1, <2>2, <2>4
  <2> QED BY <1>2, <2>5, <2>6 DEF RemoteTimesStick
<1>6. CASE StartMany
  <2>1. job = "many" BY <1>6 DEF StartMany
  <2> QED BY <1>1, <1>2, <2>1 DEF RemoteTimesStick
<1>7. ASSUME NEW f \in File, Consider(f) PROVE Dating'
  <2>1. mirror'.times = mirror.times /\ mirror'.dirs = mirror.dirs /\ UNCHANGED <<ended, dated>>
    BY <1>7 DEF Consider, SyncTypeOK
  <2> QED BY <1>3, <2>1
<1>8. ASSUME NEW w \in Worker, StepOf(w) PROVE Dating'
  <2>1. pool.held[w] # NoItem /\ UNCHANGED ended
        /\ mirror'.times = mirror.times /\ mirror'.dirs = mirror.dirs
    BY <1>8 DEF StepOf, SendBegin, SendEnd, Measure, StatLanded, Record, Reached, Sent, SyncTypeOK
  <2>2. ended = "none" BY <2>1, Running
  <2> QED BY <1>3, <2>1, <2>2
<1>9. CASE NextRun
  <2>1. mirror'.dirs = Dirs /\ ended' = "none" BY <1>9, NoMirrorTyped DEF NextRun
  <2> QED BY <1>2, <2>1 DEF RemoteTimesStick, Place
<1>10. CASE Kill
  <2>1. UNCHANGED mirror /\ ended' = "killed" BY <1>10 DEF Kill
  <2> QED BY <1>3, <2>1
<1>11. ASSUME NEW f \in File, Interfere(f) \/ \E v \in Version \cup {Gone} : Edit(f, v)
       PROVE  Dating'
  <2>1. UNCHANGED <<mirror, ended, dated>> BY <1>0, <1>11, OtherSteps
  <2> QED BY <1>3, <2>1
<1> QED BY <1>0, <1>4, <1>5, <1>6, <1>7, <1>8, <1>9, <1>10, <1>11, StepKinds DEF Walking

-------------------------------------------------------------------------------
(* The invariant and the properties *)

LEMMA IndInvHolds == SyncInit => IndInv
<1> SUFFICES ASSUME SyncInit PROVE IndInv OBVIOUS
<1>1. SyncTypeOK BY InitiallyTyped
<1>2. /\ mirror = NoMirror /\ pool = NewPool /\ \A w \in Worker : sending[w] = Idle
      /\ ended = "none" /\ runs = 1 /\ changed = {} /\ calm = "so_far"
      /\ \A f \in File : server[f] = NoFile /\ memory[f] = NoEntry /\ manifest.entries[f] = NoEntry
  BY DEF SyncInit
<1>3. \A w \in Worker : sending[w].phase = "idle" BY <1>2, IdleTyped
<1>4. Sorted /\ Pool1(pool) /\ Met = {} /\ Named = {} /\ Decided = {} /\ Handling = {}
  BY <1>2, <1>3, AfreshSorts
<1>5. Pooled BY <1>2, <1>4, PooledParts
<1>6. Covered
  <2>1. pool.gen = "running" BY <1>2, NewPoolTyped
  <2>2. \A f \in File : Ahead(f) BY <1>2, NoMirrorTyped, Basics DEF Ahead, Place
  <2> QED BY <1>2, <1>4, <2>1, <2>2 DEF Covered
<1>7. Fresh BY <1>2, <1>4, NoMirrorTyped DEF Fresh
<1>8. Truth
  <2>1. \A f \in File : server[f].mtime = 0 BY <1>2 DEF NoFile
  <2>2. Now < 0 /\ Now \in Int BY <1>1, NowIs
  <2>3. \A f \in File : EntryTrue(f, NoEntry) BY DEF EntryTrue
  <2> QED BY <1>2, <2>1, <2>2, <2>3 DEF Truth
<1>9. OnItsWay BY <1>2, NewPoolTyped DEF OnItsWay
<1>10. Kept BY <1>4 DEF Kept
<1>11. Quiet BY <1>2, <1>4 DEF Quiet
<1>12. Dating BY <1>2, NoMirrorTyped DEF Dating, RemoteTimesStick, Place
<1> QED BY <1>1, <1>4, <1>5, <1>6, <1>7, <1>8, <1>9, <1>10, <1>11, <1>12 DEF IndInv

LEMMA IndInvKeeps == IndInv /\ [SyncNext]_<<syncVars, pool>> => IndInv'
<1> SUFFICES ASSUME IndInv, [SyncNext]_<<syncVars, pool>> PROVE IndInv' OBVIOUS
<1>1. /\ SyncTypeOK /\ Pooled /\ Sorted /\ Covered /\ Fresh /\ Truth /\ OnItsWay /\ Kept /\ Quiet
      /\ Dating
  BY DEF IndInv
<1>2. Unchanged /\ Saved /\ Recorded /\ Settled BY <1>1, QuietParts
<1>3. Pool1(pool) BY <1>1, PooledParts
<1>4. SyncTypeOK' /\ Pooled' /\ Sorted' BY <1>1, TypeKeeps, OrderKeeps
<1>5. Covered' /\ Fresh' BY <1>1, CoveredKeeps, FreshKeeps
<1>6. Truth' /\ OnItsWay' BY <1>1, TruthKeeps, WayKeeps
<1>7. Kept' /\ Dating' BY <1>1, KeptKeeps, DatingKeeps
<1>8. Unchanged' /\ Saved' BY <1>1, <1>2, <1>3, UnchangedKeeps, SavedKeeps
<1>9. Recorded' /\ Settled' BY <1>1, <1>2, RecordedKeeps, SettledKeeps
<1>10. Quiet' BY <1>8, <1>9, QuietParts
<1> QED BY <1>4, <1>5, <1>6, <1>7, <1>10 DEF IndInv

\* What a returned run has decided is all it found.
LEMMA CurrentThen == IndInv => MirrorIsCurrent
<1> SUFFICES ASSUME IndInv, ended = "returned" PROVE MirrorIsCurrent
  BY DEF MirrorIsCurrent
<1>1. SyncTypeOK /\ Pooled /\ Sorted /\ Covered /\ Kept BY DEF IndInv
<1>2. IsInjective(mirror.decided) BY <1>1 DEF Sorted
<1>3. Sound /\ pool.gen = "closed" /\ Handling = {}
  <2>1. pool.over BY <1>1 DEF Pooled
  <2>2. Handling = {} BY <1>1, <2>1 DEF Pooled, Handling
  <2> QED BY <1>1, <2>1, <2>2 DEF Covered, Sound, Pooled
<1>4. mirror.dirs = <<>> /\ Named = {}
  <2>1. mirror.dirs = <<>> /\ mirror.names = <<>> BY <1>1, <1>3 DEF Covered
  <2> QED BY <2>1, EmptySet DEF Named
<1>5. job # "many" => \A f \in File \ changed : (f \in Decided) = (source[f] # Gone)
  BY <1>1, <1>3, <1>4 DEF Covered, Ahead, Met
<1>6. job # "preview" => \A f \in Decided :
          \/ {f, Landing(f)} \cap changed # {}
          \/ mirror.verdict[f] = "skipped" /\ <<f, RemoteStamp(server[f])>> \in mixed
          \/ server[Landing(f)].content = source[f]
  BY <1>1 DEF Kept
<1> QED BY <1>2, <1>5, <1>6 DEF MirrorIsCurrent, Decided

LEMMA IndInvAlways == SyncSpec => []IndInv
BY IndInvHolds, IndInvKeeps, PTL DEF SyncSpec

\* A run of sync_tree, put_tree or put_many that returns has sent or skipped each file it
\* found once, and the server holds what the source holds, whatever earlier runs left in
\* the manifest and on the server: nothing is skipped (compare_for_sync) on the word of an
\* entry that is not true of what is there.
THEOREM MirrorHolds == SyncSpec => []MirrorIsCurrent
BY IndInvAlways, CurrentThen, PTL

\* The manifest a run leaves (record_entry, append_record, write_manifest) lets the next one
\* skip everything, as long as nothing changed since the run began that recorded it.
THEOREM RepeatHolds == SyncSpec => []RepeatIsQuiet
<1>1. IndInv => RepeatIsQuiet BY DEF IndInv, Quiet, RepeatIsQuiet
<1> QED BY <1>1, IndInvAlways, PTL

\* _set_directory_times comes after everything that changes what is in a directory, and
\* misses none of those that the walk met.
THEOREM RemoteTimesHold == SyncSpec => []RemoteTimesStick
<1>1. IndInv => RemoteTimesStick BY DEF IndInv, Dating
<1> QED BY <1>1, IndInvAlways, PTL
====
