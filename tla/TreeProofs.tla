------------------------------ MODULE TreeProofs ------------------------------
(***************************************************************************)
(* Proofs about Tree: a local file is only written for the first that      *)
(* claimed it, nothing is done through a link, directories keep the times  *)
(* the listing gave them, and a call that ends well has accounted for      *)
(* everything.                                                             *)
(*                                                                         *)
(* The first three have one invariant.  Whatever is between the walk and a *)
(* local file has claimed its name (Claimed, Pooled), a claim is never     *)
(* taken back, and two items are never handled under one claim.  What is   *)
(* pending was a directory when the call began (Walked), so nothing is     *)
(* opened that leads elsewhere, and what is to be removed was found.       *)
(*                                                                         *)
(* The last says where every place is while the call runs: found, listed,  *)
(* queued, handled, moved, told or settled, in one of these at a time      *)
(* (Sorted), and in one of them as soon as its directory has been listed   *)
(* (Covered).  At the end the first four are empty.                        *)
(***************************************************************************)
EXTENDS Tree, SequenceTheorems, FiniteSetTheorems, WellFoundedInduction, TLAPS

Item == Own \cup {NoItem}
\* Places known to be directories.
Directories == {n \in Own : initial[n] = "dir"}
Entry == [dir : Own, dirs : Seq(Directories), files : Seq(Own), skipped : Seq(Own)]
Errors == {"none", "server", "local", "value", "cancelled"}
Whats == {"none", "old", "dir", "empty", "part", "whole"}

TreeTypeOK ==
    /\ call \in Call /\ folding \in BOOLEAN /\ terse \in BOOLEAN
    /\ initial \in [Node -> Kind] /\ remote \in [Node -> Kind]
    /\ local \in [Inodes -> [is : Whats, of : Item]]
    /\ stamped \in [Inodes -> Item]
    /\ walk \in [pending : Seq(Directories), handle : BOOLEAN, unlisted : SUBSET Own,
                 entry : Entry, queue : Seq(Own), entries : Seq(Entry)]
    /\ state \in [claims : [Inodes -> Item], directories : SUBSET Own, moved : Seq(Own),
                  skipped : SUBSET Own, collisions : SUBSET Own, times : Seq(Own)]
    /\ doomed \in Seq([op : {"remove", "rmdir"}, node : Own])
    /\ pool \in [gen : {"running", "sending", "suspended", "closed"}, offered : Item,
                 held : [Worker -> Item], error : Errors, over : BOOLEAN]

\* The server's tree only loses what it had, and nothing of what is elsewhere.
Remaining ==
    /\ \A n \in Node : remote[n] \in {initial[n], "absent"}
    /\ \A n \in Outside : remote[n] = initial[n]

\* What is on the disk was claimed, and only a call that writes has written it.
Claimed ==
    /\ \A i \in Inodes : local[i].is \in {"part", "whole"} =>
          local[i].of \in Own /\ local[i].of = state.claims[i]
    /\ ~Actual => \A i \in Inodes : local[i].is \in {"none", "old", "dir"}
    /\ call.job = "remove" => walk.queue = <<>>

Claims(m) == m # NoItem => state.claims[Key(m)] = m
\* So was what is being handled or about to be, by one worker at a time.
Pooled ==
    /\ pool.over => pool.gen = "closed" /\ \A w \in Worker : pool.held[w] = NoItem
    /\ Claims(pool.offered) /\ \A w \in Worker : Claims(pool.held[w])
    /\ \A v, w \in Worker : v # w /\ pool.held[v] # NoItem => pool.held[v] # pool.held[w]
    /\ \A w \in Worker : pool.held[w] # NoItem => pool.held[w] # pool.offered

\* A walk that has ended well has nothing left to list, and rmtree then something to remove.
Walked ==
    /\ pool.gen = "closed" /\ pool.error = "none" => walk.pending = <<>> /\ ~walk.handle
    /\ call.job = "remove" /\ pool.error = "none" /\ outcome = "none" /\ doomed = <<>> =>
          walk.pending # <<>> \/ walk.handle \/ walk.entries # <<>>
    /\ doomed # <<>> => call.job = "remove"

IndInv == TreeTypeOK /\ Remaining /\ Claimed /\ Pooled /\ Walked /\ DirectoryTimesStick

-------------------------------------------------------------------------------
(* Names, sequences *)

LEMMA Jobs == call \in Call => call \in [job : {"tree", "preview", "remove", "list"}, depth : Nat,
                                        list : Seq(Own)]
BY TreeAssumption

LEMMA OwnNodes == Own \subseteq Node /\ NoItem \notin Own /\ Root \in Own
BY TreeAssumption DEF Own

\* Where a node goes is one of the places that are kept count of, and so is what its claim goes by.
LEMMA KeysAreInodes ==
    ASSUME NEW n \in Node
    PROVE  /\ Target(n) \in Inodes /\ Inode(n) \in Inodes /\ Key(n) \in Inodes
           /\ call.job # "preview" => Key(n) = Inode(n)
<1>1. Folded(<<Name[n]>>) = <<Fold[Name[n]]>>
  <2>1. DOMAIN <<Name[n]>> = {1} /\ <<Name[n]>>[1] = Name[n] OBVIOUS
  <2>2. Folded(<<Name[n]>>) = [i \in {1} |-> Fold[Name[n]]] BY <2>1 DEF Folded
  <2>3. <<Fold[Name[n]]>> = [i \in {1} |-> Fold[Name[n]]] OBVIOUS
  <2> QED BY <2>2, <2>3
<1>2. Path[n] \in Inodes /\ Folded(Path[n]) \in Inodes /\ <<Name[n]>> \in Inodes
      /\ <<Fold[Name[n]]>> \in Inodes
  BY DEF Inodes
<1>3. Target(n) \in Inodes /\ Folded(Target(n)) \in Inodes BY <1>1, <1>2 DEF Target
<1> QED BY <1>3 DEF Inode, Key

LEMMA FrontTyped ==
    ASSUME NEW S, NEW s \in Seq(S), s # <<>>
    PROVE  Front(s) \in Seq(S) /\ Last(s) \in S
<1>1. Len(s) \in Nat \ {0} /\ \A i \in 1 .. Len(s) : s[i] \in S BY EmptySeq
<1>2. Len(s) \in 1 .. Len(s) BY <1>1
<1> QED BY <1>1, <1>2, SubSeqProperties DEF Front, Last

LEMMA ReverseTyped ==
    ASSUME NEW S, NEW s \in Seq(S)
    PROVE  Reverse(s) \in Seq(S)
<1>1. Len(s) \in Nat /\ \A i \in 1 .. Len(s) : s[i] \in S OBVIOUS
<1>2. \A i \in 1 .. Len(s) : (Len(s) - i) + 1 \in 1 .. Len(s) BY <1>1
<1>3. \A i \in 1 .. Len(s) : s[(Len(s) - i) + 1] \in S BY <1>1, <1>2
<1> QED BY <1>1, <1>3 DEF Reverse

LEMMA AppendTyped ==
    ASSUME NEW S, NEW s \in Seq(S), NEW e \in S
    PROVE  Append(s, e) \in Seq(S) /\ Append(s, e) # <<>>
<1>1. Append(s, e) \in Seq(S) /\ Len(Append(s, e)) = Len(s) + 1 /\ Len(s) \in Nat OBVIOUS
<1>2. Len(<<>>) = 0 OBVIOUS
<1> QED BY <1>1, <1>2

LEMMA ElementsTyped ==
    ASSUME NEW S, NEW s \in Seq(S)
    PROVE  /\ ToSet(s) \subseteq S /\ DOMAIN s = 1 .. Len(s) /\ Len(s) \in Nat
           /\ \A i \in DOMAIN s : s[i] \in S
BY DEF ToSet

\* What rmtree removes for one directory: what the walk found in it, and itself.
LEMMA RemovalsTyped ==
    ASSUME NEW entry \in Entry
    PROVE  Removals(entry) \in Seq([op : {"remove", "rmdir"}, node : Own]) /\ Removals(entry) # <<>>
<1> DEFINE R == [op : {"remove", "rmdir"}, node : Own]
           leaves == entry.files \o entry.skipped
           first == [i \in DOMAIN leaves |-> [op |-> "remove", node |-> leaves[i]]]
           second == <<[op |-> "rmdir", node |-> entry.dir]>>
<1>1. leaves \in Seq(Own) BY ConcatProperties DEF Entry
<1> HIDE DEF leaves
<1>2. first \in Seq(R)
  <2>1. DOMAIN leaves = 1 .. Len(leaves) /\ Len(leaves) \in Nat
        /\ \A i \in 1 .. Len(leaves) : leaves[i] \in Own
    BY <1>1
  <2> QED BY <2>1
<1>3. second \in Seq(R) BY DEF Entry
<1> HIDE DEF R, first, second
<1>4. first \o second \in Seq(R) BY <1>2, <1>3, ConcatProperties
<1>5. second # <<>> BY DEF second
<1>6. first \o second # <<>> BY <1>2, <1>3, <1>5, ConcatSimplifications!concIsEmpty
<1>7. Removals(entry) = first \o second BY DEF Removals, first, second, leaves
<1> QED BY <1>4, <1>6, <1>7 DEF R

-------------------------------------------------------------------------------
(* The pool *)

\* What no step of the pool changes for the others: the claims of its items stand.
LEMMA PoolSteps ==
    ASSUME TreeTypeOK, Pooled, UNCHANGED <<call, folding, state>>,
           \/ \E w \in Worker : Take(w)
           \/ \E w \in Worker : Handled(w)
           \/ \E w \in Worker, e \in Errors : HandlerFails(w, e)
           \/ \E e \in Errors : ProducerFails(e)
           \/ Exhausted \/ CancelPool \/ Unwind \/ Join \/ UNCHANGED pool
    PROVE  /\ Pooled'
           /\ pool' \in [gen : {"running", "sending", "suspended", "closed"}, offered : Item,
                         held : [Worker -> Item], error : Errors, over : BOOLEAN]
           /\ pool.error # "none" => pool'.error # "none"
<1> DEFINE PoolTyped(p) == p \in [gen : {"running", "sending", "suspended", "closed"},
                     offered : Item, held : [Worker -> Item], error : Errors, over : BOOLEAN]
           Good(p) == /\ p.over => p.gen = "closed" /\ \A w \in Worker : p.held[w] = NoItem
                      /\ Claims(p.offered) /\ \A w \in Worker : Claims(p.held[w])
                      /\ \A v, w \in Worker : v # w /\ p.held[v] # NoItem => p.held[v] # p.held[w]
                      /\ \A w \in Worker : p.held[w] # NoItem => p.held[w] # p.offered
<1>1. PoolTyped(pool) /\ Good(pool) BY DEF TreeTypeOK, Pooled
<1>2. \A m : Claims(m)' <=> m # NoItem => state.claims[Key(m)] = m
  BY DEF Claims, Key, Inode, Target
<1>3. Claims(NoItem) BY DEF Claims
<1>4. SUFFICES PoolTyped(pool') /\ Good(pool') /\ (pool.error # "none" => pool'.error # "none")
  BY <1>2 DEF Pooled, Claims, Key, Inode, Target
<1>9. NoItem \in Item BY DEF Item
<1> HIDE DEF Claims
<1>5. ASSUME NEW w \in Worker, Take(w)
      PROVE  PoolTyped(pool') /\ Good(pool') /\ pool'.error = pool.error
  BY <1>1, <1>3, <1>5, <1>9 DEF Take
<1>6. ASSUME NEW w \in Worker, Handled(w)
      PROVE  PoolTyped(pool') /\ Good(pool') /\ pool'.error = pool.error
  BY <1>1, <1>3, <1>6, <1>9 DEF Handled
<1>7. ASSUME NEW w \in Worker, NEW e \in Errors, HandlerFails(w, e)
      PROVE  PoolTyped(pool') /\ Good(pool') /\ (pool.error # "none" => pool'.error # "none")
  BY <1>1, <1>3, <1>7, <1>9 DEF HandlerFails, Raised
<1>8. ASSUME NEW e \in Errors, ProducerFails(e)
      PROVE  PoolTyped(pool') /\ Good(pool') /\ (pool.error # "none" => pool'.error # "none")
  BY <1>1, <1>8 DEF ProducerFails, Producing
<1>10. ASSUME Exhausted \/ CancelPool \/ Join \/ UNCHANGED pool
       PROVE  PoolTyped(pool') /\ Good(pool') /\ (pool.error # "none" => pool'.error # "none")
  BY <1>1, <1>10 DEF Exhausted, Producing, CancelPool, Join, Errors
<1>11. ASSUME Unwind
       PROVE  PoolTyped(pool') /\ Good(pool') /\ (pool.error # "none" => pool'.error # "none")
  <2>1. CASE \E w \in Worker : pool.held[w] # NoItem /\ pool' = [pool EXCEPT !.held[w] = NoItem]
    BY <1>1, <1>3, <1>9, <1>11, <2>1 DEF Unwind
  <2>2. CASE pool.gen = "running" /\ pool' = [pool EXCEPT !.gen = "closed"]
    BY <1>1, <1>11, <2>2 DEF Unwind
  <2>3. CASE pool.gen = "sending" /\ pool' = [pool EXCEPT !.gen = "suspended", !.offered = NoItem]
    BY <1>1, <1>3, <1>9, <1>11, <2>3 DEF Unwind
  <2> QED BY <1>11, <2>1, <2>2, <2>3 DEF Unwind
<1> QED BY <1>5, <1>6, <1>7, <1>8, <1>10, <1>11

\* A claim is made where there was none, so those that stand are not disturbed.
LEMMA ClaimsStand ==
    ASSUME TreeTypeOK, UNCHANGED <<call, folding>>,
           \A i \in Inodes : state.claims[i] # NoItem => state'.claims[i] = state.claims[i]
    PROVE  \A m \in Item : Claims(m) => Claims(m)'
<1> SUFFICES ASSUME NEW m \in Item, Claims(m), m # NoItem PROVE state'.claims[Key(m)] = m
  BY DEF Claims, Key, Inode, Target
<1>1. m \in Node BY OwnNodes DEF Item
<1> QED BY <1>1, KeysAreInodes DEF Claims

\* The item that is offered is new: whoever has it has claimed its name.
LEMMA OfferStep ==
    ASSUME TreeTypeOK, Pooled, UNCHANGED <<call, folding>>, NEW n \in Own,
           Offer(n), Claimant(n) = NoItem, state'.claims = [state.claims EXCEPT ![Key(n)] = n]
    PROVE  /\ Pooled'
           /\ pool' \in [gen : {"running", "sending", "suspended", "closed"}, offered : Item,
                         held : [Worker -> Item], error : Errors, over : BOOLEAN]
           /\ pool'.error = "none" /\ pool'.gen # "closed"
<1>1. n \in Node /\ n \in Item /\ n # NoItem /\ NoItem \in Item /\ Key(n) \in Inodes
  BY OwnNodes, KeysAreInodes DEF Item
<1>2. state.claims \in [Inodes -> Item] BY DEF TreeTypeOK
<1>3. state'.claims[Key(n)] = n /\ state.claims[Key(n)] = NoItem
  BY <1>1, <1>2 DEF Claimant
<1>4. \A i \in Inodes : state.claims[i] # NoItem => state'.claims[i] = state.claims[i]
  BY <1>1, <1>2, <1>3
<1>5. \A m \in Item : Claims(m) => Claims(m)' BY <1>4, ClaimsStand
<1>6. Claims(n)' BY <1>3 DEF Claims, Key, Inode, Target
<1>7. \A m \in Item : Claims(m) => m # n BY <1>1, <1>3 DEF Claims
<1>8. Claims(NoItem)' BY DEF Claims
<1>9. /\ pool \in [gen : {"running", "sending", "suspended", "closed"}, offered : Item,
                   held : [Worker -> Item], error : Errors, over : BOOLEAN]
      /\ pool.gen = "running" /\ pool.error = "none" /\ ~pool.over
  BY DEF TreeTypeOK, Offer, Producing
<1>10. CASE Sequential
  <2>1. \A v, w \in Worker : v = w
    <3>1. IsFiniteSet(Worker) /\ Cardinality(Worker) = 1
      BY <1>10, PoolAssumption DEF Sequential
    <3>2. \E w : Worker = {w} BY <3>1, FS_Singleton
    <3> QED BY <3>2
  <2>2. pool' = [pool EXCEPT !.held = [w \in Worker |-> n], !.gen = "suspended"]
    BY <1>10 DEF Offer
  <2>3. /\ pool'.gen = "suspended" /\ pool'.error = "none" /\ ~pool'.over
        /\ pool'.offered = pool.offered /\ \A w \in Worker : pool'.held[w] = n
        /\ pool' \in [gen : {"running", "sending", "suspended", "closed"}, offered : Item,
                      held : [Worker -> Item], error : Errors, over : BOOLEAN]
    BY <1>1, <1>9, <2>2
  <2>4. Claims(pool.offered) BY DEF Pooled
  <2>5. Claims(pool.offered)' BY <1>5, <1>9, <2>3, <2>4 DEF Claims, Key, Inode, Target
  <2>6. \A w \in Worker : Claims(pool.held[w])'
    BY <1>6, <2>3 DEF Claims, Key, Inode, Target
  <2>7. pool.offered # n BY <1>7, <1>9, <2>4
  <2> QED BY <2>1, <2>3, <2>5, <2>6, <2>7 DEF Pooled
<1>11. CASE ~Sequential
  <2>2. pool' = [pool EXCEPT !.offered = n, !.gen = "sending"] BY <1>11 DEF Offer
  <2>3. /\ pool'.gen = "sending" /\ pool'.error = "none" /\ ~pool'.over
        /\ pool'.offered = n /\ \A w \in Worker : pool'.held[w] = pool.held[w]
        /\ pool' \in [gen : {"running", "sending", "suspended", "closed"}, offered : Item,
                      held : [Worker -> Item], error : Errors, over : BOOLEAN]
    BY <1>1, <1>9, <2>2
  <2>4. \A w \in Worker : pool.held[w] \in Item /\ Claims(pool.held[w]) BY <1>9 DEF Pooled
  <2>5. Claims(pool.offered)' BY <1>6, <2>3 DEF Claims, Key, Inode, Target
  <2>6. \A w \in Worker : Claims(pool.held[w])'
    BY <1>5, <2>3, <2>4 DEF Claims, Key, Inode, Target
  <2>7. \A w \in Worker : pool.held[w] # n BY <1>7, <2>4
  <2>8. \A v, w \in Worker : v # w /\ pool'.held[v] # NoItem => pool'.held[v] # pool'.held[w]
    BY <2>3 DEF Pooled
  <2> QED BY <2>3, <2>5, <2>6, <2>7, <2>8 DEF Pooled
<1> QED BY <1>10, <1>11

\* What is not touched: claims that stand, with what they are the claims of.
LEMMA PooledKept ==
    ASSUME TreeTypeOK, Pooled, UNCHANGED <<call, folding, pool>>,
           \A i \in Inodes : state.claims[i] # NoItem => state'.claims[i] = state.claims[i]
    PROVE  Pooled'
<1>1. \A m \in Item : Claims(m) => Claims(m)' BY ClaimsStand
<1>2. pool.offered \in Item /\ \A w \in Worker : pool.held[w] \in Item BY DEF TreeTypeOK
<1>3. Claims(pool.offered)' BY <1>1, <1>2 DEF Pooled, Claims, Key, Inode, Target
<1>4. \A w \in Worker : Claims(pool.held[w])'
  BY <1>1, <1>2 DEF Pooled, Claims, Key, Inode, Target
<1> QED BY <1>3, <1>4 DEF Pooled

-------------------------------------------------------------------------------
(* The invariant holds at first *)

LEMMA InitiallyInd == TreeInit => IndInv
<1> SUFFICES ASSUME TreeInit PROVE IndInv OBVIOUS
<1> USE DEF TreeInit
<1>1. call \in [job : {"tree", "preview", "remove", "list"}, depth : Nat, list : Seq(Own)]
  BY Jobs
<1>2. remote \in [Node -> Kind] /\ initial = remote /\ remote[Root] = "dir" BY TreeAssumption
<1>3. NoItem \in Item /\ Root \in Own /\ Root \in Directories /\ {} \subseteq Own
  BY <1>2, OwnNodes DEF Item, Directories
<1>4. local \in [Inodes -> [is : {"none", "old", "dir"}, of : Item]]
  BY <1>3 DEF Nothing
<1>5. walk \in [pending : Seq(Directories), handle : BOOLEAN, unlisted : SUBSET Own,
                entry : Entry, queue : Seq(Own), entries : Seq(Entry)]
  <2>1. NewEntry(Root) \in Entry
    <3>1. <<>> \in Seq(Directories) /\ <<>> \in Seq(Own) OBVIOUS
    <3> QED BY <1>3, <3>1 DEF NewEntry, Entry
  <2>2. <<>> \in Seq(Entry) /\ <<>> \in Seq(Own) /\ <<>> \in Seq(Directories)
        /\ <<Root>> \in Seq(Directories)
    BY <1>3
  <2> HIDE DEF TreeInit
  <2>3. walk = [pending |-> IF call.job = "list" THEN <<>> ELSE <<Root>>,
                handle |-> FALSE, unlisted |-> {}, entry |-> NewEntry(Root),
                queue |-> <<>>, entries |-> <<>>]
    BY DEF TreeInit
  <2> QED BY <1>3, <2>1, <2>2, <2>3
<1>6. /\ state \in [claims : [Inodes -> Item], directories : SUBSET Own, moved : Seq(Own),
                    skipped : SUBSET Own, collisions : SUBSET Own, times : Seq(Own)]
      /\ state.claims = [i \in Inodes |-> NoItem]
  <2>1. <<>> \in Seq(Own) OBVIOUS
  <2>2. state = NewState OBVIOUS
  <2> QED BY <1>3, <2>1, <2>2 DEF NewState
<1>7. /\ pool \in [gen : {"running", "sending", "suspended", "closed"}, offered : Item,
                   held : [Worker -> Item], error : Errors, over : BOOLEAN]
      /\ pool.gen = "running" /\ ~pool.over /\ pool.offered = NoItem
      /\ \A w \in Worker : pool.held[w] = NoItem
  BY <1>3 DEF NewPool, Errors
<1>8. TreeTypeOK
  <2>1. local \in [Inodes -> [is : Whats, of : Item]] BY <1>4 DEF Whats
  <2>2. stamped \in [Inodes -> Item] BY <1>3
  <2>3. doomed \in Seq([op : {"remove", "rmdir"}, node : Own]) OBVIOUS
  <2>4. terse \in BOOLEAN /\ initial \in [Node -> Kind] BY <1>2, TreeAssumption
  <2> QED BY <1>2, <1>5, <1>6, <1>7, <2>1, <2>2, <2>3, <2>4 DEF TreeTypeOK
<1>9. Remaining BY <1>2 DEF Remaining
<1>10. Claimed BY <1>4, <1>5 DEF Claimed
<1>11. Pooled BY <1>7 DEF Pooled, Claims
<1>12. Walked
  <2>1. walk.pending = IF call.job = "list" THEN <<>> ELSE <<Root>> OBVIOUS
  <2>2. call.job = "remove" => walk.pending # <<>> BY <2>1
  <2> QED BY <1>7, <2>2 DEF Walked
<1>13. DirectoryTimesStick BY DEF DirectoryTimesStick
<1> QED BY <1>8, <1>9, <1>10, <1>11, <1>12, <1>13 DEF IndInv

-------------------------------------------------------------------------------
(* The walk *)

\* What a directory lists is there, and what is there is in it.
LEMMA ListedTyped ==
    ASSUME TreeTypeOK, Remaining, NEW n \in Directories, remote[n] \in {"dir", "link"}
    PROVE  Listed(n) \subseteq Own
<1>1. remote[n] = "dir" BY OwnNodes DEF Directories, Remaining
<1>2. n \notin Outside BY DEF Directories, Own
<1> QED BY <1>1, <1>2, TreeAssumption DEF Listed, Children, Own

\* A step of the walk that leaves what was found alone.
LEMMA WalkKept ==
    ASSUME IndInv,
           UNCHANGED <<call, folding, terse, remote, initial, local, stamped, sealed, state, outcome>>,
           doomed' \in Seq([op : {"remove", "rmdir"}, node : Own]),
           call.job = "remove" => walk'.queue = <<>>,
           walk' \in [pending : Seq(Directories), handle : BOOLEAN, unlisted : SUBSET Own,
                      entry : Entry, queue : Seq(Own), entries : Seq(Entry)],
           pool' \in [gen : {"running", "sending", "suspended", "closed"}, offered : Item,
                      held : [Worker -> Item], error : Errors, over : BOOLEAN],
           Pooled', Walked'
    PROVE  IndInv'
<1>1. TreeTypeOK' BY DEF IndInv, TreeTypeOK, Directories, Entry
<1>2. Remaining' BY DEF IndInv, Remaining
<1>3. Claimed' BY DEF IndInv, Claimed, Actual
<1>4. DirectoryTimesStick' BY DEF IndInv, DirectoryTimesStick, Inode, Target
<1> QED BY <1>1, <1>2, <1>3, <1>4 DEF IndInv

LEMMA OpenKeeps == IndInv /\ OpenDirectory => IndInv'
<1> SUFFICES ASSUME IndInv, OpenDirectory PROVE IndInv' OBVIOUS
<1> USE DEF IndInv
<1> DEFINE n == Last(walk.pending)
<1>1. /\ walk.pending \in Seq(Directories) /\ walk.pending # <<>>
      /\ UNCHANGED <<call, folding, terse, remote, initial, local, stamped, sealed, state, doomed,
                     outcome>>
  BY DEF OpenDirectory, TreeTypeOK
<1>2. n \in Directories /\ Front(walk.pending) \in Seq(Directories) BY <1>1, FrontTyped
<1>3. pool.gen = "running" /\ pool.error = "none" BY DEF OpenDirectory, Walking, Producing
<1>4. CASE remote[n] \in {"dir", "link"}
  <2>1. walk' = [walk EXCEPT !.pending = Front(@), !.handle = TRUE,
                             !.unlisted = Listed(n), !.entry = NewEntry(n)]
        /\ UNCHANGED pool
    BY <1>4 DEF OpenDirectory
  <2>2. NewEntry(n) \in Entry
    <3>1. <<>> \in Seq(Directories) /\ <<>> \in Seq(Own) OBVIOUS
    <3>2. n \in Own BY <1>2 DEF Directories
    <3> QED BY <3>1, <3>2 DEF NewEntry, Entry
  <2>3. Listed(n) \subseteq Own BY <1>2, <1>4, ListedTyped
  <2> HIDE DEF n
  <2>4. /\ walk' \in [pending : Seq(Directories), handle : BOOLEAN, unlisted : SUBSET Own,
                      entry : Entry, queue : Seq(Own), entries : Seq(Entry)]
        /\ walk'.queue = walk.queue /\ walk'.handle
    BY <1>2, <2>1, <2>2, <2>3 DEF TreeTypeOK
  <2>5. Pooled' BY <1>1, <2>1, PooledKept
  <2>6. Walked' BY <1>1, <1>3, <2>1, <2>4 DEF Walked
  <2> QED BY <1>1, <2>1, <2>4, <2>5, <2>6, WalkKept DEF TreeTypeOK, Claimed
<1>5. CASE remote[n] \notin {"dir", "link"}
  <2>1. ProducerFails("server") /\ UNCHANGED walk BY <1>5 DEF OpenDirectory
  <2>2. "server" \in Errors BY DEF Errors
  <2>3. /\ Pooled'
        /\ pool' \in [gen : {"running", "sending", "suspended", "closed"}, offered : Item,
                      held : [Worker -> Item], error : Errors, over : BOOLEAN]
    BY <1>1, <2>1, <2>2, PoolSteps
  <2>4. pool'.error = "server" BY <2>1 DEF ProducerFails, TreeTypeOK
  <2>5. Walked' BY <1>1, <2>4 DEF Walked
  <2>6. walk.queue = <<>> BY DEF OpenDirectory, Walking
  <2> QED BY <1>1, <2>1, <2>3, <2>5, <2>6, WalkKept DEF TreeTypeOK, Claimed
<1> QED BY <1>4, <1>5

\* A failure of the generator ends the walk where it is.
LEMMA FailureKeeps ==
    ASSUME IndInv, NEW e \in Errors \ {"none"}, ProducerFails(e),
           \/ UNCHANGED walk \/ walk' = [walk EXCEPT !.handle = FALSE]
           \/ walk.queue # <<>> /\ walk' = [walk EXCEPT !.queue = Tail(@)],
           UNCHANGED <<call, folding, terse, remote, initial, local, stamped, sealed, state, doomed,
                       outcome>>
    PROVE  IndInv'
<1>1. TreeTypeOK /\ Pooled /\ Claimed BY DEF IndInv
<1>2. /\ Pooled'
      /\ pool' \in [gen : {"running", "sending", "suspended", "closed"}, offered : Item,
                    held : [Worker -> Item], error : Errors, over : BOOLEAN]
  BY <1>1, PoolSteps
<1>3. pool'.error = e BY <1>1 DEF ProducerFails, TreeTypeOK
<1>4. Walked' BY <1>3 DEF Walked, IndInv
<1>5. walk.queue # <<>> => Tail(walk.queue) \in Seq(Own)
  BY <1>1, HeadTailProperties DEF TreeTypeOK
<1>6. /\ walk' \in [pending : Seq(Directories), handle : BOOLEAN, unlisted : SUBSET Own,
                    entry : Entry, queue : Seq(Own), entries : Seq(Entry)]
      /\ walk.queue = <<>> => walk'.queue = <<>>
  BY <1>1, <1>5 DEF TreeTypeOK
<1> QED BY <1>1, <1>2, <1>4, <1>6, WalkKept DEF TreeTypeOK, Claimed

LEMMA ReadKeeps ==
    ASSUME IndInv, NEW n \in Node, NEW kind, ReadEntry(n, kind)
    PROVE  IndInv'
<1> USE DEF IndInv
<1> DEFINE tooDeep == Level[walk.entry.dir] >= call.depth
           unseen == kind = "absent" /\ ~terse
           into == IF kind = "dir" /\ ~tooDeep THEN "dirs"
                   ELSE IF kind = "file" THEN "files" ELSE "skipped"
           entry == IF unseen THEN walk.entry
                    ELSE [walk.entry EXCEPT ![into] = Append(@, n)]
<1>1. /\ n \in Own /\ walk.entry \in Entry /\ walk.handle /\ walk.queue = <<>>
      /\ pool.gen = "running"
      /\ UNCHANGED <<call, folding, terse, remote, initial, local, stamped, sealed, state, doomed,
                     outcome, pool>>
  BY DEF ReadEntry, Walking, Producing, TreeTypeOK
<1>2. kind = "dir" => n \in Directories
  <2>1. kind = "dir" => remote[n] = "dir" BY DEF ReadEntry, KindsTold
  <2> QED BY <1>1, <2>1 DEF Remaining, Directories
<1>3. walk' = [walk EXCEPT !.unlisted = @ \ {n},
                           !.entry[into] = IF unseen THEN @ ELSE Append(@, n)]
  BY DEF ReadEntry
<1>4. into = "dirs" => n \in Directories BY <1>2
<1>5. into \in {"dirs", "files", "skipped"} OBVIOUS
<1> HIDE DEF into, unseen
<1>6. walk'.entry \in Entry
  <2>1. walk'.entry = IF unseen THEN [walk.entry EXCEPT ![into] = @]
                      ELSE [walk.entry EXCEPT ![into] = Append(@, n)]
    BY <1>3 DEF TreeTypeOK
  <2>2. CASE unseen BY <1>1, <2>1, <2>2 DEF Entry
  <2>3. CASE ~unseen /\ into = "dirs"
    <3>1. Append(walk.entry.dirs, n) \in Seq(Directories)
      BY <1>1, <1>4, <2>3, AppendTyped DEF Entry
    <3> QED BY <1>1, <2>1, <2>3, <3>1 DEF Entry
  <2>4. CASE ~unseen /\ into = "files"
    <3>1. Append(walk.entry.files, n) \in Seq(Own) BY <1>1, AppendTyped DEF Entry
    <3> QED BY <1>1, <2>1, <2>4, <3>1 DEF Entry
  <2>5. CASE ~unseen /\ into = "skipped"
    <3>1. Append(walk.entry.skipped, n) \in Seq(Own) BY <1>1, AppendTyped DEF Entry
    <3> QED BY <1>1, <2>1, <2>5, <3>1 DEF Entry
  <2> QED BY <1>5, <2>2, <2>3, <2>4, <2>5
<1>7. /\ walk'.pending = walk.pending /\ walk'.handle /\ walk'.unlisted \subseteq Own
      /\ walk'.queue = <<>> /\ walk'.entries = walk.entries
      /\ walk' = [pending |-> walk.pending, handle |-> walk.handle,
                  unlisted |-> walk.unlisted \ {n}, entry |-> walk'.entry,
                  queue |-> walk.queue, entries |-> walk.entries]
  BY <1>1, <1>3 DEF TreeTypeOK
<1>8. walk' \in [pending : Seq(Directories), handle : BOOLEAN, unlisted : SUBSET Own,
                 entry : Entry, queue : Seq(Own), entries : Seq(Entry)]
  BY <1>6, <1>7 DEF TreeTypeOK
<1>9. Pooled' BY <1>1, PooledKept
<1>10. Walked' BY <1>1, <1>7 DEF Walked
<1> QED BY <1>1, <1>7, <1>8, <1>9, <1>10, WalkKept DEF TreeTypeOK

LEMMA ListingFailsKeeps == IndInv /\ ListingFails => IndInv'
BY FailureKeeps DEF ListingFails, Errors

LEMMA WalkEndsKeeps == IndInv /\ WalkEnds => IndInv'
<1> SUFFICES ASSUME IndInv, WalkEnds PROVE IndInv' OBVIOUS
<1> USE DEF IndInv
<1>1. /\ ~walk.handle /\ walk.pending = <<>> /\ walk.queue = <<>> /\ Exhausted
      /\ UNCHANGED <<call, folding, terse, remote, initial, local, stamped, sealed, walk, state,
                     doomed, outcome>>
  BY DEF WalkEnds, treeVars
<1>2. /\ Pooled'
      /\ pool' \in [gen : {"running", "sending", "suspended", "closed"}, offered : Item,
                    held : [Worker -> Item], error : Errors, over : BOOLEAN]
  BY <1>1, PoolSteps
<1>3. pool.error = "none" BY <1>1 DEF Exhausted, Producing
<1>4. Walked' BY <1>1, <1>3 DEF Walked
<1> QED BY <1>1, <1>2, <1>4, WalkKept DEF TreeTypeOK, Claimed

LEMMA StartListKeeps == IndInv /\ StartList => IndInv'
<1> SUFFICES ASSUME IndInv, StartList PROVE IndInv' OBVIOUS
<1>1. /\ call.job = "list" /\ Producing
      /\ UNCHANGED <<call, folding, terse, remote, initial, local, stamped, sealed, state, doomed,
                     outcome>>
  BY DEF StartList
<1>2. CASE ProducerFails("value") /\ UNCHANGED walk BY <1>1, <1>2, FailureKeeps DEF Errors
<1>3. CASE walk' = [walk EXCEPT !.queue = call.list, !.entry.dir = call.list[1]] /\ UNCHANGED pool
  <2> USE DEF IndInv
  <2>1. call.list \in Seq(Own) /\ call.list # <<>> BY <1>1, Jobs, TreeAssumption DEF TreeTypeOK
  <2>2. call.list[1] \in Own BY <2>1, HeadTailProperties
  <2>3. /\ walk' \in [pending : Seq(Directories), handle : BOOLEAN, unlisted : SUBSET Own,
                      entry : Entry, queue : Seq(Own), entries : Seq(Entry)]
        /\ walk'.pending = walk.pending /\ walk'.handle = walk.handle
    BY <1>3, <2>1, <2>2 DEF TreeTypeOK, Entry
  <2>4. Pooled' BY <1>1, <1>3, PooledKept
  <2>5. Walked' BY <1>1, <1>3, <2>3 DEF Walked, Producing
  <2> QED BY <1>1, <1>3, <2>3, <2>4, <2>5, WalkKept DEF TreeTypeOK
<1> QED BY <1>2, <1>3 DEF StartList

\* What becomes of the local tree when something is put at one place.
LEMMA PutTyped ==
    ASSUME TreeTypeOK, NEW i \in Inodes, NEW what \in Whats, NEW m \in Item,
           local' = [local EXCEPT ![i] = [is |-> what, of |-> m]]
    PROVE  /\ local' \in [Inodes -> [is : Whats, of : Item]]
           /\ local'[i].is = what /\ local'[i].of = m
           /\ \A j \in Inodes \ {i} : local'[j] = local[j]
<1> DEFINE thing == [is |-> what, of |-> m]
<1>1. thing \in [is : Whats, of : Item] /\ thing.is = what /\ thing.of = m OBVIOUS
<1>2. local' = [local EXCEPT ![i] = thing] OBVIOUS
<1> HIDE DEF thing
<1> QED BY <1>1, <1>2 DEF TreeTypeOK

LEMMA StampTyped ==
    ASSUME TreeTypeOK, NEW i, NEW m \in Item, stamped' = [stamped EXCEPT ![i] = m]
    PROVE  stamped' \in [Inodes -> Item]
BY DEF TreeTypeOK

LEMMA PushedTyped ==
    ASSUME TreeTypeOK, NEW entry \in Entry
    PROVE  Pushed(entry) \in Seq(Directories)
<1>1. Reverse(entry.dirs) \in Seq(Directories) BY ReverseTyped DEF Entry
<1>2. walk.pending \in Seq(Directories) BY DEF TreeTypeOK
<1> QED BY <1>1, <1>2, ConcatProperties DEF Pushed

\* What is on the disk stays claimed when claims are only made and files only begun.
LEMMA ClaimedKept ==
    ASSUME TreeTypeOK, Claimed, UNCHANGED <<call, folding>>,
           \A i \in Inodes : state.claims[i] # NoItem => state'.claims[i] = state.claims[i],
           \A i \in Inodes : local'[i] = local[i] \/ (Actual /\ local'[i].is \in {"dir", "empty"}),
           call.job = "remove" => walk'.queue = <<>>
    PROVE  Claimed'
<1>1. NoItem \notin Own BY OwnNodes
<1> QED BY <1>1 DEF Claimed, Actual

LEMMA EndDirectoryKeeps == IndInv /\ EndDirectory => IndInv'
<1> SUFFICES ASSUME IndInv, EndDirectory PROVE IndInv' OBVIOUS
<1> DEFINE entry == walk.entry
           n == entry.dir
           k == Key(n)
           taken == n # Root /\ state.claims[k] # NoItem
<1>1. /\ entry \in Entry /\ n \in Own /\ walk.queue = <<>> /\ outcome = "none" /\ call.job # "list"
      /\ pool.gen = "running"
      /\ UNCHANGED <<call, folding, terse, remote, initial, sealed, doomed, outcome>>
  BY DEF IndInv, EndDirectory, Walking, Producing, TreeTypeOK, Entry
<1>2. TreeTypeOK /\ Remaining /\ Claimed /\ Pooled /\ Walked BY DEF IndInv
<1>3. Pushed(entry) \in Seq(Directories) BY <1>1, <1>2, PushedTyped
<1>4. CASE call.job = "remove"
  <2>1. /\ walk' = [walk EXCEPT !.handle = FALSE, !.entries = Append(@, entry),
                                !.pending = Pushed(entry)]
        /\ UNCHANGED <<local, stamped, state, pool>>
    BY <1>4 DEF EndDirectory
  <2>2. walk.entries \in Seq(Entry) BY <1>2 DEF TreeTypeOK
  <2>3. Append(walk.entries, entry) \in Seq(Entry) /\ Append(walk.entries, entry) # <<>>
    BY <1>1, <2>2, AppendTyped
  <2> HIDE DEF entry
  <2>4. /\ walk' \in [pending : Seq(Directories), handle : BOOLEAN, unlisted : SUBSET Own,
                      entry : Entry, queue : Seq(Own), entries : Seq(Entry)]
        /\ walk'.queue = <<>> /\ walk'.entries # <<>>
    BY <1>1, <1>2, <1>3, <2>1, <2>3 DEF TreeTypeOK
  <2>5. Pooled' BY <1>1, <1>2, <2>1, PooledKept
  <2>6. Walked' BY <1>1, <1>2, <2>1, <2>4 DEF Walked
  <2> QED BY <1>1, <1>2, <2>1, <2>4, <2>5, <2>6, WalkKept DEF TreeTypeOK
<1>5. CASE call.job # "remove" /\ DirectoryRefused(n)
  <2>1. /\ ProducerFails("local") /\ walk' = [walk EXCEPT !.handle = FALSE]
        /\ UNCHANGED <<local, stamped, state>>
    BY <1>5 DEF EndDirectory
  <2> QED BY <1>1, <2>1, FailureKeeps DEF Errors
<1>6. CASE call.job # "remove" /\ ~DirectoryRefused(n)
  <2>1. /\ Settling(entry) /\ UNCHANGED pool
        /\ walk' = [walk EXCEPT !.handle = FALSE, !.queue = entry.files,
                                !.pending = Pushed(entry)]
    BY <1>6 DEF EndDirectory
  <2>2. n \in Node /\ k \in Inodes /\ n # NoItem /\ n \in Item /\ NoItem \in Item
    BY <1>1, OwnNodes, KeysAreInodes DEF Item
  <2>3. /\ Directories \subseteq Own /\ entry.dirs \in Seq(Directories) /\ entry.skipped \in Seq(Own)
        /\ entry.files \in Seq(Own)
    BY <1>1 DEF Directories, Entry
  <2>4. (IF terse THEN <<>> ELSE entry.dirs) \in Seq(Own)
    <3>1. entry.dirs \in Seq(Own) BY <2>3, SeqMonotonic
    <3> QED BY <3>1
  <2>5. ToSet(entry.skipped) \subseteq Own BY <2>3, ElementsTyped
  <2> DEFINE more == IF terse THEN <<>> ELSE entry.dirs
             gone == ToSet(entry.skipped)
  <2>6. state' = [state EXCEPT
               !.claims[k] = IF n = Root \/ taken THEN @ ELSE n,
               !.collisions = IF taken THEN @ \cup {n} ELSE @,
               !.directories = IF n = Root THEN @ ELSE @ \cup {n},
               !.times = @ \o more,
               !.skipped = @ \cup gone]
    BY <2>1 DEF Settling
  <2>7. state.times \o more \in Seq(Own) BY <1>2, <2>4, ConcatProperties DEF TreeTypeOK
  <2>8. \/ UNCHANGED <<local, stamped>>
        \/ /\ call.job # "preview" /\ Actual
           /\ local' = [local EXCEPT ![Inode(n)] = [is |-> "dir", of |-> NoItem]]
           /\ stamped' = [stamped EXCEPT ![Front(Inode(n))] = NoItem]
    <3>1. call.job # "preview" => Actual
      BY <1>1, <1>2, <1>6, Jobs DEF TreeTypeOK, Actual
    <3> QED BY <2>1, <3>1 DEF Settling
  <2>8a. Inode(n) \in Inodes /\ "dir" \in Whats BY <2>2, KeysAreInodes DEF Whats
  <2>9. walk' \in [pending : Seq(Directories), handle : BOOLEAN, unlisted : SUBSET Own,
                   entry : Entry, queue : Seq(Own), entries : Seq(Entry)]
    BY <1>1, <1>2, <1>3, <2>1, <2>3 DEF TreeTypeOK
  <2> HIDE DEF entry, n, k, taken, more, gone
  <2>10. /\ state' \in [claims : [Inodes -> Item], directories : SUBSET Own, moved : Seq(Own),
                        skipped : SUBSET Own, collisions : SUBSET Own, times : Seq(Own)]
         /\ state'.claims = [state.claims EXCEPT ![k] = IF n = Root \/ taken THEN @ ELSE n]
    <3>1. gone \subseteq Own BY <2>5 DEF gone
    <3> QED BY <1>1, <1>2, <2>2, <2>6, <2>7, <3>1 DEF TreeTypeOK
  <2>11. \A i \in Inodes : state.claims[i] # NoItem => state'.claims[i] = state.claims[i]
    <3>1. n = Root \/ taken \/ state.claims[k] = NoItem BY DEF taken
    <3> QED BY <1>2, <2>2, <2>10, <3>1 DEF TreeTypeOK
  <2>12. local' \in [Inodes -> [is : Whats, of : Item]] /\ stamped' \in [Inodes -> Item]
    BY <1>2, <2>2, <2>8, <2>8a, PutTyped, StampTyped DEF TreeTypeOK
  <2>13. TreeTypeOK'
    BY SMTT(30), <1>1, <1>2, <2>1, <2>9, <2>10, <2>12 DEF TreeTypeOK, Directories, Entry
  <2>14. \A i \in Inodes : local'[i] = local[i] \/ (Actual /\ local'[i].is \in {"dir", "empty"})
    <3>1. CASE UNCHANGED local BY <3>1
    <3>2. CASE Actual /\ local' = [local EXCEPT ![Inode(n)] = [is |-> "dir", of |-> NoItem]]
      <4>1. /\ local'[Inode(n)].is = "dir"
            /\ \A j \in Inodes \ {Inode(n)} : local'[j] = local[j]
        BY <1>2, <2>2, <2>8a, <3>2, PutTyped
      <4> QED BY <3>2, <4>1
    <3> QED BY <2>8, <3>1, <3>2
  <2>15. Claimed' BY <1>1, <1>2, <1>6, <2>11, <2>14, ClaimedKept
  <2>16. Pooled' BY <1>1, <1>2, <2>1, <2>11, PooledKept
  <2>17. Walked' BY <1>1, <1>2, <1>6, <2>1 DEF Walked
  <2>18. DirectoryTimesStick' BY <1>1 DEF DirectoryTimesStick
  <2>19. Remaining' BY <1>1, <1>2 DEF Remaining
  <2> QED BY <2>13, <2>15, <2>16, <2>17, <2>18, <2>19 DEF IndInv
<1> QED BY <1>4, <1>5, <1>6

\* The claiming of a file.
LEMMA ClaimKeeps ==
    ASSUME IndInv, NEW n \in Node, Claim(n)
    PROVE  IndInv'
<1> DEFINE actual == call.job # "preview"
           blocked == actual /\ (Holds(Inode(n), "dir") \/ Front(Inode(n)) \in sealed)
           unfit == n \in Unsafe \/ blocked \/ (call.job = "list" /\ n \in Refused)
<1>1. TreeTypeOK /\ Remaining /\ Claimed /\ Pooled /\ Walked BY DEF IndInv
<1>2. /\ outcome = "none" /\ Producing /\ walk.queue # <<>> /\ n = Head(walk.queue)
      /\ walk' = [walk EXCEPT !.queue = Tail(@)]
      /\ UNCHANGED <<call, folding, terse, remote, initial, sealed, doomed, outcome>>
  BY DEF Claim
<1>3. n \in Own /\ Tail(walk.queue) \in Seq(Own) BY <1>1, <1>2, HeadTailProperties DEF TreeTypeOK
<1>4. n \in Item /\ n # NoItem /\ NoItem \in Item /\ Key(n) \in Inodes /\ Inode(n) \in Inodes
  BY <1>3, OwnNodes, KeysAreInodes DEF Item
<1>5. call.job # "remove" BY <1>1, <1>2 DEF Claimed
<1>6. actual => Actual BY <1>1, <1>5, Jobs DEF TreeTypeOK, Actual
<1>7. walk' \in [pending : Seq(Directories), handle : BOOLEAN, unlisted : SUBSET Own,
                 entry : Entry, queue : Seq(Own), entries : Seq(Entry)]
  BY <1>1, <1>2, <1>3 DEF TreeTypeOK
<1>8. CASE unfit
  <2>1. ProducerFails("local") /\ UNCHANGED <<local, stamped, state>> BY <1>8 DEF Claim
  <2> QED BY <1>2, <2>1, FailureKeeps DEF Errors
<1>9. ASSUME ~unfit,
             \A i \in Inodes : state.claims[i] # NoItem => state'.claims[i] = state.claims[i],
             state' \in [claims : [Inodes -> Item], directories : SUBSET Own, moved : Seq(Own),
                         skipped : SUBSET Own, collisions : SUBSET Own, times : Seq(Own)],
             UNCHANGED <<local, stamped>> \/ Touched(n),
             pool' \in [gen : {"running", "sending", "suspended", "closed"}, offered : Item,
                        held : [Worker -> Item], error : Errors, over : BOOLEAN],
             Pooled', pool'.gen # "closed"
      PROVE  IndInv'
  <2>1. \/ UNCHANGED <<local, stamped>>
        \/ /\ Actual
           /\ local' = [local EXCEPT ![Inode(n)] = [is |-> "empty", of |-> NoItem]]
           /\ stamped' = [stamped EXCEPT ![Front(Inode(n))] = NoItem]
    BY <1>6, <1>9 DEF Touched
  <2>1a. "empty" \in Whats BY DEF Whats
  <2>2. local' \in [Inodes -> [is : Whats, of : Item]] /\ stamped' \in [Inodes -> Item]
    BY ZenonT(30), <1>1, <1>4, <2>1, <2>1a, PutTyped, StampTyped DEF TreeTypeOK
  <2>3. TreeTypeOK' BY <1>1, <1>2, <1>7, <1>9, <2>2 DEF TreeTypeOK, Directories, Entry
  <2>4. \A i \in Inodes : local'[i] = local[i] \/ (Actual /\ local'[i].is \in {"dir", "empty"})
    <3>1. CASE UNCHANGED local BY <3>1
    <3>2. CASE Actual /\ local' = [local EXCEPT ![Inode(n)] = [is |-> "empty", of |-> NoItem]]
      <4>1. /\ local'[Inode(n)].is = "empty"
            /\ \A j \in Inodes \ {Inode(n)} : local'[j] = local[j]
        BY <1>1, <1>4, <2>1a, <3>2, PutTyped
      <4> QED BY <3>2, <4>1
    <3> QED BY <2>1, <3>1, <3>2
  <2>5. Claimed' BY <1>1, <1>2, <1>5, <1>9, <2>4, ClaimedKept
  <2>6. Walked' BY <1>1, <1>2, <1>5, <1>9 DEF Walked
  <2>7. DirectoryTimesStick' BY <1>2 DEF DirectoryTimesStick
  <2>8. Remaining' BY <1>1, <1>2 DEF Remaining
  <2> QED BY <1>9, <2>3, <2>5, <2>6, <2>7, <2>8 DEF IndInv
<1>10. pool.gen = "running" BY <1>2 DEF Producing
<1>11. CASE ~unfit /\ actual /\ n \in Refused
  <2>1. /\ state' = [state EXCEPT !.skipped = @ \cup {n}]
        /\ UNCHANGED <<local, stamped, pool>>
    BY <1>11 DEF Claim
  <2>2. /\ state'.claims = state.claims
        /\ state' \in [claims : [Inodes -> Item], directories : SUBSET Own, moved : Seq(Own),
                       skipped : SUBSET Own, collisions : SUBSET Own, times : Seq(Own)]
    BY <1>1, <1>3, <2>1 DEF TreeTypeOK
  <2>3. Pooled' BY <1>1, <1>2, <2>1, <2>2, PooledKept
  <2> HIDE DEF unfit
  <2> QED BY <1>1, <1>9, <1>10, <1>11, <2>1, <2>2, <2>3 DEF TreeTypeOK
<1>12. CASE ~unfit /\ ~(actual /\ n \in Refused) /\ Claimant(n) # NoItem
  <2>1. /\ state' = [state EXCEPT
               !.collisions = @ \cup {n},
               !.skipped = IF call.job = "tree" THEN @ \cup {n} ELSE @]
        /\ Touched(n) /\ UNCHANGED pool
    BY <1>12 DEF Claim
  <2>2. /\ state'.claims = state.claims
        /\ state' \in [claims : [Inodes -> Item], directories : SUBSET Own, moved : Seq(Own),
                       skipped : SUBSET Own, collisions : SUBSET Own, times : Seq(Own)]
    BY <1>1, <1>3, <2>1 DEF TreeTypeOK
  <2>3. Pooled' BY <1>1, <1>2, <2>1, <2>2, PooledKept
  <2> HIDE DEF unfit
  <2> QED BY <1>1, <1>9, <1>10, <1>12, <2>1, <2>2, <2>3 DEF TreeTypeOK
<1>13. CASE ~unfit /\ ~(actual /\ n \in Refused) /\ Claimant(n) = NoItem
  <2>1. state' = [state EXCEPT !.claims[Key(n)] = n] /\ Offer(n) /\ Touched(n)
    BY <1>13 DEF Claim
  <2>2. /\ state'.claims = [state.claims EXCEPT ![Key(n)] = n]
        /\ state' \in [claims : [Inodes -> Item], directories : SUBSET Own, moved : Seq(Own),
                       skipped : SUBSET Own, collisions : SUBSET Own, times : Seq(Own)]
    BY <1>1, <1>4, <2>1 DEF TreeTypeOK
  <2>3. \A i \in Inodes : state.claims[i] # NoItem => state'.claims[i] = state.claims[i]
    BY <1>1, <1>4, <1>13, <2>2 DEF TreeTypeOK, Claimant
  <2> HIDE DEF unfit
  <2>4. /\ Pooled'
        /\ pool' \in [gen : {"running", "sending", "suspended", "closed"}, offered : Item,
                      held : [Worker -> Item], error : Errors, over : BOOLEAN]
        /\ pool'.gen # "closed"
    BY <1>1, <1>2, <1>3, <1>13, <2>1, <2>2, OfferStep
  <2> QED BY <1>9, <1>13, <2>1, <2>2, <2>3, <2>4
<1> QED BY <1>8, <1>11, <1>12, <1>13

-------------------------------------------------------------------------------
(* The handlers *)

\* A step of the pool alone.
LEMMA PoolKeeps ==
    ASSUME IndInv,
           \/ \E w \in Worker : Take(w)
           \/ \E w \in Worker, e \in Errors : HandlerFails(w, e)
           \/ CancelPool \/ Join \/ Unwind,
           UNCHANGED <<call, folding, terse, remote, initial, local, stamped, sealed, state, doomed,
                       outcome>>,
           UNCHANGED walk \/ (Unwind /\ walk' = [walk EXCEPT !.handle = @ /\ pool'.gen = "running"])
    PROVE  IndInv'
<1>1. TreeTypeOK /\ Pooled /\ Claimed /\ Walked BY DEF IndInv
<1>2. /\ Pooled'
      /\ pool' \in [gen : {"running", "sending", "suspended", "closed"}, offered : Item,
                    held : [Worker -> Item], error : Errors, over : BOOLEAN]
      /\ pool.error # "none" => pool'.error # "none"
  BY <1>1, PoolSteps
<1>3. /\ walk' \in [pending : Seq(Directories), handle : BOOLEAN, unlisted : SUBSET Own,
                    entry : Entry, queue : Seq(Own), entries : Seq(Entry)]
      /\ walk'.queue = walk.queue
  <2>1. (walk.handle /\ pool'.gen = "running") \in BOOLEAN OBVIOUS
  <2> QED BY <1>1, <2>1 DEF TreeTypeOK
<1>4. Walked'
  <2>1. CASE Unwind
    <3>1. pool.error # "none" BY <2>1 DEF Unwind
    <3> QED BY <1>1, <1>2, <3>1 DEF Walked
  <2>2. CASE ~Unwind
    <3>1. UNCHANGED walk BY <2>2
    <3>2. pool'.gen = "closed" /\ pool'.error = "none" => pool.gen = "closed" /\ pool.error = "none"
      <4>1. ASSUME NEW w \in Worker, Take(w) PROVE pool'.gen # "closed"
        BY <1>1, <4>1 DEF Take, TreeTypeOK
      <4>2. ASSUME NEW w \in Worker, NEW e \in Errors, HandlerFails(w, e)
            PROVE  pool'.gen = pool.gen
        BY <1>1, <4>2 DEF HandlerFails, TreeTypeOK
      <4>3. CancelPool => pool'.gen = pool.gen BY <1>1 DEF CancelPool, TreeTypeOK
      <4>4. Join => pool'.error = pool.error /\ (pool.error = "none" => pool.gen = "closed")
        BY <1>1 DEF Join, TreeTypeOK
      <4> QED BY <1>2, <2>2, <4>1, <4>2, <4>3, <4>4
    <3> QED BY <1>1, <1>2, <3>1, <3>2 DEF Walked
  <2> QED BY <2>1, <2>2
<1> QED BY <1>1, <1>2, <1>3, <1>4, WalkKept DEF TreeTypeOK, Claimed

\* What a worker holds is claimed, and it is what is written.
LEMMA HeldIsClaimed ==
    ASSUME TreeTypeOK, Pooled, NEW w \in Worker, pool.held[w] # NoItem
    PROVE  /\ pool.held[w] \in Own /\ Inode(pool.held[w]) \in Inodes
           /\ call.job # "preview" => state.claims[Inode(pool.held[w])] = pool.held[w]
<1>1. pool.held[w] \in Own BY DEF TreeTypeOK, Item
<1> QED BY <1>1, OwnNodes, KeysAreInodes DEF Pooled, Claims

LEMMA BeginKeeps ==
    ASSUME IndInv, NEW w \in Worker, BeginTransfer(w)
    PROVE  IndInv'
<1> DEFINE n == pool.held[w]
<1>1. TreeTypeOK /\ Remaining /\ Claimed /\ Pooled /\ Walked BY DEF IndInv
<1>2. /\ n # NoItem /\ Actual /\ call.job # "preview"
      /\ local' = [local EXCEPT ![Inode(n)] = [is |-> "part", of |-> n]]
      /\ UNCHANGED <<call, folding, terse, remote, initial, stamped, sealed, walk, state, doomed,
                     outcome, pool>>
  BY DEF BeginTransfer, Actual
<1>3. n \in Own /\ n \in Item /\ Inode(n) \in Inodes /\ state.claims[Inode(n)] = n
      /\ "part" \in Whats
  BY <1>1, <1>2, HeldIsClaimed DEF Item, Whats
<1> HIDE DEF n
<1>4. /\ local' \in [Inodes -> [is : Whats, of : Item]]
      /\ local'[Inode(n)].of = n
      /\ \A j \in Inodes \ {Inode(n)} : local'[j] = local[j]
  BY <1>1, <1>2, <1>3, PutTyped
<1>5. TreeTypeOK' BY <1>1, <1>2, <1>4 DEF TreeTypeOK, Directories, Entry
<1>6. Claimed' BY <1>1, <1>2, <1>3, <1>4 DEF Claimed, Actual
<1>7. Pooled' BY <1>1, <1>2, PooledKept
<1>8. Walked' BY <1>1, <1>2 DEF Walked
<1>9. DirectoryTimesStick' BY <1>2 DEF IndInv, DirectoryTimesStick, Inode, Target
<1>10. Remaining' BY <1>1, <1>2 DEF Remaining
<1> QED BY <1>5, <1>6, <1>7, <1>8, <1>9, <1>10 DEF IndInv

LEMMA EndKeeps ==
    ASSUME IndInv, NEW w \in Worker, EndTransfer(w)
    PROVE  IndInv'
<1> DEFINE n == pool.held[w]
<1>1. TreeTypeOK /\ Remaining /\ Claimed /\ Pooled /\ Walked BY DEF IndInv
<1>2. /\ n # NoItem /\ state' = [state EXCEPT !.moved = Append(@, n)] /\ Handled(w)
      /\ UNCHANGED <<call, folding, terse, remote, initial, stamped, sealed, walk, doomed, outcome>>
  BY DEF EndTransfer
<1>3. n \in Own /\ n \in Item /\ Inode(n) \in Inodes /\ "whole" \in Whats
  BY <1>1, <1>2, HeldIsClaimed DEF Item, Whats
<1>4. \/ UNCHANGED local
      \/ /\ local[Inode(n)] = [is |-> "part", of |-> n]
         /\ local' = [local EXCEPT ![Inode(n)] = [is |-> "whole", of |-> n]]
  BY DEF EndTransfer
<1> HIDE DEF n
<1>5. Append(state.moved, n) \in Seq(Own) BY <1>1, <1>3, AppendTyped DEF TreeTypeOK
<1>6. /\ state' \in [claims : [Inodes -> Item], directories : SUBSET Own, moved : Seq(Own),
                     skipped : SUBSET Own, collisions : SUBSET Own, times : Seq(Own)]
      /\ state'.claims = state.claims /\ state'.times = state.times
  BY <1>1, <1>2, <1>5 DEF TreeTypeOK
<1>7. /\ local' \in [Inodes -> [is : Whats, of : Item]]
      /\ Claimed'
  <2>1. CASE UNCHANGED local
    BY <1>1, <1>2, <1>6, <2>1 DEF TreeTypeOK, Claimed, Actual
  <2>2. CASE /\ local[Inode(n)] = [is |-> "part", of |-> n]
             /\ local' = [local EXCEPT ![Inode(n)] = [is |-> "whole", of |-> n]]
    <3>1. /\ local' \in [Inodes -> [is : Whats, of : Item]]
          /\ local'[Inode(n)].of = n
          /\ \A j \in Inodes \ {Inode(n)} : local'[j] = local[j]
      BY <1>1, <1>3, <2>2, PutTyped
    <3>2. local[Inode(n)].is = "part" /\ local[Inode(n)].of = n BY <2>2
    <3>3. Actual /\ state.claims[Inode(n)] = n BY <1>1, <1>3, <3>2 DEF Claimed
    <3> QED BY <1>1, <1>2, <1>3, <1>6, <3>1, <3>3 DEF Claimed, Actual
  <2> QED BY <1>4, <2>1, <2>2
<1>8. UNCHANGED state.claims BY <1>6
<1>9. /\ Pooled'
      /\ pool' \in [gen : {"running", "sending", "suspended", "closed"}, offered : Item,
                    held : [Worker -> Item], error : Errors, over : BOOLEAN]
  <2>1. \A m \in Item : Claims(m) => Claims(m)' BY <1>1, <1>2, <1>6, ClaimsStand
  <2>2. /\ \A v \in Worker : pool'.held[v] = IF v = w THEN NoItem ELSE pool.held[v]
        /\ pool'.offered = pool.offered /\ pool'.over = pool.over
        /\ pool.over => pool'.gen = pool.gen
        /\ pool' \in [gen : {"running", "sending", "suspended", "closed"}, offered : Item,
                      held : [Worker -> Item], error : Errors, over : BOOLEAN]
    <3>1. ~pool.over BY <1>1, <1>2 DEF Pooled, n
    <3> QED BY <1>1, <1>2, <3>1 DEF Handled, TreeTypeOK, Item
  <2>3. Claims(NoItem)' BY DEF Claims
  <2>4. pool.offered \in Item /\ \A v \in Worker : pool.held[v] \in Item BY <1>1 DEF TreeTypeOK
  <2>5. Claims(pool.offered)'
    BY <1>1, <1>2, <2>1, <2>2, <2>4 DEF Pooled, Claims, Key, Inode, Target
  <2>6. \A v \in Worker : Claims(pool.held[v])'
    BY <1>1, <1>2, <2>1, <2>2, <2>4 DEF Pooled, Claims, Key, Inode, Target
  <2> HIDE DEF Claims
  <2> QED BY <1>1, <2>2, <2>5, <2>6 DEF Pooled
<1>10. TreeTypeOK' BY <1>1, <1>2, <1>6, <1>7, <1>9 DEF TreeTypeOK, Directories, Entry
<1>11. Walked'
  <2>1. /\ pool'.gen = "closed" => pool.gen = "closed"
        /\ pool'.error = pool.error
    BY <1>1, <1>2 DEF Handled, TreeTypeOK
  <2> QED BY <1>1, <1>2, <2>1 DEF Walked
<1>12. DirectoryTimesStick' BY <1>2, <1>6 DEF IndInv, DirectoryTimesStick, Inode, Target
<1>13. Remaining' BY <1>1, <1>2 DEF Remaining
<1> QED BY <1>7, <1>9, <1>10, <1>11, <1>12, <1>13 DEF IndInv

-------------------------------------------------------------------------------
(* After the pool *)

LEMMA MaxOf ==
    ASSUME NEW n \in Nat, NEW S \in SUBSET (1 .. n), S # {}
    PROVE  Max(S) \in S
<1> DEFINE Over == {k \in Nat : \A i \in S : i <= k}
<1>1. n \in Over OBVIOUS
<1>2. PICK m \in Over : \A k \in Over : ~(<<k, m>> \in OpToRel(<, Nat))
  BY <1>1, NatLessThanWellFounded, WFMin
<1>3. \A k \in Over : ~(k < m) BY <1>2 DEF OpToRel
<1> HIDE DEF Over
<1>4. m \in S
  <2> SUFFICES ASSUME m \notin S PROVE FALSE OBVIOUS
  <2>1. m \in Nat /\ \A i \in S : i < m /\ i \in Nat /\ i >= 1 BY DEF Over
  <2>2. PICK i \in S : TRUE OBVIOUS
  <2>3. m > 0 BY <2>1, <2>2
  <2>4. m - 1 \in Over BY <2>1, <2>3 DEF Over
  <2> QED BY <1>3, <2>1, <2>4
<1>5. \A i \in S : m >= i BY DEF Over
<1> QED BY <1>4, <1>5 DEF Max

\* Every directory the listing gave times has them, or those of another it folds onto.
LEMMA StampedByOne ==
    ASSUME TreeTypeOK
    PROVE  /\ Stamped \in [Inodes -> Item]
           /\ \A n \in ToSet(state.times) :
                 \E m \in ToSet(state.times) : Inode(m) = Inode(n) /\ Stamped[Inode(n)] = m
<1>1. /\ ToSet(state.times) \subseteq Own /\ DOMAIN state.times = 1 .. Len(state.times)
      /\ Len(state.times) \in Nat
  BY ElementsTyped DEF TreeTypeOK
<1>2. ASSUME NEW i \in Inodes, Stampings(i) # {}
      PROVE  \E m \in ToSet(state.times) : Inode(m) = i /\ Stamped[i] = m
  <2>1. Stampings(i) \in SUBSET (1 .. Len(state.times)) BY <1>1 DEF Stampings
  <2>2. Max(Stampings(i)) \in Stampings(i) BY <1>1, <1>2, <2>1, MaxOf
  <2>3. Stamped[i] = state.times[Max(Stampings(i))] BY <1>2 DEF Stamped
  <2> QED BY <2>2, <2>3 DEF Stampings, ToSet
<1>3. ASSUME NEW n \in ToSet(state.times)
      PROVE  Inode(n) \in Inodes /\ Stampings(Inode(n)) # {}
  BY <1>1, OwnNodes, KeysAreInodes DEF Stampings, ToSet
<1>4. \A i \in Inodes : Stamped[i] \in Item
  <2>1. \A i \in Inodes : Stampings(i) = {} => Stamped[i] = stamped[i] BY DEF Stamped
  <2> QED BY <1>1, <1>2, <2>1 DEF TreeTypeOK, Item
<1> QED BY <1>2, <1>3, <1>4 DEF Stamped

LEMMA DoomsTyped ==
    ASSUME TreeTypeOK, Dooms, walk.entries # <<>>
    PROVE  /\ doomed' \in Seq([op : {"remove", "rmdir"}, node : Own]) /\ doomed' # <<>>
           /\ walk' \in [pending : Seq(Directories), handle : BOOLEAN, unlisted : SUBSET Own,
                         entry : Entry, queue : Seq(Own), entries : Seq(Entry)]
           /\ walk'.queue = walk.queue /\ walk'.pending = walk.pending
           /\ walk'.handle = walk.handle
<1>1. Last(walk.entries) \in Entry /\ Front(walk.entries) \in Seq(Entry)
  BY FrontTyped DEF TreeTypeOK
<1>2. Removals(Last(walk.entries)) \in Seq([op : {"remove", "rmdir"}, node : Own])
      /\ Removals(Last(walk.entries)) # <<>>
  BY <1>1, RemovalsTyped
<1>3. doomed' = Removals(Last(walk.entries)) /\ walk' = [walk EXCEPT !.entries = Front(@)]
  BY DEF Dooms
<1> QED BY <1>1, <1>2, <1>3 DEF TreeTypeOK

LEMMA FinishKeeps == IndInv /\ Finish => IndInv'
<1> SUFFICES ASSUME IndInv, Finish PROVE IndInv' OBVIOUS
<1>1. TreeTypeOK /\ Remaining /\ Claimed /\ Pooled /\ Walked BY DEF IndInv
<1>2. /\ pool.over /\ outcome = "none" /\ doomed = <<>>
      /\ UNCHANGED <<call, folding, terse, remote, initial, local, state, pool>>
  BY DEF Finish
<1>3. Pooled' BY <1>1, <1>2, PooledKept
<1>4. Remaining' BY <1>1, <1>2 DEF Remaining
<1>5. CASE pool.error # "none"
  <2>1. outcome' = pool.error /\ UNCHANGED <<stamped, sealed, doomed, walk>> BY <1>5 DEF Finish
  <2>2. outcome' \notin {"returned", "collision"} BY <1>1, <2>1 DEF TreeTypeOK, Errors
  <2>3. DirectoryTimesStick' BY <2>2 DEF DirectoryTimesStick
  <2>4. TreeTypeOK' /\ Claimed' /\ Walked'
    BY <1>1, <1>2, <2>1, <1>5 DEF TreeTypeOK, Directories, Entry, Claimed, Actual, Walked
  <2> QED BY <1>3, <1>4, <2>3, <2>4 DEF IndInv
<1>6. CASE pool.error = "none" /\ call.job = "remove"
  <2>1. Dooms /\ UNCHANGED <<stamped, sealed, outcome>> BY <1>6 DEF Finish
  <2>2. walk.entries # <<>>
    <3>1. walk.pending = <<>> /\ ~walk.handle BY <1>1, <1>2, <1>6 DEF Pooled, Walked
    <3> QED BY <1>1, <1>2, <1>6, <3>1 DEF Walked
  <2>3. TreeTypeOK' BY <1>1, <1>2, <2>1, <2>2, DoomsTyped DEF TreeTypeOK, Directories, Entry
  <2>4. Claimed' BY <1>1, <1>2, <2>1, <2>2, DoomsTyped DEF Claimed, Actual
  <2>5. Walked' BY <1>1, <1>2, <1>6, <2>1, <2>2, DoomsTyped DEF Walked
  <2>6. DirectoryTimesStick' BY <1>2, <2>1 DEF DirectoryTimesStick
  <2> QED BY <1>3, <1>4, <2>3, <2>4, <2>5, <2>6 DEF IndInv
<1>7. CASE pool.error = "none" /\ call.job = "preview"
  <2>1. UNCHANGED <<stamped, sealed, doomed, walk>> BY <1>7 DEF Finish
  <2>2. TreeTypeOK' /\ Claimed' /\ Walked'
    BY <1>1, <1>2, <1>7, <2>1 DEF TreeTypeOK, Directories, Entry, Claimed, Actual, Walked
  <2>3. DirectoryTimesStick' BY <1>2, <1>7 DEF DirectoryTimesStick
  <2> QED BY <1>3, <1>4, <2>2, <2>3 DEF IndInv
<1>8. CASE pool.error = "none" /\ call.job \notin {"remove", "preview"}
  <2>1. /\ stamped' = Stamped /\ sealed' = {Inode(n) : n \in ToSet(state.times)}
        /\ UNCHANGED <<doomed, walk>>
    BY <1>8 DEF Finish
  <2>2. TreeTypeOK' /\ Claimed' /\ Walked'
    <3>1. stamped' \in [Inodes -> Item] BY <1>1, <2>1, StampedByOne
    <3>2. TreeTypeOK' BY <1>1, <1>2, <2>1, <3>1 DEF TreeTypeOK, Directories, Entry
    <3> QED BY <1>1, <1>2, <1>8, <2>1, <3>2 DEF Claimed, Actual, Walked
  <2>3. DirectoryTimesStick'
    <3>1. \A n : Inode(n)' = Inode(n) BY <1>2 DEF Inode, Target
    <3>2. \A n \in ToSet(state.times) :
             /\ Inode(n) \in sealed'
             /\ \E m \in ToSet(state.times) : Inode(m) = Inode(n) /\ stamped'[Inode(n)] = m
      BY <1>1, <2>1, StampedByOne
    <3> QED BY <1>2, <3>1, <3>2 DEF DirectoryTimesStick
  <2> QED BY <1>3, <1>4, <2>2, <2>3 DEF IndInv
<1> QED BY <1>5, <1>6, <1>7, <1>8

LEMMA RemoveKeeps == IndInv /\ RemoveNext => IndInv'
<1> SUFFICES ASSUME IndInv, RemoveNext PROVE IndInv' OBVIOUS
<1> DEFINE r == Head(doomed)
           rest == Tail(doomed)
<1>1. TreeTypeOK /\ Remaining /\ Claimed /\ Pooled /\ Walked BY DEF IndInv
<1>2. /\ outcome = "none" /\ doomed # <<>> /\ call.job = "remove"
      /\ UNCHANGED <<call, folding, terse, initial, local, stamped, sealed, state, pool>>
  BY <1>1 DEF RemoveNext, Walked
<1>3. /\ r \in [op : {"remove", "rmdir"}, node : Own]
      /\ rest \in Seq([op : {"remove", "rmdir"}, node : Own])
  BY <1>1, <1>2, HeadTailProperties DEF TreeTypeOK
<1>4. remote' = remote \/ remote' = [remote EXCEPT ![r.node] = "absent"]
  BY DEF RemoveNext, Removed
<1>5. /\ remote' \in [Node -> Kind] /\ Remaining'
  <2>1. r.node \in Own /\ "absent" \in Kind BY <1>3 DEF Kind
  <2> HIDE DEF r
  <2>2. remote' \in [Node -> Kind] BY <1>1, <1>4, <2>1 DEF TreeTypeOK
  <2>3. \A n \in Node : remote'[n] = remote[n] \/ (remote'[n] = "absent" /\ n \in Own)
    BY <1>1, <1>4, <2>1 DEF TreeTypeOK
  <2>4. \A n \in Outside : n \in Node /\ n \notin Own BY TreeAssumption DEF Own
  <2> QED BY <1>1, <1>2, <2>2, <2>3, <2>4 DEF Remaining
<1>6. \/ Dooms /\ walk.entries # <<>>
      \/ doomed' = rest /\ UNCHANGED walk
  BY DEF RemoveNext
<1>7. /\ walk' \in [pending : Seq(Directories), handle : BOOLEAN, unlisted : SUBSET Own,
                    entry : Entry, queue : Seq(Own), entries : Seq(Entry)]
      /\ doomed' \in Seq([op : {"remove", "rmdir"}, node : Own])
      /\ walk'.queue = walk.queue /\ walk'.pending = walk.pending /\ walk'.handle = walk.handle
  BY <1>1, <1>3, <1>6, DoomsTyped DEF TreeTypeOK
<1>8. outcome' = "none" /\ doomed' = <<>> => walk'.entries # <<>>
  <2>1. Dooms /\ walk.entries # <<>> => doomed' # <<>> BY <1>1, DoomsTyped
  <2> QED BY <2>1 DEF RemoveNext
<1>9. TreeTypeOK' BY <1>1, <1>2, <1>5, <1>7 DEF TreeTypeOK, Directories, Entry
<1>10. Claimed' BY <1>1, <1>2, <1>7 DEF Claimed, Actual
<1>11. Pooled' BY <1>1, <1>2, PooledKept
<1>12. Walked' BY <1>1, <1>2, <1>7, <1>8 DEF Walked
<1>13. DirectoryTimesStick' BY <1>2 DEF DirectoryTimesStick
<1> QED BY <1>5, <1>9, <1>10, <1>11, <1>12, <1>13 DEF IndInv

LEMMA RemoveFailsKeeps == IndInv /\ RemoveFails => IndInv'
<1> SUFFICES ASSUME IndInv, RemoveFails PROVE IndInv' OBVIOUS
<1>1. TreeTypeOK /\ Remaining /\ Claimed /\ Pooled /\ Walked BY DEF IndInv
<1>2. /\ doomed # <<>> /\ outcome' \in {"server", "cancelled"}
      /\ UNCHANGED <<call, folding, terse, remote, initial, local, stamped, sealed, walk, state,
                     doomed, pool>>
  BY DEF RemoveFails
<1>3. TreeTypeOK' /\ Remaining' /\ Claimed' /\ Walked'
  BY <1>1, <1>2 DEF TreeTypeOK, Directories, Entry, Remaining, Claimed, Actual, Walked
<1>4. Pooled' BY <1>1, <1>2, PooledKept
<1>5. DirectoryTimesStick' BY <1>2 DEF DirectoryTimesStick
<1> QED BY <1>3, <1>4, <1>5 DEF IndInv

\* What another client removes is not elsewhere either: a link's target is not below the link.
LEMMA VanishKeeps ==
    ASSUME IndInv, NEW n \in Node, Vanish(n)
    PROVE  IndInv'
<1>1. TreeTypeOK /\ Remaining /\ Claimed /\ Pooled /\ Walked BY DEF IndInv
<1>2. /\ n \in Vanishing
      /\ remote' = [m \in Node |-> IF m = n \/ Parent[m] = n THEN "absent" ELSE remote[m]]
      /\ UNCHANGED <<call, folding, terse, initial, local, stamped, sealed, walk, state, doomed,
                     outcome, pool>>
  BY DEF Vanish
<1>3. remote' \in [Node -> Kind] BY <1>1, <1>2 DEF TreeTypeOK, Kind
<1>4. Remaining'
  <2>1. \A m \in Outside : m \in Node /\ m # n /\ Parent[m] # n
    BY <1>2, TreeAssumption DEF Own
  <2> QED BY <1>1, <1>2, <2>1 DEF Remaining
<1>5. TreeTypeOK' /\ Claimed' /\ Walked'
  BY <1>1, <1>2, <1>3 DEF TreeTypeOK, Directories, Entry, Claimed, Actual, Walked
<1>6. Pooled' BY <1>1, <1>2, PooledKept
<1>7. DirectoryTimesStick' BY <1>2 DEF IndInv, DirectoryTimesStick, Inode, Target
<1> QED BY <1>4, <1>5, <1>6, <1>7 DEF IndInv

-------------------------------------------------------------------------------
(* Theorems *)

LEMMA StepsKeepInd == IndInv /\ [TreeNext]_<<treeVars, pool>> => IndInv'
<1> SUFFICES ASSUME IndInv, [TreeNext]_<<treeVars, pool>> PROVE IndInv' OBVIOUS
<1>1. CASE UNCHANGED <<treeVars, pool>>
  <2>1. TreeTypeOK /\ Remaining /\ Claimed /\ Pooled /\ Walked BY DEF IndInv
  <2>2. UNCHANGED <<call, folding, terse, remote, initial, local, stamped, sealed, walk, state,
                    doomed, outcome, pool>>
    BY <1>1 DEF treeVars
  <2>3. Pooled' BY <2>1, <2>2, PooledKept
  <2> QED BY <2>1, <2>2, <2>3, WalkKept DEF TreeTypeOK, Claimed, Walked
<1>2. CASE OpenDirectory BY <1>2, OpenKeeps
<1>3. CASE ListingFails BY <1>3, ListingFailsKeeps
<1>4. CASE EndDirectory BY <1>4, EndDirectoryKeeps
<1>5. CASE WalkEnds BY <1>5, WalkEndsKeeps
<1>6. CASE StartList BY <1>6, StartListKeeps
<1>7. ASSUME NEW n \in Node, NEW kind, ReadEntry(n, kind) PROVE IndInv' BY <1>7, ReadKeeps
<1>8. ASSUME NEW n \in Node, Claim(n) PROVE IndInv' BY <1>8, ClaimKeeps
<1>9. ASSUME NEW w \in Worker, Pick(w) PROVE IndInv' BY <1>9, PoolKeeps DEF Pick, treeVars
<1>10. ASSUME NEW w \in Worker, BeginTransfer(w) PROVE IndInv' BY <1>10, BeginKeeps
<1>11. ASSUME NEW w \in Worker, EndTransfer(w) PROVE IndInv' BY <1>11, EndKeeps
<1>12. ASSUME NEW w \in Worker, TransferFails(w) PROVE IndInv'
  <2>1. "server" \in Errors BY DEF Errors
  <2> QED BY <1>12, <2>1, PoolKeeps DEF TransferFails, treeVars
<1>13. CASE Unwinds BY <1>13, PoolKeeps DEF Unwinds
<1>14. CASE Joins BY <1>14, PoolKeeps DEF Joins, treeVars
<1>15. CASE CancelCall BY <1>15, PoolKeeps DEF CancelCall, treeVars
<1>16. CASE Finish BY <1>16, FinishKeeps
<1>17. CASE RemoveNext BY <1>17, RemoveKeeps
<1>18. CASE RemoveFails BY <1>18, RemoveFailsKeeps
<1>19. ASSUME NEW n \in Node, Vanish(n) PROVE IndInv' BY <1>19, VanishKeeps
<1> QED BY <1>1, <1>2, <1>3, <1>4, <1>5, <1>6, <1>7, <1>8, <1>9, <1>10, <1>11, <1>12, <1>13,
           <1>14, <1>15, <1>16, <1>17, <1>18, <1>19 DEF TreeNext, TreeStep

LEMMA IndHolds == TreeSpec => []IndInv
BY InitiallyInd, StepsKeepInd, PTL DEF TreeSpec

\* A local file is only ever written for the first remote one that claimed its name, two
\* workers are never at one file, and a preview or a removal writes nothing: whatever the
\* local filesystem makes of two names (_claim_local_destination, for_each_bounded).
THEOREM NamesHold == TreeSpec => []FirstClaimantKeepsName
<1>1. IndInv => FirstClaimantKeepsName
  <2> SUFFICES ASSUME IndInv PROVE FirstClaimantKeepsName OBVIOUS
  <2>1. \A i \in Inodes : local[i].is \in {"part", "whole"} => local[i].of = state.claims[i]
    BY DEF IndInv, Claimed
  <2>2. ASSUME NEW v \in Worker, NEW w \in Worker, v # w, pool.held[v] # NoItem,
               pool.held[w] # NoItem, Actual
        PROVE  Inode(pool.held[v]) # Inode(pool.held[w])
    <3>1. call.job # "preview" BY <2>2 DEF Actual
    <3>2. /\ state.claims[Inode(pool.held[v])] = pool.held[v]
          /\ state.claims[Inode(pool.held[w])] = pool.held[w]
      BY <2>2, <3>1, HeldIsClaimed DEF IndInv
    <3>3. pool.held[v] # pool.held[w] BY <2>2 DEF IndInv, Pooled
    <3> QED BY <3>2, <3>3
  <2>3. ~Actual => \A i \in Inodes : local[i].is \in {"none", "old", "dir"}
    BY DEF IndInv, Claimed
  <2> QED BY <2>1, <2>2, <2>3 DEF FirstClaimantKeepsName
<1> QED BY <1>1, IndHolds, PTL

\* Nothing is read or removed through a link, however little the listing says of an entry
\* and whatever another client removes meanwhile (_settle_for_walk, rmtree).
THEOREM LinksHold == TreeSpec => []LinksAreNotFollowed
<1>1. IndInv => LinksAreNotFollowed
  <2> SUFFICES ASSUME IndInv, NEW n \in Outside
               PROVE  /\ remote[n] = initial[n]
                      /\ n \notin ToSet(state.moved) /\ \A i \in DOMAIN doomed : doomed[i].node # n
    BY DEF LinksAreNotFollowed
  <2>1. n \notin Own BY DEF Own
  <2>2. ToSet(state.moved) \subseteq Own BY ElementsTyped DEF IndInv, TreeTypeOK
  <2>3. \A i \in DOMAIN doomed : doomed[i] \in [op : {"remove", "rmdir"}, node : Own]
    BY ZenonT(30), ElementsTyped DEF IndInv, TreeTypeOK
  <2> QED BY <2>1, <2>2, <2>3 DEF IndInv, Remaining
<1> QED BY <1>1, IndHolds, PTL

\* The times and modes the listing gave are on every local directory at the end, also when
\* the call only has collisions to tell, and they keep them
\* (_stamp_local_directories, _chmod_local_directories).
THEOREM TimesHold == TreeSpec => []DirectoryTimesStick
BY IndHolds, PTL DEF IndInv
-------------------------------------------------------------------------------
(* Everything is accounted for: where each place is while the call runs *)

Trees == {"tree", "preview"}
\* Found and not yet listed, being listed, found and not yet claimed, claimed and not yet
\* moved, moved, and reported.
Waiting == ToSet(walk.pending)
Current == IF walk.handle THEN {walk.entry.dir} ELSE {}
Queued == ToSet(walk.queue)
Handling == ({pool.held[w] : w \in Worker} \cup {pool.offered}) \ {NoItem}
Moved == ToSet(state.moved)
Told == state.skipped \cup (state.collisions \ state.directories)
\* Directories that have been listed to their end.
Settled == state.directories \cup ({Root} \ (Waiting \cup Current))
Met(entry) == ToSet(entry.dirs) \cup ToSet(entry.files) \cup ToSet(entry.skipped)
Placed == Waiting \cup Current \cup Queued \cup Handling \cup Moved \cup Told
                  \cup state.directories

Apart(waiting, current, queued, handling, moved, told, directories) ==
    /\ waiting \cap (current \cup queued \cup handling \cup moved \cup told \cup directories) = {}
    /\ current \cap (queued \cup handling \cup moved \cup told \cup directories) = {}
    /\ queued \cap (handling \cup moved \cup told \cup directories) = {}
    /\ handling \cap (moved \cup told \cup directories) = {}
    /\ moved \cap (told \cup directories) = {}
    /\ told \cap directories = {}

\* What was read of a directory is in one of the entry's lists, and nowhere else.
EntryApart(entry, unlisted) ==
    /\ IsInjective(entry.dirs) /\ IsInjective(entry.files)
    /\ unlisted \cap Met(entry) = {}
    /\ ToSet(entry.dirs) \cap (ToSet(entry.files) \cup ToSet(entry.skipped)) = {}
    /\ ToSet(entry.files) \cap ToSet(entry.skipped) = {}

\* No place is in two of these at once.
Sorted ==
    /\ IsInjective(walk.pending) /\ IsInjective(walk.queue)
    /\ Apart(Waiting, Current, Queued, Handling, Moved, Told, state.directories)
    /\ walk.handle => EntryApart(walk.entry, walk.unlisted)

\* A walk has in one of these what was in the directories it listed, and nothing that is
\* in others.
Covered ==
    /\ walk.handle => \A n \in walk.unlisted \cup Met(walk.entry) :
                          n # Root /\ Parent[n] = walk.entry.dir
    /\ Root \in Placed => Root \in Waiting \cup Current
    /\ \A n \in Placed \ {Root} : Parent[n] \in Settled
    /\ \A n \in Own \ {Root} : remote[n] # "absent" =>
          /\ Parent[n] \in Settled => n \in Placed
          /\ walk.handle /\ Parent[n] = walk.entry.dir =>
                n \in walk.unlisted \cup Met(walk.entry)

\* So has a list what it was given, once it has begun.
ListCovered ==
    /\ walk.pending = <<>> /\ ~walk.handle /\ state.directories = {}
    /\ Queued \cup Handling \cup Moved \cup Told =
          IF walk.entry.dir = Root THEN {} ELSE ToSet(call.list)

\* What was moved was claimed, is moved once, and stays on the disk.
Ledger ==
    /\ IsInjective(state.moved)
    /\ \A m \in Moved : /\ Claims(m) /\ m \notin Handling
                        /\ Actual => local[Inode(m)] = [is |-> "whole", of |-> m]

\* An item is offered in the stream only, and one worker alone has no stream.
Stream ==
    /\ pool.offered # NoItem => pool.gen = "sending"
    /\ pool.gen = "sending" => ~Sequential
    /\ Sequential /\ pool.error = "none" /\ pool.gen = "running" =>
          \A w \in Worker : pool.held[w] = NoItem

\* How the walk, the pool and the call come to their ends.
Ending ==
    /\ outcome \in {"returned", "collision"} \/ doomed # <<>> => pool.over /\ pool.error = "none"
    /\ outcome \in {"returned", "collision"} /\ Actual =>
          (outcome = "collision" <=> state.collisions # {})
    /\ outcome = "collision" => call.job # "remove"
    /\ pool.gen = "closed" /\ pool.error = "none" =>
          walk.queue = <<>> /\ (call.job = "list" => walk.entry.dir # Root)

\* rmtree comes to its root last, and nothing is left below what it has removed.
Emptied ==
    /\ \A n \in Own \ {Root} : remote[n] # "absent" => remote[Parent[n]] = "dir"
    /\ pool.error = "none" /\ outcome = "none" =>
          /\ walk.entries = <<>> /\ doomed = <<>> =>
                IF walk.handle THEN walk.entry.dir = Root ELSE walk.pending = <<Root>>
          /\ walk.entries # <<>> => walk.entries[1].dir = Root
          /\ walk.entries = <<>> /\ doomed # <<>> =>
                Last(doomed) = [op |-> "rmdir", node |-> Root]
    /\ outcome = "returned" => remote[Root] = "absent"

\* Where each place is, for the calls that keep account of it.
Tracked ==
    /\ pool.error = "none" /\ call.job # "remove" => Sorted
    /\ pool.error = "none" /\ call.job \in Trees => Covered
    /\ pool.error = "none" /\ call.job = "list" => ListCovered

Accounts == Stream /\ Ledger /\ Ending /\ Tracked /\ (call.job = "remove" => Emptied)

-------------------------------------------------------------------------------
(* Sequences without repetition *)

LEMMA FrontIs ==
    ASSUME NEW S, NEW s \in Seq(S), s # <<>>
    PROVE  /\ Front(s) \in Seq(S) /\ Len(Front(s)) = Len(s) - 1
           /\ \A i \in 1 .. Len(s) - 1 : Front(s)[i] = s[i]
<1> DEFINE n == Len(s)
           f == SubSeq(s, 1, n - 1)
<1>1. n \in Nat /\ n # 0 /\ \A i \in 1 .. n : s[i] \in S BY EmptySeq
<1>2. f = Front(s) BY DEF Front
<1> HIDE DEF n
<1>3. \A i \in 1 .. n - 1 : i \in 1 .. n /\ i # n BY <1>1
<1>4. /\ f \in Seq(S) /\ Len(f) = (IF 1 <= n - 1 THEN n - 1 - 1 + 1 ELSE 0)
      /\ \A i \in 1 .. n - 1 - 1 + 1 : f[i] = s[1 + i - 1]
  BY <1>1, <1>3, SubSeqProperties
<1>5. f \in Seq(S) /\ Len(f) = n - 1 /\ \A i \in 1 .. n - 1 : f[i] = s[i] BY <1>1, <1>4
<1> QED BY <1>2, <1>5 DEF n

LEMMA InjFront ==
    ASSUME NEW S, NEW s \in Seq(S), s # <<>>
    PROVE  /\ ToSet(s) = ToSet(Front(s)) \cup {Last(s)}
           /\ IsInjective(s) => IsInjective(Front(s)) /\ Last(s) \notin ToSet(Front(s))
<1> DEFINE n == Len(s)
           f == Front(s)
<1>1. n \in Nat /\ n # 0 /\ DOMAIN s = 1 .. n /\ \A i \in 1 .. n : s[i] \in S
  BY EmptySeq
<1>2. f = Front(s) /\ Last(s) = s[n] BY DEF Last
<1>4. f \in Seq(S) /\ Len(f) = n - 1 /\ \A i \in 1 .. n - 1 : f[i] = s[i] BY FrontIs
<1> HIDE DEF n
<1>3. \A i \in 1 .. n - 1 : i \in 1 .. n /\ i # n BY <1>1
<1>5. DOMAIN f = 1 .. n - 1 BY <1>4
<1> HIDE DEF f
<1>6. n \in 1 .. n /\ \A i \in 1 .. n : i = n \/ i \in 1 .. n - 1 BY <1>1
<1>7. ToSet(s) = ToSet(f) \cup {s[n]}
  <2>1. ToSet(s) \subseteq ToSet(f) \cup {s[n]} BY <1>1, <1>4, <1>5, <1>6 DEF ToSet
  <2>2. ToSet(f) \cup {s[n]} \subseteq ToSet(s) BY <1>1, <1>3, <1>4, <1>5, <1>6 DEF ToSet
  <2> QED BY <2>1, <2>2
<1>8. ASSUME IsInjective(s) PROVE IsInjective(f) /\ s[n] \notin ToSet(f)
  <2>1. IsInjective(f) BY <1>1, <1>3, <1>4, <1>5, <1>8 DEF IsInjective
  <2>2. \A i \in 1 .. n - 1 : f[i] # s[n] BY <1>1, <1>3, <1>4, <1>6, <1>8 DEF IsInjective
  <2> QED BY <1>5, <2>1, <2>2 DEF ToSet
<1> QED BY <1>2, <1>7, <1>8

LEMMA InjTail ==
    ASSUME NEW S, NEW s \in Seq(S), s # <<>>
    PROVE  /\ ToSet(s) = ToSet(Tail(s)) \cup {Head(s)}
           /\ IsInjective(s) => IsInjective(Tail(s)) /\ Head(s) \notin ToSet(Tail(s))
<1>1. Len(s) \in Nat \ {0} /\ DOMAIN s = 1 .. Len(s) BY EmptySeq
<1>2. /\ Tail(s) \in Seq(S) /\ Len(Tail(s)) = Len(s) - 1 /\ Head(s) = s[1]
      /\ \A i \in 1 .. Len(Tail(s)) : Tail(s)[i] = s[i + 1]
  BY HeadTailProperties
<1>3. DOMAIN Tail(s) = 1 .. Len(s) - 1 BY <1>2
<1>4. \A i \in 1 .. Len(s) - 1 : i + 1 \in 1 .. Len(s) /\ i + 1 # 1 BY <1>1
<1>5. \A i \in 1 .. Len(s) : i = 1 \/ (i - 1 \in 1 .. Len(s) - 1 /\ i = (i - 1) + 1) BY <1>1
<1>6. ToSet(s) = ToSet(Tail(s)) \cup {s[1]}
  <2>1. ASSUME NEW i \in 1 .. Len(s) PROVE s[i] \in ToSet(Tail(s)) \cup {s[1]}
    <3>1. CASE i = 1 BY <3>1
    <3>2. CASE i - 1 \in 1 .. Len(s) - 1 /\ i = (i - 1) + 1
      <4>1. Tail(s)[i - 1] = s[i] BY <1>2, <3>2
      <4> QED BY <1>3, <3>2, <4>1 DEF ToSet
    <3> QED BY <1>5, <3>1, <3>2
  <2>2. \A i \in 1 .. Len(s) - 1 : Tail(s)[i] \in ToSet(s) BY <1>1, <1>2, <1>4 DEF ToSet
  <2>3. s[1] \in ToSet(s) BY <1>1 DEF ToSet
  <2> QED BY <1>1, <1>3, <2>1, <2>2, <2>3 DEF ToSet
<1>7. ASSUME IsInjective(s) PROVE IsInjective(Tail(s)) /\ s[1] \notin ToSet(Tail(s))
  <2>1. IsInjective(Tail(s))
    <3> SUFFICES ASSUME NEW a \in 1 .. Len(s) - 1, NEW b \in 1 .. Len(s) - 1,
                        Tail(s)[a] = Tail(s)[b]
                 PROVE  a = b
      BY <1>3 DEF IsInjective
    <3>1. s[a + 1] = s[b + 1] BY <1>2
    <3>2. a + 1 = b + 1 BY <1>1, <1>4, <1>7, <3>1 DEF IsInjective
    <3> QED BY <1>1, <3>2
  <2>2. \A i \in 1 .. Len(s) - 1 : Tail(s)[i] # s[1]
    BY <1>1, <1>2, <1>4, <1>7 DEF IsInjective
  <2> QED BY <1>3, <2>1, <2>2 DEF ToSet
<1> QED BY <1>2, <1>6, <1>7

LEMMA InjAppend ==
    ASSUME NEW S, NEW s \in Seq(S), NEW e \in S
    PROVE  /\ ToSet(Append(s, e)) = ToSet(s) \cup {e}
           /\ IsInjective(s) /\ e \notin ToSet(s) => IsInjective(Append(s, e))
<1> DEFINE t == Append(s, e)
<1>1. /\ Len(s) \in Nat /\ DOMAIN s = 1 .. Len(s) /\ t \in Seq(S) /\ Len(t) = Len(s) + 1
      /\ t[Len(s) + 1] = e /\ \A i \in 1 .. Len(s) : t[i] = s[i]
  OBVIOUS
<1>2. DOMAIN t = 1 .. Len(s) + 1 BY <1>1
<1> HIDE DEF t
<1>3. \A i \in 1 .. Len(s) + 1 : i \in 1 .. Len(s) \/ i = Len(s) + 1 BY <1>1
<1>4. \A i \in 1 .. Len(s) : i \in 1 .. Len(s) + 1 BY <1>1
<1>5. Len(s) + 1 \in 1 .. Len(s) + 1 BY <1>1
<1>6. ToSet(t) = ToSet(s) \cup {e} BY <1>1, <1>2, <1>3, <1>4, <1>5 DEF ToSet
<1>7. ASSUME IsInjective(s), e \notin ToSet(s) PROVE IsInjective(t)
  BY <1>1, <1>2, <1>3, <1>7 DEF IsInjective, ToSet
<1> QED BY <1>6, <1>7 DEF t

LEMMA ReverseSet ==
    ASSUME NEW S, NEW s \in Seq(S)
    PROVE  ToSet(Reverse(s)) = ToSet(s) /\ (IsInjective(s) => IsInjective(Reverse(s)))
<1> DEFINE n == Len(s)
           r == [i \in 1 .. n |-> s[(n - i) + 1]]
<1>1. n \in Nat /\ DOMAIN s = 1 .. n /\ DOMAIN r = 1 .. n OBVIOUS
<1> HIDE DEF n
<1>2. \A i \in 1 .. n : (n - i) + 1 \in 1 .. n /\ i = (n - ((n - i) + 1)) + 1 BY <1>1
<1>3. \A i \in 1 .. n : r[i] = s[(n - i) + 1] OBVIOUS
<1> HIDE DEF r
<1>4. ToSet(r) \subseteq ToSet(s) BY <1>1, <1>2, <1>3 DEF ToSet
<1>5. ToSet(s) \subseteq ToSet(r)
  <2> SUFFICES ASSUME NEW i \in 1 .. n PROVE s[i] \in ToSet(r) BY <1>1 DEF ToSet
  <2>1. r[(n - i) + 1] = s[(n - ((n - i) + 1)) + 1] BY <1>2, <1>3
  <2> QED BY <1>1, <1>2, <2>1 DEF ToSet
<1>6. ASSUME IsInjective(s) PROVE IsInjective(r)
  <2> SUFFICES ASSUME NEW a \in 1 .. n, NEW b \in 1 .. n, r[a] = r[b] PROVE a = b
    BY <1>1 DEF IsInjective
  <2>1. (n - a) + 1 = (n - b) + 1 BY <1>1, <1>2, <1>3, <1>6 DEF IsInjective
  <2> QED BY <1>1, <2>1
<1>7. r = Reverse(s) BY DEF r, n, Reverse
<1> QED BY <1>4, <1>5, <1>6, <1>7

LEMMA ConcatSet ==
    ASSUME NEW S, NEW s \in Seq(S), NEW t \in Seq(S)
    PROVE  /\ ToSet(s \o t) = ToSet(s) \cup ToSet(t)
           /\ IsInjective(s) /\ IsInjective(t) /\ ToSet(s) \cap ToSet(t) = {} => IsInjective(s \o t)
<1> DEFINE m == Len(s)
           n == Len(t)
           u == s \o t
<1>1. /\ m \in Nat /\ n \in Nat /\ DOMAIN s = 1 .. m /\ DOMAIN t = 1 .. n
      /\ u \in Seq(S) /\ Len(u) = m + n
      /\ \A i \in 1 .. m + n : u[i] = IF i <= m THEN s[i] ELSE t[i - m]
  BY ConcatProperties
<1>2. DOMAIN u = 1 .. m + n BY <1>1
<1> HIDE DEF m, n, u
<1>3. \A i \in 1 .. m + n : IF i <= m THEN i \in 1 .. m ELSE i - m \in 1 .. n BY <1>1
<1>4. \A i \in 1 .. m : i \in 1 .. m + n /\ u[i] = s[i] BY <1>1
<1>5. \A i \in 1 .. n : i + m \in 1 .. m + n /\ u[i + m] = t[i]
  <2> SUFFICES ASSUME NEW i \in 1 .. n PROVE i + m \in 1 .. m + n /\ u[i + m] = t[i] OBVIOUS
  <2>1. i + m \in 1 .. m + n /\ ~(i + m <= m) /\ (i + m) - m = i BY <1>1
  <2> QED BY <1>1, <2>1
<1>6. ToSet(u) = ToSet(s) \cup ToSet(t)
  <2>1. ToSet(u) \subseteq ToSet(s) \cup ToSet(t) BY <1>1, <1>2, <1>3 DEF ToSet
  <2>2. ToSet(s) \subseteq ToSet(u) BY <1>1, <1>2, <1>4 DEF ToSet
  <2>3. ToSet(t) \subseteq ToSet(u) BY SMTT(30), <1>1, <1>2, <1>5 DEF ToSet
  <2> QED BY <2>1, <2>2, <2>3
<1>7. ASSUME IsInjective(s), IsInjective(t), ToSet(s) \cap ToSet(t) = {} PROVE IsInjective(u)
  <2> SUFFICES ASSUME NEW a \in 1 .. m + n, NEW b \in 1 .. m + n, u[a] = u[b] PROVE a = b
    BY <1>2 DEF IsInjective
  <2>1. \A i \in 1 .. m, j \in 1 .. n : s[i] # t[j] BY <1>1, <1>7 DEF ToSet
  <2>2. CASE a <= m /\ b <= m BY <1>1, <1>3, <1>7, <2>2 DEF IsInjective
  <2>3. CASE ~(a <= m) /\ ~(b <= m)
    <3>1. a - m \in 1 .. n /\ b - m \in 1 .. n /\ t[a - m] = t[b - m] BY <1>1, <1>3, <2>3
    <3>2. a - m = b - m BY <1>1, <1>7, <3>1 DEF IsInjective
    <3> QED BY <1>1, <3>2
  <2>4. CASE a <= m /\ ~(b <= m) BY <1>1, <1>3, <2>1, <2>4
  <2>5. CASE ~(a <= m) /\ b <= m BY <1>1, <1>3, <2>1, <2>5
  <2> QED BY <2>2, <2>3, <2>4, <2>5
<1> QED BY <1>6, <1>7 DEF u

LEMMA EmptySet == ToSet(<<>>) = {} /\ IsInjective(<<>>)
BY DEF ToSet, IsInjective

LEMMA EmptyIffNone == ASSUME NEW S, NEW s \in Seq(S), ToSet(s) = {} PROVE s = <<>>
BY EmptySeq, ElementsTyped DEF ToSet

-------------------------------------------------------------------------------
(* What the pool has in hand *)

LEMMA Alone == Sequential => \A v, w \in Worker : v = w
<1> SUFFICES ASSUME Sequential PROVE \A v, w \in Worker : v = w OBVIOUS
<1>1. IsFiniteSet(Worker) /\ Cardinality(Worker) = 1 BY PoolAssumption DEF Sequential
<1>2. \E w : Worker = {w} BY <1>1, FS_Singleton
<1> QED BY <1>2

\* Everything a step can do to the pool, when it offers nothing and when it may.
PoolRest ==
    \/ \E w \in Worker : Take(w) \/ Handled(w)
    \/ \E w \in Worker, e \in Errors : HandlerFails(w, e)
    \/ \E e \in Errors \ {"none"} : ProducerFails(e)
    \/ Exhausted \/ CancelPool \/ Unwind \/ Join \/ UNCHANGED pool
PoolStep == PoolRest \/ \E n \in Own : Offer(n)

\* Which steps do anything to the local tree or to the ledger.
LEMMA StepsOfPool ==
    ASSUME IndInv, [TreeNext]_<<treeVars, pool>>
    PROVE  /\ PoolRest \/ \E n \in Own : Claim(n) /\ Offer(n)
           /\ \/ PoolRest /\ UNCHANGED <<call, folding, local, state>>
              \/ EndDirectory \/ \E n \in Own : Claim(n)
              \/ \E w \in Worker : BeginTransfer(w) \/ EndTransfer(w)
<1>1. {"server", "local", "value", "cancelled"} = Errors \ {"none"} BY DEF Errors
<1> DEFINE Quiet == PoolRest /\ UNCHANGED <<call, folding, local, state>>
<1>2. OpenDirectory \/ ListingFails \/ WalkEnds \/ StartList => Quiet
  BY <1>1 DEF OpenDirectory, ListingFails, WalkEnds, StartList, PoolRest, treeVars
<1>3. ASSUME NEW n \in Node, NEW kind, ReadEntry(n, kind) PROVE Quiet
  BY <1>3 DEF ReadEntry, PoolRest
<1>4. EndDirectory => PoolRest BY <1>1 DEF EndDirectory, PoolRest
<1>5. ASSUME NEW n \in Node, Claim(n) PROVE n \in Own /\ (PoolRest \/ Offer(n))
  <2>1. n \in Own
    <3>1. walk.queue \in Seq(Own) /\ walk.queue # <<>> /\ n = Head(walk.queue)
      BY <1>5 DEF Claim, IndInv, TreeTypeOK
    <3> QED BY <3>1, HeadTailProperties
  <2>2. ProducerFails("local") \/ UNCHANGED pool \/ Offer(n) BY <1>5 DEF Claim
  <2> QED BY <1>1, <2>1, <2>2 DEF PoolRest
<1>6. ASSUME NEW w \in Worker, Pick(w) \/ TransferFails(w) PROVE Quiet
  BY <1>1, <1>6 DEF Pick, TransferFails, PoolRest, treeVars
<1>7. ASSUME NEW w \in Worker, BeginTransfer(w) \/ EndTransfer(w) PROVE PoolRest
  BY <1>7 DEF BeginTransfer, EndTransfer, PoolRest
<1>8. Unwinds \/ Joins \/ Finish \/ RemoveNext \/ RemoveFails \/ CancelCall => Quiet
  BY DEF Unwinds, Joins, Finish, RemoveNext, RemoveFails, CancelCall, PoolRest, treeVars
<1>9. ASSUME NEW n \in Node, Vanish(n) PROVE Quiet BY <1>9 DEF Vanish, PoolRest
<1>10. UNCHANGED <<treeVars, pool>> => Quiet BY DEF PoolRest, treeVars
<1> QED BY <1>2, <1>3, <1>4, <1>5, <1>6, <1>7, <1>8, <1>9, <1>10 DEF TreeNext, TreeStep

LEMMA StreamKeeps == TreeTypeOK /\ Pooled /\ Stream /\ PoolStep => Stream'
<1> SUFFICES ASSUME TreeTypeOK, Pooled, Stream, PoolStep PROVE Stream' OBVIOUS
<1>1. /\ pool \in [gen : {"running", "sending", "suspended", "closed"}, offered : Item,
                   held : [Worker -> Item], error : Errors, over : BOOLEAN]
      /\ NoItem \in Item
  BY DEF TreeTypeOK, Item
<1>2. Sequential' = Sequential BY DEF Sequential
<1>3. ASSUME NEW w \in Worker, Take(w) PROVE Stream'
  BY <1>1, <1>2, <1>3 DEF Take, Stream
<1>4. ASSUME NEW w \in Worker, Handled(w) PROVE Stream'
  <2>1. /\ pool'.offered = pool.offered /\ pool'.held[w] = NoItem
        /\ pool'.gen = IF Sequential /\ pool.error = "none" THEN "running" ELSE pool.gen
        /\ pool'.error = pool.error /\ \A v \in Worker \ {w} : pool'.held[v] = pool.held[v]
    BY <1>1, <1>4 DEF Handled
  <2>2. CASE Sequential BY <1>2, <2>1, <2>2, Alone DEF Stream
  <2>3. CASE ~Sequential BY <1>2, <2>1, <2>3 DEF Stream
  <2> QED BY <2>2, <2>3
<1>5. ASSUME NEW w \in Worker, NEW e \in Errors, HandlerFails(w, e) PROVE Stream'
  <2>1. /\ pool'.offered = pool.offered /\ pool'.held[w] = NoItem /\ pool'.gen = pool.gen
        /\ \A v \in Worker \ {w} : pool'.held[v] = pool.held[v]
        /\ pool'.error = "none" => pool.error = "none"
    BY <1>1, <1>5 DEF HandlerFails, Raised
  <2> QED BY <1>2, <2>1 DEF Stream
<1>6. ASSUME NEW e \in Errors \ {"none"}, ProducerFails(e) PROVE Stream'
  BY <1>1, <1>2, <1>6 DEF ProducerFails, Producing, Stream
<1>7. ASSUME NEW n \in Own, Offer(n) PROVE Stream'
  BY <1>1, <1>2, <1>7 DEF Offer, Producing, Stream
<1>8. ASSUME Exhausted \/ CancelPool \/ Join \/ UNCHANGED pool PROVE Stream'
  BY <1>1, <1>2, <1>8 DEF Exhausted, CancelPool, Join, Producing, Stream
<1>9. ASSUME Unwind PROVE Stream'
  <2>1. pool'.error # "none" BY <1>1, <1>9 DEF Unwind
  <2>2. pool'.offered # NoItem => pool'.offered = pool.offered /\ pool'.gen = pool.gen
    BY <1>1, <1>9 DEF Unwind, Stream
  <2>3. pool'.gen = "sending" => pool.gen = "sending" BY <1>1, <1>9 DEF Unwind
  <2> QED BY <1>2, <2>1, <2>2, <2>3 DEF Stream
<1> QED BY <1>3, <1>4, <1>5, <1>6, <1>7, <1>8, <1>9 DEF PoolStep, PoolRest

LEMMA HandlingIs ==
    /\ \A m : m \in Handling <=> m # NoItem /\ (m = pool.offered \/ \E w \in Worker : pool.held[w] = m)
    /\ \A m : m \in Handling' <=>
          m # NoItem /\ (m = pool'.offered \/ \E w \in Worker : pool'.held[w] = m)
BY DEF Handling

\* Whatever the pool does, nothing comes into its hands but what is offered, and nothing
\* leaves them unnoticed.
LEMMA HandlingSteps ==
    ASSUME TreeTypeOK, Pooled, Stream
    PROVE  /\ \A w \in Worker : Take(w) => Handling' = Handling
           /\ \A w \in Worker : Handled(w) =>
                  Handling' = Handling \ {pool.held[w]} /\ pool.held[w] \in Handling
           /\ \A n \in Own : Offer(n) => Handling' \subseteq Handling \cup {n} /\ n \in Handling'
                                         /\ Handling \subseteq Handling'
           /\ PoolRest => Handling' \subseteq Handling
           /\ UNCHANGED pool \/ Exhausted \/ Join \/ CancelPool => Handling' = Handling
<1>1. /\ pool \in [gen : {"running", "sending", "suspended", "closed"}, offered : Item,
                   held : [Worker -> Item], error : Errors, over : BOOLEAN]
      /\ NoItem \in Item
  BY DEF TreeTypeOK, Item
<1>2. ASSUME NEW w \in Worker, Take(w) PROVE Handling' = Handling
  <2>1. /\ pool'.offered = NoItem /\ pool'.held[w] = pool.offered /\ pool.held[w] = NoItem
        /\ \A v \in Worker \ {w} : pool'.held[v] = pool.held[v]
    BY <1>1, <1>2 DEF Take
  <2>2. \A m : m \in Handling' <=> m \in Handling BY <2>1, HandlingIs
  <2> QED BY <2>2
<1>3. ASSUME NEW w \in Worker, Handled(w)
      PROVE  Handling' = Handling \ {pool.held[w]} /\ pool.held[w] \in Handling
  <2>1. /\ pool'.offered = pool.offered /\ pool'.held[w] = NoItem /\ pool.held[w] # NoItem
        /\ \A v \in Worker \ {w} : pool'.held[v] = pool.held[v]
    BY <1>1, <1>3 DEF Handled
  <2>2. pool.held[w] # pool.offered /\ \A v \in Worker \ {w} : pool.held[v] # pool.held[w]
    BY <2>1 DEF Pooled
  <2>3. \A m : m \in Handling' <=> m \in Handling /\ m # pool.held[w]
    BY <2>1, <2>2, HandlingIs
  <2> QED BY <2>1, <2>3, HandlingIs
<1>4. ASSUME NEW n \in Own, Offer(n)
      PROVE  Handling' \subseteq Handling \cup {n} /\ n \in Handling' /\ Handling \subseteq Handling'
  <2>1. pool.gen = "running" /\ pool.error = "none" BY <1>4 DEF Offer, Producing
  <2>2. pool.offered = NoItem BY <2>1 DEF Stream
  <2>3. n # NoItem /\ n \in Item BY OwnNodes DEF Item
  <2>4. CASE Sequential
    <3>1. pool'.offered = pool.offered /\ \A w \in Worker : pool'.held[w] = n
      BY <1>1, <1>4, <2>3, <2>4 DEF Offer
    <3>2. \A w \in Worker : pool.held[w] = NoItem BY <2>1, <2>4 DEF Stream
    <3>3. \E w : w \in Worker BY PoolAssumption
    <3> QED BY <2>2, <2>3, <3>1, <3>2, <3>3, HandlingIs
  <2>5. CASE ~Sequential
    <3>1. pool'.offered = n /\ \A w \in Worker : pool'.held[w] = pool.held[w]
      BY <1>1, <1>4, <2>3, <2>5 DEF Offer
    <3> QED BY <2>2, <2>3, <3>1, HandlingIs
  <2> QED BY <2>4, <2>5
<1>5. ASSUME UNCHANGED pool \/ Exhausted \/ Join \/ CancelPool PROVE Handling' = Handling
  <2>1. pool'.offered = pool.offered /\ pool'.held = pool.held
    BY <1>1, <1>5 DEF Exhausted, Join, CancelPool
  <2> QED BY <2>1 DEF Handling
<1>6. ASSUME NEW w \in Worker, NEW e \in Errors, HandlerFails(w, e)
  PROVE Handling' \subseteq Handling
  <2>1. /\ pool'.offered = pool.offered /\ pool'.held[w] = NoItem
        /\ \A v \in Worker \ {w} : pool'.held[v] = pool.held[v]
    BY <1>1, <1>6 DEF HandlerFails
  <2> QED BY <2>1, HandlingIs
<1>7. ASSUME NEW e \in Errors \ {"none"}, ProducerFails(e) PROVE Handling' \subseteq Handling
  <2>1. pool'.offered = pool.offered /\ pool'.held = pool.held BY <1>1, <1>7 DEF ProducerFails
  <2> QED BY <2>1 DEF Handling
<1>8. ASSUME Unwind PROVE Handling' \subseteq Handling
  <2>1. \A v \in Worker : pool'.held[v] = pool.held[v] \/ pool'.held[v] = NoItem
    <3>1. CASE \E w \in Worker : pool' = [pool EXCEPT !.held[w] = NoItem]
      <4>1. PICK w \in Worker : pool' = [pool EXCEPT !.held[w] = NoItem] BY <3>1
      <4>2. pool'.held = [pool.held EXCEPT ![w] = NoItem] BY <1>1, <4>1
      <4> QED BY <1>1, <4>2
    <3>2. CASE pool'.held = pool.held BY <3>2
    <3> QED BY <1>1, <1>8, <3>1, <3>2 DEF Unwind
  <2>2. pool'.offered = pool.offered \/ pool'.offered = NoItem BY <1>1, <1>8 DEF Unwind
  <2> QED BY <2>1, <2>2, HandlingIs
<1> QED BY <1>2, <1>3, <1>4, <1>5, <1>6, <1>7, <1>8 DEF PoolRest

-------------------------------------------------------------------------------
(* Everything is accounted for *)

LEMMA InitiallyAccounts == TreeInit => Accounts
<1> SUFFICES ASSUME TreeInit PROVE Accounts OBVIOUS
<1>1. /\ pool.gen = "running" /\ ~pool.over /\ pool.offered = NoItem /\ pool.error = "none"
      /\ \A w \in Worker : pool.held[w] = NoItem
  BY DEF TreeInit, NewPool
<1>2. /\ walk.pending = (IF call.job = "list" THEN <<>> ELSE <<Root>>) /\ ~walk.handle
      /\ walk.queue = <<>> /\ walk.entries = <<>> /\ walk.entry.dir = Root
  BY DEF TreeInit, NewEntry
<1>3. /\ state.moved = <<>> /\ state.skipped = {} /\ state.collisions = {}
      /\ state.directories = {} /\ doomed = <<>> /\ outcome = "none"
  BY DEF TreeInit, NewState
<1>4. /\ Current = {} /\ Queued = {} /\ Handling = {} /\ Moved = {} /\ Told = {}
      /\ IsInjective(walk.queue) /\ IsInjective(state.moved)
  BY <1>1, <1>2, <1>3, EmptySet DEF Current, Queued, Handling, Moved, Told
<1>5. /\ Waiting = IF call.job = "list" THEN {} ELSE {Root}
      /\ IsInjective(walk.pending)
  <2>1. ToSet(<<Root>>) = {Root} /\ IsInjective(<<Root>>) BY DEF ToSet, IsInjective
  <2>2. CASE call.job = "list" BY <1>2, <2>2, EmptySet DEF Waiting
  <2>3. CASE call.job # "list" BY <1>2, <2>1, <2>3 DEF Waiting
  <2> QED BY <2>2, <2>3
<1>6. Stream /\ Ledger /\ Ending
  BY <1>1, <1>2, <1>3, <1>4 DEF Stream, Ledger, Ending
<1>7. Sorted BY <1>2, <1>3, <1>4, <1>5 DEF Sorted, Apart
<1>8. call.job \in Trees => Covered
  <2> SUFFICES ASSUME call.job \in Trees PROVE Covered OBVIOUS
  <2>1. Waiting = {Root} BY <1>5 DEF Trees
  <2>2. Placed = {Root} /\ Settled = {} BY <1>3, <1>4, <2>1 DEF Placed, Settled
  <2> QED BY <1>2, <2>1, <2>2 DEF Covered
<1>9. call.job = "list" => ListCovered BY <1>2, <1>3, <1>4 DEF ListCovered
<1>10. call.job = "remove" => Emptied
  <2>1. \A n \in Own \ {Root} : remote[n] # "absent" => remote[Parent[n]] = "dir"
    BY TreeAssumption, OwnNodes DEF TreeInit
  <2> QED BY <1>2, <1>3, <2>1 DEF Emptied
<1> QED BY <1>6, <1>7, <1>8, <1>9, <1>10 DEF Accounts, Tracked

\* What was moved is left alone.
LEMMA LedgerKept ==
    ASSUME TreeTypeOK, Ledger, UNCHANGED <<call, folding>>, state'.moved = state.moved,
           \A i \in Inodes : state.claims[i] # NoItem => state'.claims[i] = state.claims[i],
           Handling' \cap Moved = {},
           \A m \in Moved : Actual /\ local[Inode(m)].is = "whole" =>
                                local'[Inode(m)] = local[Inode(m)]
    PROVE  Ledger'
<1>1. Moved' = Moved /\ Moved \subseteq Own
  BY ElementsTyped DEF Moved, TreeTypeOK
<1>2. \A m \in Moved : Claims(m)
  BY DEF Ledger
<1>3. \A m \in Moved : Claims(m)' BY <1>1, <1>2, ClaimsStand DEF Item
<1>4. \A m \in Moved : Inode(m)' = Inode(m) /\ Actual' = Actual BY DEF Inode, Target, Actual
<1>5. \A m \in Moved : Actual => local'[Inode(m)] = [is |-> "whole", of |-> m]
  BY DEF Ledger
<1>6. \A m \in Moved : m \notin Handling' OBVIOUS
<1>7. IsInjective(state'.moved) BY DEF Ledger
<1> QED BY <1>1, <1>3, <1>4, <1>5, <1>6, <1>7 DEF Ledger

LEMMA LedgerKeeps ==
    ASSUME IndInv, Stream, Ledger, [TreeNext]_<<treeVars, pool>>
    PROVE  Ledger'
<1>1. /\ TreeTypeOK /\ Pooled
      /\ Moved \subseteq Own /\ \A m \in Moved : Claims(m) /\ m \notin Handling
      /\ \A m \in Moved : m \in Node /\ m # NoItem /\ Inode(m) \in Inodes /\ Key(m) \in Inodes
  <2>1. TreeTypeOK /\ Pooled BY DEF IndInv
  <2>2. Moved \subseteq Own BY <2>1, ElementsTyped DEF Moved, TreeTypeOK
  <2>3. \A m \in Moved : Claims(m) /\ m \notin Handling BY DEF Ledger
  <2>4. \A m \in Own : m \in Node /\ m # NoItem /\ Inode(m) \in Inodes /\ Key(m) \in Inodes
    BY OwnNodes, KeysAreInodes
  <2> QED BY <2>1, <2>2, <2>3, <2>4
<1>2. PoolRest => Handling' \cap Moved = {} BY <1>1, HandlingSteps
<1>3. CASE PoolRest /\ UNCHANGED <<call, folding, local, state>>
  BY <1>1, <1>2, <1>3, LedgerKept
<1>4. CASE EndDirectory
  <2>1. UNCHANGED <<call, folding>> /\ PoolRest
    <3>1. "local" \in Errors \ {"none"} BY DEF Errors
    <3> QED BY <1>4, <3>1 DEF EndDirectory, PoolRest
  <2>2. CASE UNCHANGED <<local, state>> BY <1>1, <1>2, <2>1, <2>2, LedgerKept
  <2>3. CASE Settling(walk.entry) /\ ~DirectoryRefused(walk.entry.dir) /\ call.job # "remove"
    <3> DEFINE n == walk.entry.dir
               k == Key(n)
               taken == n # Root /\ state.claims[k] # NoItem
    <3>1. state' = [state EXCEPT
               !.claims[k] = IF n = Root \/ taken THEN @ ELSE n,
               !.collisions = IF taken THEN @ \cup {n} ELSE @,
               !.directories = IF n = Root THEN @ ELSE @ \cup {n},
               !.times = @ \o (IF terse THEN <<>> ELSE walk.entry.dirs),
               !.skipped = @ \cup ToSet(walk.entry.skipped)]
      BY <2>3 DEF Settling
    <3>2. n \in Own /\ n \in Node /\ Inode(n) \in Inodes /\ k \in Inodes
      BY <1>1, OwnNodes, KeysAreInodes DEF TreeTypeOK, Entry
    <3>3. \/ UNCHANGED local
          \/ /\ call.job # "preview" /\ n # Root
             /\ local' = [local EXCEPT ![Inode(n)] = [is |-> "dir", of |-> NoItem]]
      BY <2>3 DEF Settling
    <3>4. n # Root /\ call.job = "tree" => local[Inode(n)].is \in {"dir", "none"}
      BY <2>3 DEF DirectoryRefused, Holds
    <3> HIDE DEF n, k, taken
    <3>5. /\ state'.moved = state.moved
          /\ \A i \in Inodes : state.claims[i] # NoItem => state'.claims[i] = state.claims[i]
      <4>1. state'.claims = [state.claims EXCEPT ![k] = IF n = Root \/ taken THEN @ ELSE n]
            /\ state'.moved = state.moved
        BY <3>1 DEF TreeTypeOK
      <4>2. n # Root /\ ~taken => state.claims[k] = NoItem BY DEF taken
      <4> QED BY <1>1, <4>1, <4>2 DEF TreeTypeOK
    <3>6. call.job # "list" BY <1>4 DEF EndDirectory, Walking
    <3>7. \A i \in Inodes : local[i].is = "whole" => local'[i] = local[i]
      <4>1. call.job \in {"tree", "preview", "remove", "list"} BY <1>1, Jobs DEF TreeTypeOK
      <4>2. CASE UNCHANGED local BY <4>2
      <4>3. CASE ~UNCHANGED local
        <5>1. /\ local' = [local EXCEPT ![Inode(n)] = [is |-> "dir", of |-> NoItem]]
              /\ local[Inode(n)].is # "whole"
          BY <2>3, <3>3, <3>4, <3>6, <4>1, <4>3
        <5>2. \A i \in Inodes \ {Inode(n)} : local'[i] = local[i]
          BY <1>1, <5>1 DEF TreeTypeOK
        <5> QED BY <5>1, <5>2
      <4> QED BY <4>2, <4>3
    <3> QED BY <1>1, <1>2, <2>1, <3>5, <3>7, LedgerKept
  <2> QED BY <1>4, <2>2, <2>3 DEF EndDirectory
<1>5. ASSUME NEW n \in Own, Claim(n) PROVE Ledger'
  <2>1. /\ n \in Node /\ n # NoItem /\ Inode(n) \in Inodes /\ Key(n) \in Inodes
        /\ UNCHANGED <<call, folding>>
    BY <1>5, OwnNodes, KeysAreInodes DEF Claim
  <2>2. \A i \in Inodes : local[i].is = "whole" => local'[i] = local[i]
    <3>1. UNCHANGED local \/ Touched(n) BY <1>5 DEF Claim
    <3>2. CASE UNCHANGED local BY <3>2
    <3>3. CASE local[Inode(n)].is = "none"
               /\ local' = [local EXCEPT ![Inode(n)] = [is |-> "empty", of |-> NoItem]]
      <4>1. \A i \in Inodes \ {Inode(n)} : local'[i] = local[i]
        BY <1>1, <3>3 DEF TreeTypeOK
      <4> QED BY <3>3, <4>1
    <3> QED BY <3>1, <3>2, <3>3 DEF Touched, Holds
  <2>3. CASE PoolRest /\ state'.moved = state.moved /\ state'.claims = state.claims
    BY <1>1, <1>2, <2>1, <2>2, <2>3, LedgerKept
  <2>4. CASE /\ Claimant(n) = NoItem /\ Offer(n)
             /\ state'.moved = state.moved /\ state'.claims = [state.claims EXCEPT ![Key(n)] = n]
    <3>1. state.claims[Key(n)] = NoItem BY <2>4 DEF Claimant
    <3>2. \A i \in Inodes : state.claims[i] # NoItem => state'.claims[i] = state.claims[i]
      BY <1>1, <2>4, <3>1 DEF TreeTypeOK
    <3>3. n \notin Moved BY <1>1, <2>1, <3>1 DEF Claims
    <3>4. Handling' \subseteq Handling \cup {n} BY <1>1, <2>4, HandlingSteps
    <3>5. Handling' \cap Moved = {} BY <1>1, <3>3, <3>4
    <3> QED BY <1>1, <2>1, <2>2, <2>4, <3>2, <3>5, LedgerKept
  <2>5. \/ PoolRest /\ state'.moved = state.moved /\ state'.claims = state.claims
        \/ /\ Claimant(n) = NoItem /\ Offer(n)
           /\ state'.moved = state.moved /\ state'.claims = [state.claims EXCEPT ![Key(n)] = n]
    <3>1. "local" \in Errors \ {"none"} BY DEF Errors
    <3>2. \/ (ProducerFails("local") \/ UNCHANGED pool)
             /\ state'.moved = state.moved /\ state'.claims = state.claims
          \/ Claimant(n) = NoItem /\ Offer(n) /\ state' = [state EXCEPT !.claims[Key(n)] = n]
      BY ZenonT(30), <1>1, <1>5 DEF Claim, TreeTypeOK
    <3> QED BY <1>1, <3>1, <3>2 DEF PoolRest, TreeTypeOK
  <2> QED BY <2>3, <2>4, <2>5
<1>6. ASSUME NEW w \in Worker, BeginTransfer(w) \/ EndTransfer(w) PROVE Ledger'
  <2> DEFINE n == pool.held[w]
  <2>1. n \in Own /\ n # NoItem /\ state.claims[Key(n)] = n /\ n \in Handling
    <3>1. n # NoItem BY <1>6 DEF BeginTransfer, EndTransfer
    <3>2. n \in Item /\ Claims(n) BY <1>1 DEF TreeTypeOK, Pooled
    <3> QED BY <3>1, <3>2, HandlingIs DEF Item, Claims
  <2>2. n \in Node /\ Inode(n) \in Inodes BY <2>1, OwnNodes, KeysAreInodes
  <2> HIDE DEF n
  <2>3. n \notin Moved BY <1>1, <2>1
  <2>4. ASSUME Actual, NEW m \in Moved PROVE Inode(m) # Inode(n)
    <3>1. state.claims[Key(m)] = m BY <1>1 DEF Claims
    <3>2. Key(m) = Inode(m) /\ Key(n) = Inode(n) BY <1>1, <2>2, <2>4, KeysAreInodes DEF Actual
    <3> QED BY <2>1, <2>3, <3>1, <3>2
  <2>5. PoolRest /\ UNCHANGED <<call, folding>>
    BY <1>6 DEF BeginTransfer, EndTransfer, PoolRest
  <2>6. ASSUME NEW v, local' = [local EXCEPT ![Inode(n)] = v]
        PROVE  \A m \in Moved : Actual => local'[Inode(m)] = local[Inode(m)]
    BY <1>1, <2>4, <2>6 DEF TreeTypeOK
  <2>7. CASE BeginTransfer(w)
    <3>1. local' = [local EXCEPT ![Inode(n)] = [is |-> "part", of |-> n]] /\ UNCHANGED state
      BY <2>7 DEF BeginTransfer, n
    <3>2. \A m \in Moved : Actual => local'[Inode(m)] = local[Inode(m)] BY <2>6, <3>1
    <3> QED BY <1>1, <1>2, <2>5, <3>1, <3>2, LedgerKept
  <2>8. CASE EndTransfer(w)
    <3>1. /\ \/ call.job = "preview"
             \/ local' = [local EXCEPT ![Inode(n)] = [is |-> "whole", of |-> n]]
          /\ state' = [state EXCEPT !.moved = Append(@, n)] /\ Handled(w)
      BY <2>8 DEF EndTransfer, n
    <3>2. /\ state'.moved = Append(state.moved, n) /\ state'.claims = state.claims
          /\ state.moved \in Seq(Own)
      BY <1>1, <3>1 DEF TreeTypeOK
    <3>3. Moved' = Moved \cup {n} /\ IsInjective(state'.moved)
      BY <2>1, <2>3, <3>2, InjAppend DEF Moved, Ledger
    <3>4. Handling' = Handling \ {n} BY <1>1, <3>1, HandlingSteps DEF n
    <3>5. \A m \in Moved \cup {n} : Claims(m)'
      BY <1>1, <2>1, <2>5, <3>2 DEF Claims, Key, Inode, Target
    <3>6. ASSUME Actual
      PROVE \A m \in Moved \cup {n} : local'[Inode(m)] = [is |-> "whole", of |-> m]
      <4>1. local' = [local EXCEPT ![Inode(n)] = [is |-> "whole", of |-> n]]
        BY <3>1, <3>6 DEF Actual
      <4>2. \A m \in Moved : local'[Inode(m)] = local[Inode(m)] BY <2>6, <3>6, <4>1
      <4>3. \A m \in Moved : local[Inode(m)] = [is |-> "whole", of |-> m] BY <3>6 DEF Ledger
      <4>4. local'[Inode(n)] = [is |-> "whole", of |-> n] BY <1>1, <2>2, <4>1 DEF TreeTypeOK
      <4> QED BY <4>2, <4>3, <4>4
    <3>7. Actual' = Actual /\ \A m \in Moved \cup {n} : Inode(m)' = Inode(m)
      BY <2>5 DEF Actual, Inode, Target
    <3>8. \A m \in Moved' : m \notin Handling' BY <1>1, <3>3, <3>4
    <3> QED BY <3>3, <3>5, <3>6, <3>7, <3>8 DEF Ledger
  <2> QED BY <1>6, <2>7, <2>8
<1> QED BY <1>3, <1>4, <1>5, <1>6, StepsOfPool

\* After the group has ended, the pool does nothing more unless it was an error.
LEMMA OverStays ==
    ASSUME Pooled, pool.over, pool.error = "none", PoolRest \/ \E n \in Own : Offer(n)
    PROVE  pool' = pool
<1>1. pool.gen = "closed" /\ \A w \in Worker : pool.held[w] = NoItem BY DEF Pooled
<1>2. ASSUME NEW w \in Worker, Take(w) \/ Handled(w) PROVE FALSE BY <1>1, <1>2 DEF Take, Handled
<1>3. ASSUME NEW w \in Worker, NEW e \in Errors, HandlerFails(w, e) PROVE FALSE
  BY <1>1, <1>3 DEF HandlerFails
<1>4. ASSUME NEW e \in Errors, ProducerFails(e) PROVE FALSE BY <1>4 DEF ProducerFails, Producing
<1>5. ASSUME NEW n \in Own, Offer(n) PROVE FALSE BY <1>5 DEF Offer, Producing
<1>6. ~Exhausted /\ ~CancelPool /\ ~Unwind /\ ~Join
  BY DEF Exhausted, Producing, CancelPool, Unwind, Join
<1> QED BY <1>2, <1>3, <1>4, <1>5, <1>6 DEF PoolRest

\* The generator is closed without an error only by coming to its end.
LEMMA ClosedWell ==
    ASSUME TreeTypeOK, PoolRest \/ \E n \in Own : Offer(n),
           pool'.gen = "closed", pool'.error = "none"
    PROVE  pool.error = "none" /\ (pool.gen = "closed" \/ Exhausted)
<1>1. pool \in [gen : {"running", "sending", "suspended", "closed"}, offered : Item,
                held : [Worker -> Item], error : Errors, over : BOOLEAN]
  BY DEF TreeTypeOK
<1>2. ASSUME NEW w \in Worker, Take(w) \/ Handled(w)
      PROVE  pool.error = "none" /\ pool.gen = "closed"
  BY <1>1, <1>2 DEF Take, Handled
<1>3. ASSUME NEW w \in Worker, NEW e \in Errors, HandlerFails(w, e)
      PROVE  pool.error = "none" /\ pool.gen = "closed"
  BY <1>1, <1>3 DEF HandlerFails, Raised
<1>4. ASSUME NEW e \in Errors \ {"none"}, ProducerFails(e) PROVE FALSE
  BY <1>1, <1>4 DEF ProducerFails
<1>5. ASSUME NEW n \in Own, Offer(n) PROVE FALSE BY <1>1, <1>5 DEF Offer
<1>6. Exhausted => pool.error = "none" BY DEF Exhausted, Producing
<1>7. CancelPool => FALSE BY <1>1 DEF CancelPool
<1>8. Unwind => FALSE
  <2>1. Unwind => pool'.error = pool.error /\ pool.error # "none" BY <1>1 DEF Unwind
  <2> QED BY <2>1
<1>9. Join => pool.error = "none" /\ pool.gen = "closed" BY <1>1 DEF Join
<1>10. UNCHANGED pool => pool.error = "none" /\ pool.gen = "closed" OBVIOUS
<1> QED BY <1>2, <1>3, <1>4, <1>5, <1>6, <1>7, <1>8, <1>9, <1>10 DEF PoolRest

\* An error is never taken back.
LEMMA ErrorStays ==
    ASSUME TreeTypeOK, PoolRest \/ \E n \in Own : Offer(n), pool'.error = "none"
    PROVE  pool.error = "none"
<1>1. pool \in [gen : {"running", "sending", "suspended", "closed"}, offered : Item,
                held : [Worker -> Item], error : Errors, over : BOOLEAN]
  BY DEF TreeTypeOK
<1>2. ASSUME NEW w \in Worker, Take(w) \/ Handled(w) PROVE pool.error = "none"
  BY <1>1, <1>2 DEF Take, Handled
<1>3. ASSUME NEW w \in Worker, NEW e \in Errors, HandlerFails(w, e) PROVE pool.error = "none"
  BY <1>1, <1>3 DEF HandlerFails, Raised
<1>4. ASSUME NEW e \in Errors, ProducerFails(e) PROVE pool.error = "none"
  BY <1>4 DEF ProducerFails, Producing
<1>5. ASSUME NEW n \in Own, Offer(n) PROVE pool.error = "none" BY <1>5 DEF Offer, Producing
<1>6. Exhausted \/ CancelPool \/ Join \/ UNCHANGED pool => pool.error = "none"
  BY <1>1 DEF Exhausted, Producing, CancelPool, Join
<1>7. Unwind => pool'.error = pool.error BY <1>1 DEF Unwind
<1> QED BY <1>2, <1>3, <1>4, <1>5, <1>6, <1>7 DEF PoolRest

\* Before the call has ended its end is not prepared, but for what the walk leaves.
LEMMA EndingKept ==
    ASSUME TreeTypeOK, Pooled, Ending, PoolRest \/ \E n \in Own : Offer(n),
           UNCHANGED <<call, doomed, outcome>>, outcome \notin {"returned", "collision"} \/ UNCHANGED state,
           pool.gen = "closed" /\ pool.error = "none" => UNCHANGED <<walk.queue, walk.entry>>,
           Exhausted => UNCHANGED walk /\ walk.queue = <<>>
                        /\ (call.job = "list" => walk.entry.dir # Root)
    PROVE  Ending'
<1>1. outcome \in {"returned", "collision"} \/ doomed # <<>> =>
          pool' = pool /\ pool.over /\ pool.error = "none"
  BY OverStays DEF Ending
<1>2. pool'.gen = "closed" /\ pool'.error = "none" =>
          walk'.queue = <<>> /\ (call.job = "list" => walk'.entry.dir # Root)
  BY ClosedWell DEF Ending
<1>3. outcome' \in {"returned", "collision"} /\ Actual' =>
          (outcome' = "collision" <=> state'.collisions # {})
  BY DEF Ending, Actual
<1>4. outcome' = "collision" => call'.job # "remove" BY DEF Ending
<1> QED BY <1>1, <1>2, <1>3, <1>4 DEF Ending

LEMMA EndingKeeps ==
    ASSUME IndInv, Ending, [TreeNext]_<<treeVars, pool>>
    PROVE  Ending'
<1>1. TreeTypeOK /\ Pooled /\ Walked BY DEF IndInv
<1>2. /\ walk \in [pending : Seq(Directories), handle : BOOLEAN, unlisted : SUBSET Own,
                   entry : Entry, queue : Seq(Own), entries : Seq(Entry)]
      /\ pool.error \in Errors
  BY <1>1 DEF TreeTypeOK
<1>3. PoolRest \/ \E n \in Own : Offer(n) BY StepsOfPool
<1>4. ASSUME Producing, outcome = "none", ~Exhausted, UNCHANGED <<call, doomed, outcome>>
      PROVE  Ending'
  BY <1>1, <1>3, <1>4, EndingKept DEF Producing
<1>6. CASE OpenDirectory \/ ListingFails \/ EndDirectory
           \/ (\E n \in Node, kind \in Kind \cup {"refused", "unknown"} : ReadEntry(n, kind))
  <2>1. Producing /\ outcome = "none" /\ UNCHANGED <<call, doomed, outcome>>
    BY <1>6 DEF OpenDirectory, ListingFails, EndDirectory, ReadEntry, Walking
  <2>2. ~Exhausted
    <3>1. UNCHANGED pool \/ pool'.error # "none"
      BY <1>1, <1>6
         DEF OpenDirectory, ListingFails, EndDirectory, ReadEntry, ProducerFails, TreeTypeOK
    <3>2. Exhausted => pool'.gen = "closed" /\ pool.gen # "closed" /\ pool'.error = "none"
      BY <1>1 DEF Exhausted, Producing, TreeTypeOK
    <3> QED BY <3>1, <3>2
  <2> QED BY <1>4, <2>1, <2>2
<1>7. CASE WalkEnds
  <2>1. UNCHANGED treeVars /\ walk.queue = <<>> /\ (call.job = "list" => walk.entry.dir # Root)
    BY <1>7 DEF WalkEnds
  <2> QED BY <1>1, <1>3, <2>1, EndingKept DEF treeVars
<1>8. CASE StartList
  <2>1. Producing /\ UNCHANGED <<call, doomed, outcome, state>> BY <1>8 DEF StartList
  <2>2. UNCHANGED pool \/ pool'.error # "none"
    BY <1>1, <1>8 DEF StartList, ProducerFails, TreeTypeOK
  <2>3. Exhausted => pool'.gen = "closed" /\ pool.gen # "closed" /\ pool'.error = "none"
    BY <1>1 DEF Exhausted, Producing, TreeTypeOK
  <2>4. pool.gen # "closed" BY <2>1 DEF Producing
  <2> QED BY <1>1, <1>3, <2>1, <2>2, <2>3, <2>4, EndingKept
<1>9. ASSUME NEW n \in Node, Claim(n) PROVE Ending'
  <2>1. Producing /\ outcome = "none" /\ UNCHANGED <<call, doomed, outcome>>
    BY <1>9 DEF Claim
  <2>2. UNCHANGED pool \/ pool'.error # "none" \/ Offer(n)
    BY <1>1, <1>9 DEF Claim, ProducerFails, TreeTypeOK
  <2>3. Exhausted => pool'.gen = "closed" /\ pool.gen # "closed" /\ pool'.error = "none"
    BY <1>1 DEF Exhausted, Producing, TreeTypeOK
  <2>4. Offer(n) => pool'.gen # "closed" BY <1>1 DEF Offer, TreeTypeOK
  <2> QED BY <1>4, <2>1, <2>2, <2>3, <2>4
<1>10. ASSUME NEW w \in Worker, Pick(w) \/ BeginTransfer(w) \/ EndTransfer(w) \/ TransferFails(w)
       PROVE  Ending'
  <2>1. UNCHANGED <<call, doomed, outcome, walk>>
    BY <1>10 DEF Pick, BeginTransfer, EndTransfer, TransferFails, treeVars
  <2>2. UNCHANGED state \/ pool.held[w] # NoItem
    BY <1>10 DEF Pick, BeginTransfer, EndTransfer, TransferFails, treeVars
  <2>3. ~Exhausted
    <3>1. Take(w) => pool'.gen # "closed" BY <1>1 DEF Take, TreeTypeOK
    <3>2. Handled(w) => pool.held[w] # NoItem /\ pool'.held[w] = NoItem
      BY <1>1 DEF Handled, TreeTypeOK
    <3>3. HandlerFails(w, "server") => pool.held[w] # NoItem /\ pool'.held[w] = NoItem
      BY <1>1 DEF HandlerFails, TreeTypeOK
    <3>4. Exhausted => pool'.gen = "closed" /\ pool.gen # "closed" /\ pool'.held = pool.held
      BY <1>1 DEF Exhausted, Producing, TreeTypeOK
    <3>5. Take(w) \/ Handled(w) \/ HandlerFails(w, "server") \/ UNCHANGED pool
      BY <1>10 DEF Pick, BeginTransfer, EndTransfer, TransferFails
    <3> QED BY <3>1, <3>2, <3>3, <3>4, <3>5
  <2>4. outcome \in {"returned", "collision"} => UNCHANGED state
    BY <1>1, <2>2 DEF Ending, Pooled
  <2> QED BY <1>1, <1>3, <2>1, <2>3, <2>4, EndingKept
<1>11. CASE Unwinds \/ Joins \/ CancelCall \/ UNCHANGED <<treeVars, pool>>
       \/ (\E n \in Node : Vanish(n))
  <2>1. UNCHANGED <<call, doomed, outcome, state>>
    BY <1>11 DEF Unwinds, Joins, CancelCall, Vanish, treeVars
  <2>2. UNCHANGED <<walk.queue, walk.entry>>
    BY <1>2, <1>11 DEF Unwinds, Joins, CancelCall, Vanish, treeVars
  <2>3. ~Exhausted
    <3>1. Unwinds => pool.error # "none" BY DEF Unwinds, Unwind
    <3>2. Joins => pool.gen \in {"suspended", "closed"} BY DEF Joins, Join
    <3>3. CancelCall => pool'.error # "none" BY <1>1 DEF CancelCall, CancelPool, TreeTypeOK
    <3>4. UNCHANGED <<treeVars, pool>> \/ (\E n \in Node : Vanish(n)) => UNCHANGED pool
      BY DEF Vanish
    <3>5. Exhausted => /\ pool'.gen = "closed" /\ pool.gen = "running"
                       /\ pool.error = "none" /\ pool'.error = "none"
      BY <1>1 DEF Exhausted, Producing, TreeTypeOK
    <3> QED BY <1>11, <3>1, <3>2, <3>3, <3>4, <3>5
  <2> QED BY <1>1, <1>3, <2>1, <2>2, <2>3, EndingKept
<1>12. CASE Finish
  <2>1. /\ pool.over /\ pool.gen = "closed" /\ UNCHANGED <<call, state, pool>> /\ outcome = "none"
    BY <1>1, <1>12 DEF Finish, Pooled
  <2>2. CASE pool.error # "none"
    <3>1. outcome' = pool.error /\ UNCHANGED <<doomed, walk>> BY <1>12, <2>2 DEF Finish
    <3>2. outcome' \notin {"returned", "collision"} BY <1>2, <3>1 DEF Errors
    <3> QED BY <2>1, <2>2, <3>1, <3>2 DEF Ending
  <2>3. CASE pool.error = "none" /\ call.job = "remove"
    <3>1. Dooms /\ outcome' = "none" BY <1>12, <2>1, <2>3 DEF Finish
    <3>2. UNCHANGED <<walk.queue, walk.entry>> BY <1>2, <3>1 DEF Dooms
    <3> QED BY <2>1, <2>3, <3>1, <3>2 DEF Ending
  <2>4. CASE pool.error = "none" /\ call.job # "remove"
    <3>1. /\ UNCHANGED <<doomed, walk>>
          /\ IF call.job = "preview" THEN outcome' = "returned"
             ELSE outcome' = IF state.collisions = {} THEN "returned" ELSE "collision"
      BY <1>12, <2>4 DEF Finish
    <3> QED BY <2>1, <2>4, <3>1 DEF Ending, Actual
  <2> QED BY <2>2, <2>3, <2>4
<1>13. CASE RemoveNext \/ RemoveFails
  <2>1. /\ doomed # <<>> /\ outcome = "none" /\ UNCHANGED <<call, state, pool>>
        /\ outcome' \in {"server", "cancelled", "returned", "none"}
    BY <1>13 DEF RemoveNext, RemoveFails
  <2>2. pool.over /\ pool.error = "none" /\ call.job = "remove" BY <1>1, <2>1 DEF Ending, Walked
  <2>3. UNCHANGED <<walk.queue, walk.entry>>
    BY <1>2, <1>13 DEF RemoveNext, RemoveFails, Dooms
  <2> QED BY <2>1, <2>2, <2>3 DEF Ending, Actual
<1> QED BY <1>6, <1>7, <1>8, <1>9, <1>10, <1>11, <1>12, <1>13 DEF TreeNext, TreeStep

\* From the queue to the end of its transfer an item changes hands.
LEMMA PassedOn ==
    ASSUME Tracked, UNCHANGED call, pool'.error = "none" => pool.error = "none",
           UNCHANGED <<walk.pending, walk.handle, walk.unlisted, walk.entry, state.directories>>,
           \A n \in Own : remote'[n] # "absent" => remote[n] # "absent",
           pool.error = "none" /\ call.job # "remove" =>
               /\ IsInjective(walk.queue) => IsInjective(walk'.queue)
               /\ Queued' \cup Handling' \cup Moved' \cup Told' =
                      Queued \cup Handling \cup Moved \cup Told
               /\ Sorted => /\ Queued' \cap (Handling' \cup Moved' \cup Told') = {}
                            /\ Handling' \cap (Moved' \cup Told') = {}
                            /\ Moved' \cap Told' = {}
    PROVE  Tracked'
<1> SUFFICES ASSUME pool'.error = "none", call.job # "remove"
             PROVE  Sorted' /\ (call.job \in Trees => Covered') /\ (call.job = "list" => ListCovered')
  BY DEF Tracked, Trees
<1>1. Sorted /\ (call.job \in Trees => Covered) /\ (call.job = "list" => ListCovered)
  BY DEF Tracked
<1>2. Waiting' = Waiting /\ Current' = Current /\ Settled' = Settled
  BY DEF Waiting, Current, Settled
<1>3. Sorted'
  BY <1>1, <1>2 DEF Sorted, Apart, EntryApart, Met
<1>4. Placed' = Placed BY <1>2 DEF Placed
<1>5. Covered => Covered'
  <2> SUFFICES ASSUME Covered PROVE Covered' OBVIOUS
  <2>1. Met(walk'.entry) = Met(walk.entry) BY DEF Met
  <2> QED BY <1>2, <1>4, <2>1 DEF Covered
<1>6. ListCovered => ListCovered'
  BY DEF ListCovered
<1> QED BY <1>1, <1>3, <1>5, <1>6

\* Nothing of ours is its own parent, but perhaps the directory the call was given.
LEMMA NotItsParent == \A n \in Own \ {Root} : Parent[n] # n
<1> SUFFICES ASSUME NEW n \in Own \ {Root} PROVE Parent[n] # n OBVIOUS
<1>1. {n} \in SUBSET (Own \ {Root}) /\ {n} # {} OBVIOUS
<1>2. \E m \in {n} : Parent[m] \notin {n} BY <1>1, TreeAssumption
<1> QED BY <1>2

LEMMA OpenTracks ==
    ASSUME IndInv, Tracked, OpenDirectory
    PROVE  Tracked'
<1> DEFINE n == Last(walk.pending)
<1>1. /\ TreeTypeOK /\ Remaining /\ call.job # "list" /\ ~walk.handle
      /\ walk.pending \in Seq(Directories) /\ walk.pending # <<>>
      /\ UNCHANGED <<call, remote, state>>
  BY DEF IndInv, TreeTypeOK, OpenDirectory, Walking
<1>2. n \in Directories /\ n \in Own BY <1>1, FrontTyped DEF Directories
<1> SUFFICES ASSUME pool'.error = "none", call.job # "remove"
             PROVE  Sorted' /\ (call.job \in Trees => Covered')
  BY <1>1 DEF Tracked, Trees
<1>3. /\ remote[n] \in {"dir", "link"} /\ UNCHANGED pool
      /\ walk' = [walk EXCEPT !.pending = Front(@), !.handle = TRUE,
                              !.unlisted = Listed(n), !.entry = NewEntry(n)]
  BY <1>1 DEF OpenDirectory, ProducerFails, TreeTypeOK
<1>4. /\ n \in ToSet(walk.pending)
      /\ IsInjective(walk.pending) =>
            /\ IsInjective(Front(walk.pending))
            /\ ToSet(Front(walk.pending)) = ToSet(walk.pending) \ {n}
  BY <1>1, InjFront
<1>5. Listed(n) = {c \in Node \ {Root} : Parent[c] = n /\ c # n /\ remote[c] # "absent"}
  <2>1. remote[n] = "dir" BY <1>1, <1>2, <1>3, OwnNodes DEF Directories, Remaining
  <2> QED BY <2>1 DEF Listed, Children
<1> HIDE DEF n
<1>6. /\ walk'.pending = Front(walk.pending) /\ walk'.handle /\ walk'.unlisted = Listed(n)
      /\ walk'.entry = NewEntry(n) /\ walk'.queue = walk.queue
  BY <1>1, <1>3 DEF TreeTypeOK
<1>7. /\ walk'.entry.dir = n /\ Met(walk'.entry) = {}
      /\ IsInjective(walk'.entry.dirs) /\ IsInjective(walk'.entry.files)
      /\ ToSet(walk'.entry.dirs) = {} /\ ToSet(walk'.entry.files) = {}
  BY <1>6, EmptySet DEF NewEntry, Met
<1>8. Sorted /\ (call.job \in Trees => Covered)
  BY <1>3 DEF Tracked
<1>9. /\ Waiting' = Waiting \ {n} /\ n \in Waiting /\ Current = {} /\ Current' = {n}
      /\ Queued' = Queued /\ Handling' = Handling /\ Moved' = Moved /\ Told' = Told
      /\ state'.directories = state.directories
  BY <1>1, <1>3, <1>4, <1>6, <1>7, <1>8
  DEF Waiting, Current, Queued, Handling, Moved, Told, Sorted
<1>10. Sorted'
  <2>1. EntryApart(walk'.entry, walk'.unlisted) BY <1>7 DEF EntryApart
  <2>2. Apart(Waiting', Current', Queued', Handling', Moved', Told', state'.directories)
    BY <1>8, <1>9 DEF Sorted, Apart
  <2>3. IsInjective(walk'.pending) /\ IsInjective(walk'.queue) BY <1>4, <1>6, <1>8 DEF Sorted
  <2> QED BY <2>1, <2>2, <2>3 DEF Sorted, EntryApart, Met
<1>11. Covered => Covered'
  <2> SUFFICES ASSUME Covered PROVE Covered' OBVIOUS
  <2>1. Placed' = Placed /\ Settled' = Settled BY <1>9 DEF Placed, Settled
  <2>2. \A m \in walk'.unlisted \cup Met(walk'.entry) : m # Root /\ Parent[m] = walk'.entry.dir
    BY <1>5, <1>6, <1>7
  <2>3. \A m \in Own \ {Root} : remote[m] # "absent" /\ Parent[m] = n => m \in walk'.unlisted
    BY <1>5, <1>6, NotItsParent, OwnNodes
  <2>4. Root \in Placed => Root \in Waiting' \cup Current' BY <1>9 DEF Covered
  <2>5. Met(walk.entry)' = Met(walk'.entry) BY DEF Met
  <2> QED BY <1>1, <1>7, <2>1, <2>2, <2>3, <2>4, <2>5 DEF Covered
<1> QED BY <1>8, <1>10, <1>11

LEMMA ReadTracks ==
    ASSUME IndInv, Tracked, NEW n \in Node, NEW kind, ReadEntry(n, kind)
    PROVE  Tracked'
<1> DEFINE tooDeep == Level[walk.entry.dir] >= call.depth
           unseen == kind = "absent" /\ ~terse
           into == IF kind = "dir" /\ ~tooDeep THEN "dirs"
                   ELSE IF kind = "file" THEN "files" ELSE "skipped"
<1>1. /\ walk.entry \in Entry /\ walk.handle /\ n \in walk.unlisted /\ n \in Own
      /\ UNCHANGED <<call, remote, state, pool>> /\ call.job # "list"
  BY DEF IndInv, TreeTypeOK, ReadEntry, Walking
<1>2. walk' = [walk EXCEPT !.unlisted = @ \ {n},
                           !.entry[into] = IF unseen THEN @ ELSE Append(@, n)]
  BY DEF ReadEntry
<1>3. unseen => remote[n] = "absent" BY DEF ReadEntry, KindsTold
<1>4. into \in {"dirs", "files", "skipped"} OBVIOUS
<1> HIDE DEF into, unseen
<1> SUFFICES ASSUME pool.error = "none", call.job # "remove"
             PROVE  Sorted' /\ (call.job \in Trees => Covered')
  BY <1>1 DEF Tracked, Trees
<1>5. Sorted /\ (call.job \in Trees => Covered) BY DEF Tracked
<1>6. /\ walk'.pending = walk.pending /\ walk'.handle = walk.handle /\ walk'.queue = walk.queue
      /\ walk'.unlisted = walk.unlisted \ {n}
      /\ walk'.entry = [walk.entry EXCEPT ![into] = IF unseen THEN @ ELSE Append(@, n)]
  BY <1>2 DEF IndInv, TreeTypeOK
\* Where what was read is now.
<1>7. /\ walk'.entry.dir = walk.entry.dir
      /\ EntryApart(walk'.entry, walk'.unlisted)
      /\ Met(walk'.entry) = IF unseen THEN Met(walk.entry) ELSE Met(walk.entry) \cup {n}
  <2>1. EntryApart(walk.entry, walk.unlisted) BY <1>1, <1>5 DEF Sorted
  <2>2. n \notin Met(walk.entry) BY <1>1, <2>1 DEF EntryApart
  <2>3. /\ walk.entry.dirs \in Seq(Own) /\ walk.entry.files \in Seq(Own)
        /\ walk.entry.skipped \in Seq(Own)
    BY <1>1 DEF Entry, Directories
  <2>4. CASE unseen
    <3>1. walk'.entry = walk.entry BY <1>1, <1>4, <1>6, <2>4 DEF Entry
    <3> QED BY <1>6, <2>1, <2>4, <3>1 DEF EntryApart
  <2>5. CASE ~unseen /\ into = "dirs"
    <3>1. /\ walk'.entry.dirs = Append(walk.entry.dirs, n) /\ walk'.entry.files = walk.entry.files
          /\ walk'.entry.skipped = walk.entry.skipped /\ walk'.entry.dir = walk.entry.dir
      BY <1>1, <1>6, <2>5 DEF Entry
    <3>2. /\ ToSet(walk'.entry.dirs) = ToSet(walk.entry.dirs) \cup {n}
          /\ IsInjective(walk'.entry.dirs)
      BY <1>1, <2>1, <2>2, <2>3, <3>1, InjAppend DEF EntryApart, Met
    <3> QED BY <1>6, <2>1, <2>2, <2>5, <3>1, <3>2 DEF EntryApart, Met
  <2>6. CASE ~unseen /\ into = "files"
    <3>1. /\ walk'.entry.files = Append(walk.entry.files, n) /\ walk'.entry.dirs = walk.entry.dirs
          /\ walk'.entry.skipped = walk.entry.skipped /\ walk'.entry.dir = walk.entry.dir
      BY <1>1, <1>6, <2>6 DEF Entry
    <3>2. /\ ToSet(walk'.entry.files) = ToSet(walk.entry.files) \cup {n}
          /\ IsInjective(walk'.entry.files)
      BY <1>1, <2>1, <2>2, <2>3, <3>1, InjAppend DEF EntryApart, Met
    <3> QED BY <1>6, <2>1, <2>2, <2>6, <3>1, <3>2 DEF EntryApart, Met
  <2>7. CASE ~unseen /\ into = "skipped"
    <3>1. /\ walk'.entry.skipped = Append(walk.entry.skipped, n)
          /\ walk'.entry.dirs = walk.entry.dirs /\ walk'.entry.files = walk.entry.files
          /\ walk'.entry.dir = walk.entry.dir
      BY <1>1, <1>6, <2>7 DEF Entry
    <3>2. ToSet(walk'.entry.skipped) = ToSet(walk.entry.skipped) \cup {n}
      BY <1>1, <2>3, <3>1, InjAppend
    <3> QED BY <1>6, <2>1, <2>2, <2>7, <3>1, <3>2 DEF EntryApart, Met
  <2> QED BY <1>4, <2>4, <2>5, <2>6, <2>7
<1>8. /\ Waiting' = Waiting /\ Current' = Current /\ Queued' = Queued /\ Handling' = Handling
      /\ Moved' = Moved /\ Told' = Told /\ Placed' = Placed /\ Settled' = Settled
  <2>1. Waiting' = Waiting /\ Current' = Current /\ Queued' = Queued
    BY <1>1, <1>6, <1>7 DEF Waiting, Current, Queued
  <2>2. Handling' = Handling /\ Moved' = Moved /\ Told' = Told
    BY <1>1 DEF Handling, Moved, Told
  <2> QED BY <1>1, <2>1, <2>2 DEF Placed, Settled
<1>9. Sorted'
  BY <1>1, <1>5, <1>6, <1>7, <1>8 DEF Sorted, EntryApart, Met
<1>10. Covered => Covered'
  <2> SUFFICES ASSUME Covered PROVE Covered' OBVIOUS
  <2>1. Met(walk.entry)' = Met(walk'.entry) BY DEF Met
  <2>2. \A m \in walk'.unlisted \cup Met(walk'.entry) : m # Root /\ Parent[m] = walk'.entry.dir
    BY <1>1, <1>6, <1>7 DEF Covered
  <2>3. \A m \in Own \ {Root} : remote[m] # "absent" /\ Parent[m] = walk.entry.dir
                                    => m \in walk'.unlisted \cup Met(walk'.entry)
    BY <1>1, <1>3, <1>6, <1>7 DEF Covered
  <2> QED BY <1>1, <1>7, <1>8, <2>1, <2>2, <2>3 DEF Covered
<1> QED BY <1>5, <1>9, <1>10

LEMMA StartListTracks ==
    ASSUME IndInv, Tracked, StartList
    PROVE  Tracked'
<1>1. /\ TreeTypeOK /\ call.job = "list" /\ walk.entry.dir = Root
      /\ UNCHANGED <<call, remote, state>>
  BY DEF IndInv, StartList
<1>2. CASE ProducerFails("value")
  <2>1. pool'.error # "none" BY <1>1, <1>2 DEF ProducerFails, TreeTypeOK
  <2> QED BY <2>1 DEF Tracked
<1>3. CASE /\ walk' = [walk EXCEPT !.queue = call.list, !.entry.dir = call.list[1]]
           /\ UNCHANGED pool /\ ~Duplicates(call.list)
  <2> SUFFICES ASSUME pool.error = "none" PROVE Sorted' /\ ListCovered'
    BY <1>1, <1>3 DEF Tracked, Trees
  <2>1. Sorted /\ ListCovered BY <1>1 DEF Tracked
  <2>2. call.list \in Seq(Own \ {Root}) /\ call.list # <<>>
    BY <1>1, TreeAssumption DEF TreeTypeOK
  <2>3. call.list[1] # Root BY <2>2, HeadTailProperties
  <2>4. IsInjective(call.list) BY <1>3 DEF Duplicates, IsInjective
  <2>5. /\ walk'.queue = call.list /\ walk'.entry.dir # Root
        /\ walk'.pending = walk.pending /\ walk'.handle = walk.handle
    BY <1>1, <1>3, <2>3 DEF TreeTypeOK, Entry
  <2>6. Queued = {} /\ Handling = {} /\ Moved = {} /\ Told = {}
    BY <1>1, <2>1 DEF ListCovered
  <2>7. Queued' = ToSet(call.list) /\ Handling' = {} /\ Moved' = {} /\ Told' = {}
    BY <1>1, <1>3, <2>5, <2>6 DEF Queued, Handling, Moved, Told
  <2>8. Waiting' = {} /\ Current' = {} /\ state'.directories = {} /\ ~walk'.handle
    BY <1>1, <2>1, <2>5, EmptySet DEF Waiting, Current, ListCovered
  <2>9. Sorted'
    <3>1. IsInjective(walk'.pending) /\ IsInjective(walk'.queue) BY <2>1, <2>4, <2>5 DEF Sorted
    <3> QED BY <2>7, <2>8, <3>1 DEF Sorted, Apart
  <2>10. ListCovered' BY <1>1, <2>1, <2>5, <2>7, <2>8 DEF ListCovered
  <2> QED BY <2>9, <2>10
<1> QED BY <1>2, <1>3 DEF StartList

\* The one step that finds something: what was read of a directory takes its places, and the
\* directory is settled.
LEMMA EndDirectoryTracks ==
    ASSUME IndInv, Tracked, EndDirectory
    PROVE  Tracked'
<1> DEFINE entry == walk.entry
           d == entry.dir
<1>1. /\ TreeTypeOK /\ entry \in Entry /\ d \in Own /\ walk.handle /\ walk.unlisted = {}
      /\ walk.queue = <<>> /\ call.job # "list" /\ UNCHANGED <<call, remote>>
  BY DEF IndInv, TreeTypeOK, Entry, EndDirectory, Walking
<1> SUFFICES ASSUME pool'.error = "none", call.job # "remove"
             PROVE  Sorted' /\ (call.job \in Trees => Covered')
  BY <1>1 DEF Tracked, Trees
<1>2. /\ UNCHANGED pool /\ Settling(entry)
      /\ walk' = [walk EXCEPT !.handle = FALSE, !.queue = entry.files, !.pending = Pushed(entry)]
  BY <1>1 DEF EndDirectory, ProducerFails, TreeTypeOK
<1> HIDE DEF entry
<1>3. Sorted /\ (call.job \in Trees => Covered) BY <1>2 DEF Tracked
<1>4. /\ walk'.handle = FALSE /\ walk'.queue = entry.files /\ walk'.pending = Pushed(entry)
      /\ walk'.entry = entry
  BY <1>1, <1>2 DEF TreeTypeOK, entry
<1>5. /\ state'.collisions \ ({d} \ {Root}) = state.collisions \ ({d} \ {Root})
      /\ state'.directories = state.directories \cup ({d} \ {Root})
      /\ state'.moved = state.moved
      /\ state'.skipped = state.skipped \cup ToSet(entry.skipped)
  <2> DEFINE k == Key(d)
             taken == d # Root /\ state.claims[k] # NoItem
             times == IF terse THEN <<>> ELSE entry.dirs
  <2>1. state' = [state EXCEPT
            !.claims[k] = IF d = Root \/ taken THEN @ ELSE d,
            !.collisions = IF taken THEN @ \cup {d} ELSE @,
            !.directories = IF d = Root THEN @ ELSE @ \cup {d},
            !.times = @ \o times,
            !.skipped = @ \cup ToSet(entry.skipped)]
    BY <1>2 DEF Settling
  <2>2. taken => d # Root OBVIOUS
  <2> HIDE DEF k, taken, times, d
  <2>3. /\ state'.collisions = IF taken THEN state.collisions \cup {d} ELSE state.collisions
        /\ state'.directories = IF d = Root THEN state.directories ELSE state.directories \cup {d}
        /\ state'.moved = state.moved
        /\ state'.skipped = state.skipped \cup ToSet(entry.skipped)
    BY <1>1, <2>1 DEF TreeTypeOK
  <2> QED BY <2>2, <2>3
<1> DEFINE D == ToSet(entry.dirs)
           F == ToSet(entry.files)
           K == ToSet(entry.skipped)
<1>6. /\ entry.dirs \in Seq(Own) /\ entry.files \in Seq(Own) /\ walk.pending \in Seq(Own)
      /\ D \cup F \cup K \subseteq Own /\ Met(entry) = D \cup F \cup K
  BY <1>1, ElementsTyped DEF TreeTypeOK, Entry, Directories, Met
<1>7. /\ IsInjective(entry.dirs) /\ IsInjective(entry.files)
      /\ D \cap (F \cup K) = {} /\ F \cap K = {}
  BY <1>1, <1>3 DEF Sorted, EntryApart, entry
<1>8. /\ Current = {d} /\ Queued = {}
      /\ Apart(Waiting, {d}, {}, Handling, Moved, Told, state.directories)
  BY <1>1, <1>3, EmptySet DEF Current, Queued, Sorted, entry
<1>9. Current' = {} /\ Queued' = F /\ Handling' = Handling /\ Moved' = Moved
  BY <1>2, <1>4, <1>5 DEF Current, Queued, Handling, Moved
<1>10. Told' = Told \cup K
  BY <1>5, <1>8 DEF Told, Apart
<1>11. Waiting' = Waiting \cup D
  <2>1. /\ Reverse(entry.dirs) \in Seq(Own) /\ ToSet(Reverse(entry.dirs)) = D
    BY <1>6, ReverseTyped, ReverseSet
  <2> QED BY <1>4, <1>6, <2>1, ConcatSet DEF Waiting, Pushed
\* What was met in it was nowhere before.
<1>12. call.job \in Trees
  BY <1>1, Jobs DEF TreeTypeOK, Trees
<1>13. Covered /\ \A n \in D \cup F \cup K : n # Root /\ Parent[n] = d
  BY <1>1, <1>3, <1>6, <1>12 DEF Covered, entry
<1>14. d \notin Settled
  BY <1>8 DEF Settled, Apart
<1>15. (D \cup F \cup K) \cap Placed = {}
  BY <1>13, <1>14 DEF Covered
<1>16. Placed = Waiting \cup {d} \cup Handling \cup Moved \cup Told \cup state.directories
  BY <1>8 DEF Placed
<1> HIDE DEF D, F, K, d
<1>17. Sorted'
  <2>1. Apart(Waiting', Current', Queued', Handling', Moved', Told', state'.directories)
    BY <1>5, <1>7, <1>8, <1>9, <1>10, <1>11, <1>15, <1>16 DEF Apart
  <2>2. IsInjective(walk'.pending)
    <3>1. /\ Reverse(entry.dirs) \in Seq(Own) /\ ToSet(Reverse(entry.dirs)) = D
          /\ IsInjective(Reverse(entry.dirs))
      BY <1>6, <1>7, ReverseTyped, ReverseSet DEF D
    <3>2. ToSet(walk.pending) \cap D = {} BY <1>15, <1>16 DEF Waiting
    <3>3. IsInjective(walk.pending) BY <1>3 DEF Sorted
    <3> QED BY <1>4, <1>6, <3>1, <3>2, <3>3, ConcatSet DEF Pushed
  <2> QED BY <1>4, <1>7, <2>1, <2>2 DEF Sorted
<1>18. Placed' = (Placed \ ({d} \cap {Root})) \cup D \cup F \cup K
  BY <1>5, <1>8, <1>9, <1>10, <1>11, <1>16 DEF Placed, Apart
<1>19. Settled' = Settled \cup {d}
  BY <1>5, <1>8, <1>9, <1>11, <1>13 DEF Settled, Apart
<1>20. Covered'
  <2>1. Root \in Placed' => Root \in Waiting' \cup Current'
    BY <1>8, <1>11, <1>13, <1>18 DEF Covered
  <2>2. \A n \in Placed' \ {Root} : Parent[n] \in Settled'
    BY <1>13, <1>18, <1>19 DEF Covered
  <2>3. ASSUME NEW n \in Own \ {Root}, remote[n] # "absent", Parent[n] \in Settled'
        PROVE  n \in Placed'
    <3>1. CASE Parent[n] \in Settled BY <1>13, <1>18, <2>3, <3>1 DEF Covered
    <3>2. CASE Parent[n] = d
      <4>1. n \in Met(entry) BY <1>1, <1>13, <2>3, <3>2 DEF Covered, entry, d
      <4> QED BY <1>6, <1>18, <4>1 DEF D, F, K
    <3> QED BY <1>19, <2>3, <3>1, <3>2
  <2> QED BY <1>1, <1>4, <2>1, <2>2, <2>3 DEF Covered
<1> QED BY <1>17, <1>20

LEMMA ClaimTracks ==
    ASSUME IndInv, Stream, Tracked, NEW n \in Node, Claim(n)
    PROVE  Tracked'
<1>1. /\ TreeTypeOK /\ Pooled /\ walk.queue \in Seq(Own) /\ walk.queue # <<>> /\ n = Head(walk.queue)
      /\ walk' = [walk EXCEPT !.queue = Tail(@)] /\ Producing
      /\ UNCHANGED <<call, remote>>
  BY DEF IndInv, TreeTypeOK, Claim
<1>2. CASE ProducerFails("local")
  <2>1. pool'.error # "none" BY <1>1, <1>2 DEF ProducerFails, TreeTypeOK
  <2> QED BY <1>1, <2>1 DEF Tracked
<1>3. CASE ~ProducerFails("local")
  <2>1. /\ UNCHANGED <<walk.pending, walk.handle, walk.unlisted, walk.entry>>
        /\ walk'.queue = Tail(walk.queue)
    BY <1>1 DEF TreeTypeOK
  <2>2. /\ n \in Own /\ Queued = ToSet(Tail(walk.queue)) \cup {n}
        /\ Queued' = ToSet(Tail(walk.queue))
        /\ IsInjective(walk.queue) => IsInjective(walk'.queue) /\ n \notin Queued'
    BY <1>1, <2>1, HeadTailProperties, InjTail DEF Queued
  <2>3. /\ UNCHANGED <<state.directories, state.moved>>
        /\ \/ /\ Offer(n) /\ UNCHANGED <<state.skipped, state.collisions>>
           \/ /\ UNCHANGED pool
              /\ \/ /\ state'.skipped = state.skipped \cup {n}
                    /\ state'.collisions \in {state.collisions, state.collisions \cup {n}}
                 \/ /\ UNCHANGED state.skipped /\ state'.collisions = state.collisions \cup {n}
    <3> DEFINE also == IF call.job = "tree" THEN state.skipped \cup {n} ELSE state.skipped
    <3>1. \/ /\ UNCHANGED pool
             /\ \/ state' = [state EXCEPT !.skipped = @ \cup {n}]
                \/ state' = [state EXCEPT !.collisions = @ \cup {n}, !.skipped = also]
          \/ Offer(n) /\ state' = [state EXCEPT !.claims[Key(n)] = n]
      BY <1>1, <1>3 DEF Claim, TreeTypeOK
    <3>2. also \in {state.skipped, state.skipped \cup {n}} OBVIOUS
    <3> HIDE DEF also
    <3> QED BY <1>1, <3>1, <3>2 DEF TreeTypeOK
  <2>4. Moved' = Moved BY <2>3 DEF Moved
  <2>5. pool.error = "none" BY <1>1 DEF Producing
  <2> SUFFICES ASSUME call.job # "remove"
               PROVE  Tracked'
    BY <1>1 DEF Tracked, Trees
  <2>6. Sorted BY <2>5 DEF Tracked
  <2>7. /\ n \notin state.directories /\ n \notin Handling \cup Moved \cup Told
        /\ n \notin Queued' /\ Queued' \subseteq Queued /\ n \in Queued
    BY <2>2, <2>6 DEF Sorted, Apart
  <2>8. \/ Handling' = Handling \cup {n} /\ Told' = Told
        \/ Handling' = Handling /\ Told' = Told \cup {n}
    <3>1. CASE Offer(n) /\ UNCHANGED <<state.skipped, state.collisions>>
      <4>1. Handling' = Handling \cup {n} BY <1>1, <2>2, <3>1, HandlingSteps
      <4> QED BY <2>3, <3>1, <4>1 DEF Told
    <3>2. CASE UNCHANGED pool /\ ~(Offer(n) /\ UNCHANGED <<state.skipped, state.collisions>>)
      <4>1. Handling' = Handling BY <3>2 DEF Handling
      <4>2. Told' = Told \cup {n} BY <2>3, <2>7, <3>2 DEF Told
      <4> QED BY <4>1, <4>2
    <3> QED BY <2>3, <3>1, <3>2
  <2>9. /\ Queued' \cup Handling' \cup Moved' \cup Told' = Queued \cup Handling \cup Moved \cup Told
        /\ Queued' \cap (Handling' \cup Moved' \cup Told') = {}
        /\ Handling' \cap (Moved' \cup Told') = {} /\ Moved' \cap Told' = {}
    <3>1. /\ Queued \cap (Handling \cup Moved \cup Told) = {}
          /\ Handling \cap (Moved \cup Told) = {} /\ Moved \cap Told = {}
      BY <2>6 DEF Sorted, Apart
    <3>2. Queued = Queued' \cup {n} BY <2>2
    <3> QED BY <2>4, <2>7, <2>8, <3>1, <3>2
  <2> QED BY <1>1, <2>1, <2>2, <2>3, <2>5, <2>9, PassedOn
<1> QED BY <1>2, <1>3

LEMMA EndTracks ==
    ASSUME IndInv, Stream, Ledger, Tracked, NEW w \in Worker, EndTransfer(w)
    PROVE  Tracked'
<1> DEFINE n == pool.held[w]
<1>1. /\ TreeTypeOK /\ Pooled /\ state.moved \in Seq(Own) /\ n \in Own
      /\ state' = [state EXCEPT !.moved = Append(@, n)] /\ Handled(w)
      /\ UNCHANGED <<call, remote, walk>>
  <2>1. TreeTypeOK /\ Pooled /\ n # NoItem BY DEF IndInv, EndTransfer
  <2> QED BY <2>1, HeldIsClaimed DEF TreeTypeOK, EndTransfer
<1>2. Handling' = Handling \ {n} /\ n \in Handling BY <1>1, HandlingSteps
<1>3. pool'.error = pool.error BY <1>1 DEF Handled, TreeTypeOK
<1> HIDE DEF n
<1>4. state'.moved = Append(state.moved, n)
      /\ UNCHANGED <<state.directories, state.skipped, state.collisions>>
  BY <1>1 DEF TreeTypeOK
<1>5. Moved' = Moved \cup {n} BY <1>1, <1>4, InjAppend DEF Moved
<1>6. Told' = Told /\ Queued' = Queued BY <1>1, <1>4 DEF Told, Queued
<1>7. Sorted => /\ Queued \cap (Handling \cup Moved \cup Told) = {}
                /\ Handling \cap (Moved \cup Told) = {} /\ Moved \cap Told = {}
  BY DEF Sorted, Apart
<1>8. /\ Queued' \cup Handling' \cup Moved' \cup Told' = Queued \cup Handling \cup Moved \cup Told
      /\ Sorted => /\ Queued' \cap (Handling' \cup Moved' \cup Told') = {}
                   /\ Handling' \cap (Moved' \cup Told') = {} /\ Moved' \cap Told' = {}
  BY <1>2, <1>5, <1>6, <1>7
<1> QED BY <1>1, <1>3, <1>4, <1>8, PassedOn

LEMMA TrackedKeeps ==
    ASSUME IndInv, Stream, Ledger, Tracked, [TreeNext]_<<treeVars, pool>>
    PROVE  Tracked'
<1>1. TreeTypeOK /\ Pooled BY DEF IndInv
<1>2. PoolRest \/ \E n \in Own : Offer(n) BY StepsOfPool
<1>3. pool'.error = "none" => pool.error = "none" BY <1>1, <1>2, ErrorStays
<1>4. ASSUME UNCHANGED <<call, walk, state>>, Handling' = Handling,
             \A n \in Own : remote'[n] # "absent" => remote[n] # "absent"
      PROVE  Tracked'
  <2>1. Queued' = Queued /\ Moved' = Moved /\ Told' = Told BY <1>4 DEF Queued, Moved, Told
  <2>2. Sorted => /\ Queued \cap (Handling \cup Moved \cup Told) = {}
                  /\ Handling \cap (Moved \cup Told) = {} /\ Moved \cap Told = {}
    BY DEF Sorted, Apart
  <2> QED BY <1>3, <1>4, <2>1, <2>2, PassedOn
<1>5. pool'.error # "none" \/ (call.job = "remove" /\ UNCHANGED call) => Tracked'
  BY DEF Tracked, Trees
<1>6. UNCHANGED pool \/ Exhausted \/ Join => Handling' = Handling BY <1>1, HandlingSteps
<1>7. CASE ListingFails \/ Unwinds \/ CancelCall
  <2>1. ListingFails => pool'.error = "server" BY <1>1 DEF ListingFails, ProducerFails, TreeTypeOK
  <2>2. Unwinds => pool'.error # "none" BY <1>1 DEF Unwinds, Unwind, TreeTypeOK
  <2>3. CancelCall => pool'.error = "cancelled" BY <1>1 DEF CancelCall, CancelPool, TreeTypeOK
  <2> QED BY <1>5, <1>7, <2>1, <2>2, <2>3
<1>8. CASE WalkEnds \/ Joins \/ UNCHANGED <<treeVars, pool>>
  <2>1. UNCHANGED <<call, walk, state, remote>> BY <1>8 DEF WalkEnds, Joins, treeVars
  <2>2. UNCHANGED pool \/ Exhausted \/ Join BY <1>8 DEF WalkEnds, Joins
  <2> QED BY <1>4, <1>6, <2>1, <2>2
<1>9. ASSUME NEW w \in Worker, Pick(w) \/ BeginTransfer(w) PROVE Tracked'
  <2>1. UNCHANGED <<call, walk, state, remote>> BY <1>9 DEF Pick, BeginTransfer, treeVars
  <2>2. Handling' = Handling
    <3>1. UNCHANGED pool \/ Take(w) BY <1>9 DEF Pick, BeginTransfer
    <3> QED BY <1>1, <1>6, <3>1, HandlingSteps
  <2> QED BY <1>4, <2>1, <2>2
<1>10. ASSUME NEW w \in Worker, TransferFails(w) PROVE Tracked'
  <2>1. pool'.error # "none" BY <1>1, <1>10 DEF TransferFails, HandlerFails, Raised, TreeTypeOK
  <2> QED BY <1>5, <2>1
<1>11. CASE Finish
  <2>1. UNCHANGED <<call, state, remote, pool>> BY <1>11 DEF Finish
  <2>2. pool.error = "none" /\ call.job # "remove" => UNCHANGED walk BY <1>11 DEF Finish
  <2> QED BY <1>4, <1>5, <1>6, <2>1, <2>2
<1>12. CASE RemoveNext \/ RemoveFails
  <2>1. call.job = "remove" /\ UNCHANGED call BY <1>12 DEF RemoveNext, RemoveFails, IndInv, Walked
  <2> QED BY <1>5, <2>1
<1>13. ASSUME NEW n \in Node, Vanish(n) PROVE Tracked'
  <2>1. UNCHANGED <<call, walk, state, pool>> BY <1>13 DEF Vanish
  <2>2. \A m \in Own : remote'[m] # "absent" => remote[m] # "absent"
    <3>1. remote' = [m \in Node |-> IF m = n \/ Parent[m] = n THEN "absent" ELSE remote[m]]
      BY <1>13 DEF Vanish
    <3> QED BY <3>1, OwnNodes
  <2> QED BY <1>4, <1>6, <2>1, <2>2
<1> QED
  BY <1>7, <1>8, <1>9, <1>10, <1>11, <1>12, <1>13, OpenTracks, ReadTracks, EndDirectoryTracks,
     StartListTracks, ClaimTracks, EndTracks
  DEF TreeNext, TreeStep

\* A directory is removed last of what is removed for it.
LEMMA RemovalsEnd ==
    ASSUME NEW entry \in Entry
    PROVE  Last(Removals(entry)) = [op |-> "rmdir", node |-> entry.dir]
<1> DEFINE R == [op : {"remove", "rmdir"}, node : Own]
           leaves == entry.files \o entry.skipped
           first == [i \in DOMAIN leaves |-> [op |-> "remove", node |-> leaves[i]]]
           last == [op |-> "rmdir", node |-> entry.dir]
<1>1. leaves \in Seq(Own) BY ConcatProperties DEF Entry
<1> HIDE DEF leaves
<1>2. first \in Seq(R)
  <2>1. DOMAIN leaves = 1 .. Len(leaves) /\ Len(leaves) \in Nat
        /\ \A i \in 1 .. Len(leaves) : leaves[i] \in Own
    BY <1>1
  <2> QED BY <2>1
<1>3. last \in R BY DEF Entry
<1> HIDE DEF R, first, last
<1>4. first \o <<last>> = Append(first, last) BY <1>2, <1>3, AppendIsConcat
<1>5. /\ Len(Append(first, last)) = Len(first) + 1
      /\ Append(first, last)[Len(first) + 1] = last
  BY <1>2, <1>3
<1>6. Last(Append(first, last)) = last BY <1>5 DEF Last
<1>7. Removals(entry) = first \o <<last>> BY DEF Removals, first, last, leaves
<1> QED BY <1>4, <1>6, <1>7 DEF last

LEMMA FrontFirst ==
    ASSUME NEW S, NEW s \in Seq(S), s # <<>>
    PROVE  /\ Front(s) # <<>> => Front(s)[1] = s[1]
           /\ Front(s) = <<>> => Last(s) = s[1]
<1>1. Len(s) \in Nat \ {0} BY EmptySeq
<1>2. /\ Front(s) \in Seq(S) /\ Len(Front(s)) = Len(s) - 1
      /\ \A i \in 1 .. Len(s) - 1 : Front(s)[i] = s[i]
  BY FrontIs
<1>3. Front(s) # <<>> => 1 \in 1 .. Len(s) - 1 BY <1>1, <1>2, EmptySeq
<1>4. Front(s) = <<>> => Len(s) = 1
  <2>1. Len(<<>>) = 0 OBVIOUS
  <2> QED BY <1>1, <1>2, <2>1
<1> QED BY <1>2, <1>3, <1>4 DEF Last

LEMMA TailLast ==
    ASSUME NEW S, NEW s \in Seq(S), s # <<>>
    PROVE  /\ Tail(s) # <<>> => Last(Tail(s)) = Last(s)
           /\ Tail(s) = <<>> => Head(s) = Last(s)
<1> DEFINE t == Tail(s)
<1>1. Len(s) \in Nat \ {0} BY EmptySeq
<1>2. /\ t \in Seq(S) /\ Len(t) = Len(s) - 1 /\ Head(s) = s[1]
      /\ \A i \in 1 .. Len(s) - 1 : t[i] = s[i + 1]
  BY HeadTailProperties
<1> HIDE DEF t
<1>3. t # <<>> => Len(s) - 1 \in 1 .. Len(s) - 1 /\ (Len(s) - 1) + 1 = Len(s)
  BY <1>1, <1>2, EmptySeq
<1>4. t = <<>> => Len(s) = 1
  <2>1. Len(<<>>) = 0 OBVIOUS
  <2> QED BY <1>1, <1>2, <2>1
<1>5. (t # <<>> => Last(t) = Last(s)) /\ (t = <<>> => s[1] = Last(s))
  BY <1>2, <1>3, <1>4 DEF Last
<1> QED BY <1>2, <1>5 DEF t

\* What is left to remove, and nothing else of it.
LEMMA EmptiedKept ==
    ASSUME Emptied, UNCHANGED <<remote, doomed, outcome>>,
           UNCHANGED <<walk.pending, walk.handle, walk.entries, walk.entry.dir>>,
           pool'.error = "none" => pool.error = "none"
    PROVE  Emptied'
BY DEF Emptied

\* What Dooms puts off comes before the root, and the root last.
LEMMA DoomsKeep ==
    ASSUME TreeTypeOK, Dooms, walk.entries # <<>>, walk.entries[1].dir = Root
    PROVE  /\ doomed' # <<>> /\ walk'.entries # <<>> => walk'.entries[1].dir = Root
           /\ walk'.entries = <<>> => Last(doomed') = [op |-> "rmdir", node |-> Root]
<1>1. walk.entries \in Seq(Entry) BY DEF TreeTypeOK
<1>2. /\ walk'.entries = Front(walk.entries) /\ doomed' = Removals(Last(walk.entries))
      /\ Last(walk.entries) \in Entry
  BY <1>1, FrontTyped DEF Dooms, TreeTypeOK
<1>3. Last(doomed') = [op |-> "rmdir", node |-> Last(walk.entries).dir] BY <1>2, RemovalsEnd
<1> QED BY <1>1, <1>2, <1>3, FrontFirst

LEMMA EmptiedKeeps ==
    ASSUME IndInv, Ending, Emptied, call.job = "remove", [TreeNext]_<<treeVars, pool>>
    PROVE  Emptied'
<1>1. TreeTypeOK /\ Pooled /\ Walked BY DEF IndInv
<1>2. /\ walk \in [pending : Seq(Directories), handle : BOOLEAN, unlisted : SUBSET Own,
                   entry : Entry, queue : Seq(Own), entries : Seq(Entry)]
      /\ pool.error \in Errors
  BY <1>1 DEF TreeTypeOK
<1>3. PoolRest \/ \E n \in Own : Offer(n) BY StepsOfPool
<1>4. pool'.error = "none" => pool.error = "none" BY <1>1, <1>3, ErrorStays
<1>5. ASSUME UNCHANGED <<remote, outcome>>, pool'.error # "none", outcome = "none"
      PROVE  Emptied'
  BY <1>5 DEF Emptied
<1>6. Producing => doomed = <<>> BY DEF Ending, Producing
<1>7. CASE OpenDirectory
  <2>1. /\ Walking /\ ~walk.handle /\ walk.pending # <<>> /\ outcome = "none"
        /\ UNCHANGED <<remote, doomed, outcome>>
    BY <1>7 DEF OpenDirectory, Walking
  <2>2. CASE UNCHANGED pool /\ walk' = [walk EXCEPT !.pending = Front(@), !.handle = TRUE,
                   !.unlisted = Listed(Last(walk.pending)), !.entry = NewEntry(Last(walk.pending))]
    <3>1. /\ walk'.handle /\ walk'.entry = NewEntry(Last(walk.pending))
          /\ walk'.entries = walk.entries
      BY <1>2, <2>2
    <3>2. walk'.entry.dir = Last(walk.pending) BY <3>1 DEF NewEntry
    <3>3. walk.pending = <<Root>> => Last(walk.pending) = Root BY DEF Last
    <3> QED BY <2>1, <2>2, <3>1, <3>2, <3>3 DEF Emptied
  <2>3. CASE ProducerFails("server")
    <3>1. pool'.error # "none" BY <1>1, <2>3 DEF ProducerFails, TreeTypeOK
    <3> QED BY <1>5, <2>1, <3>1
  <2> QED BY <1>7, <2>2, <2>3 DEF OpenDirectory
<1>8. CASE ListingFails
  <2>1. pool'.error # "none" /\ outcome = "none" /\ UNCHANGED <<remote, outcome>>
    BY <1>1, <1>8 DEF ListingFails, Walking, ProducerFails, TreeTypeOK
  <2> QED BY <1>5, <2>1
<1>9. ASSUME NEW n \in Node, NEW kind, ReadEntry(n, kind) PROVE Emptied'
  <2> DEFINE tooDeep == Level[walk.entry.dir] >= call.depth
             unseen == kind = "absent" /\ ~terse
             into == IF kind = "dir" /\ ~tooDeep THEN "dirs"
                     ELSE IF kind = "file" THEN "files" ELSE "skipped"
  <2>1. /\ walk' = [walk EXCEPT !.unlisted = @ \ {n},
                                !.entry[into] = IF unseen THEN @ ELSE Append(@, n)]
        /\ UNCHANGED <<remote, doomed, outcome>>
    BY <1>9 DEF ReadEntry
  <2>2. into \in {"dirs", "files", "skipped"} OBVIOUS
  <2> HIDE DEF into, unseen
  <2>3. /\ walk'.pending = walk.pending /\ walk'.handle = walk.handle
        /\ walk'.entries = walk.entries /\ walk'.entry.dir = walk.entry.dir
    BY <1>2, <2>1, <2>2 DEF Entry
  <2> QED BY <1>4, <2>1, <2>3, EmptiedKept
<1>10. CASE EndDirectory
  <2>1. /\ Producing /\ walk.handle /\ UNCHANGED <<remote, doomed, outcome, pool>>
        /\ walk' = [walk EXCEPT !.handle = FALSE, !.entries = Append(@, walk.entry),
                                !.pending = Pushed(walk.entry)]
    BY <1>10 DEF EndDirectory, Walking
  <2>2. walk.entry \in Entry /\ walk.entries \in Seq(Entry) BY <1>2
  <2>3. /\ walk'.entries = Append(walk.entries, walk.entry) /\ walk'.entries # <<>>
    BY <1>2, <2>1, <2>2, AppendTyped
  <2>4. walk'.entries[1] = IF walk.entries = <<>> THEN walk.entry ELSE walk.entries[1]
    <3>1. CASE walk.entries = <<>> BY <2>3, <3>1
    <3>2. CASE walk.entries # <<>>
      <4>1. Len(walk.entries) \in Nat \ {0} BY <2>2, <3>2, EmptySeq
      <4>2. 1 \in 1 .. Len(walk.entries) BY <4>1
      <4> QED BY <2>2, <2>3, <3>2, <4>2
    <3> QED BY <3>1, <3>2
  <2> QED BY <1>6, <2>1, <2>3, <2>4 DEF Emptied
<1>11. CASE WalkEnds \/ Joins \/ CancelCall \/ UNCHANGED <<treeVars, pool>>
  <2>1. UNCHANGED treeVars BY <1>11 DEF WalkEnds, Joins, CancelCall
  <2> QED BY <1>4, <2>1, EmptiedKept DEF treeVars
<1>12. ~StartList /\ \A n \in Node : ~Claim(n) /\ ~Vanish(n)
  <2>1. walk.queue = <<>> BY DEF IndInv, Claimed
  <2> QED BY <2>1 DEF StartList, Claim, Vanish
<1>13. ASSUME NEW w \in Worker, Pick(w) \/ BeginTransfer(w) \/ EndTransfer(w) \/ TransferFails(w)
       PROVE  Emptied'
  <2>1. UNCHANGED <<remote, doomed, outcome, walk>>
    BY <1>13 DEF Pick, BeginTransfer, EndTransfer, TransferFails, treeVars
  <2> QED BY <1>4, <2>1, EmptiedKept
<1>14. CASE Unwinds
  <2>1. UNCHANGED <<remote, doomed, outcome>> /\ pool'.error # "none"
    BY <1>1, <1>14 DEF Unwinds, Unwind, TreeTypeOK
  <2> QED BY <2>1 DEF Emptied
<1>15. CASE Finish
  <2>1. /\ pool.over /\ doomed = <<>> /\ outcome = "none" /\ UNCHANGED <<remote, pool>>
    BY <1>15 DEF Finish
  <2>2. CASE pool.error # "none"
    <3>1. outcome' = pool.error BY <1>15, <2>2 DEF Finish
    <3> QED BY <1>2, <2>1, <2>2, <3>1 DEF Emptied, Errors
  <2>3. CASE pool.error = "none"
    <3>1. Dooms /\ UNCHANGED outcome BY <1>15, <2>3 DEF Finish
    <3>2. walk.entries # <<>>
      <4>1. walk.pending = <<>> /\ ~walk.handle BY <1>1, <2>1, <2>3 DEF Pooled, Walked
      <4> QED BY <1>1, <2>1, <2>3, <4>1 DEF Walked
    <3>3. walk.entries[1].dir = Root BY <2>1, <2>3, <3>2 DEF Emptied
    <3>4. doomed' # <<>> BY <1>1, <3>1, <3>2, DoomsTyped
    <3> QED BY <1>1, <2>1, <2>3, <3>1, <3>2, <3>3, <3>4, DoomsKeep DEF Emptied
  <2> QED BY <2>2, <2>3
<1>16. CASE RemoveNext
  <2> DEFINE r == Head(doomed)
             rest == Tail(doomed)
             done == IF r.op = "rmdir" THEN remote[r.node] = "dir" /\ Children(r.node) = {}
                     ELSE remote[r.node] \notin {"dir", "absent"}
  <2>1. /\ outcome = "none" /\ doomed # <<>> /\ UNCHANGED pool
        /\ remote' = IF done THEN [remote EXCEPT ![r.node] = "absent"] ELSE remote
        /\ IF done /\ rest = <<>> /\ walk.entries # <<>> THEN Dooms
           ELSE doomed' = rest /\ UNCHANGED walk
        /\ outcome' = IF ~done THEN "server"
                      ELSE IF rest = <<>> /\ walk.entries = <<>> THEN "returned" ELSE "none"
    BY <1>16 DEF RemoveNext, Removed
  <2>2. pool.error = "none" BY <2>1 DEF Ending
  <2>3. /\ doomed \in Seq([op : {"remove", "rmdir"}, node : Own])
        /\ r \in [op : {"remove", "rmdir"}, node : Own] /\ r.node \in Own /\ r.node \in Node
    <3>1. doomed \in Seq([op : {"remove", "rmdir"}, node : Own]) BY <1>1 DEF TreeTypeOK
    <3>2. r \in [op : {"remove", "rmdir"}, node : Own] BY <2>1, <3>1, HeadTailProperties
    <3> QED BY <3>1, <3>2, OwnNodes
  <2>4. \A n \in Own \ {Root} : remote'[n] # "absent" => remote'[Parent[n]] = "dir"
    <3>1. CASE ~done BY <2>1, <3>1 DEF Emptied
    <3>2. CASE done
      <4>1. remote' = [remote EXCEPT ![r.node] = "absent"] BY <2>1, <3>2
      <4> SUFFICES ASSUME NEW n \in Own \ {Root}, remote'[n] # "absent"
                   PROVE  remote'[Parent[n]] = "dir"
        OBVIOUS
      <4>2. n \in Node /\ Parent[n] \in Node BY OwnNodes, TreeAssumption
      <4> HIDE DEF r
      <4>3. n # r.node /\ remote[n] # "absent" BY <1>1, <2>3, <4>1, <4>2 DEF TreeTypeOK
      <4>4. remote[Parent[n]] = "dir" BY <4>3 DEF Emptied
      <4>5. Parent[n] # r.node
        <5>1. CASE r.op = "rmdir"
          <6>1. Children(r.node) = {} BY <3>2, <5>1 DEF r
          <6> QED BY <4>2, <4>3, <6>1 DEF Children
        <5>2. CASE r.op # "rmdir"
          <6>1. remote[r.node] \notin {"dir", "absent"} BY <3>2, <5>2 DEF r
          <6> QED BY <4>4, <6>1
        <5> QED BY <5>1, <5>2
      <4> QED BY <1>1, <2>3, <4>1, <4>2, <4>4, <4>5 DEF TreeTypeOK
    <3> QED BY <3>1, <3>2
  <2>5. CASE ~done
    <3>1. outcome' = "server" BY <2>1, <2>5
    <3> QED BY <2>4, <3>1 DEF Emptied
  <2>6. CASE done /\ rest = <<>> /\ walk.entries # <<>>
    <3>1. Dooms /\ outcome' = "none" BY <2>1, <2>6
    <3>2. walk.entries[1].dir = Root BY <2>1, <2>2, <2>6 DEF Emptied
    <3>3. doomed' # <<>> BY <1>1, <2>6, <3>1, DoomsTyped
    <3> QED BY <1>1, <2>4, <2>6, <3>1, <3>2, <3>3, DoomsKeep DEF Emptied
  <2>7. CASE done /\ rest = <<>> /\ walk.entries = <<>>
    <3>1. outcome' = "returned" BY <2>1, <2>7
    <3>2. r = [op |-> "rmdir", node |-> Root]
      BY <2>1, <2>2, <2>3, <2>7, TailLast DEF Emptied
    <3>3. remote'[Root] = "absent" BY <1>1, <2>1, <2>3, <2>7, <3>2 DEF TreeTypeOK
    <3> QED BY <2>4, <3>1, <3>3 DEF Emptied
  <2>8. CASE done /\ rest # <<>>
    <3>1. outcome' = "none" /\ doomed' = rest /\ UNCHANGED walk BY <2>1, <2>8
    <3>2. Last(rest) = Last(doomed) BY <2>1, <2>3, <2>8, TailLast
    <3> QED BY <2>1, <2>2, <2>4, <2>8, <3>1, <3>2 DEF Emptied
  <2> QED BY <2>5, <2>6, <2>7, <2>8
<1>17. CASE RemoveFails
  <2>1. outcome' \in {"server", "cancelled"} /\ UNCHANGED remote BY <1>17 DEF RemoveFails
  <2> QED BY <2>1 DEF Emptied
<1> QED
  BY <1>7, <1>8, <1>9, <1>10, <1>11, <1>12, <1>13, <1>14, <1>15, <1>16, <1>17
  DEF TreeNext, TreeStep

LEMMA CallStays == [TreeNext]_<<treeVars, pool>> => UNCHANGED call
BY DEF TreeNext, TreeStep, OpenDirectory, ListingFails, EndDirectory, WalkEnds, StartList, ReadEntry,
       Claim, Pick, BeginTransfer, EndTransfer, TransferFails, Unwinds, Joins, Finish, RemoveNext,
       RemoveFails, CancelCall, Vanish, treeVars

LEMMA AccountsHold == TreeSpec => [](IndInv /\ Accounts)
<1>1. TreeInit => IndInv /\ Accounts BY InitiallyInd, InitiallyAccounts
<1>2. IndInv /\ Accounts /\ [TreeNext]_<<treeVars, pool>> => (IndInv /\ Accounts)'
  <2> SUFFICES ASSUME IndInv, Accounts, [TreeNext]_<<treeVars, pool>>
               PROVE  IndInv' /\ Accounts'
    OBVIOUS
  <2>1. IndInv' BY StepsKeepInd
  <2>2. Stream /\ Ledger /\ Ending /\ Tracked /\ (call.job = "remove" => Emptied)
    BY DEF Accounts
  <2>3. TreeTypeOK /\ Pooled /\ PoolStep BY StepsOfPool DEF IndInv, PoolStep
  <2>4. Stream' BY <2>2, <2>3, StreamKeeps
  <2>5. Ledger' BY <2>2, LedgerKeeps
  <2>6. Ending' BY <2>2, EndingKeeps
  <2>7. Tracked' BY <2>2, TrackedKeeps
  <2>8. UNCHANGED call BY CallStays
  <2>9. call.job = "remove" => Emptied' BY <2>2, EmptiedKeeps
  <2> QED BY <2>1, <2>4, <2>5, <2>6, <2>7, <2>8, <2>9 DEF Accounts
<1> QED BY <1>1, <1>2, PTL DEF TreeSpec

\* A call that returns, or that has only collisions to tell, has moved, reported or kept as a
\* directory each thing that was there to the end, once; a list likewise; and rmtree leaves
\* nothing (get_tree, get_many, rmtree, _policy.py).
THEOREM AllAccounted == TreeSpec => []EverythingAccounted
<1>1. IndInv /\ Accounts => EverythingAccounted
  <2> SUFFICES ASSUME IndInv, Accounts PROVE EverythingAccounted OBVIOUS
  <2>1. Stream /\ Ledger /\ Ending /\ Tracked /\ (call.job = "remove" => Emptied)
    BY DEF Accounts
  <2>2. TreeTypeOK /\ Pooled /\ Walked BY DEF IndInv
  <2> SUFFICES ASSUME outcome \in {"returned", "collision"}
               PROVE  LET moved == Moved
                          told == Told
                      IN  /\ call.job \in {"tree", "preview"} =>
                                /\ moved \cap told = {} /\ (moved \cup told) \cap state.directories = {}
                                /\ \A n \in Node : Below(n) /\ remote[n] # "absent"
                                                  /\ Parent[n] \in state.directories \cup {Root} =>
                                       n \in moved \cup told \cup state.directories
                          /\ call.job = "list" => moved \cup told = ToSet(call.list)
                                                  /\ moved \cap told = {}
                          /\ Actual => /\ \A n \in moved : local[Inode(n)] = [is |-> "whole", of |-> n]
                                       /\ (outcome = "collision") = (state.collisions # {})
                          /\ call.job = "remove" => \A n \in Node \ Outside : remote[n] = "absent"
    BY <2>1 DEF EverythingAccounted, Ledger, Moved, Told
\* Nothing is under way any more.
  <2>3. /\ pool.over /\ pool.error = "none" /\ pool.gen = "closed"
        /\ \A w \in Worker : pool.held[w] = NoItem
    BY <2>1, <2>2 DEF Ending, Pooled
  <2>4. pool.offered = NoItem BY <2>1, <2>3 DEF Stream
  <2>5. /\ walk.pending = <<>> /\ ~walk.handle /\ walk.queue = <<>>
        /\ call.job = "list" => walk.entry.dir # Root
    BY <2>1, <2>2, <2>3 DEF Walked, Ending
  <2>6. Waiting = {} /\ Current = {} /\ Queued = {} /\ Handling = {}
    BY <2>3, <2>4, <2>5, EmptySet DEF Waiting, Current, Queued, Handling
  <2>7. ASSUME call.job \in Trees
        PROVE  /\ Moved \cap Told = {} /\ (Moved \cup Told) \cap state.directories = {}
               /\ \A n \in Node : Below(n) /\ remote[n] # "absent"
                                 /\ Parent[n] \in state.directories \cup {Root} =>
                      n \in Moved \cup Told \cup state.directories
    <3>1. Sorted /\ Covered BY <2>1, <2>3, <2>7 DEF Tracked, Trees
    <3>2. Settled = state.directories \cup {Root} /\ Placed = Moved \cup Told \cup state.directories
      BY <2>6 DEF Settled, Placed
    <3>3. \A n \in Node : Below(n) => n \in Own \ {Root} BY DEF Below, Own
    <3>4. Moved \cap Told = {} /\ (Moved \cup Told) \cap state.directories = {}
      BY <3>1 DEF Sorted, Apart
    <3> QED BY <3>1, <3>2, <3>3, <3>4 DEF Covered
  <2>8. ASSUME call.job = "list"
        PROVE  Moved \cup Told = ToSet(call.list) /\ Moved \cap Told = {}
    <3>1. Sorted /\ ListCovered BY <2>1, <2>3, <2>8 DEF Tracked
    <3> QED BY <2>5, <2>6, <2>8, <3>1 DEF ListCovered, Sorted, Apart
  <2>9. Actual => /\ \A n \in Moved : local[Inode(n)] = [is |-> "whole", of |-> n]
                  /\ (outcome = "collision") = (state.collisions # {})
    BY <2>1 DEF Ledger, Ending
  <2>10. ASSUME call.job = "remove" PROVE \A n \in Node \ Outside : remote[n] = "absent"
    <3> DEFINE left == {n \in Own : remote[n] # "absent"}
    <3>1. Emptied /\ outcome = "returned" BY <2>1, <2>10 DEF Ending
    <3>2. remote[Root] = "absent"
          /\ \A n \in Own \ {Root} : remote[n] # "absent" => remote[Parent[n]] = "dir"
      BY <3>1 DEF Emptied
    <3>3. left \in SUBSET (Own \ {Root}) BY <3>2
    <3>4. \A n \in left : Parent[n] \in left
      <4>1. \A n \in Own : Parent[n] \in Own BY TreeAssumption DEF Own
      <4> QED BY <3>2, <3>3, <4>1
    <3>5. left = {}
      <4> HIDE DEF left
      <4> QED BY <3>3, <3>4, TreeAssumption
    <3> QED BY <3>5 DEF Own
  <2> QED BY <2>7, <2>8, <2>9, <2>10 DEF Trees
<1> QED BY <1>1, AccountsHold, PTL
===============================================================================
