--------------------------------- MODULE Tree ---------------------------------
(***************************************************************************)
(* The calls that walk a remote directory or take a list of remote files:  *)
(* get_tree, its dry run, get_many and rmtree (session/_session.py, with   *)
(* _recursive.py, _localpath.py, _policy.py and _many.py).                 *)
(*                                                                         *)
(* The walk and the claiming of local names are the generator of Pool, the *)
(* transfers are its handlers.  One transfer is Download; here it writes   *)
(* part of its local file and then the whole.  What the local filesystem   *)
(* does with two names, and what another client does to the server's tree  *)
(* meanwhile, is not ours to choose.                                       *)
(***************************************************************************)
EXTENDS Pool, Sequences, SequencesExt

CONSTANTS
    Node,        \* places a server may have something at
    Root,        \* the directory the call is given
    Parent,      \* [Node -> Node]
    Name,        \* [Node -> name], the last component of its path
    Fold,        \* [name -> name]: names one filesystem does not tell apart
    Unsafe,      \* nodes whose name cannot be a local one (unsafe_reason)
    Refused,     \* nodes whose name the local filesystem does not take (EILSEQ)
    Outside,     \* a directory elsewhere on the server, which links name, and its content
    Call,        \* calls: [job, depth (max_depth), list (of a get_many)]
    Shapes,      \* trees the server may have: [Node -> Kind]
    Terse,       \* whether a listing may come without attributes
    Vague,       \* nodes of which a LSTAT need not tell the kind
    OldAt,       \* local paths at which something may be before
    Vanishing    \* nodes of which another client may remove one

Kind == {"dir", "file", "link", "other", "absent"}
\* What the call is about: what is not elsewhere.
Own == Node \ Outside
ASSUME TreeAssumption ==
    /\ Root \in Own /\ Outside \subseteq Node /\ Vanishing \subseteq Own
    /\ Parent \in [Node -> Node] /\ \A n \in Node : n \in Outside <=> Parent[n] \in Outside
    \* Upwards everything of ours ends at Root.
    /\ \A S \in SUBSET (Own \ {Root}) : S # {} => \E n \in S : Parent[n] \notin S
    /\ Shapes \subseteq [Node -> Kind]
    /\ \A shape \in Shapes :
          /\ shape[Root] = "dir"
          /\ \A n \in Node \ {Root} : shape[n] # "absent" => shape[Parent[n]] = "dir"
    /\ Call \subseteq [job : {"tree", "preview", "remove", "list"}, depth : Nat,
                   list : Seq(Own \ {Root})]
    /\ \A c \in Call : c.job = "list" => c.list # <<>>
    /\ Terse \subseteq BOOLEAN /\ <<>> \notin OldAt
    /\ NoItem \notin Node

VARIABLES
    call,        \* which of Call
    folding,     \* whether the local filesystem folds names
    terse,       \* whether the server's listings carry no attributes
    remote,      \* the server's tree: a kind for every node
    initial,     \* history: what it was when the call began
    local,       \* what is at each local path
    stamped,     \* whose times a local directory has, NoItem for the current time
    sealed,      \* local directories whose mode has been set
    walk,        \* Session.walk: its pending stack and the directory it is in
    state,       \* _DownloadState and its ledger
    doomed,      \* rmtree: what is still to be removed
    outcome

treeVars == <<call, folding, terse, remote, initial, local, stamped, sealed, walk, state,
              doomed, outcome>>

-------------------------------------------------------------------------------
Children(n) == {c \in Node \ {Root} : Parent[c] = n /\ c # n /\ remote[c] # "absent"}
Level[n \in Node] == IF n = Root \/ Parent[n] = n THEN 0 ELSE Level[Parent[n]] + 1
Path[n \in Node] == IF n = Root \/ Parent[n] = n THEN <<>>
                    ELSE Append(Path[Parent[n]], Name[n])
Folded(path) == [i \in DOMAIN path |-> Fold[path[i]]]

\* Where a node goes (local_child, component by component; a list flattens), and what
\* tells two destinations apart: the inode that is there (identity), or for a preview the
\* folded name (fold_name).
Target(n) == IF call.job = "list" THEN <<Name[n]>> ELSE Path[n]
Inode(n) == IF folding THEN Folded(Target(n)) ELSE Target(n)
\* (A defect: the names are compared as they are spelled.)
KeyBySpelling(n) == Target(n)
Key(n) == IF call.job = "preview" THEN Folded(Target(n)) ELSE Inode(n)
Inodes == {<<>>} \cup {Path[n] : n \in Node} \cup {Folded(Path[n]) : n \in Node}
                 \cup {<<Name[n]>> : n \in Node} \cup {<<Fold[Name[n]]>> : n \in Node}
Nothing == [is |-> "none", of |-> NoItem]
Holds(i, what) == local[i].is = what

NewEntry(n) == [dir |-> n, dirs |-> <<>>, files |-> <<>>, skipped |-> <<>>]
\* _DownloadState
NewState == [claims |-> [i \in Inodes |-> NoItem], directories |-> {}, moved |-> <<>>,
             skipped |-> {}, collisions |-> {}, times |-> <<>>]

TreeInit ==
    /\ call \in Call
    /\ folding \in BOOLEAN /\ terse \in Terse
    /\ remote \in Shapes
    /\ initial = remote
    /\ \E old \in SUBSET OldAt :
           \E was \in {"old", "dir"} :
               local = [i \in Inodes |->
                           IF i = <<>> THEN [is |-> "dir", of |-> NoItem]
                           ELSE IF i \in old THEN [is |-> was, of |-> NoItem]
                           ELSE Nothing]
    /\ stamped = [i \in Inodes |-> NoItem] /\ sealed = {}
    /\ walk = [pending |-> IF call.job = "list" THEN <<>> ELSE <<Root>>,
               handle |-> FALSE, unlisted |-> {}, entry |-> NewEntry(Root),
               queue |-> <<>>, entries |-> <<>>]
    /\ state = NewState
    /\ doomed = <<>> /\ outcome = "none"
    /\ pool = NewPool

-------------------------------------------------------------------------------
(* The walk: a directory is listed to its end before anything is made of it. *)

Walking == call.job # "list" /\ outcome = "none" /\ Producing /\ walk.queue = <<>>

\* A link opened as a directory lists what it names; nothing here should open one.
Listed(n) == IF remote[n] = "link" THEN {c \in Outside : Parent[c] \in Outside /\ Parent[c] # c}
             ELSE Children(n)

\* DirectoryScan.__aenter__, on the directory that was found last.
OpenDirectory ==
    /\ Walking /\ ~walk.handle /\ walk.pending # <<>>
    /\ LET n == Last(walk.pending)
       IN  IF remote[n] \in {"dir", "link"}
           THEN /\ walk' = [walk EXCEPT !.pending = Front(@), !.handle = TRUE,
                                        !.unlisted = Listed(n), !.entry = NewEntry(n)]
                /\ UNCHANGED pool
           ELSE ProducerFails("server") /\ UNCHANGED walk
    /\ UNCHANGED <<call, folding, terse, remote, initial, local, stamped, sealed, state, doomed,
                   outcome>>

\* What the walk takes an entry for.  Without attributes in the listing it is the answer to
\* an LSTAT, which may be refused or no better.
KindsByStat(n) ==
    IF ~terse THEN {remote[n]}
    ELSE {IF remote[n] = "link" THEN "dir" ELSE remote[n]}
         \cup IF n \in Vague THEN {"refused", "unknown"} ELSE {}
KindsTold(n) ==
    IF ~terse THEN {remote[n]}
    ELSE {remote[n]} \cup IF n \in Vague THEN {"refused", "unknown"} ELSE {}

\* _walk_one and _settle_for_walk.
ReadEntry(n, kind) ==
    /\ Walking /\ walk.handle /\ n \in walk.unlisted
    /\ kind \in KindsTold(n)
    /\ LET tooDeep == Level[walk.entry.dir] >= call.depth
           \* gone between the listing and its attributes: without LSTAT it was never listed
           unseen == kind = "absent" /\ ~terse
           into == IF kind = "dir" /\ ~tooDeep THEN "dirs"
                   ELSE IF kind = "file" THEN "files" ELSE "skipped"
       IN  walk' = [walk EXCEPT !.unlisted = @ \ {n},
                                !.entry[into] = IF unseen THEN @ ELSE
                                                    Append(@, n)]
    /\ UNCHANGED <<call, folding, terse, remote, initial, local, stamped, sealed, state, doomed,
                   outcome, pool>>

\* READDIR or LSTAT fails for good; the scan closes its handle on the way out.
ListingFails ==
    /\ Walking /\ walk.handle
    /\ ProducerFails("server")
    /\ walk' = [walk EXCEPT !.handle = FALSE]
    /\ UNCHANGED <<call, folding, terse, remote, initial, local, stamped, sealed, state, doomed,
                   outcome>>

\* A defect: what was pending is forgotten for the children.
PushedOver(entry) == Reverse(entry.dirs)
\* The children of a directory come before its siblings, in the order they were listed.
Pushed(entry) == walk.pending \o Reverse(entry.dirs)

\* _settle_directory: the local directory, its claim, and the times to give it later.  A
\* directory that folds onto another is reported and filled all the same.
Settling(entry) ==
    LET n == entry.dir
        i == Inode(n)
        k == Key(n)
        taken == n # Root /\ state.claims[k] # NoItem
    IN  /\ state' = [state EXCEPT
               !.claims[k] = IF n = Root \/ taken THEN @ ELSE n,
               !.collisions = IF taken THEN @ \cup {n} ELSE @,
               !.directories = IF n = Root THEN @ ELSE @ \cup {n},
               !.times = @ \o (IF terse THEN <<>> ELSE entry.dirs),
               !.skipped = @ \cup ToSet(entry.skipped)]
        /\ IF call.job = "preview" \/ n = Root \/ Holds(i, "dir") THEN UNCHANGED <<local, stamped>>
           ELSE /\ local' = [local EXCEPT ![i] = [is |-> "dir", of |-> NoItem]]
                /\ stamped' = [stamped EXCEPT ![Front(i)] = NoItem]

\* A directory whose name is unsafe, refused or taken by a file ends the call: only a
\* file's name is ever skipped.
DirectoryRefused(n) ==
    /\ n # Root
    /\ \/ n \in Unsafe
       \/ call.job = "tree" /\ n \in Refused
       \/ call.job = "tree" /\ ~(Holds(Inode(n), "dir") \/ Holds(Inode(n), "none"))

\* The end of the listing: the handle is closed and the entry goes to the consumer.
EndDirectory ==
    /\ Walking /\ walk.handle /\ walk.unlisted = {}
    /\ LET entry == walk.entry
       IN  IF call.job = "remove"
           THEN /\ walk' = [walk EXCEPT !.handle = FALSE, !.entries = Append(@, entry),
                                        !.pending = Pushed(entry)]
                /\ UNCHANGED <<local, stamped, state, pool>>
           ELSE IF DirectoryRefused(entry.dir)
           THEN /\ ProducerFails("local") /\ walk' = [walk EXCEPT !.handle = FALSE]
                /\ UNCHANGED <<local, stamped, state>>
           ELSE /\ Settling(entry)
                /\ walk' = [walk EXCEPT !.handle = FALSE, !.queue = entry.files,
                                        !.pending = Pushed(entry)]
                /\ UNCHANGED pool
    /\ UNCHANGED <<call, folding, terse, remote, initial, sealed, doomed, outcome>>

WalkEnds ==
    /\ outcome = "none" /\ Producing /\ ~walk.handle
    /\ walk.queue = <<>> /\ walk.pending = <<>>
    /\ call.job = "list" => walk.entry.dir # Root
    /\ Exhausted
    /\ UNCHANGED treeVars

\* settle_downloads: the names of a list are checked before anything is created.
Duplicates(list) ==
    \E i, j \in DOMAIN list : i # j /\ Name[list[i]] = Name[list[j]]
StartList ==
    /\ call.job = "list" /\ walk.entry.dir = Root /\ Producing
    /\ IF Duplicates(call.list) \/ ToSet(call.list) \cap Unsafe # {}
       THEN ProducerFails("value") /\ UNCHANGED walk
       ELSE /\ walk' = [walk EXCEPT !.queue = call.list, !.entry.dir = call.list[1]]
            /\ UNCHANGED pool
    /\ UNCHANGED <<call, folding, terse, remote, initial, local, stamped, sealed, state, doomed,
                   outcome>>

-------------------------------------------------------------------------------
(* Claiming a destination, in the order of the walk. *)

\* _claim_local_destination: create the name, then ask which file that is.
Touched(n) ==
    IF call.job = "preview" \/ ~Holds(Inode(n), "none") THEN UNCHANGED <<local, stamped>>
    ELSE /\ local' = [local EXCEPT ![Inode(n)] = [is |-> "empty", of |-> NoItem]]
         /\ stamped' = [stamped EXCEPT ![Front(Inode(n))] = NoItem]

\* Whose the destination is already.
Claimant(n) == state.claims[Key(n)]

Claim(n) ==
    /\ outcome = "none" /\ Producing /\ walk.queue # <<>> /\ n = Head(walk.queue)
    /\ walk' = [walk EXCEPT !.queue = Tail(@)]
    /\ LET actual == call.job # "preview"
           blocked == actual /\ (Holds(Inode(n), "dir") \/ Front(Inode(n)) \in sealed)
       IN  IF n \in Unsafe \/ blocked \/ (call.job = "list" /\ n \in Refused)
           THEN ProducerFails("local") /\ UNCHANGED <<local, stamped, state>>
           ELSE IF actual /\ n \in Refused
           THEN /\ state' = [state EXCEPT !.skipped = @ \cup {n}]
                /\ UNCHANGED <<local, stamped, pool>>
           ELSE /\ Touched(n)
                /\ IF Claimant(n) # NoItem
                   THEN /\ state' = [state EXCEPT
                               !.collisions = @ \cup {n},
                               !.skipped = IF call.job = "tree" THEN @ \cup {n} ELSE @]
                        /\ UNCHANGED pool
                   ELSE /\ state' = [state EXCEPT !.claims[Key(n)] = n]
                        /\ Offer(n)
    /\ UNCHANGED <<call, folding, terse, remote, initial, sealed, doomed, outcome>>

-------------------------------------------------------------------------------
(* The handlers. *)

Pick(w) == Take(w) /\ UNCHANGED treeVars

\* get: what it writes first replaces what was there.
BeginTransfer(w) ==
    LET n == pool.held[w]
    IN  /\ n # NoItem /\ call.job \in {"tree", "list"}
        /\ remote[n] = "file" /\ local[Inode(n)] # [is |-> "part", of |-> n]
        /\ local' = [local EXCEPT ![Inode(n)] = [is |-> "part", of |-> n]]
        /\ UNCHANGED <<call, folding, terse, remote, initial, stamped, sealed, walk, state, doomed,
                       outcome, pool>>

\* transfer: what came is recorded when get returns.
EndTransfer(w) ==
    LET n == pool.held[w]
    IN  /\ n # NoItem
        /\ \/ call.job = "preview" /\ UNCHANGED local
           \/ /\ call.job # "preview" /\ local[Inode(n)] = [is |-> "part", of |-> n]
              /\ local' = [local EXCEPT ![Inode(n)] = [is |-> "whole", of |-> n]]
        /\ state' = [state EXCEPT !.moved = Append(@, n)]
        /\ Handled(w)
        /\ UNCHANGED <<call, folding, terse, remote, initial, stamped, sealed, walk, doomed, outcome>>

TransferFails(w) ==
    /\ pool.held[w] # NoItem /\ call.job # "preview"
    /\ HandlerFails(w, "server")
    /\ UNCHANGED treeVars

\* Cancelled inside a listing, the scan closes its handle.
Unwinds ==
    /\ Unwind
    /\ walk' = [walk EXCEPT !.handle = @ /\ pool'.gen = "running"]
    /\ UNCHANGED <<call, folding, terse, remote, initial, local, stamped, sealed, state, doomed,
                   outcome>>

Joins == Join /\ UNCHANGED treeVars
CancelCall == outcome = "none" /\ CancelPool /\ UNCHANGED treeVars

-------------------------------------------------------------------------------
(* After the pool. *)

\* _stamp_local_directories and _chmod_local_directories, in this order and after
\* everything that writes into a directory.  The last who names a directory has it.
Stampings(i) == {k \in DOMAIN state.times : Inode(state.times[k]) = i}
Stamped ==
    [i \in Inodes |-> IF Stampings(i) = {} THEN stamped[i] ELSE state.times[Max(Stampings(i))]]

\* rmtree: the entries from the last to the first, and in each what is not a directory
\* before the directory itself.
Removals(entry) ==
    LET leaves == entry.files \o entry.skipped
    IN  [i \in DOMAIN leaves |-> [op |-> "remove", node |-> leaves[i]]]
        \o <<[op |-> "rmdir", node |-> entry.dir]>>
Dooms ==
    /\ doomed' = Removals(Last(walk.entries))
    /\ walk' = [walk EXCEPT !.entries = Front(@)]

\* A defect: the collisions are raised before the directories are seen to.
RaisesFirst ==
    /\ pool.over /\ outcome = "none" /\ doomed = <<>>
    /\ IF pool.error # "none"
       THEN outcome' = pool.error /\ UNCHANGED <<stamped, sealed, doomed, walk>>
       ELSE IF call.job = "remove" THEN Dooms /\ UNCHANGED <<stamped, sealed, outcome>>
       ELSE IF state.collisions # {}
       THEN outcome' = "collision" /\ UNCHANGED <<stamped, sealed, doomed, walk>>
       ELSE /\ stamped' = Stamped /\ outcome' = "returned"
            /\ UNCHANGED <<sealed, doomed, walk>>
    /\ UNCHANGED <<call, folding, terse, remote, initial, local, state, pool>>

Finish ==
    /\ pool.over /\ outcome = "none" /\ doomed = <<>>
    /\ IF pool.error # "none"
       THEN outcome' = pool.error /\ UNCHANGED <<stamped, sealed, doomed, walk>>
       ELSE IF call.job = "remove" THEN Dooms /\ UNCHANGED <<stamped, sealed, outcome>>
       ELSE IF call.job = "preview"
       THEN outcome' = "returned" /\ UNCHANGED <<stamped, sealed, doomed, walk>>
       ELSE /\ stamped' = Stamped
            /\ sealed' = {Inode(n) : n \in ToSet(state.times)}
            /\ outcome' = IF state.collisions = {} THEN "returned" ELSE "collision"
            /\ UNCHANGED <<doomed, walk>>
    /\ UNCHANGED <<call, folding, terse, remote, initial, local, state, pool>>

\* REMOVE of what is no directory, RMDIR of an empty one; any refusal ends the call.
Removed(r) == [remote EXCEPT ![r.node] = "absent"]
RemoveNext ==
    /\ outcome = "none" /\ doomed # <<>>
    /\ LET r == Head(doomed)
           rest == Tail(doomed)
           done == IF r.op = "rmdir" THEN remote[r.node] = "dir" /\ Children(r.node) = {}
                   ELSE remote[r.node] \notin {"dir", "absent"}
       IN  /\ remote' = IF done THEN Removed(r) ELSE remote
           /\ IF done /\ rest = <<>> /\ walk.entries # <<>> THEN Dooms
              ELSE doomed' = rest /\ UNCHANGED walk
           /\ outcome' = IF ~done THEN "server"
                         ELSE IF rest = <<>> /\ walk.entries = <<>> THEN "returned" ELSE "none"
    /\ UNCHANGED <<call, folding, terse, initial, local, stamped, sealed, state, pool>>

RemoveFails ==
    /\ outcome = "none" /\ doomed # <<>>
    /\ outcome' \in {"server", "cancelled"}
    /\ UNCHANGED <<call, folding, terse, remote, initial, local, stamped, sealed, walk, state,
                   doomed, pool>>

\* Another client removes an entry, with what is below it.
Vanish(n) ==
    /\ outcome = "none"
    /\ n \in Vanishing /\ remote[n] # "absent"
    /\ remote = initial
    /\ call.job # "remove"
    /\ remote' = [m \in Node |-> IF m = n \/ Parent[m] = n THEN "absent" ELSE remote[m]]
    /\ UNCHANGED <<call, folding, terse, initial, local, stamped, sealed, walk, state, doomed,
                   outcome, pool>>

-------------------------------------------------------------------------------
TreeStep ==
    \/ OpenDirectory \/ ListingFails \/ EndDirectory \/ WalkEnds \/ StartList
    \/ \E n \in Node, kind \in Kind \cup {"refused", "unknown"} : ReadEntry(n, kind)
    \/ \E n \in Node : Claim(n)
    \/ \E w \in Worker : Pick(w) \/ BeginTransfer(w) \/ EndTransfer(w) \/ TransferFails(w)
    \/ Unwinds \/ Joins \/ Finish \/ RemoveNext \/ RemoveFails

TreeNext == TreeStep \/ CancelCall \/ \E n \in Node : Vanish(n)

TreeSpec == TreeInit /\ [][TreeNext]_<<treeVars, pool>>

-------------------------------------------------------------------------------
(* Properties. *)

Actual == call.job \in {"tree", "list"}
Below(n) == n \notin Outside \cup {Root}

\* A call that returns, or ends for collisions alone, has dealt with everything that was
\* there to the end: each entry of each directory it walked is transferred, reported or a
\* directory, and only one of these; each name of a list is transferred or reported; what
\* it calls transferred is on the disk; and the call is silent about no collision.
EverythingAccounted ==
    /\ IsInjective(state.moved)
    /\ outcome \in {"returned", "collision"} =>
          LET moved == ToSet(state.moved)
              told == state.skipped \cup (state.collisions \ state.directories)
          IN  /\ call.job \in {"tree", "preview"} =>
                    /\ moved \cap told = {} /\ (moved \cup told) \cap state.directories = {}
                    /\ \A n \in Node : Below(n) /\ remote[n] # "absent"
                                      /\ Parent[n] \in state.directories \cup {Root} =>
                           n \in moved \cup told \cup state.directories
              /\ call.job = "list" => moved \cup told = ToSet(call.list) /\ moved \cap told = {}
              /\ Actual => /\ \A n \in moved : local[Inode(n)] = [is |-> "whole", of |-> n]
                           /\ (outcome = "collision") = (state.collisions # {})
              /\ call.job = "remove" => \A n \in Node \ Outside : remote[n] = "absent"

\* Whatever the filesystem makes of two names, and however the transfers overlap: a local
\* file is only ever written for the first that claimed it, and a preview writes nothing.
FirstClaimantKeepsName ==
    /\ \A i \in Inodes : local[i].is \in {"part", "whole"} => local[i].of = state.claims[i]
    /\ \A v, w \in Worker :
          v # w /\ pool.held[v] # NoItem /\ pool.held[w] # NoItem /\ Actual
              => Inode(pool.held[v]) # Inode(pool.held[w])
    /\ ~Actual => \A i \in Inodes : local[i].is \in {"none", "old", "dir"}

\* A directory whose times and mode the listing carried has them at the end, whatever was
\* written below it and in whichever order, also when the call has only collisions to tell.
DirectoryTimesStick ==
    outcome \in {"returned", "collision"} /\ call.job = "tree" =>
        \A n \in ToSet(state.times) :
            /\ Inode(n) \in sealed
            /\ \E m \in ToSet(state.times) : Inode(m) = Inode(n) /\ stamped[Inode(n)] = m

\* A link is an entry of the directory it is in, whether the listing said so or an LSTAT
\* had to: nothing is read or removed through it.
LinksAreNotFollowed ==
    \A n \in Outside : /\ remote[n] = initial[n]
                       /\ n \notin ToSet(state.moved) /\ \A i \in DOMAIN doomed : doomed[i].node # n

\* A call ends, with the walk and its generator closed behind it.
TreeEnds == <>(outcome # "none" /\ pool.gen = "closed" /\ ~walk.handle)
===============================================================================
