-------------------------------- MODULE Publish --------------------------------
(***************************************************************************)
(* put(atomic=True) with a journal: _publish_upload, _put_atomically and   *)
(* _publish of session/_put.py, and discard_staged, which sweeps up after  *)
(* a run that was killed.  Publishers are tasks of one process; the server *)
(* and the journal's file outlive it.                                      *)
(*                                                                         *)
(* How the bytes move is in Upload.  Here a remote file is the versions of *)
(* the source its bytes are from, whether it has its full length, whether  *)
(* there is a hole below that, and whether it holds a partial nobody could *)
(* compare.  A request whose answer is lost was performed at once or never *)
(* will be; what loses it (a deadline, the link or a cancellation) is all  *)
(* one to the code, which asks only whether the server answered.           *)
(***************************************************************************)
EXTENDS Journal, FiniteSets

CONSTANTS
    Publisher,   \* concurrent calls of put
    Absent,      \* no file at a remote path
    Comparable,  \* whether contents can be compared: a non-empty set of BOOLEAN
    Scenes,      \* what a behaviour is about: see SceneOK
    MaxCalls,    \* bound: calls of put
    MaxSweeps,   \* bound: calls of discard_staged
    MaxCrashes   \* bound: crashes of the process

\* A remote file.
Content == [target : Target, from : SUBSET (Version \cup {0}),
            full : BOOLEAN, holed : BOOLEAN, unchecked : BOOLEAN]

ASSUME PublishAssumption ==
    /\ Token \subseteq Nat \ {0} /\ Version \subseteq Nat \ {0} /\ 1 \in Version
    /\ \A v \in Version : 1..v \subseteq Version
    /\ Target # {} /\ Absent \notin Content
    /\ Comparable \subseteq BOOLEAN /\ Comparable # {}
    /\ MaxCalls \in Nat /\ MaxSweeps \in Nat /\ MaxCrashes \in Nat

\* A scene: the targets put is called for, how many calls of it run at once, how the
\* servers may answer posix-rename (a quiet one does it without advertising it),
\* and two bounds, the versions a source goes through and the appends taken in part.
SceneOK(s) ==
    /\ s.targets \subseteq Target /\ s.together \in Nat
    /\ s.renames \subseteq {"none", "quiet", "advertised"}
    /\ s.versions \in Version /\ s.torn \in Nat

ASSUME ScenesAssumption == \A s \in Scenes : SceneOK(s)

VARIABLES
    scene,   \* the scene this behaviour is in
    server,  \* how this one answers posix-rename
    dest,    \* what is at each target
    staged,  \* what is at each staging path
    had,     \* history: targets something was ever at
    source,  \* the version each target's local file has now
    used,    \* tokens drawn so far
    calls,   \* calls made so far
    pc,      \* where each publisher is
    put,     \* the call it makes
    sweep,   \* "idle", or where discard_staged is
    todo,    \* the entries it has yet to see to
    sweeps, torn, crashes  \* what the bounds count

remote == <<dest, staged, had>>
drawn == <<used, calls>>
sweeper == <<sweep, todo, sweeps>>
vars == <<journalVars, server, remote, source, drawn, pc, put, sweeper, torn, crashes,
          scene>>

Empty(t) ==
    [target |-> t, from |-> {}, full |-> FALSE, holed |-> FALSE, unchecked |-> FALSE]
\* What another run left at a target.
Old(t) == [Empty(t) EXCEPT !.from = {0}, !.full = TRUE]

\* A call; `hole' is whether it adopted one, `unlinks' whether it sent a REMOVE of
\* the destination.
Call == [target : Target, token : Token \cup {0}, version : Version,
         resume : BOOLEAN, strict : BOOLEAN, hole : BOOLEAN, unlinks : BOOLEAN]
NoCall == [target |-> CHOOSE t \in Target : TRUE, token |-> 0, version |-> 1,
           resume |-> FALSE, strict |-> FALSE, hole |-> FALSE, unlinks |-> FALSE]

Busy(p) == pc[p] # "idle"
Publishing(t) == \E p \in Publisher : Busy(p) /\ put[p].target = t

T(p) == put[p].target
File(p) == staged[put[p].token]

-------------------------------------------------------------------------------
Init ==
    /\ JournalInit
    /\ scene \in Scenes /\ server \in scene.renames
    /\ dest \in {[t \in Target |-> Absent], [t \in Target |-> Old(t)]}
    /\ had = {t \in Target : dest[t] # Absent}
    /\ staged = [k \in Token |-> Absent]
    /\ source = [t \in Target |-> 1] /\ used = 0 /\ calls = 0
    /\ pc = [p \in Publisher |-> "idle"] /\ put = [p \in Publisher |-> NoCall]
    /\ sweep = "idle" /\ todo = <<>>
    /\ sweeps = 0 /\ torn = 0 /\ crashes = 0

\* A publisher's step from one await to the next.
Step(p, here, there) == pc[p] = here /\ pc' = [pc EXCEPT ![p] = there]
\* The step after which put returns or raises.
Ends(p, here) == Step(p, here, "idle") /\ put' = [put EXCEPT ![p] = NoCall]
Ours(p, content) == staged' = [staged EXCEPT ![put[p].token] = content]

\* What a publisher's step leaves alone, on the server and on the local disk.
LocalOnly == UNCHANGED <<server, remote, source, drawn, sweeper, crashes>>
ServerOnly == UNCHANGED <<journalVars, server, source, drawn, sweeper, torn, crashes>>
NoChange == ServerOnly /\ UNCHANGED <<remote, put>>

\* An append is taken whole, or in part without anybody noticing.
Appended(line) ==
    \/ AppendLine(line, TRUE) /\ UNCHANGED torn
    \/ /\ torn < scene.torn /\ torn' = torn + 1
       /\ AppendLine(line, FALSE) \/ AppendUnterminated(line)
Unwritten == UNCHANGED <<log, tail, torn>>

-------------------------------------------------------------------------------
(* _publish_upload and the start of _put_atomically *)

\* The staging path: that of a run that was sending these very bytes, or a fresh one.
Continuing(t, resume) == resume /\ Matches(Says(t), source[t])

Begin(p, t, resume, strict) ==
    /\ ~Busy(p) /\ ~Publishing(t) /\ sweep = "idle"
    /\ t \in scene.targets
    /\ Cardinality({q \in Publisher : Busy(q)}) < scene.together
    /\ folded' = IF resume THEN Refolded ELSE folded
    /\ used' = IF Continuing(t, resume) THEN used ELSE used + 1
    /\ used' \in Token \cup {0}
    /\ calls < MaxCalls /\ calls' = calls + 1
    /\ put' = [put EXCEPT ![p] =
         [NoCall EXCEPT !.target = t, !.version = source[t],
                        !.resume = resume, !.strict = strict,
                        !.token = IF Continuing(t, resume) THEN Says(t).staged ELSE used']]
    /\ pc' = [pc EXCEPT ![p] =
         IF strict /\ server # "advertised" THEN "refusing" ELSE "recording"]
    /\ UNCHANGED <<log, tail, inode, server, remote, source, sweeper, torn, crashes>>

\* _refuse_unpublishable: only an answer that the name is taken refuses; without
\* any answer the call ends.
CheckReplaceable(p) ==
    \/ Step(p, "refusing", "recording") /\ NoChange
    \/ Ends(p, "refusing") /\ ServerOnly /\ UNCHANGED remote

\* The note is made before the OPEN.
RecordStaging(p) ==
    /\ Step(p, "recording", "opening")
    /\ Appended(StagedRecord(T(p), put[p].token, put[p].version))
    /\ LocalOnly /\ UNCHANGED <<inode, folded, put>>

RecordFails(p) == Ends(p, "recording") /\ ServerOnly /\ UNCHANGED remote

\* Something to go on from: a partial that is not empty.
Adopting(p) == put[p].resume /\ File(p) # Absent /\ File(p).from # {}
\* What a comparison of the partial finds.
PrefixAgrees(p) == File(p).from = {put[p].version} /\ ~File(p).holed

\* Mutant: the gate compares lengths, and calls that matched.
GateByLength(p) ==
    /\ Step(p, "opening", "filling")
    /\ File(p) # Absent => put[p].resume
    /\ Ours(p, IF Adopting(p) THEN File(p) ELSE Empty(T(p)))
    /\ put' = [put EXCEPT ![p].hole = Adopting(p) /\ File(p).holed]
    /\ ServerOnly /\ UNCHANGED <<dest, had>>

\* The gate, then the OPEN: EXCL unless resuming, never truncating.
OpenStaging(p) ==
    /\ Step(p, "opening", "filling")
    /\ File(p) # Absent => put[p].resume
    /\ \E compared \in Comparable :
         /\ Adopting(p) /\ compared => PrefixAgrees(p)
         /\ Ours(p, IF Adopting(p) THEN [File(p) EXCEPT !.unchecked = ~compared]
                    ELSE Empty(T(p)))
    /\ put' = [put EXCEPT ![p].hole = Adopting(p) /\ File(p).holed]
    /\ ServerOnly /\ UNCHANGED <<dest, had>>

\* The partial is refused, its size unknown, or the OPEN refused or unanswered:
\* whatever is at the staging path stays there.
OpeningFails(p) ==
    /\ Ends(p, "opening")
    /\ Ours(p, File(p)) \/ (File(p) = Absent /\ Ours(p, Empty(T(p))))
    /\ ServerOnly /\ UNCHANGED <<dest, had>>

-------------------------------------------------------------------------------
(* Filling and checking the staging file *)

\* Some WRITEs are performed, not all that were sent before.
Write(p) ==
    /\ pc[p] = "filling"
    /\ \E full, holed \in BOOLEAN :
         /\ put[p].hole \/ full => holed
         /\ Ours(p, [File(p) EXCEPT !.from = @ \cup {put[p].version},
                                    !.full = full, !.holed = holed])
    /\ UNCHANGED pc
    /\ ServerOnly /\ UNCHANGED <<dest, had, put>>

\* Every WRITE is acknowledged, the attributes set and the handle closed.
Filled(p) ==
    /\ Step(p, "filling", "checking")
    /\ Ours(p, [File(p) EXCEPT !.from = @ \cup {put[p].version},
                               !.full = TRUE, !.holed = put[p].hole])
    /\ ServerOnly /\ UNCHANGED <<dest, had, put>>

\* The size is asked for, and the content where that was wanted.
Confirm(p) ==
    /\ Step(p, "checking", "publishing")
    /\ \E compared \in Comparable :
         /\ compared => PrefixAgrees(p)
         /\ Ours(p, [File(p) EXCEPT !.unchecked = @ /\ ~compared])
    /\ ServerOnly /\ UNCHANGED <<dest, had, put>>

\* A refusal, a mismatch, a deadline, the link or a cancellation.
FillFails(p) ==
    /\ Step(p, "filling", "discarding") \/ Step(p, "checking", "discarding")
    /\ NoChange

-------------------------------------------------------------------------------
(* _publish *)

\* The server renames the staging file onto the target, or over it.
Moved(p) ==
    /\ File(p) # Absent
    /\ dest' = [dest EXCEPT ![T(p)] = File(p)]
    /\ had' = had \cup {T(p)}
    /\ Ours(p, Absent)
\* v3 RENAME does not replace.
MovedOntoNothing(p) == dest[T(p)] = Absent /\ Moved(p)

PosixRename(p) ==
    /\ Step(p, "publishing", "published") /\ server # "none" /\ Moved(p)
    /\ ServerOnly /\ UNCHANGED put

\* A refusal counts only from a server that advertised the extension.
PosixRefused(p) ==
    /\ Step(p, "publishing", IF server = "advertised" THEN "discarding" ELSE "renaming")
    /\ NoChange

\* Mutant: a rename that was not answered is taken for one that was performed.
LostIsPublished(p) ==
    /\ Step(p, "publishing", "published")
    /\ (server # "none" /\ Moved(p)) \/ UNCHANGED remote
    /\ ServerOnly /\ UNCHANGED put

\* The answer is lost: the file may have been moved.
PosixLost(p) ==
    /\ Step(p, "publishing", "discarding")
    /\ (server # "none" /\ Moved(p)) \/ UNCHANGED remote
    /\ ServerOnly /\ UNCHANGED put

PlainRename(p) ==
    /\ Step(p, "renaming", "published") /\ MovedOntoNothing(p)
    /\ ServerOnly /\ UNCHANGED put

PlainRefused(p) == Step(p, "renaming", "probing") /\ NoChange

PlainLost(p) ==
    /\ Step(p, "renaming", "discarding")
    /\ MovedOntoNothing(p) \/ UNCHANGED remote
    /\ ServerOnly /\ UNCHANGED put

\* The LSTAT after a refused rename: the target is known to be in the way, and the
\* caller can do without it for a moment.
ProbeInTheWay(p) ==
    /\ Step(p, "probing", "removing")
    /\ dest[T(p)] # Absent /\ ~put[p].strict
    /\ NoChange

\* It is not, or nobody says, or the caller cannot.
ProbeGivesUp(p) == Step(p, "probing", "discarding") /\ NoChange

Unlinks(p) == put' = [put EXCEPT ![p].unlinks = TRUE]
Unlinked(p) == dest' = [dest EXCEPT ![T(p)] = Absent] /\ UNCHANGED <<staged, had>>

RemoveTarget(p) ==
    /\ Step(p, "removing", "replacing") /\ Unlinked(p) /\ Unlinks(p)
    /\ ServerOnly

RemoveRefused(p) ==
    /\ Step(p, "removing", "discarding") /\ Unlinks(p)
    /\ ServerOnly /\ UNCHANGED remote

\* Mutant: an unanswered REMOVE is cleaned up after like any other failure.
RemoveLostDiscards(p) ==
    /\ Step(p, "removing", "discarding") /\ Unlinks(p)
    /\ Unlinked(p) \/ UNCHANGED remote
    /\ ServerOnly

\* Nobody knows whether it was performed: the staging file is left.
RemoveLost(p) ==
    /\ Ends(p, "removing")
    /\ Unlinked(p) \/ UNCHANGED remote
    /\ ServerOnly

ReplaceTarget(p) ==
    /\ Step(p, "replacing", "published") /\ MovedOntoNothing(p)
    /\ ServerOnly /\ UNCHANGED put

\* Refused or unanswered; the staging file is left here, too.
ReplaceFails(p) ==
    /\ Ends(p, "replacing")
    /\ MovedOntoNothing(p) \/ UNCHANGED remote
    /\ ServerOnly

\* published(): the record is cleared, and put returns.
Finish(p) ==
    /\ Ends(p, "published")
    /\ Appended(PublishedRecord(T(p)))
    /\ LocalOnly /\ UNCHANGED <<inode, folded>>

FinishFails(p) == Ends(p, "published") /\ ServerOnly /\ UNCHANGED remote

\* _discard: REMOVE of the staging file, whose failure is noted and no more.
Discard(p) ==
    /\ Step(p, "discarding", "clearing")
    /\ Ours(p, Absent) \/ Ours(p, File(p))
    /\ ServerOnly /\ UNCHANGED <<dest, had, put>>

\* Then the record goes, whether or not the file did.
Clear(p) ==
    /\ Ends(p, "clearing")
    /\ Appended(PublishedRecord(T(p))) \/ Unwritten
    /\ LocalOnly /\ UNCHANGED <<inode, folded>>

-------------------------------------------------------------------------------
(* discard_staged *)

EntryOf(t) == [target |-> t, staged |-> FoldedLog[t].staged]

StartSweep ==
    /\ sweep = "idle" /\ sweeps < MaxSweeps
    /\ \A p \in Publisher : ~Busy(p)
    /\ sweeps' = sweeps + 1
    /\ sweep' = "removing"
    /\ todo' = SetToSeq({EntryOf(t) : t \in Survivors})
    /\ UNCHANGED <<journalVars, server, remote, source, drawn, pc, put, torn, crashes>>

\* The file is removed, or was not there.
SweepRemove ==
    /\ sweep = "removing" /\ todo # <<>>
    /\ staged' = [staged EXCEPT ![Head(todo).staged] = Absent]
    /\ sweep' = "clearing"
    /\ UNCHANGED <<journalVars, server, dest, had, source, drawn, pc, put, todo, sweeps,
                   torn, crashes>>

SweepClear ==
    /\ sweep = "clearing"
    /\ Appended(PublishedRecord(Head(todo).target))
    /\ todo' = Tail(todo)
    /\ sweep' = "removing"
    /\ UNCHANGED <<inode, folded, server, remote, source, drawn, pc, put, sweeps, crashes>>

SweepCompact ==
    /\ sweep = "removing" /\ todo = <<>>
    /\ Compact
    /\ sweep' = "idle"
    /\ UNCHANGED <<server, remote, source, drawn, pc, put, todo, sweeps, torn, crashes>>

\* A removal is refused or unanswered, or the disk refuses the record or the new
\* file: what was cleared stays cleared.
SweepFails ==
    /\ sweep # "idle"
    /\ \/ UNCHANGED staged
       \/ /\ sweep = "removing" /\ todo # <<>>
          /\ staged' = [staged EXCEPT ![Head(todo).staged] = Absent]
    /\ sweep' = "idle" /\ todo' = <<>>
    /\ UNCHANGED <<journalVars, server, dest, had, source, drawn, pc, put, sweeps, torn,
                   crashes>>

-------------------------------------------------------------------------------
(* The environment *)

\* The process is killed: the server and the journal's file are all that is left.
Crash ==
    /\ crashes < MaxCrashes /\ crashes' = crashes + 1
    /\ sweep # "idle" \/ \E p \in Publisher : Busy(p)
    /\ pc' = [p \in Publisher |-> "idle"]
    /\ put' = [p \in Publisher |-> NoCall]
    /\ folded' = Unfolded
    /\ sweep' = "idle" /\ todo' = <<>>
    /\ UNCHANGED <<log, tail, inode, server, remote, source, drawn, sweeps, torn>>

\* A local file is edited while it is not being uploaded.
Edit(t) ==
    /\ ~Publishing(t)
    /\ t \in scene.targets /\ source[t] < scene.versions
    /\ source' = [source EXCEPT ![t] = @ + 1]
    /\ UNCHANGED <<journalVars, server, remote, drawn, pc, put, sweeper, torn, crashes>>

PublisherStep(p) ==
    \/ CheckReplaceable(p) \/ RecordStaging(p) \/ RecordFails(p)
    \/ OpenStaging(p) \/ OpeningFails(p)
    \/ Write(p) \/ Filled(p) \/ Confirm(p) \/ FillFails(p)
    \/ PosixRename(p) \/ PosixRefused(p) \/ PosixLost(p)
    \/ PlainRename(p) \/ PlainRefused(p) \/ PlainLost(p)
    \/ ProbeInTheWay(p) \/ ProbeGivesUp(p)
    \/ RemoveTarget(p) \/ RemoveRefused(p) \/ RemoveLost(p)
    \/ ReplaceTarget(p) \/ ReplaceFails(p)
    \/ Finish(p) \/ FinishFails(p) \/ Discard(p) \/ Clear(p)

AnyStep ==
    \/ \E p \in Publisher, t \in Target, resume, strict \in BOOLEAN :
         Begin(p, t, resume, strict)
    \/ \E p \in Publisher : PublisherStep(p)
    \/ StartSweep \/ SweepRemove \/ SweepClear \/ SweepCompact \/ SweepFails
    \/ Crash \/ \E t \in Target : Edit(t)

Next == AnyStep /\ UNCHANGED scene

Spec == Init /\ [][Next]_vars

-------------------------------------------------------------------------------
(* Properties *)

\* Every variable has its type.
TypeOK ==
    /\ JournalTypeOK
    /\ scene \in Scenes /\ server \in scene.renames
    /\ dest \in [Target -> Content \cup {Absent}]
    /\ staged \in [Token -> Content \cup {Absent}]
    /\ had \subseteq Target /\ source \in [Target -> Version] /\ used \in Nat /\ calls \in Nat
    /\ pc \in [Publisher -> {"idle", "refusing", "recording", "opening", "filling",
                             "checking", "publishing", "renaming", "probing", "removing",
                             "replacing", "published", "discarding", "clearing"}]
    /\ put \in [Publisher -> Call]
    /\ sweep \in {"idle", "removing", "clearing"}
    /\ todo \in Seq([target : Target, staged : Token])
    /\ sweeps \in Nat /\ torn \in Nat /\ crashes \in Nat

\* What stands at a destination has its full length, and no hole unless a partial
\* nobody could compare was gone on from: a torn upload is never published, however
\* often it was interrupted and resumed (_put_atomically).
DestinationIsWhole ==
    \A t \in Target : dest[t] # Absent =>
        dest[t].full /\ (dest[t].holed => dest[t].unchecked)

\* No file, staged or published, mixes two versions of its source, whatever the
\* journal said and whenever the source was edited (entry_matches).
NothingSpliced ==
    /\ \A t \in Target : dest[t] # Absent => Cardinality(dest[t].from) = 1
    /\ \A k \in Token : staged[k] # Absent => Cardinality(staged[k].from) <= 1

\* From before its OPEN until it is moved or discarded, a staging file can be found
\* by a later process: its name is the one on record for its target (staging()).  An
\* unterminated line takes the record that follows it along.
StagingIsOnRecord ==
    torn = 0 =>
        \A p \in Publisher :
            pc[p] \in {"opening", "filling", "checking", "publishing", "renaming",
                       "probing", "removing", "replacing"}
            => FoldedLog[T(p)] = [staged |-> put[p].token, version |-> put[p].version]

\* A put that returned published its own bytes, and nothing of it is left over or on
\* record (_put_atomically).
ReturnedIsPublished ==
    \A p \in Publisher :
        pc[p] = "published" =>
            /\ dest[T(p)] # Absent /\ dest[T(p)].from = {put[p].version}
            /\ File(p) = Absent

\* The journal's records can be gone by: a lookup answers what the whole file says,
\* and the record leads to every staging file a call is filling (session/_journal.py).
RecordsAreTrue == TypeOK /\ LookupIsFresh /\ StagingIsOnRecord

\* Something of the target is on the server: at its name, or staged in full.
Copy(t) ==
    \/ dest[t] # Absent
    \/ \E k \in Token : staged[k] # Absent /\ staged[k].target = t /\ staged[k].full

\* A call that asks for the destination's removal never leaves the server without a
\* copy, whatever fails or is cut short from then on (_publish_by_plain_rename).
OnlyCopyKept(p) == Busy(p) /\ put[p].unlinks => Copy(T(p))

\* With require_atomic a destination that is there stays there (_publish).
StaysUnlessReplaced(p) ==
    Busy(p) /\ put[p].strict /\ dest[T(p)] # Absent => dest'[T(p)] # Absent

\* Publishing takes nothing away: no step of any call, of a sweep or of a crash
\* removes what a strict caller had, or the only copy anybody had.
NothingTakenAway ==
    [][\A p \in Publisher : OnlyCopyKept(p)' /\ StaysUnlessReplaced(p)]_vars

-------------------------------------------------------------------------------
(* What the documentation says *)

\* docs/reliability.md, of discard_staged: "Safe at the start of a run".  It says so
\* of what a killed run leaves, and what it leaves may be the only copy there is.
CopySurvives == \A t \in had : Copy(t)
===============================================================================
