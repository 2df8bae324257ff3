--------------------------------- MODULE Sync ---------------------------------
(***************************************************************************)
(* The calls that send a local tree or a list of local files: put_tree,    *)
(* its dry run, put_many and sync_tree with its manifest                   *)
(* (session/_session.py, _sync.py, _localtree.py, _policy.py, _many.py).   *)
(*                                                                         *)
(* The local walk and the comparisons are the generator of Pool, the puts  *)
(* are its handlers.  One put is Upload with Publish; here it reads the    *)
(* source once and is seen by others when it starts to write and when it   *)
(* is done.  Several runs follow one another over one manifest; between    *)
(* any two steps a user may edit a source, another client may change the   *)
(* server and the process may be killed.                                   *)
(***************************************************************************)
EXTENDS Pool, Integers, Sequences, SequencesExt

CONSTANTS
    File,        \* local files, by their place in the tree
    Dirs,        \* the local directories, parents first, as the walk meets them
    Home,        \* [File -> directory]
    Above,       \* [directory -> directory]
    Odd,         \* entries the local walk skips: links, devices, too deep
    Version,     \* contents a source may have, numbered by their mtimes
    Size,        \* [Version -> size]
    Mirror,      \* calls: [job, atomic, preserve, laconic, source], see the variables
    Lists,       \* lists a put_many may be given
    Flat,        \* [File -> File]: one file of each last component, for all that share it
    Unmovable,   \* directories whose times the server does not let be set
    MaxRuns, MaxEdits, MaxMishaps    \* bounds

\* Contents that are no version: no file, one that is still being written, and what
\* another client wrote.
Gone == 0
Torn == -1
Alien == -2

ASSUME SyncAssumption ==
    /\ IsFiniteSet(File) /\ NoItem \notin File
    /\ Dirs \in Seq(ToSet(Dirs)) /\ Dirs # <<>> /\ IsInjective(Dirs)
    /\ Home \in [File -> ToSet(Dirs)] /\ Above \in [ToSet(Dirs) -> ToSet(Dirs)]
    /\ Odd \subseteq File /\ Flat \in [File -> File]
    /\ Version \subseteq Nat \ {0} /\ Size \in [Version -> Nat]
    /\ Mirror \subseteq [job : {"sync", "tree", "preview", "many"}, atomic : BOOLEAN,
                         preserve : BOOLEAN, laconic : {"nowhere", "listings", "everywhere"},
                         source : [File -> Version \cup {Gone}]]
    /\ Lists \subseteq Seq(File)

VARIABLES
    job,                     \* "sync", "tree", its dry run "preview", or "many"
    atomic, preserve,        \* whether it publishes atomically; preserve_times
    laconic,                 \* where the server leaves sizes or times out: "nowhere", in its
                             \* "listings", or "everywhere"
    source,                  \* what each local file is
    server,                  \* what is at each remote name: its content, size and mtime
    made,                    \* remote directories that exist
    dated,                   \* those with the times of their local one
    manifest,                \* the file on disk: its entries, and whether its last line is cut
    memory,                  \* SyncManifest: the entries of this run
    mirror,                  \* the run's walk, verdicts and outcomes
    sending,                 \* each worker's put
    ended,                   \* how the run ended
    runs, edits, mishaps,
    changed,                 \* history: files somebody else changed since the run began
    tainted,                 \* history: files changed while they were being sent
    mixed,                   \* history: what the server tells of copies that were tainted
                             \* when they landed or were recorded
    calm                     \* history: no change since a run began that recorded everything

given == <<job, atomic, preserve, laconic>>
counts == <<runs, edits, mishaps>>
history == <<changed, tainted, mixed, calm>>
syncVars == <<given, source, server, made, dated, manifest, memory, mirror, sending, ended,
              counts, history>>

-------------------------------------------------------------------------------
Mishap == mishaps < MaxMishaps /\ mishaps' = mishaps + 1

NoEntry == [local |-> <<>>, remote |-> <<>>]
NoFile == [content |-> Gone, size |-> 0, mtime |-> 0]
Idle == [phase |-> "idle", content |-> Gone, landed |-> <<>>]
NoMirror == [dirs |-> Dirs, names |-> <<>>, present |-> [f \in File |-> <<>>],
             verdict |-> [f \in File |-> "none"], decided |-> <<>>, times |-> <<>>,
             skipped |-> {}]

\* local_dir_entry: the size and mtime of a source; and those a server tells of a file.
LocalStamp(v) == <<Size[v], v>>
SizeOf(c) == IF c \in Version THEN Size[c] ELSE 0
RemoteStamp(r) == IF r = NoFile THEN <<>> ELSE <<r.size, r.mtime>>
\* Where a file goes: join_remote in a tree, under its last component in a list.
Landing(f) == IF job = "many" THEN Flat[f] ELSE f
\* The server's clock, no source's and no other client's; no two runs share a second.
Now == -runs

SyncInit ==
    /\ \E m \in Mirror : /\ job = m.job /\ atomic = m.atomic
                         /\ preserve = m.preserve /\ laconic = m.laconic
                         /\ source = m.source
    /\ server = [f \in File |-> NoFile]
    /\ made = {Dirs[1]} /\ dated = {}
    /\ manifest = [entries |-> [f \in File |-> NoEntry], cut |-> FALSE]
    /\ memory = manifest.entries
    /\ mirror = NoMirror
    /\ sending = [w \in Worker |-> Idle]
    /\ ended = "none" /\ runs = 1 /\ edits = 0 /\ mishaps = 0
    /\ changed = {} /\ tainted = {} /\ mixed = {} /\ calm = "so_far"
    /\ pool = NewPool

-------------------------------------------------------------------------------
(* The generator: directories, parents first, and in each its files. *)

Mirroring == ended = "none" /\ Producing /\ mirror.names = <<>> /\ job # "many"

\* _scan and _walk_one: the entries by name, sorted.
Entries(d) ==
    SetToSeq({f \in File : Home[f] = d /\ source[f] # Gone})
\* _listing_by_name: what the server tells of the files in a directory.
Present(d) == [f \in File |-> IF Home[f] = d THEN RemoteStamp(server[f]) ELSE <<>>]

\* _walk_for_upload, then the listing: mkdir, the times to set later, what is there.
EnterDirectory ==
    /\ Mirroring /\ mirror.dirs # <<>>
    /\ LET d == Head(mirror.dirs)
           actual == job # "preview" /\ d # Dirs[1]
       IN  /\ made' = IF actual THEN made \cup {d} ELSE made
           /\ dated' = IF actual /\ d \notin made THEN dated \ {Above[d]} ELSE dated
           /\ mirror' = [mirror EXCEPT
                  !.dirs = Tail(@),
                  !.names = Entries(d),
                  !.present = Present(d),
                  !.times = IF preserve /\ d # Dirs[1] THEN Append(@, d) ELSE @,
                  !.skipped = @ \cup {f \in Odd : Home[f] = d}]
    /\ UNCHANGED <<given, source, server, manifest, memory, sending, ended, counts, history, pool>>

\* MKDIR or the listing fails, or the local directory cannot be read.
DirectoryFails ==
    /\ Mirroring /\ mirror.dirs # <<>>
    /\ ProducerFails("server")
    /\ UNCHANGED syncVars

\* settle_uploads: nothing is sent of a list in which two files would land on one name.
StartMany ==
    /\ job = "many" /\ ended = "none" /\ Producing /\ mirror.dirs # <<>>
    /\ \E list \in Lists :
          IF \E i, j \in DOMAIN list : i # j /\ Flat[list[i]] = Flat[list[j]]
          THEN ProducerFails("value") /\ UNCHANGED mirror
          ELSE /\ mirror' = [mirror EXCEPT !.dirs = <<>>, !.names = list]
               /\ UNCHANGED pool
    /\ UNCHANGED <<given, source, server, made, dated, manifest, memory, sending, ended, counts,
                   history>>

\* A defect: what the run would send decides, the server's side is not looked at.
VerdictByLocal(v, present, entry) ==
    IF entry = NoEntry \/ LocalStamp(v) # entry.local \/ present = <<>> THEN "transfer"
    ELSE "skipped"
\* compare_for_sync, _local_side, _remote_side: exactly what was recorded on both sides, or
\* sent again.
Verdict(v, present, entry) ==
    IF entry = NoEntry \/ LocalStamp(v) # entry.local \/ present = <<>> THEN "transfer"
    ELSE IF laconic # "nowhere" THEN "undecidable"
    ELSE IF present # entry.remote THEN "transfer" ELSE "skipped"

\* candidates_in: the source as it is now against the listing of a while ago.
Consider(f) ==
    /\ ended = "none" /\ Producing /\ mirror.names # <<>> /\ f = Head(mirror.names)
    /\ LET verdict == IF job = "sync" THEN Verdict(source[f], mirror.present[f], memory[f])
                      ELSE "transfer"
       IN  IF source[f] = Gone
           THEN ProducerFails("local") /\ UNCHANGED mirror
           ELSE /\ mirror' = [mirror EXCEPT
                      !.names = Tail(@), !.verdict[f] = verdict,
                      !.decided = IF verdict = "skipped" THEN Append(@, f) ELSE @]
                /\ IF verdict = "skipped" THEN UNCHANGED pool ELSE Offer(f)
    /\ UNCHANGED <<given, source, server, made, dated, manifest, memory, sending, ended, counts,
                   history>>

MirrorWalked ==
    /\ ended = "none" /\ Producing /\ mirror.dirs = <<>> /\ mirror.names = <<>>
    /\ Exhausted
    /\ UNCHANGED syncVars

-------------------------------------------------------------------------------
(* The handlers: put, then for a mirror STAT and the record. *)

TakeFile(w) == Take(w) /\ UNCHANGED syncVars

Sent(w) == pool.held[w]
Reached(w, phase) == Sent(w) # NoItem /\ sending[w].phase = phase

\* put opens the source; in place, the first write replaces what was there.
SendBegin(w) ==
    /\ Reached(w, "idle") /\ job # "preview" /\ source[Sent(w)] # Gone
    /\ LET f == Sent(w)
       IN  /\ sending' = [sending EXCEPT ![w].phase = "sending", ![w].content = source[f]]
           /\ server' = IF atomic THEN server
                        ELSE [server EXCEPT ![Landing(f)] = [content |-> Torn, size |-> 0, mtime |-> Now]]
           /\ dated' = dated \ {Home[f]}
           /\ tainted' = tainted \ {f}
    /\ UNCHANGED <<given, source, made, manifest, memory, mirror, ended, counts, changed, mixed,
                   calm, pool>>

\* History: what the server tells of a copy that somebody changed on its way.
Mixes(f, told) == mixed' = IF f \in tainted THEN mixed \cup {<<f, told>>} ELSE mixed

\* What was read is there, with the source's mtime or the time of the run.  An edit in the
\* meantime may or may not have been read.
SendEnd(w) ==
    /\ Reached(w, "sending") /\ source[Sent(w)] # Gone
    /\ LET f == Sent(w)
       IN  /\ \E c \in {sending[w].content, source[f]} :
              LET copy == [content |-> c, size |-> SizeOf(c),
                           mtime |-> IF preserve THEN source[f] ELSE Now]
              IN  server' = [server EXCEPT ![Landing(f)] = copy] /\ Mixes(f, RemoteStamp(copy))
           /\ mirror' = [mirror EXCEPT !.decided = Append(@, f)]
           /\ IF job = "sync"
              THEN sending' = [sending EXCEPT ![w].phase = "sent"] /\ UNCHANGED pool
              ELSE sending' = [sending EXCEPT ![w] = Idle] /\ Handled(w)
           /\ dated' = IF atomic THEN dated \ {Home[f]} ELSE dated
    /\ UNCHANGED <<given, source, made, manifest, memory, ended, counts, changed, tainted, calm>>

\* A dry run only asks the local file its size, or nothing.
Measure(w) ==
    /\ Sent(w) # NoItem /\ job = "preview"
    /\ mirror' = [mirror EXCEPT !.decided = Append(@, Sent(w))]
    /\ Handled(w)
    /\ UNCHANGED <<given, source, server, made, dated, manifest, memory, sending, ended, counts,
                   history>>

\* STAT of what landed, by its name.
StatLanded(w) ==
    /\ Reached(w, "sent") /\ server[Landing(Sent(w))] # NoFile
    /\ sending' = [sending EXCEPT ![w].phase = "landed", ![w].landed = RemoteStamp(server[Landing(Sent(w))])]
    /\ UNCHANGED <<given, source, server, made, dated, manifest, memory, mirror, ended, counts,
                   history, pool>>

\* append_record: one line at the end of the file; behind a cut line it is part of that
\* one and lost with it.
Appended(f, entry) ==
    IF manifest.cut THEN [manifest EXCEPT !.cut = FALSE]
    ELSE [manifest EXCEPT !.entries[f] = entry]

\* A defect: the line is written, the run's own entries are not updated.
RemembersNothing(f, entry) == memory
\* record_entry
Remembered(f, entry) == [memory EXCEPT ![f] = entry]

\* manifest_entry_for and append_record: the source is looked at again, and the line may be
\* cut short.
Record(w) ==
    /\ Reached(w, "landed") /\ source[Sent(w)] # Gone
    /\ LET f == Sent(w)
           entry == [local |-> LocalStamp(source[f]), remote |-> sending[w].landed]
       IN  IF laconic = "everywhere" THEN UNCHANGED <<manifest, memory, mishaps, mixed>>
           ELSE /\ memory' = Remembered(f, entry)
                /\ Mixes(f, entry.remote)
                /\ \/ manifest' = Appended(f, entry) /\ UNCHANGED mishaps
                   \/ /\ Mishap
                      /\ manifest' = [manifest EXCEPT !.cut = TRUE]
    /\ sending' = [sending EXCEPT ![w] = Idle]
    /\ Handled(w)
    /\ UNCHANGED <<given, source, server, made, dated, mirror, ended, runs, edits, changed, tainted,
                   calm>>

\* Any of these fails: the source is gone, the server refuses, the disk is full.  An atomic
\* put that fails leaves what was there.
SendFails(w) ==
    /\ Sent(w) # NoItem /\ job # "preview"
    /\ HandlerFails(w, "server")
    /\ sending' = [sending EXCEPT ![w] = Idle]
    /\ UNCHANGED <<given, source, server, made, dated, manifest, memory, mirror, ended, counts,
                   history>>

UnwindMirror ==
    /\ Unwind
    /\ sending' = [w \in Worker |-> IF pool'.held[w] = NoItem THEN Idle ELSE sending[w]]
    /\ UNCHANGED <<given, source, server, made, dated, manifest, memory, mirror, ended, counts,
                   history>>
JoinMirror == Join /\ UNCHANGED syncVars
CancelMirror == ended = "none" /\ CancelPool /\ UNCHANGED syncVars

-------------------------------------------------------------------------------
(* After the pool. *)

\* A defect: nothing is dated after the pool, but as the walk goes.
DatedEarly == dated
\* _set_directory_times, last of all; a refusal is suppressed.
DirectoriesDated == dated \cup (ToSet(mirror.times) \ Unmovable)

\* write_manifest: the whole file again, from memory.
Rewritten == IF job = "sync" THEN [entries |-> memory, cut |-> FALSE] ELSE manifest

\* The connection may be lost or the save fail; otherwise write_manifest replaces the file.
EndRun ==
    /\ pool.over /\ ended = "none"
    /\ IF pool.error # "none" THEN ended' = pool.error /\ UNCHANGED <<dated, manifest>>
       ELSE /\ dated' = IF job \in {"sync", "tree"} THEN DirectoriesDated ELSE dated
            /\ \/ ended' = "returned"
                  /\ manifest' = Rewritten
               \/ ended' = "server" /\ UNCHANGED manifest
    /\ UNCHANGED <<given, source, server, made, memory, mirror, sending, counts, history, pool>>

\* prepare_manifest and SyncManifest.load: the next run starts from the file.
NextRun ==
    /\ ended # "none" /\ job = "sync" /\ runs < MaxRuns
    /\ runs' = runs + 1
    /\ memory' = manifest.entries
    /\ mirror' = NoMirror /\ sending' = [w \in Worker |-> Idle] /\ pool' = NewPool
    /\ ended' = "none"
    /\ changed' = {}
    /\ calm' = IF \/ calm = "settled"
                  \/ calm = "so_far" /\ ended = "returned" /\ laconic = "nowhere"
               THEN "settled" ELSE "so_far"
    /\ UNCHANGED <<given, source, server, made, dated, manifest, edits, mishaps, tainted, mixed>>

-------------------------------------------------------------------------------
(* Not ours to choose. *)

Kill ==
    /\ ended = "none" /\ ~pool.over
    /\ ended' = "killed"
    /\ pool' = [NewPool EXCEPT !.gen = "closed", !.over = TRUE]
    /\ sending' = [w \in Worker |-> Idle]
    /\ UNCHANGED <<given, source, server, made, dated, manifest, memory, mirror, counts, history>>

InFlight(f, phases) == \E w \in Worker : Sent(w) = f /\ sending[w].phase \in phases
Disturbed(f, phases) ==
    /\ changed' = changed \cup {f} /\ calm' = "no"
    /\ tainted' = IF InFlight(f, phases) THEN tainted \cup {f} ELSE tainted
    /\ UNCHANGED mixed

\* A user edits, replaces or removes a source: its size or its mtime changes.
Edit(f, v) ==
    /\ edits < MaxEdits /\ edits' = edits + 1
    /\ f \notin Odd /\ v # source[f]
    /\ source' = [source EXCEPT ![f] = v]
    /\ Disturbed(f, {"sending", "sent", "landed"})
    /\ UNCHANGED <<given, server, made, dated, manifest, memory, mirror, sending, ended, runs,
                   mishaps, pool>>

\* Another client writes or removes a remote file.
Interfere(f) ==
    /\ Mishap
    /\ server[f] # NoFile
    /\ \/ server' = [server EXCEPT ![f] = NoFile]
       \/ server' = [server EXCEPT ![f] = [content |-> Alien, size |-> server[f].size,
                                           mtime |-> 0]]
    /\ Disturbed(f, {"sending", "sent"})
    /\ UNCHANGED <<given, source, made, dated, manifest, memory, mirror, sending, ended, runs,
                   edits, pool>>

-------------------------------------------------------------------------------
SyncStep ==
    \/ EnterDirectory \/ DirectoryFails \/ StartMany \/ MirrorWalked
    \/ \E f \in File : Consider(f)
    \/ \E w \in Worker :
          \/ TakeFile(w) \/ SendBegin(w) \/ SendEnd(w) \/ Measure(w)
          \/ StatLanded(w) \/ Record(w) \/ SendFails(w)
    \/ UnwindMirror \/ JoinMirror \/ EndRun

SyncNext ==
    \/ SyncStep \/ NextRun \/ CancelMirror \/ Kill
    \/ \E f \in File : Interfere(f) \/ \E v \in Version \cup {Gone} : Edit(f, v)

SyncSpec == SyncInit /\ [][SyncNext]_<<syncVars, pool>>

-------------------------------------------------------------------------------
(* Properties. *)

\* A run that returns has sent or skipped each file it found once, and left on the server
\* what the source holds, whatever earlier runs left behind when they failed or were
\* killed.  Excused is what was changed during this run, and what is skipped because the
\* server tells of it what it told of a copy that was changed on its way.
MirrorIsCurrent ==
    ended = "returned" =>
        /\ IsInjective(mirror.decided)
        /\ job # "preview" =>
              \A f \in ToSet(mirror.decided) :
                  \/ {f, Landing(f)} \cap changed # {}
                  \/ mirror.verdict[f] = "skipped" /\ <<f, RemoteStamp(server[f])>> \in mixed
                  \/ server[Landing(f)].content = source[f]
        /\ job # "many" => \A f \in File \ changed :
              (f \in ToSet(mirror.decided)) = (source[f] # Gone)

\* After a run that returned, with nothing changed on either side since it began, the next
\* one sends nothing.
RepeatIsQuiet ==
    calm = "settled" => \A f \in File : mirror.verdict[f] \in {"none", "skipped"}

\* With preserve_times every remote directory of the tree ends with the times of its local
\* one, although creating what is in it changes them.
RemoteTimesStick ==
    ended = "returned" /\ preserve /\ job \in {"sync", "tree"} =>
        ToSet(Dirs) \ {Dirs[1]} \subseteq dated \cup Unmovable

\* "a file that changed while it was being sent must not be recorded as though it had not"
\* (manifest_entry_for): what the manifest calls identical on both sides is the same.
RecordedIsCurrent ==
    \A f \in File :
        LET entry == manifest.entries[f]
        IN  /\ source[f] # Gone /\ server[f] # NoFile
            /\ entry.local = LocalStamp(source[f]) /\ entry.remote = RemoteStamp(server[f])
            => server[f].content = source[f]
===============================================================================
