# A TLA+ model of gantry-sftp

gantry-sftp is an SFTP (filexfer v3) client: it spawns `ssh -s sftp`, speaks the protocol over
the child's pipes and offers single operations, pipelined transfers, atomic uploads, trees,
synchronisation and several facades.  This directory holds TLA+ modules for the parts in which
order, failure and concurrency decide what happens to a caller's data, and for the algorithms
whose result is easy to get subtly wrong; TLC instances of them; and proofs.

Paths below are relative to `src/gantry_sftp/` in the repository.  To run anything:
`tlc -workers 2 -config MCTransfers.cfg MCTransfers`, and `tlapm DispatcherProofs.tla` (the proof modules are
`Dispatcher`, `Connection`, `Download`, `Upload`, `Publish`, `Tree`, `Sync` and `SessionProofs`).

## 1. Inventory

Everything runs in one event loop.  What interleaves is what stands between two awaits; what
is shared is one pipe in each direction, the codec's table of requests in flight, the server's
files, the local files, and the journal's file, which several processes may see one after the
other.  The blocking facade adds threads in front of the loop.

| component | state | operations | hard behaviour | what makes it correct |
|---|---|---|---|---|
| codec (`codec/_codec.py`) | lifecycle, next id, requests in flight | initiate, allocate id, send, receive | ids wrap; replies in any order; one bad frame ends all | an id names one request; nothing is handed out after framing is lost |
| frame splitter (`codec/_framing.py`) | the bytes of an unfinished frame | feed | cuts at any byte, frames still referred to | the frames do not depend on the cuts |
| packets, attributes (`codec/_packets.py`, `_wire.py`, `_attrs.py`, `_extensions.py`) | none | encode, decode | lengths and counts from the peer | what is encoded is what is decoded; bounds are checked |
| dispatcher (`session/_dispatch.py`) | routes, exchanges and their queues, send lock, failure, orphans, counters | submit, round_trip, exchange, run, reap_orphans, _fail, close | reader, reaper and operations interleave; abandoned requests are answered anyway; a write is cut short; a peer stops reading | replies reach who asked; nobody waits for ever; every handle the server opened is closed |
| download, get (`session/_download.py`, `_session.py`, `_policy.py`, `_handles.py`) | window, backlog, count, EOF; the local file, a handle, what was checked | STAT with OPEN, resume gate, fill, dispatch a reply, checks | short, empty, overlong, late, reordered answers; the file changes; of two requests one fails | every byte exactly once; success means whole; the handle is given back |
| upload (`session/_upload.py`) | window, chunks in flight, count, event | read and send, acknowledge | two tasks and a semaphore; the answer overtakes the sender; the source changes | a run ends; what it counted is on the server |
| put and publish (`session/_put.py`, `_publish.py`) | staging file, rename ladder | stage, fill, check, publish, clean up | lost answers to RENAME and REMOVE; a kill anywhere; retries | a destination is whole; the only copy is never deleted; leftovers can be found |
| journal (`session/_journal.py`) | an append-only file, a cached fold | staging, published, staged_for, compact | torn lines, compaction under a cached fold, another process | lookups are fresh; an entry is only used for the same bytes |
| verification (`session/_verify.py`) | none | prefix gate, content check | the server cannot or will not compare | what is reported as matched was compared |
| session lifecycle, transport, reconnecting (`open_session` in `session/_session.py`, `transport/_subprocess.py`, `session/_retry.py`) | codec, reader, child, pipes, stderr, attempts | handshake, probe, serve, tear down, reap, try again | a silent or dribbling server; cancellation anywhere; a child that stays | start and end are bounded; the child is reaped; nothing settled is repeated |
| pool and lists (`session/_pool.py`, `_many.py`) | workers, rendezvous stream | for_each_bounded | a worker fails while the producer is parked | first failure stops the rest; no deadlock |
| trees (`session/_recursive.py`, `_localtree.py`, `_localpath.py`, `_listing.py`, `_policy.py`) | the walk's stack, ledgers | walk, get_tree, put_tree, rmtree | links, collisions, entries that change meanwhile | each entry accounted for; one name, one file |
| sync (`session/_sync.py`) | manifest | compare, transfer, record | edits, interrupted and repeated runs | nothing changed is taken for unchanged |
| operations (`session/_operations.py`, `_core.py`) | working directory, what is known unsupported | stat and kin, mkdir, makedirs, chdir, extensions | another task's chdir, another client, refusals with several meanings | an answer was true while the call ran; a call has one path |
| glob (`session/_glob.py`), paths (`path.py`) | none | match, search; join, relative_to, match | `**`, hidden names, classes, refused directories | agrees with the reading of a pattern; names stay below |
| blocking facade (`sync.py`) | portal, scans, files | forward a call | call after close, close while calling, late answers | every byte and entry once, in order; handles have owners |
| fsspec (`fsspec.py`) | a session that is kept, file objects | open, read, write, close | a connection that breaks under open files | blocks land once, in place |
| compatibility probes (`compatibility.py`) | names claimed, findings | read_only_probes, write_probes | lost answers, a server that hangs up | verdicts are true; nothing is left unreported |
| ssh arguments, destinations, passwords, hints, quirks, platform, mode, logging, doctor, connect | none to speak of | pure functions and scripts | | |

How they meet: `connect` opens the transport, then `open_session`, which runs the reader and the
reaper of a `Dispatcher` beside the caller's body.  Every operation is either one round trip
(an exchange with one request) or a transfer (an exchange with a window).  `get` and `put` are
made of both.  Trees, lists and sync run many gets and puts through the pool.  The journal is
called from `put` and `discard_staged` through a worker thread, so its writes are awaits too.

## 2. Modules

| module | models | uses |
|---|---|---|
| `Dispatcher`, `DispatcherProofs` | the dispatcher over the codec and the pipe, the peer, the link; its inductive invariant and theorems | |
| `Framing`, `Connection`, `ConnectionProofs` | the splitter and the codec's states; one call of `with_reconnect` with transport, child, handshake, probe, reader, body and teardown; theorems | `Connection` extends `Framing` |
| `Transfer` | the abstract promise of a bulk transfer | |
| `Download`, `DownloadProofs` | `get` and the pipelined reader; implements `Transfer`; theorems | `Transfer` by INSTANCE |
| `Upload`, `UploadProofs` | the pipelined writer; implements `Transfer`; theorems | `Transfer` by INSTANCE |
| `Journal`, `Publish`, `PublishProofs` | the log; `put(atomic=True)` over it, crashes, `discard_staged`; lemmas about the fold, theorems | `Publish` extends `Journal` |
| `Pool` | `for_each_bounded` | |
| `Tree`, `TreeProofs` | walk, get_tree and its dry run, get_many, rmtree; theorems | `Pool` |
| `Sync`, `SyncProofs` | sync_tree, put_tree and its dry run, put_many, the manifest; theorems | `Pool` |
| `Operations` | operations of one request and a few, the working directory, extensions | |
| `Packets`, `Glob`, `Paths` | algorithms, checked against what they are to do | `Paths` extends `Glob` |
| `Facade`, `Filesystem` | threads over a portal; fsspec's files over connections | |
| `Probes` | the compatibility battery | |
| `SessionProofs` | theorems about `Operations`, `Filesystem`, `Probes` and `Facade` | |
| `MCDispatcher`, `MCConnection`, `MCDownload`, `MCPublish`, `MCTransfers`, `MCSession` | instances for TLC; the last two hold several independent subjects, of which a behaviour is about one | |

**Dispatcher.**  An action is a stretch of code without an await.  `RoundTrip` is `round_trip` up to
its first await: allocate an id, record it with the codec, route it, count it, ask for the send
lock.  `WriteDone` is `transport.send` returning, `CutWrite` what a cancellation or a deadline does
to a write under way: the frame may have arrived whole, in part (`torn`) or not at all.  `ReadReply`
is one iteration of `run` with `_route`; `ReadBadFrame` the same for a chunk whose frames before the
bad one are parsed and thrown away.  `RequestDeadline` and `SendDeadline` are two deadlines of the
same length of which the outer began earlier, so a one-shot only ever meets the outer one.  The
peer answers in any order and only while there is room in the reply pipe; a peer that is not
drained does not read.  A request is who sent it and whether it is an OPEN, a CLOSE or another.

**Framing, Connection.**  `Feed` takes any piece of the stream, keeps what is incomplete, and moves
the buffer only when nobody refers into it.  Its loop, and the codec's over the frames of a chunk, are
recursive functions that count iterations (`fed` over `NextFrame`, `after` over the packets), which is
the form that can be proved about.  A frame is one or two cells, so that a cut may fall
inside the length.  `Connection` is the life of one call: `Connect`, `SendInit`, `ReadVersion`,
`SendProbe`, `ReadLimits`, `StartSession`, requests of the body, its end by return, error or
cancellation, `CloseDispatcher`, the two `aclose` with `_reap`'s escalation, and `Decide`.  The child
(`ChildExits`, `ChildRefuses`, `ChildHangsUp`), the server (`ServerVersion`, `ServerPerforms`,
`ServerJunk`) and the caller (`Cancel`, `CancelBody`) act at any time.

**Transfer, Download, Upload.**  `Transfer` promises that success means that every offset of a span
that was fixed at the start has arrived, and that nothing that arrived is taken back; a source may
turn out to have less.  In `Download` a byte is its offset: `held` are the offsets at which the
local file has the remote byte, so a hole is visible.  `Get` starts STAT and OPEN together; their
outcomes, failures and a cancellation between them are separate actions.  The window is `Issue` and
`Dispatch`; `FileShifts` changes the remote file at any time.  A second call may resume from what the
first one left.  A CLOSE is two steps, the writing (`SendClose`) and the server's performing it, with an
answer somebody still waits for (`CloseAnswered`) or not (`CloseUnanswered`, `LateClose`); before it is
written it may wait for the send lock, where its deadline (`Congested`) or, at the last close, which nothing
shields, the caller's cancellation ends it (`CloseCut`).  `closes` counts the CLOSEs that are written and not
performed, `left` the handles that were given up with none.  The handle of a comparison is opened and closed
in one step (`ProbeCloses`), with the same ends; a comparison may fail (`GateFails`, `ConfirmFails`).
`Upload` has the sender and the receiver as two processes that meet in the
semaphore, the table and the event; the server may answer a WRITE before the sender's `send()` has
returned.

**Journal, Publish.**  A file's content is the set of versions of the source it has bytes of,
whether it has its full length, and whether it has a hole.  A request whose answer is lost was
performed at once or is never performed.  `Crash` kills the process: `folded` and every call are
gone, the server's files and the log stay.  An append may be taken in part (`torn`).  `Edit` changes
the local file between calls; `SweepRemove`, `SweepClear` and `SweepCompact` are `discard_staged`.  The
fold of the log applies its lines in turn, so what it says of a target is what the last line `About` the
target says; `Apply` is written that way, without recursion.

**Pool, Tree, Sync.**  `Pool` is a producer and workers that meet without a buffer (`Offer`, `Take`), a
first error, and `Unwind`, which cancels the rest wherever they wait; a generator is closed only if
something throws into it or takes from it.  `Tree` and `Sync` are the producers and handlers: their
actions take a worker's item, change the local or remote side, and hand back.  In `Tree` a local name is
its place after `Inode`, which folds it where the filesystem does; `claims` is the ledger by which
the second name is told from the first.  Two loops over a list are written by their result: a directory
has the times of the last that names it (`Stamped`), and `rmtree` takes the entries it collected from the
last to the first, what is in a directory before the directory (`Removals`, `Dooms`).  In `Sync` a file is a version with a size and an mtime on both
sides; `Kill` leaves what was appended to the manifest, its last line perhaps cut; `Edit` and
`Interfere` are the user and another client.  No two runs fall into one second, the server's clock is no
source's mtime, and an edit changes size or mtime.  `tainted` are the files somebody changed while they
were on their way, and `mixed` is what the server tells of such copies: the comparison cannot know them
from what their record says (`sync_edited`).

**Operations, Facade, Filesystem, Probes.**  `Operations` has two tasks whose calls are sequences of
requests, a server that performs and refuses, and a third party (`Alter`); a call's answer is
compared with what was the case between its start and its end.  `Facade` has one portal and two
threads, one of which owns the session's block; a deadline may hit a call whose answer comes late.
`Filesystem` has file objects that outlive connections; handles are numbers a server reuses.  In
`Probes` every probe is a script of requests; any answer may be lost, performed or not, with the link
or without it, and a server may hang up on the large request.

**Packets, Glob, Paths.**  Pure functions.  Strings are short sequences of cells or bytes, trees have
four levels at most, and the property compares the translated algorithm with what it is to do: decoding
inverts encoding and refuses what is cut or announces too much; a pattern matches by the plain
definition of each of its elements; a search finds what a pattern denotes and fails when it could not
look; paths keep names below their directories.

## 3. What TLC checks

Deadlock is checked in `transfers` and `connection`, where everything that stops must have ended;
elsewhere a connection that was closed, a call that returned and a bound that is used up are all
proper ends.

| run | instance | checked | states |
|---|---|---|---|
| `dispatch` | one round trip that may be an OPEN, one upload, 3 ids, window 2, 4 requests, 1 queued reply; fair | `TypeOK`, `RequestsAreRouted`, `NobodyWaitsAlone`, `HandlesAreKept`, `NothingRoutedAfterProtocolError`, `OrphansAreClosed`, `FailureEndsOperations` | 380 000 |
| `dispatch_torn` | the same | `NoWriteIntoTornStream`: violated | |
| `connection` | two attempts of one call, frames of one or two cells, a stderr of three lines; fair, deadlock checked | `SplitterKeepsPlace`, `NoChildLeft`, `CleanupIsHeard`, `ReturnedWasPerformed`, `SettledIsFinal`, `CallEnds` | 410 000 |
| `download` | one get of up to 5 bytes in READs of 2, window 3, all answers a server may give and a cancellation or a deadline at every await; two gets of one byte from a server that tells no permissions; and two gets of up to 3 bytes, window 2, of a file that grows and shrinks; fair | `EveryByteOnce`, `ReturnedIsWhole`, `HandlesReturned`, `CallsEnd`, `KeepsPromise` | 1 060 000 |
| `download_hole` | a get and its resumption, up to 4 bytes | `ResumedIsByteIdentical`: violated | |
| `transfers` | one upload of up to 5 bytes in WRITEs of 2, window 2; five trees of up to five entries, two workers; fair, deadlock checked | `RepliesAreExpected`, `AcknowledgedIsStored`, `KeepsPromise`, `EverythingAccounted`, `FirstClaimantKeepsName`, `DirectoryTimesStick`, `LinksAreNotFollowed`, `EverythingEnds` | 410 000 |
| `publish` | one target, two calls, two versions of its source, a torn append, a crash, a sweep; and two targets, two publishers, a crash, a sweep; every kind of posix-rename | `DestinationIsWhole`, `NothingSpliced`, `ReturnedIsPublished`, `RecordsAreTrue`, `NothingTakenAway` | 2 740 000 |
| `publish_sweep` | one call, one sweep | `CopySurvives`: violated | |
| `session` | sync: two files in two directories, three runs with one edit or mishap, or two runs with one of each where files are written in place; operations: two callers, two calls, four places; facade: two threads, four calls of one and six of both; fsspec: four objects, two connections; every packet and short frame; patterns of up to five pieces, bracket expressions of up to two items, trees, paths of up to five bytes; seven servers for the probes, one lost answer | `MirrorIsCurrent`, `RepeatIsQuiet`, `RemoteTimesStick`, `OnePathPerCall`, `AnswersAreTrue`, `DataIsFaithful`, `FacadeIsFaithful`, `FilesAreWhole`, `ProbesAreHonest` | 1 430 000 |
| `sync_edited` | the sync part | `RecordedIsCurrent`: violated | |
| `glob_complete` | the searches | `SearchesAreComplete`: violated | |
| `fsspec_stale` | the fsspec part | `RangesComeHome`: violated | |

**What the properties say.**
- `RequestsAreRouted` is the conjunction of what a reply's way rests on: an id names one request
  wherever it is, routes lead to live exchanges, answers are paired with their requests, and the
  three counters agree.  `NobodyWaitsAlone`: no exchange is parked where no wakeup reaches it.
  `HandlesAreKept`: a handle the peer allocated has an owner, and the reaper closes no other's.
- `CleanupIsHeard`: a CLOSE that a cancelled body still sends finds a reader.  `SettledIsFinal`: an
  operation whose outcome is known is not run again.  `ReturnedWasPerformed`: an operation that
  returned was performed, on this connection or an earlier one.
- `ReturnedIsWhole` joins four statements on a get that returned: its count is what landed; with the
  file standing still it is the file; what is reported as matched was; checked content has no hole.
- `EverythingAccounted`: when a call returns, or ends for collisions alone, each entry of each directory
  it walked is exactly one of transferred, reported and a directory, each name of a list is transferred
  or reported, and not both, and what is called transferred is on the disk; `rmtree` leaves nothing.
  `DirectoryTimesStick`: no directory of a returned call was written to after it was stamped.
- `HandlesReturned`: once a get has ended, each handle the server still has open either has a CLOSE on its
  way or was given up without one (`handles = closes + left`), and none is given up without one in a scene
  in which nobody cancels between the two opening requests or at the last close, no CLOSE waits out its
  deadline for the send lock, and no mode is asked for that the server does not send (`LeavesNone`).  The
  first half holds in every scene, those three ends included, which section 6 describes.
- `RecordsAreTrue`: a lookup answers what is in the log now, and every staging file that a kill may
  leave is on record.  `NothingTakenAway` is an action property: while a put is under way no step
  of it, of a sweep or of a crash removes what a strict caller had at the destination, or the only
  copy anybody had; between puts one does: the sweep of a file whose put ended between REMOVE and RENAME, which is
  `publish_sweep`.
- `MirrorIsCurrent`: a run that returned has sent or skipped each file it found once, and the remote side
  has what the source has.  Excused are files that were changed during this run, and a skipped file of
  which the server tells the size and mtime it told of a copy that was changed on its way, in any earlier
  run.  `RepeatIsQuiet`: a run over an unchanged tree moves nothing.  `RemoteTimesStick`: nothing is put
  into a directory after its times were set.
- `OnePathPerCall`: all requests of a call are about the path its caller meant; a relative path given
  before there is a working directory is not tied to a place.  `AnswersAreTrue`: a yes
  or no was the case at some time during the call; no refusal is reported as an absence.  Of a `mkdir`
  that is not tied to a place this is asked only where the directory was made by the call (section 6).
- `DataIsFaithful`: encoding and decoding, patterns, searches and paths against their definitions.  A
  bracket expression is written from a list of bytes, ranges and classes and must match the bytes it was
  written from.  A search raises if and only if the server declined to answer something the pattern reached
  (`Declined`: a listing, the kind of a matched entry that is to be entered, the LSTAT of a literal) or a
  `**` met a directory that is not there (`WalksNothing`, a finding of section 5); where it ends, what it
  found is there, and what it left out is or lies beneath an entry whose kind could not be told.  Which
  directories a pattern reaches is defined over the paths of the tree (`Applied`, `Below`), not by the walk.
- `ProbesAreHonest`: verdicts are true of the server, a server that hangs up costs one finding, each
  fact is found out or named as not asked, and what is left behind is reported.

**Bounds.**  Three ids with up to four requests make the counter wrap onto an id that is still in
flight, which is the case `allocate_request_id` has a loop for.  A window of two with a READ of two
bytes and a file of five has full, short and last ranges, a shortfall that is asked for again behind
a later range, and an EOF inside a range.  Two calls are a first run and its retry with an edit, a
crash or a sweep between them; a third adds no kind of predecessor.  Two targets make a compaction
that writes more than one line, and two publishers appends of one behind a lookup of the other.  A
frame of two cells is cut within its length and within its body; a threshold of three makes the
buffer move with and without a frame referring into it.  Two attempts are one failure and its
repetition.  In the trees every hazard has a tree of its own: two spellings of one file, of one
directory, of a file and a directory, a link to a directory outside, a name that may not be used.
Two workers and a producer are all who can wait for each other.  Three sync runs are one that is
killed, one that repeats it and one that must be quiet; an edit and a mishap together are tried over
two runs in which files are written in place, where a cut file stays at its destination.  Two callers of two calls are what a chdir
needs to come between.  Three batches, one of dots only, make the scan ask again within one call.
Patterns of five pieces over five symbols have three stars with something between; three components
of `*`, `a` and `**` over a tree of three levels have `**` first, between, last and twice.  Every
probe script runs against a server on each side of its verdict.

**Not in these instances.**  `Dispatcher` distinguishes a download's exchange, whose one task sends and
receives, from an upload's, whose two tasks do; the run uses the upload, whose steps include every
step of the other.  The changing part of `download` delivers cancellation during the transfer only and lets
the server send permissions; the other ends of a get are in its two other scenes.

**Fairness.**  `Dispatcher`: weak fairness of the reader, the reaper and the waiting operations, because
the event loop runs whatever is ready; of the deadlines, because the run sets `request_timeout`; of the
peer for what reached it.  New work, cancellation, protocol errors, the loss of the link and `close()`
are never owed.  `Connection`: the client's own steps and deadlines, and a killed child's exit; the
server and a child that was merely asked owe nothing.  `Download`: the client's own steps and its
deadlines; the server owes nothing at all.  `Upload`: both tasks and the server, and not the idle
deadline, which may be `None`.  `Tree`: a walk's and its workers' steps.  `Publish` and the parts of
`session` have safety properties only.

**Mutants.**  Every checked property has a mutant in the module of the definition it alters: a
plausible slip in that code, defined just above the definition and named for what it does
(`AllocatesUnskipped`, `ToldNobody`, `RestMisplaced`, `CurrentByLength`, `ReapIsPolite`, ...).  With
the definition replaced by its mutant, TLC finds the property violated.

## 4. What is proved

Each theorem holds for every value of the constants under the assumptions named, and is about the
component's own specification, without fairness.  A run of section 3 checks the same property on its
instance.

| module | theorem | says |
|---|---|---|
| `DispatcherProofs` | `TypeCorrect` | `TypeOK` |
| | `IdsCorrect`, `RoutesCorrect`, `RepliesNeverMisrouted`, `RequestsCorrect` | `RequestsAreRouted` and the parts it has |
| | `NobodyParked` | `NobodyWaitsAlone` |
| | `HandlesKept`, `ClaimedIsSpared` | `HandlesAreKept`, given `IdsSuffice`; the part about the reaper without it |
| | `ErrorsStopRouting` | the action property `NothingRoutedAfterProtocolError` |
| `ConnectionProofs` | `NoChildSurvives`, `CleanupHeard` | `NoChildLeft`, `CleanupIsHeard` |
| | `SettledFinal` | the action property `SettledIsFinal` |
| | `AttemptsBounded` | no more attempts and no longer delay than allowed |
| | `SplitterHolds`, `ReturnedHolds` | `SplitterKeepsPlace`, `ReturnedWasPerformed` |
| `DownloadProofs` | `EveryByteAccounted`, `ReturnedWhole`, `NoHandleLeft` | `EveryByteOnce`, `ReturnedIsWhole`, `HandlesReturned` |
| | `DownloadKeepsPromise` | `Download` implements `Transfer` |
| `UploadProofs` | `RepliesExpected`, `AcknowledgedStored` | `RepliesAreExpected`, `AcknowledgedIsStored` |
| | `UploadKeepsPromise` | `Upload` implements `Transfer` |
| `PublishProofs` | `DestinationWhole`, `NeverSpliced`, `ReturnedPublished`, `RecordsTrue` | `DestinationIsWhole`, `NothingSpliced`, `ReturnedIsPublished`, `RecordsAreTrue` |
| | `NothingLost` | the action property `NothingTakenAway` |
| | `CompactionLosesNothing` | a compaction leaves what the log says |
| `SessionProofs` | `PathsHold` | `OnePathPerCall` |
| | `AnswersHold` | the action property `AnswersAreTrue` |
| | `FilesHold` | `FilesAreWhole` |
| | `ReportHolds` | `ProbesAreHonest` |
| | `FacadeHolds` | `FacadeIsFaithful` |
| `TreeProofs` | `NamesHold`, `LinksHold`, `TimesHold` | `FirstClaimantKeepsName`, `LinksAreNotFollowed`, `DirectoryTimesStick` |
| | `AllAccounted` | `EverythingAccounted` |
| `SyncProofs` | `MirrorHolds`, `RepeatHolds`, `RemoteTimesHold` | `MirrorIsCurrent`, `RepeatIsQuiet`, `RemoteTimesStick` |

**Assumptions.**  `PartiesAssumption`, `PoolAssumption`, `JournalAssumption`: kinds are disjoint, null
values are none of what they stand beside, workers are finitely many.  `BoundsAssumption`,
`UploadAssumption`, `ConnectionAssumption`, `FramingAssumption`: sizes and limits are positive.
`DownloadAssumption`, `ScenesAssumption`: a scene is one.  `PublishAssumption`: tokens and versions are
counted from one.  `OperationsAssumption`: paths lead to places, and answers are told from places.
`FilesystemAssumption`: finitely many file objects, and no two of them write one path.
`ProbesAssumption`: a server is one of the kinds the probes tell apart.
`FacadeAssumption`: the batches are sequences of names, and the value for no call is no call and no handle.
`TreeAssumption`: a server's tree is one (what is somewhere is in a directory, and upwards everything of
ours ends at the root), what a link names is elsewhere with all that is below it, and another client
removes nothing there; the list of a `get_many` is not empty and names what is below the root.
`SyncAssumption`: finitely many files, each directory once, versions counted from one.  Every run evaluates those of its modules.  `IdsSuffice` is a hypothesis of `HandlesKept`
alone: more ids than the windows of all exchanges together.  The code's counter has 32 bits; with the
three ids of the `dispatch` run it does not hold, and TLC finds the property true there as well, by
enumeration.

**Dispatcher.**  A reply carries an id and nothing else.  The reader looks the id up twice, in the
codec's table and among the routes, and hands the event to whoever the route names.
`AnswersMatchRequests` says that this pairs the reply with the request the peer was answering.  It
is not inductive: it says nothing of replies not yet read.  What carries it is that an id in
flight names one request everywhere it is, in the writer's hands, at the peer, in the reply pipe
and in the codec (`IdsAreUnambiguous`), and that a route leads to a live exchange whose request the
codec still holds (`RoutesAreLive`).  The first holds because `allocate_request_id` skips ids that
are outstanding and an abandoned request stays outstanding until it is answered; the second because
`retire` and `_fail` take away routes in the same step in which they end exchanges.  `BooksBalance`
counts: a request adds one to `requestsSent` and one id to the finite set of outstanding ones, a reply
takes one from the set and adds one to `repliesReceived`.  `IndInv` is the conjunction of these with
`TypeOK`.  For `NobodyWaitsAlone` it is strengthened by `WaitInv`: either nothing has failed, and each
exchange's requests have their routes, or every open exchange with requests has been told; and a reader
that stopped has failed the dispatcher or was closed.  For `HandlesAreKept` it is strengthened by
`HandleInv`: what an OPEN's id is worth at each station on its way (`OpenSound`), that a queue holds at
most one answer for each request, that a one-shot is used once.  That the reaper always finds an id for
its CLOSE is a count: each id in flight is one of at most `Depth` of its party.

**Connection.**  Four small parts carry everything: the call and its child are somewhere (`Bounds`), a
child is reaped wherever no attempt is under way (`ChildAccounted`), in the body somebody reads or has
failed (`Routed`), and a settled outcome is on its way out (`Final`).

`SplitterKeepsPlace` and `ReturnedWasPerformed` need more, `TripInv`, which follows bytes and frames.
`Shape` is what a server may have written; `Placed` says that the splitter's buffer, from its start, is the
stream from the end of the last frame handled to the last byte taken, and that each frame still to come
is `Good`, one the codec will take when its turn comes, or the last and `Wrong`.  `Numbered` is the codec's table:
what the server has been asked and has not answered is outstanding, once.  `Lives` ties the codec's state to the
place in the call, `Trips` says that an answer which bears the id of the pending request was given to
that request and told the truth, and `Earned` draws the conclusion: without an error, what lies behind was performed.
The two loops, over the frames of a buffer and over the packets of a chunk, are proved by counting
iterations.  The library's theorems on recursive functions and on induction take operators as parameters, which
the provers cannot instantiate; but that `<` on the natural numbers is well-founded is a fact about sets,
from which `NatInd` follows, induction for a set, and from it `Iterates`: what a loop computes
exists, and keeps whatever each of its steps keeps.

**Download, Upload.**  The invariant of `Download` says where each byte is: the offsets of the span are
divided into what is in flight, in the backlog, landed and behind the end, and what has landed was the
remote file's byte when it was read (`LocalFile`, `Offsetting`; `StandingStill` for a file that does not
change).  `HandleKnown` says at which points of `get` the call owns a handle.  `HandlesCounted` is what
makes `HandlesReturned` inductive: while the link is up the server's handles are the CLOSEs under way, those
given up and the one the call owns, and a close that waits for its answer has its CLOSE among them; when the
link drops the server forgets all of them.  A scene that excludes the three ends never gives one up.
`Upload` has the table, the wire and the answers as three disjoint places of a chunk (`ChunksApart`), the
semaphore's value as what they leave of the window (`WindowBalanced`) and the sender's place in its span.  Both
refinements are proved step by step: an initial state maps to one of `Transfer`, and under the invariant
every step maps to a step of `Transfer` or a stutter.

**Journal, Publish.**  The first lemmas say what the folding of a file does: its last line about a target
decides, an appended line changes its own target only, and a compacted file folds to the same.  The cached
fold is the fold of what it read (`FoldedTrue`).  Then three sets are kept apart: targets by running calls,
tokens by what was ever drawn (`CallsApart`, `TokensTell`), and a staging file belongs to the version its
token was drawn for (`FilesBelong`).  `CallsStand` says for each point of `put` what the call's own staging
file and destination are; `DestinationsStand` and `OnRecord` what is true of them between calls.  The steps
of a publisher are brought into one form first, what is done at the server and what is left to do, so
that the lost answers of a request need no cases of their own.

**Operations.**  Tasks meet in the working directory and in what the server has.  The invariant is one
statement about each task by itself, `Sound`, that mentions no variable but the task's record: which
requests a call has (`Asking`), that they are about the place meant or, for `makedirs`, about one above it
(`Aiming`), and what an answer says of what was so since the call began (`Hearing`).  It survives another
task's `chdir` because a path is resolved when the call is made, and another client because the record
watches its place.

**Filesystem.**  Handles are numbers that a server gives again after a reconnect, so the invariant
says of the living connection alone that files and the server's table name each other (`Ledger`): two
files never hold one handle, and a handle in the table leads to the file it was opened for.  `Buffering`
follows a writer's blocks: what was sent and what is still kept are together what the caller wrote, and
the server's file begins with what was sent and has nothing the caller did not write, also when an answer
was lost after the write was performed and the block is sent again to the same place.

**Probes.**  A verdict is given at the end of a script, on the ground of what its earlier answers were.
`Accounted` says that what a probe makes has been claimed before; `PosixKnown` what the script of posix-rename
knows when it looks for the file; `Judged` that each verdict given is just and each undetermined one excused;
`LinkLost` that a link lost without a lost answer ends the battery at its last question; `Passed` that each question
behind was answered or named.

**Facade.**  The threads share nothing but the session, and the table of handles is where they meet.
A handle is named after the thread it is opened for, and an object is entered once: `Unborn` says that
before that no handle of the thread is open and nothing was given, `Held` that afterwards the object's handle
is its thread's own, none of the reaper's, and in the table as long as the session is open.  So no thread's
handle ever stands for another's, and a step of one thread leaves every other `Apart` from it.  `Streams` is the invariant
of what was given: what a scan has shown and what it keeps of the last batch are together the names in the
batches the server has answered on that handle, unless an answer was lost on the way; a reader's bytes end at
its cursor; a writer's file begins with what its writes that returned have put.  That the names of a prefix of
the batches are a prefix of all the names is shown by induction over the number of batches, for a set of
numbers (`NumbersInduct`).

**Tree.**  What is in a worker's hands, on its way to one, or on the local disk has claimed its name
(`Claimed`, `Pooled`), and a claim that is made stands.  So two workers at one local file would be two at
one item, and `Offer` only offers what had no claimant.  For links: what is pending was a directory when
the call began (`Directories`), since an entry goes into `dirs` only on a kind that a LSTAT or the listing
told, and nothing changes a kind but a removal.  `rmtree` removes what the walk found; that it found
something is `Walked`.  `DirectoryTimesStick` is inductive with the types: the ledger of times, the stamps
and the modes change only before the outcome.

`EverythingAccounted` speaks of the end only.  During the call `Sorted` says that a place is in at most one
of: found, being listed, queued, handled, moved, told, a directory; `Covered` that whatever is in a
directory listed to its end is in one of them, and that nothing is whose directory is not.  So what an
ended listing brings was nowhere before, which keeps the stack and the queue free of repetition;
afterwards an item only passes from one hand to the next (`PassedOn`).  A list needs no directories
(`ListCovered`).  When the pool has ended without an error the first four are empty (`Ending`, `Stream`).
That what was moved stays whole (`Ledger`) is the argument about claims again.  `rmtree` takes the root
last, and RMDIR only takes what is empty, so what has a place has a parent (`Emptied`); if anything were
left when the root is gone, it would have no end upwards.

**Sync.**  What a run skips rests on what earlier runs wrote into the manifest, so the invariant says
what an entry is worth (`EntryTrue`), in memory and on disk: if what the server tells of a file now is
what was recorded, its content is the version whose stamp was recorded, unless that pair is in `mixed`.
An entry stays true although the remote file is written again, because what lands in a later run bears
that run's time, or with `preserve_times` the mtime of the source it was read from.  Within one run the
times would not tell two copies apart; there `Sorted` does: a file is still to be named, or in somebody's
hands, or decided, which it is from the moment it lands, so it lands once.  `OnItsWay` follows a file through its put, STAT and
record: what the worker has read, what landed and what was told of it are the source's, or it is tainted.
A listing is as old as the walk's step into its directory; `Fresh` says it still holds for what has not
been decided or changed since, which is what makes comparing with it enough.  `Kept` is then
`MirrorIsCurrent` in the middle of a run, and `Covered` that nothing found is lost between the walk and
the workers.  For `RepeatIsQuiet`, `Quiet` says that a run without a change has recorded in memory what
both sides are, that a run which returned has written memory to the file, whatever lines were cut before,
and that the runs after it find every entry matching.  `RemoteTimesStick` is `Dating`: each directory but
the root is still to be entered or has its times to be set, and they are set when the pool is empty.

**Only model-checked.**  Liveness (`OrphansAreClosed`, `FailureEndsOperations`, `CallEnds`, `CallsEnd`,
`EverythingEnds`): fairness and ENABLED are out of the prover's reach.  `DataIsFaithful`: the codec of
packets, patterns and paths descend into data of any depth, and `Glob` and `Paths` declare RECURSIVE
operators, for which the SMT backend is lost.  The properties that are violated are shown by their runs.

## 5. Findings

- `dispatch_torn`: a frame is written behind half a frame.  Only `_write`'s own deadline fails the
  connection; the request's deadline, which for a one-shot always fires first, and a cancellation
  cut the write and leave the connection in use.  A sender that already waits for the lock also
  writes on after the connection has failed.
- `download_hole`: a resumed get takes the local length for how far the last one came.  Answers land
  out of order, so there may be a hole below that length; the resumption skips it, and its size
  matches.  `verify=` finds it (`CheckedContentHasNoHole`).
- `publish_sweep`: a put that ended between REMOVE and RENAME leaves its staging file because it is
  the only copy; `discard_staged`, at the start of the next run, deletes it.
- `sync_edited`: the manifest records the size and mtime the source has after its put, whatever the put
  read; a source edited in between is identical ever after.
- `session` (`DataIsFaithful`): `glob("/missing/**")` raises, and so does a `**` that comes to a directory that
  went after it was listed, because `recursive` iterates `Session.walk` where the other components of a
  pattern use `listing`, which swallows NO_SUCH_FILE (`_glob.py:862`).  `Session.glob` says "Only
  ``NO_SUCH_FILE`` is swallowed, and only into an empty result: a path that does not exist matches nothing",
  and `docs/listing-and-matching.md:151` "A path in the pattern that does not exist matches nothing".  The
  property is exact about it: `WalksNothing` is when this happens, everywhere else a missing path is empty,
  and without that disjunct TLC finds the property violated.
- `glob_complete`: a search with `**` passes over an entry whose kind cannot be told, while every other
  component of a pattern raises for it.
- `fsspec_stale`: a file object reads, writes and closes through its old handle on a new connection.

## 6. Observed while modelling, not run

Connection and dispatcher
- The deadline of the limits probe may cut its frame; nothing records that the stream is torn.
- A short limits body raises `ProtocolError`, although `_probe_limits` says it tolerates everything.
- ssh's refusal to log in that is still unread when stdout ends is classed as a failure to connect,
  and tried again.
- An operation that was acknowledged and whose last CLOSE fails unshielded is run again.
- `_fail` replaces an earlier cause, so two operations can report different ones; `reaped` counts
  a handle whose CLOSE was refused before it was written.

Transfers
- Three ends of a get leave its handle open on a live connection.  `get(mode=PRESERVE)` from a server that
  sends no permissions raises after the OPEN has been answered and before the block that closes handles
  (`_session.py:1562`).  A cancellation after the OPEN is answered and before the STAT is does the same
  (`_session.py:1373`).  And a CLOSE may be given up before it is written: the last one (`_session.py:1620`) is
  neither shielded nor within `close_quietly`, so a cancellation while it waits for the send lock, or at the
  checkpoint before the write, ends the call without it; and the request deadline does so for every CLOSE,
  `close_quietly`'s and a comparison's too, behind a sender that holds the lock for so long.  All three are
  actions of `Download`, counted by `left`; `HandlesReturned` says that there is no fourth.
- `get(resume=True)` of an empty remote file without a local one reports it as already complete and
  creates nothing.
- A range answered EOF just before the file grows is not asked for again, while a range behind it
  may still return data; with no size to compare with, the call returns.
- The upload's idle deadline runs while the sender reads the source and nothing is outstanding.
- `append_record` does not look at how much `os.write` took.  A record appended behind a partial one
  is lost with it; a lost `staged` record is a staging file no sweep finds.
- The record of a staging file is cleared also when removing the file failed.
- A later upload of the same target that does not resume records its own staging file in the place of
  the one a crash left, which no sweep then finds.
- Two calls for one target at the same time are not modelled: the second would resume into the
  first's staging file.

Operations, paths, searches
- An unbound relative `mkdir(exist_ok=True)` that is refused looks with a LSTAT whose path is resolved once
  more; with another task's first `chdir` in between, the directory it finds, and answers for, is another one.
- A relative path resolved before the first chdir is resolved again, against a working directory set
  meanwhile; on a server whose REALPATH answers unrooted, chdir with an absolute path stores what is
  not absolute.  `raise_for_status` lets a STATUS of EOF pass as success.
- `**/a/**` yields duplicates; `**` crosses hidden directories; with `case_sensitive=False` a literal last component
  keeps its backslashes as escapes; a literal pattern with a trailing `/` whose LSTAT tells no
  permissions is dropped where a matched one raises.
- `SFTPPath.glob` joins its own path into the pattern without escaping it; a relative path is not
  relative to its ancestor `.`; `..a` has a suffix and no suffixes.

Facade, fsspec, probes
- A call that passed `_ready` before the block ended gets anyio's RuntimeError instead of StateError;
  `__exit__` beside another thread's `_still_open` may replace an exception; iterating a scan after a
  READDIR that timed out misses a batch without saying so; calls in flight when the block ends wait for
  their deadline, or for ever without one.
- A dead session stays the filesystem's session until close().
- A RENAME answered OK by a server that moves nothing is reported as one that replaces.  Two batteries
  with one run id remove each other's files.  An interrupt during the battery skips the cleanup.

## 7. Plan

Done: everything in section 2.  What could be added to the models: fsync, modes and single attributes
of `put` and `put_tree`; the arithmetic of `_limits.py`; two calls for one target in `Publish`; depth
limits of walks.

Proofs still to be had: `Packets`, with the loops of its decoders written as those of `Framing` are.

## 8. Not modelled

Arguments to ssh, destinations, passwords, hints about failed connections, classification of servers
and of the local platform, permission arithmetic, rendering, logging and the doctor: sequential,
without state that outlives a call; a model would repeat their tables.  `connect` has no state of its
own.  The methods of the facade, of `SFTPPath` and of the filesystem that forward one call are all
alike and modelled once.  `PROJECT.json` lists every part with its status.
