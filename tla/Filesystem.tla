------------------------------ MODULE Filesystem ------------------------------
(***************************************************************************)
(* The fsspec adapter (fsspec.py): a filesystem that connects on first     *)
(* use, and buffered files that keep a handle for as long as they live.    *)
(*                                                                         *)
(* What AbstractBufferedFile does with its three hooks is external; so is  *)
(* the server, which names handles by small numbers it uses again.         *)
(***************************************************************************)
EXTENDS Naturals, FiniteSets, SequencesExt

CONSTANTS
    Object,             \* files opened through the adapter, and cat_file calls
    Target,             \* [Object -> Path]
    Mode,               \* [Object -> "rb", "wb" or "cat"]
    Path, None,
    MaxBlocks, MaxConnections,   \* bounds: blocks of a file; connections,
    MaxBreaks                    \* of which the first so many may break

\* Files are written by one object each: two that write one file undo each other's work.
ASSUME FilesystemAssumption ==
    /\ IsFiniteSet(Object) /\ None \notin Nat
    /\ Target \in [Object -> Path] /\ Mode \in [Object -> {"rb", "wb", "cat"}]
    /\ \A o, p \in Object : Mode[o] = "wb" /\ Mode[p] = "wb" /\ Target[o] = Target[p] => o = p
    /\ MaxBlocks \in Nat /\ MaxConnections \in Nat /\ MaxBreaks \in Nat

VARIABLES
    connection,     \* the one of _session and _stack, or None
    connections, broken,    \* how many there were; whether this one is dead
    table,          \* server, this connection: [handle -> the object it was opened for]
    content,        \* server: [Path -> sequence of blocks]
    file,           \* [Object -> fields of the GantrySFTPFile]
    mark,           \* [Object -> blocks its caller has written, and whether close raised]
    fetched,        \* the last range read: [of, path], or None
    closedUnder     \* whether close() met open files

fsVars == <<connection, connections, broken, table, content, file, mark, fetched, closedUnder>>

-------------------------------------------------------------------------------
(* The connection. *)

FsInit ==
    /\ connection = None /\ connections = 0 /\ broken = 0
    /\ table = <<>>
    /\ content = [p \in Path |-> <<p>>]
    /\ file = [o \in Object |-> [is |-> "new", handle |-> None, written |-> 0, buffer |-> <<>>,
                                 started |-> FALSE]]
    /\ mark = [o \in Object |-> [wrote |-> <<>>, raised |-> FALSE]]
    /\ fetched = None /\ closedUnder = FALSE

\* sftp, _connect: the session there is, or a new one.
Dead == connection # None /\ broken = connections
Connected ==
    \/ connection # None /\ UNCHANGED <<connection, connections>>
    \/ /\ connection = None /\ connections < MaxConnections
       /\ connection' = connections + 1 /\ connections' = connections + 1
Current == IF connection = None THEN <<>> ELSE table

\* close: the session and its handles end; the next use connects again.
CloseFilesystem ==
    /\ connection # None /\ connection' = None /\ table' = <<>>
    /\ closedUnder' = (closedUnder \/ \E o \in Object : file[o].is = "open")
    /\ UNCHANGED <<connections, broken, content, file, mark, fetched>>

\* The ssh child dies: the session stays and everything it is asked raises.
Break ==
    /\ connection # None /\ ~Dead /\ connection <= MaxBreaks
    /\ broken' = connections /\ table' = <<>>
    /\ UNCHANGED <<connection, connections, content, file, mark, fetched, closedUnder>>

FreeHandle == CHOOSE h \in 0..Cardinality(Object) : h \notin DOMAIN Current

-------------------------------------------------------------------------------
(* Requests on the current session; each answers TRUE when it is granted. *)

OpenHandle(o, flags) ==
    /\ table' = [h \in DOMAIN Current \cup {FreeHandle} |->
                    IF h = FreeHandle THEN [of |-> o, path |-> Target[o], for |-> flags]
                    ELSE Current[h]]
    /\ content' = IF flags = "write" THEN [content EXCEPT ![Target[o]] = <<>>] ELSE content
Known(h, flags) == h \in DOMAIN Current /\ Current[h].for = flags /\ ~Dead

Spliced(blocks, at, more) ==
    [i \in 1..(IF Len(blocks) > at + Len(more) THEN Len(blocks) ELSE at + Len(more)) |->
        IF i > at /\ i <= at + Len(more) THEN more[i - at]
        ELSE IF i <= Len(blocks) THEN blocks[i] ELSE "hole"]

-------------------------------------------------------------------------------
(* Files. *)

\* _open, __init__: for reading the base class asks info first; nothing is held yet.
OpenFile(o) ==
    /\ file[o].is = "new" /\ Mode[o] # "cat"
    /\ IF Mode[o] = "rb" THEN Connected /\ ~Dead ELSE UNCHANGED <<connection, connections>>
    /\ file' = [file EXCEPT ![o].is = "open"]
    /\ table' = Current
    /\ UNCHANGED <<broken, content, mark, fetched, closedUnder>>

\* cat_file: a handle of its own, released whatever the read does.
CatOpen(o) ==
    /\ file[o].is = "new" /\ Mode[o] = "cat" /\ Connected /\ ~Dead
    /\ OpenHandle(o, "read")
    /\ file' = [file EXCEPT ![o].is = "open", ![o].handle = FreeHandle]
    /\ UNCHANGED <<broken, mark, fetched, closedUnder>>

\* _read_handle, when there is none.
TakeHandle(o) ==
    /\ file[o].is = "open" /\ Mode[o] = "rb" /\ file[o].handle = None /\ Connected /\ ~Dead
    /\ OpenHandle(o, "read")
    /\ file' = [file EXCEPT ![o].handle = FreeHandle]
    /\ UNCHANGED <<broken, mark, fetched, closedUnder>>

\* _fetch_range, and the read of cat_file: through whatever session there is now.
Fetch(o) ==
    /\ file[o].is = "open" /\ Mode[o] \in {"rb", "cat"} /\ file[o].handle # None /\ Connected
    /\ fetched' = IF Known(file[o].handle, "read")
                    THEN [of |-> o, path |-> Current[file[o].handle].path] ELSE None
    /\ table' = Current
    /\ UNCHANGED <<broken, content, file, mark, closedUnder>>

\* write: the caller's next block goes to the buffer.
Write(o) ==
    /\ file[o].is = "open" /\ Mode[o] = "wb" /\ Len(mark[o].wrote) < MaxBlocks
    /\ LET block == <<o, Len(mark[o].wrote)>> IN
       /\ file' = [file EXCEPT ![o].buffer = Append(@, block)]
       /\ mark' = [mark EXCEPT ![o].wrote = Append(@, block)]
    /\ UNCHANGED <<connection, connections, broken, table, content, fetched, closedUnder>>

\* _initiate_upload, in the first flush: refused, the file is closed.
Initiate(o) ==
    /\ file[o].is = "open" /\ Mode[o] = "wb" /\ ~file[o].started /\ Connected
    /\ \/ /\ file' = [file EXCEPT ![o].is = "closed"]
          /\ mark' = [mark EXCEPT ![o].raised = TRUE]
          /\ table' = Current /\ UNCHANGED content
       \/ /\ ~Dead /\ OpenHandle(o, "write")
          /\ file' = [file EXCEPT ![o].handle = FreeHandle, ![o].written = 0,
                                  ![o].started = TRUE]
          /\ UNCHANGED mark
    /\ UNCHANGED <<broken, fetched, closedUnder>>

\* _upload_chunk: all of the buffer lands when it is granted, some of it when it is not.  The
\* offset moves, and the base class empties the buffer, only when it is granted.
Uploaded(o, granted, landed) ==
    IF ~Known(file[o].handle, "write") THEN content
    ELSE [content EXCEPT ![Current[file[o].handle].path] =
            Spliced(@, file[o].written,
                    IF granted THEN file[o].buffer ELSE SubSeq(file[o].buffer, 1, landed))]
AdvancesAnyway(o, granted) == file[o].written + Len(file[o].buffer)    \* a defect
Advances(o, granted) == file[o].written + IF granted THEN Len(file[o].buffer) ELSE 0
Flush(o) ==
    /\ file[o].is = "open" /\ file[o].started /\ file[o].buffer # <<>> /\ Connected
    /\ \E granted \in BOOLEAN, landed \in 0..1 :
        /\ granted => Known(file[o].handle, "write")
        /\ content' = Uploaded(o, granted, landed)
        /\ file' = [file EXCEPT ![o].written = Advances(o, granted),
                                ![o].buffer = IF granted THEN <<>> ELSE @]
    /\ table' = Current
    /\ UNCHANGED <<broken, mark, fetched, closedUnder>>

\* close: what is left is flushed, once; then CLOSE, its refusal ignored.  A flush that fails
\* is raised after the handle was released.  Without a handle nothing is asked.
CloseFile(o) ==
    /\ file[o].is = "open" /\ (Mode[o] = "wb" => file[o].started)
    /\ IF file[o].handle # None THEN Connected ELSE UNCHANGED <<connection, connections>>
    /\ \E granted \in BOOLEAN, landed \in 0..1 :
        /\ IF file[o].buffer # <<>> THEN granted => Known(file[o].handle, "write") ELSE granted
        /\ content' = IF file[o].buffer # <<>> THEN Uploaded(o, granted, landed) ELSE content
        /\ mark' = [mark EXCEPT ![o].raised = ~granted]
    /\ file' = [file EXCEPT ![o].is = "closed", ![o].handle = None, ![o].buffer = <<>>]
    /\ table' = [h \in DOMAIN Current \ {file[o].handle} |-> Current[h]]
    /\ UNCHANGED <<broken, fetched, closedUnder>>

FsNext ==
    \/ \E o \in Object : \/ OpenFile(o) \/ CatOpen(o) \/ TakeHandle(o) \/ Fetch(o) \/ Write(o)
                         \/ Initiate(o) \/ Flush(o) \/ CloseFile(o)
    \/ CloseFilesystem \/ Break
FsSpec == FsInit /\ [][FsNext]_fsVars

-------------------------------------------------------------------------------
(* Properties. *)

\* A file that was closed without an exception holds every block its caller wrote, in order,
\* though writes failed half way and were made again; every handle the server holds is one an
\* open object of the adapter will release; ranges come from the file they were asked of.
\* All this unless the filesystem was closed under its files.
FilesAreWhole ==
    closedUnder \/
    /\ \A o \in Object :
         Mode[o] = "wb" /\ file[o].is = "closed" /\ ~mark[o].raised =>
            content[Target[o]] = mark[o].wrote
    /\ \A h \in DOMAIN table : file[table[h].of].is = "open" /\ file[table[h].of].handle = h
    /\ fetched # None => fetched.path = Target[fetched.of]

\* What _fetch_range says: a range that is read is a range of this file.  It is not when the
\* filesystem was closed and used again in between: the handle, which names nothing on the
\* new connection, may have become that of another file.
RangesComeHome == fetched # None => fetched.path = Target[fetched.of]
===============================================================================
