-------------------------------- MODULE Journal --------------------------------
(***************************************************************************)
(* The upload journal, session/_journal.py: an append-only log of which    *)
(* staging file each target's upload was given, folded on reading.  The    *)
(* log outlives the process; what one process has folded of it does not.   *)
(*                                                                         *)
(* One record is one line.  A line that does not parse is Garbage.  The    *)
(* file may end in an unterminated line, after a crash of the machine or a *)
(* write the disk was too full to take whole: `tail' is that line, and     *)
(* whatever is appended next becomes a part of it.                         *)
(***************************************************************************)
EXTENDS Integers, Sequences, SequencesExt

CONSTANTS
    Target,    \* remote paths being published at
    Token,     \* staging files, named by a fresh random token each
    Version,   \* versions of a local file, told apart by size and mtime
    Garbage,   \* a line that is no record
    NoEntry    \* no upload in flight for a target

VARIABLES
    log,    \* the complete lines of the file
    tail,   \* the unterminated line at its end: <<>> or <<line>>
    inode,  \* which file is at the path: compaction puts another one there
    folded  \* what this process has folded: [inode, lines, entries]

journalVars == <<log, tail, inode, folded>>

Entry == [staged : Token, version : Version]
Record ==
    [event : {"staged"}, target : Target, entry : Entry]
    \cup [event : {"published"}, target : Target, entry : {NoEntry}]
Line == Record \cup {Garbage}
InFlight == [Target -> Entry \cup {NoEntry}]

ASSUME JournalAssumption == Garbage \notin Record /\ NoEntry \notin Entry

Nothing == [t \in Target |-> NoEntry]

StagedRecord(t, k, v) ==
    [event |-> "staged", target |-> t, entry |-> [staged |-> k, version |-> v]]
PublishedRecord(t) == [event |-> "published", target |-> t, entry |-> NoEntry]

-------------------------------------------------------------------------------
(* Folding *)

\* The lines that are records about a target.
About(lines, t) == {i \in DOMAIN lines : lines[i] # Garbage /\ lines[i].target = t}

\* _apply, line after line: the last record about a target wins, and a line that is no
\* record changes nothing.
Apply(entries, lines) ==
    [t \in Target |-> IF About(lines, t) = {} THEN entries[t]
                      ELSE lines[Max(About(lines, t))].entry]

\* fold(): the whole file, its unterminated line with it.
Fold(lines) == Apply(Nothing, lines)
FoldedLog == Fold(log \o tail)

\* A process that has read nothing yet.
Unfolded == [inode |-> 0, lines |-> 0, entries |-> Nothing]

\* Mutant: a fold of the file that was here before is taken for one of this.
CurrentByLength == folded.lines <= Len(log)

\* _read_tail: the fold describes a beginning of this very file.
Current == folded.inode = inode /\ folded.lines <= Len(log)

\* _fold_tail: the lines appended since, or all of them where the fold is of
\* another file.  The unterminated line is not consumed.
Refolded ==
    LET new == IF Current THEN SubSeq(log, folded.lines + 1, Len(log)) ELSE log
    IN  [inode |-> inode, lines |-> Len(log),
         entries |-> Apply(IF Current THEN folded.entries ELSE Nothing, new)]

\* _tail_says: what is in flight for a target, the unterminated line included.
Says(t) == Apply(Refolded.entries, tail)[t]

\* Mutant: the entry is for the same file, whatever it holds now.
MatchesByName(entry, version) == entry # NoEntry

\* entry_matches: the entry is for the bytes now being sent.
Matches(entry, version) == entry # NoEntry /\ entry.version = version

-------------------------------------------------------------------------------
(* Writing *)

\* append_record: one write, taken whole or in part.  Behind an unterminated line
\* it only finishes that line, and the two together are no record.
AppendLine(line, whole) ==
    LET written == IF tail = <<>> THEN line ELSE Garbage
    IN  IF whole THEN log' = Append(log, written) /\ tail' = <<>>
                 ELSE log' = log /\ tail' = <<Garbage>>

\* A line whose newline alone is missing.
AppendUnterminated(line) ==
    /\ log' = log
    /\ tail' = IF tail = <<>> THEN <<line>> ELSE <<Garbage>>

\* compact(): the entries still in flight go to a new file, one line each, which
\* takes the place of the old one.
Survivors == {t \in Target : FoldedLog[t] # NoEntry}
Compacted ==
    LET order == SetToSeq(Survivors)
    IN  [i \in DOMAIN order |->
            StagedRecord(order[i], FoldedLog[order[i]].staged, FoldedLog[order[i]].version)]

Compact ==
    /\ log' = Compacted
    /\ tail' = <<>>
    /\ inode' = inode + 1
    /\ UNCHANGED folded

-------------------------------------------------------------------------------
JournalInit == log = <<>> /\ tail = <<>> /\ inode = 1 /\ folded = Unfolded

JournalTypeOK ==
    /\ log \in Seq(Line) /\ tail \in Seq(Line) /\ Len(tail) <= 1
    /\ inode \in Nat
    /\ folded.inode \in Nat /\ folded.lines \in Nat /\ folded.entries \in InFlight

\* Whatever was appended, torn or compacted since the last lookup, the next one
\* answers what a reading of the whole file would (staged_for, _fold_tail).
LookupIsFresh == \A t \in Target : Says(t) = FoldedLog[t]
===============================================================================
