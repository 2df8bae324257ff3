----------------------------- MODULE PublishProofs -----------------------------
(* Proofs about Publish and the Journal it keeps, for any number of targets, calls, versions
   and crashes. *)
EXTENDS Publish, FiniteSetTheorems, SequenceTheorems, WellFoundedInduction, TLAPS

-------------------------------------------------------------------------------
(* The folding of a journal, for every file *)

\* A set of naturals with a bound has a greatest element, and `Max' is it.
LEMMA MaxOf ==
    ASSUME NEW n \in Nat, NEW S \in SUBSET (1 .. n), S # {}
    PROVE  Max(S) \in S /\ \A i \in S : i <= Max(S)
<1> DEFINE Over == {k \in Nat : \A i \in S : i <= k}
<1>1. n \in Over OBVIOUS
<1>2. PICK m \in Over : \A k \in Over : ~(<<k, m>> \in OpToRel(<, Nat))
  BY <1>1, NatLessThanWellFounded, WFMin
<1>3. \A k \in Over : ~(k < m)
  BY <1>2 DEF OpToRel
<1> HIDE DEF Over
<1>4. m \in S
  <2> SUFFICES ASSUME m \notin S PROVE FALSE OBVIOUS
  <2>1. m \in Nat /\ \A i \in S : i < m /\ i \in Nat /\ i >= 1 BY DEF Over
  <2>2. PICK i \in S : TRUE OBVIOUS
  <2>3. m > 0 BY <2>1, <2>2
  <2>4. m - 1 \in Over BY <2>1, <2>3 DEF Over
  <2> QED BY <1>3, <2>1, <2>4
<1>5. \A i \in S : m >= i BY DEF Over
<1>6. \E x \in S : \A y \in S : x >= y BY <1>4, <1>5
<1>7. Max(S) \in S /\ \A y \in S : Max(S) >= y BY <1>6 DEF Max
<1> QED BY <1>7

\* What a part of a file says of a target: what was said before, or what its last line about it does.
LEMMA Applied ==
    ASSUME NEW entries, NEW lines \in Seq(Line), NEW t \in Target
    PROVE  /\ About(lines, t) = {} => Apply(entries, lines)[t] = entries[t]
           /\ \A i \in About(lines, t) :
                 (\A j \in About(lines, t) : j <= i) => Apply(entries, lines)[t] = lines[i].entry
           /\ About(lines, t) # {} =>
                 \E i \in About(lines, t) :
                    (\A j \in About(lines, t) : j <= i) /\ Apply(entries, lines)[t] = lines[i].entry
<1>1. About(lines, t) \in SUBSET (1 .. Len(lines)) /\ Len(lines) \in Nat BY DEF About
<1>2. About(lines, t) # {} =>
         /\ Max(About(lines, t)) \in About(lines, t)
         /\ \A j \in About(lines, t) : j <= Max(About(lines, t))
  BY <1>1, MaxOf
<1>3. Apply(entries, lines)[t] = IF About(lines, t) = {} THEN entries[t]
                                 ELSE lines[Max(About(lines, t))].entry
  BY DEF Apply
<1>4. ASSUME NEW i \in About(lines, t), \A j \in About(lines, t) : j <= i
      PROVE  i = Max(About(lines, t))
  BY <1>1, <1>2, <1>4
<1> QED BY <1>2, <1>3, <1>4

LEMMA LineType ==
    ASSUME NEW line \in Line, line # Garbage
    PROVE  /\ line.target \in Target /\ line.entry \in Entry \cup {NoEntry}
           /\ line.entry # NoEntry =>
                 line = StagedRecord(line.target, line.entry.staged, line.entry.version)
BY JournalAssumption DEF Line, Record, Entry, StagedRecord

\* What a process knows of a target is an entry or that there is none.
LEMMA ApplyType ==
    ASSUME NEW entries \in InFlight, NEW lines \in Seq(Line)
    PROVE  Apply(entries, lines) \in InFlight
<1> SUFFICES ASSUME NEW t \in Target PROVE Apply(entries, lines)[t] \in Entry \cup {NoEntry}
  BY DEF Apply, InFlight
<1>1. CASE About(lines, t) = {} BY <1>1, Applied DEF InFlight
<1>2. CASE About(lines, t) # {}
  <2>1. PICK i \in About(lines, t) : Apply(entries, lines)[t] = lines[i].entry BY <1>2, Applied
  <2>2. lines[i] \in Line /\ lines[i] # Garbage BY DEF About
  <2> QED BY <2>1, <2>2, LineType
<1> QED BY <1>1, <1>2

\* One more line has its say about its own target only.
LEMMA ApplyAppend ==
    ASSUME NEW entries, NEW lines \in Seq(Line), NEW line \in Line, NEW t \in Target
    PROVE  Apply(entries, Append(lines, line))[t] =
             IF line # Garbage /\ line.target = t THEN line.entry ELSE Apply(entries, lines)[t]
<1> DEFINE more == Append(lines, line)
           n == Len(lines) + 1
<1>1. /\ more \in Seq(Line) /\ DOMAIN more = 1 .. n /\ DOMAIN lines = 1 .. Len(lines)
      /\ more[n] = line /\ n \in Nat /\ Len(lines) \in Nat
      /\ \A i \in DOMAIN lines : more[i] = lines[i] /\ i < n /\ i \in DOMAIN more
      /\ \A i \in DOMAIN more : i = n \/ i \in DOMAIN lines
  OBVIOUS
<1> HIDE DEF more, n
<1>2. ASSUME line # Garbage /\ line.target = t PROVE Apply(entries, more)[t] = line.entry
  <2>1. n \in About(more, t) BY <1>1, <1>2 DEF About, n
  <2>2. \A j \in About(more, t) : j <= n BY <1>1 DEF About
  <2> QED BY <1>1, <2>1, <2>2, Applied
<1>3. ASSUME ~(line # Garbage /\ line.target = t)
      PROVE  Apply(entries, more)[t] = Apply(entries, lines)[t]
  <2>1. About(more, t) = About(lines, t) BY <1>1, <1>3 DEF About
  <2>2. CASE About(lines, t) = {} BY <1>1, <2>1, <2>2, Applied
  <2>3. CASE About(lines, t) # {}
    <3>1. PICK i \in About(lines, t) :
             (\A j \in About(lines, t) : j <= i) /\ Apply(entries, lines)[t] = lines[i].entry
      BY <2>3, Applied
    <3>2. more[i] = lines[i] BY <1>1 DEF About
    <3>3. Apply(entries, more)[t] = more[i].entry BY <1>1, <2>1, <3>1, Applied
    <3> QED BY <3>1, <3>2, <3>3
  <2> QED BY <2>2, <2>3
<1> QED BY <1>2, <1>3 DEF more

\* To fold a file in two parts is to fold it whole.
LEMMA ApplyConcat ==
    ASSUME NEW entries, NEW first \in Seq(Line), NEW rest \in Seq(Line)
    PROVE  Apply(Apply(entries, first), rest) = Apply(entries, first \o rest)
<1> DEFINE whole == first \o rest
           n == Len(first)
<1>1. /\ whole \in Seq(Line) /\ n \in Nat /\ Len(rest) \in Nat
      /\ DOMAIN whole = 1 .. n + Len(rest) /\ DOMAIN first = 1 .. n /\ DOMAIN rest = 1 .. Len(rest)
      /\ \A i \in DOMAIN first : whole[i] = first[i]
      /\ \A i \in DOMAIN rest : whole[n + i] = rest[i]
  OBVIOUS
<1> HIDE DEF whole, n
<1>2. ASSUME NEW t \in Target
      PROVE  Apply(Apply(entries, first), rest)[t] = Apply(entries, whole)[t]
  <2>1. \A i \in About(rest, t) : n + i \in About(whole, t) BY <1>1 DEF About
  <2>2. \A i \in About(first, t) : i \in About(whole, t) BY <1>1 DEF About
  <2>3. \A i \in About(whole, t) :
           i \in About(first, t) \/ (i > n /\ i - n \in About(rest, t))
    <3> SUFFICES ASSUME NEW i \in About(whole, t), i \notin About(first, t)
                 PROVE  i > n /\ i - n \in About(rest, t)
      OBVIOUS
    <3>1. i \in 1 .. n + Len(rest) /\ whole[i] # Garbage /\ whole[i].target = t
      BY <1>1 DEF About
    <3>2. i \notin DOMAIN first BY <1>1, <3>1 DEF About
    <3>3. i > n /\ i - n \in DOMAIN rest /\ n + (i - n) = i BY <1>1, <3>1, <3>2
    <3>4. whole[i] = rest[i - n] BY <1>1, <3>3
    <3> QED BY <3>1, <3>3, <3>4 DEF About
  <2>4. CASE About(rest, t) # {}
    <3>1. PICK i \in About(rest, t) :
             /\ \A j \in About(rest, t) : j <= i
             /\ Apply(Apply(entries, first), rest)[t] = rest[i].entry
      BY <2>4, Applied
    <3>2. n + i \in About(whole, t) /\ i \in DOMAIN rest /\ whole[n + i] = rest[i]
      BY <1>1, <2>1 DEF About
    <3>3. ASSUME NEW j \in About(whole, t) PROVE j <= n + i
      <4>1. CASE j \in About(first, t) BY <1>1, <3>2, <4>1 DEF About
      <4>2. CASE j > n /\ j - n \in About(rest, t)
        <5>1. j - n <= i /\ j \in Nat BY <1>1, <3>1, <4>2 DEF About
        <5> QED BY <1>1, <3>2, <5>1
      <4> QED BY <2>3, <4>1, <4>2
    <3> QED BY SMTT(30), <1>1, <3>1, <3>2, <3>3, Applied
  <2>5. CASE About(rest, t) = {}
    <3>1. Apply(Apply(entries, first), rest)[t] = Apply(entries, first)[t] BY <2>5, Applied
    <3>2. About(whole, t) = About(first, t) BY <2>2, <2>3, <2>5
    <3>3. CASE About(first, t) = {} BY <1>1, <3>1, <3>2, <3>3, Applied
    <3>4. CASE About(first, t) # {}
      <4>1. PICK i \in About(first, t) :
               (\A j \in About(first, t) : j <= i) /\ Apply(entries, first)[t] = first[i].entry
        BY <3>4, Applied
      <4>2. whole[i] = first[i] BY <1>1 DEF About
      <4>3. Apply(entries, whole)[t] = whole[i].entry BY <1>1, <3>2, <4>1, Applied
      <4> QED BY <3>1, <4>1, <4>2, <4>3
    <3> QED BY <3>3, <3>4
  <2> QED BY <2>4, <2>5
<1>3. Apply(Apply(entries, first), rest) = Apply(entries, whole) BY <1>2 DEF Apply
<1> QED BY <1>3 DEF whole

-------------------------------------------------------------------------------
(* Compaction. *)

\* A finite set in some order: every element once.
LEMMA InSomeOrder ==
    ASSUME NEW S, IsFiniteSet(S)
    PROVE  /\ SetToSeq(S) \in Seq(S) /\ Len(SetToSeq(S)) = Cardinality(S)
           /\ \A i, j \in DOMAIN SetToSeq(S) : SetToSeq(S)[i] = SetToSeq(S)[j] => i = j
           /\ \A x \in S : \E i \in DOMAIN SetToSeq(S) : SetToSeq(S)[i] = x
<1> DEFINE n == Cardinality(S)
           order == SetToSeq(S)
<1>1. n \in Nat /\ ExistsBijection(1 .. n, S) BY FS_CardinalityType
<1>2. \E f \in [1 .. n -> S] : IsInjective(f)
  BY <1>1 DEF ExistsBijection, Bijection, Injection
<1>3. order \in [1 .. n -> S] /\ IsInjective(order) BY <1>2 DEF SetToSeq
<1> HIDE DEF n, order
<1>4. order \in Injection(1 .. n, S) BY <1>3 DEF Injection
<1>5. IsFiniteSet(1 .. n) /\ Cardinality(1 .. n) = n
  <2>1. 1 \in Int /\ n \in Int BY <1>1
  <2>2. IsFiniteSet(1 .. n) /\ Cardinality(1 .. n) = IF 1 > n THEN 0 ELSE n - 1 + 1
    BY <2>1, FS_Interval
  <2> QED BY <1>1, <2>2
<1>6. order \in Surjection(1 .. n, S) BY <1>4, <1>5, FS_Injection DEF n
<1>7. \A x \in S : \E i \in 1 .. n : order[i] = x BY <1>6 DEF Surjection
<1>8. order \in Seq(S) /\ Len(order) = n BY <1>1, <1>3
<1> QED BY <1>3, <1>7, <1>8 DEF order, n, IsInjective

\* The targets with an upload in flight are as few as the lines of the file.
LEMMA SurvivorsFinite ==
    ASSUME log \o tail \in Seq(Line)
    PROVE  IsFiniteSet(Survivors)
<1> DEFINE lines == log \o tail
           Records == {i \in DOMAIN lines : lines[i] # Garbage}
           Named == [i \in Records |-> lines[i].target]
<1>1. IsFiniteSet(Records)
  <2>1. Len(lines) \in Nat /\ DOMAIN lines = 1 .. Len(lines) OBVIOUS
  <2>2. 1 \in Int /\ Len(lines) \in Int BY <2>1
  <2>3. IsFiniteSet(1 .. Len(lines)) BY <2>2, FS_Interval
  <2>4. Records \in SUBSET (1 .. Len(lines)) BY <2>1
  <2> QED BY <2>3, <2>4, FS_Subset
<1>2. Survivors \subseteq {Named[i] : i \in Records}
  <2> SUFFICES ASSUME NEW t \in Survivors PROVE \E i \in Records : Named[i] = t OBVIOUS
  <2>1. t \in Target /\ Apply(Nothing, lines)[t] # NoEntry BY DEF Survivors, FoldedLog, Fold
  <2>2. Nothing[t] = NoEntry BY <2>1 DEF Nothing
  <2>3. PICK i \in About(lines, t) : TRUE BY <2>1, <2>2, Applied
  <2> QED BY <2>3 DEF About
<1>3. IsFiniteSet({Named[i] : i \in Records})
  <2> DEFINE Image == {Named[i] : i \in Records}
  <2>1. Named \in Surjection(Records, Image) BY DEF Surjection
  <2> HIDE DEF Image, Records, Named
  <2>2. IsFiniteSet(Image) BY <1>1, <2>1, FS_Surjection
  <2> QED BY <2>2 DEF Image
<1> QED BY <1>2, <1>3, FS_Subset

\* The new file has a record of each upload in flight and nothing else, and says what the old
\* one and its unterminated line said.
LEMMA CompactedFile ==
    ASSUME log \in Seq(Line), tail \in Seq(Line)
    PROVE  /\ Compacted \in Seq(Line)
           /\ \A i \in DOMAIN Compacted : \E t \in Survivors :
                 Compacted[i] = StagedRecord(t, FoldedLog[t].staged, FoldedLog[t].version)
           /\ Fold(Compacted) = FoldedLog
<1> DEFINE order == SetToSeq(Survivors)
<1>1. log \o tail \in Seq(Line) OBVIOUS
<1>2. FoldedLog \in InFlight
  <2>1. Nothing \in InFlight BY DEF Nothing, InFlight
  <2> QED BY <1>1, <2>1, ApplyType DEF FoldedLog, Fold
<1>3. /\ order \in Seq(Survivors)
      /\ \A i, j \in DOMAIN order : order[i] = order[j] => i = j
      /\ \A t \in Survivors : \E i \in DOMAIN order : order[i] = t
  BY <1>1, SurvivorsFinite, InSomeOrder
<1>4. \A t \in Survivors : /\ t \in Target /\ FoldedLog[t] \in Entry
                           /\ FoldedLog[t] = [staged |-> FoldedLog[t].staged,
                                              version |-> FoldedLog[t].version]
  BY <1>2 DEF Survivors, InFlight, Entry
<1> HIDE DEF order
<1>5. /\ DOMAIN Compacted = DOMAIN order
      /\ \A i \in DOMAIN order :
            /\ Compacted[i] = StagedRecord(order[i], FoldedLog[order[i]].staged,
                                           FoldedLog[order[i]].version)
            /\ order[i] \in Survivors
  BY <1>3 DEF Compacted, order
<1>6. \A t \in Survivors :
         LET line == StagedRecord(t, FoldedLog[t].staged, FoldedLog[t].version)
         IN  line \in Line /\ line # Garbage /\ line.target = t /\ line.entry = FoldedLog[t]
  <2> SUFFICES ASSUME NEW t \in Survivors,
                      NEW line, line = StagedRecord(t, FoldedLog[t].staged, FoldedLog[t].version)
               PROVE  line \in Line /\ line # Garbage /\ line.target = t
                      /\ line.entry = FoldedLog[t]
    OBVIOUS
  <2>1. line = [event |-> "staged", target |-> t, entry |-> FoldedLog[t]]
    BY <1>4 DEF StagedRecord
  <2>2. line \in Record
    <3>1. PICK e \in Entry : FoldedLog[t] = e BY <1>4
    <3>2. line = [event |-> "staged", target |-> t, entry |-> e] BY <2>1, <3>1
    <3>3. t \in Target BY <1>4
    <3> QED BY <3>2, <3>3 DEF Record
  <2> QED BY <2>1, <2>2, JournalAssumption DEF Line
<1>7. Compacted \in Seq(Line)
  <2>1. DOMAIN Compacted = 1 .. Len(order) /\ Len(order) \in Nat BY <1>3, <1>5
  <2>2. \A i \in 1 .. Len(order) : Compacted[i] \in Line BY <1>5, <1>6, <2>1
  <2>3. Compacted = [i \in 1 .. Len(order) |-> Compacted[i]] BY <2>1 DEF Compacted
  <2> QED BY <2>1, <2>2, <2>3
<1>8. ASSUME NEW t \in Target PROVE Fold(Compacted)[t] = FoldedLog[t]
  <2>1. \A i \in About(Compacted, t) :
           i \in DOMAIN order /\ order[i] = t /\ t \in Survivors /\ Compacted[i].entry = FoldedLog[t]
    BY <1>5, <1>6 DEF About
  <2>2. CASE t \in Survivors
    <3>1. PICK i \in DOMAIN order : order[i] = t BY <1>3, <2>2
    <3>2. i \in About(Compacted, t) BY <1>5, <1>6, <3>1 DEF About
    <3>3. PICK j \in About(Compacted, t) : Apply(Nothing, Compacted)[t] = Compacted[j].entry
      BY <1>7, <3>2, Applied
    <3> QED BY <2>1, <3>3 DEF Fold
  <2>3. CASE t \notin Survivors
    <3>1. About(Compacted, t) = {} BY <2>1, <2>3
    <3>2. Apply(Nothing, Compacted)[t] = Nothing[t] BY <1>7, <3>1, Applied
    <3>3. FoldedLog[t] = NoEntry BY <2>3 DEF Survivors
    <3> QED BY <3>2, <3>3 DEF Fold, Nothing
  <2> QED BY <2>2, <2>3
<1>9. Fold(Compacted) = FoldedLog
  BY <1>8 DEF Fold, FoldedLog, Apply
<1> QED BY <1>5, <1>7, <1>9

-------------------------------------------------------------------------------
(* What a process has folded, and what it looks up. *)

\* A fold of this very file is a fold of its beginning.
FoldedTrue ==
    /\ inode > 0 /\ folded.inode <= inode
    /\ folded.inode = inode =>
          /\ folded.lines <= Len(log)
          /\ \A lines : lines = SubSeq(log, 1, folded.lines) => folded.entries = Fold(lines)

\* There is a line in the file that names this staging file.
OnFile(t, k, v) ==
    \/ \E i \in DOMAIN log : log[i] = StagedRecord(t, k, v)
    \/ \E i \in DOMAIN tail : tail[i] = StagedRecord(t, k, v)

LEMMA RecordType ==
    ASSUME NEW t \in Target, NEW k \in Token, NEW v \in Version
    PROVE  StagedRecord(t, k, v) \in Record /\ StagedRecord(t, k, v) # Garbage
BY JournalAssumption DEF StagedRecord, Record, Entry

LEMMA PublishedType ==
    ASSUME NEW t \in Target
    PROVE  /\ PublishedRecord(t) \in Record
           /\ \A u \in Target, k \in Token, v \in Version : PublishedRecord(t) # StagedRecord(u, k, v)
BY DEF StagedRecord, PublishedRecord, Record

LEMMA NothingType == Nothing \in InFlight
BY DEF Nothing, InFlight

LEMMA RefoldedWhole ==
    ASSUME JournalTypeOK, FoldedTrue
    PROVE  /\ Refolded.entries = Fold(log) /\ Refolded.inode = inode /\ Refolded.lines = Len(log)
           /\ Fold(log) \in InFlight
<1> DEFINE n == folded.lines
<1>1. log \in Seq(Line) /\ n \in Nat /\ Len(log) \in Nat BY DEF JournalTypeOK
<1>2. Fold(log) \in InFlight BY <1>1, NothingType, ApplyType DEF Fold
<1>3. CASE Current
  <2>1. n <= Len(log) /\ folded.entries = Fold(SubSeq(log, 1, n))
    BY <1>3 DEF Current, FoldedTrue
  <2> HIDE DEF n
  <2>2. SubSeq(log, 1, n) \in Seq(Line) /\ SubSeq(log, n + 1, Len(log)) \in Seq(Line)
    BY <1>1, <2>1
  <2>3. SubSeq(log, 1, n) \o SubSeq(log, n + 1, Len(log)) = log
    <3> DEFINE a == SubSeq(log, 1, n)
               b == SubSeq(log, n + 1, Len(log))
    <3>1. /\ Len(a) = n /\ Len(b) = Len(log) - n
          /\ \A i \in 1 .. n : a[i] = log[i]
          /\ \A i \in 1 .. Len(log) - n : b[i] = log[n + i]
      BY <1>1, <2>1
    <3>2. a \in Seq(Line) /\ b \in Seq(Line) BY <2>2
    <3> HIDE DEF a, b
    <3>3. a \o b \in Seq(Line) /\ Len(a \o b) = Len(log)
      <4>1. a \o b \in Seq(Line) /\ Len(a \o b) = Len(a) + Len(b) BY <3>2, ConcatProperties
      <4> QED BY <1>1, <2>1, <3>1, <4>1
    <3>4. \A i \in 1 .. Len(log) : (a \o b)[i] = log[i]
      <4> SUFFICES ASSUME NEW i \in 1 .. Len(log) PROVE (a \o b)[i] = log[i] OBVIOUS
      <4>1. CASE i <= n BY <1>1, <2>1, <3>1, <3>2, <4>1
      <4>2. CASE i > n
        <5>1. i - n \in 1 .. Len(log) - n /\ n + (i - n) = i BY <1>1, <2>1, <4>2
        <5>2. (a \o b)[i] = b[i - n] BY <1>1, <2>1, <3>1, <3>2, <4>2
        <5> QED BY <3>1, <5>1, <5>2
      <4>3. i <= n \/ i > n BY <1>1
      <4> QED BY <4>1, <4>2, <4>3
    <3>5. a \o b = log BY <1>1, <3>3, <3>4, SeqEqual
    <3> QED BY <3>5 DEF a, b
  <2>4. Apply(folded.entries, SubSeq(log, n + 1, Len(log))) = Fold(log)
    BY ZenonT(30), <2>1, <2>2, <2>3, ApplyConcat DEF Fold
  <2> QED BY <1>2, <1>3, <2>4 DEF Refolded, n
<1>4. CASE ~Current
  BY <1>2, <1>4 DEF Refolded, Fold
<1> QED BY <1>3, <1>4

\* Whatever was appended, torn or compacted since the last lookup, the next one answers what a
\* reading of the whole file would (staged_for, _fold_tail).
LEMMA LookupFresh ==
    ASSUME JournalTypeOK, FoldedTrue
    PROVE  LookupIsFresh
<1>1. Refolded.entries = Fold(log) BY RefoldedWhole
<1>2. Apply(Fold(log), tail) = FoldedLog
  BY ApplyConcat DEF JournalTypeOK, Fold, FoldedLog
<1> QED BY <1>1, <1>2 DEF LookupIsFresh, Says

\* An answer is in the file.
LEMMA SaysOnFile ==
    ASSUME JournalTypeOK, FoldedTrue, NEW t \in Target, Says(t) # NoEntry
    PROVE  Says(t) \in Entry /\ OnFile(t, Says(t).staged, Says(t).version)
<1> DEFINE lines == log \o tail
<1>1. log \in Seq(Line) /\ tail \in Seq(Line) /\ lines \in Seq(Line) BY DEF JournalTypeOK
<1>2. Says(t) = Apply(Nothing, lines)[t] BY LookupFresh DEF LookupIsFresh, FoldedLog, Fold
<1>3. Nothing[t] = NoEntry BY DEF Nothing
<1>4. PICK i \in About(lines, t) : Says(t) = lines[i].entry
  <2> HIDE DEF lines
  <2> QED BY <1>1, <1>2, <1>3, Applied
<1>5. /\ i \in DOMAIN lines /\ lines[i] # Garbage /\ lines[i].target = t
  BY <1>4 DEF About
<1>6. /\ Says(t) \in Entry
      /\ lines[i] = StagedRecord(t, Says(t).staged, Says(t).version)
  <2>1. lines[i] \in Line BY <1>1, <1>5
  <2> HIDE DEF lines
  <2> QED BY <1>4, <1>5, <2>1, LineType
<1>7. \/ i \in DOMAIN log /\ log[i] = lines[i]
      \/ i - Len(log) \in DOMAIN tail /\ tail[i - Len(log)] = lines[i]
  BY <1>1, <1>5
<1> QED BY <1>6, <1>7 DEF OnFile

-------------------------------------------------------------------------------
(* The steps a journal takes. *)

LEMMA RefoldStep ==
    ASSUME JournalTypeOK, FoldedTrue, folded' = Refolded, UNCHANGED <<log, tail, inode>>
    PROVE  JournalTypeOK' /\ FoldedTrue'
<1>1. /\ Refolded.entries = Fold(log) /\ Refolded.inode = inode /\ Refolded.lines = Len(log)
      /\ Fold(log) \in InFlight
  BY RefoldedWhole
<1>2. log \in Seq(Line) BY DEF JournalTypeOK
<1>3. SubSeq(log, 1, Len(log)) = log BY <1>2
<1>4. JournalTypeOK' BY <1>1, <1>2 DEF JournalTypeOK
<1>5. FoldedTrue' BY <1>1, <1>2, <1>3 DEF FoldedTrue, JournalTypeOK
<1> QED BY <1>4, <1>5

\* A new process starts with nothing folded.
LEMMA ForgetStep ==
    ASSUME JournalTypeOK, FoldedTrue, folded' = Unfolded, UNCHANGED <<log, tail, inode>>
    PROVE  JournalTypeOK' /\ FoldedTrue'
BY NothingType DEF JournalTypeOK, FoldedTrue, Unfolded

LEMMA CompactStep ==
    ASSUME JournalTypeOK, FoldedTrue, Compact
    PROVE  /\ JournalTypeOK' /\ FoldedTrue' /\ FoldedLog' = FoldedLog
           /\ \A t, k, v : OnFile(t, k, v)' => \E u \in Survivors :
                 t = u /\ k = FoldedLog[u].staged /\ v = FoldedLog[u].version
<1>1. /\ log' = Compacted /\ tail' = <<>> /\ inode' = inode + 1 /\ folded' = folded
      /\ inode \in Nat /\ folded.inode \in Nat
  BY DEF Compact, JournalTypeOK
<1>2. /\ Compacted \in Seq(Line)
      /\ \A i \in DOMAIN Compacted : \E t \in Survivors :
            Compacted[i] = StagedRecord(t, FoldedLog[t].staged, FoldedLog[t].version)
      /\ Fold(Compacted) = FoldedLog
  BY CompactedFile DEF JournalTypeOK
<1>3. JournalTypeOK'
  <2>1. <<>> \in Seq(Line) /\ Len(<<>>) = 0 OBVIOUS
  <2>2. log' \in Seq(Line) BY <1>1, <1>2
  <2>3. tail' \in Seq(Line) /\ Len(tail') <= 1 BY <1>1, <2>1
  <2> QED BY <1>1, <2>2, <2>3 DEF JournalTypeOK
<1>4. FoldedTrue' BY <1>1 DEF FoldedTrue
<1>5. FoldedLog' = FoldedLog
  <2>1. log' \o tail' = Compacted BY <1>1, <1>2
  <2>2. FoldedLog' = Fold(log' \o tail') BY DEF FoldedLog, Fold, Apply, About
  <2> QED BY <1>2, <2>1, <2>2
<1>6. ASSUME NEW t, NEW k, NEW v, OnFile(t, k, v)'
      PROVE  \E u \in Survivors :
                 t = u /\ k = FoldedLog[u].staged /\ v = FoldedLog[u].version
  <2>1. DOMAIN tail' = {} BY <1>1
  <2>2. PICK i \in DOMAIN Compacted : Compacted[i] = StagedRecord(t, k, v)
    BY <1>1, <1>6, <2>1 DEF OnFile, StagedRecord
  <2>3. PICK u \in Survivors :
           Compacted[i] = StagedRecord(u, FoldedLog[u].staged, FoldedLog[u].version)
    BY <1>2
  <2> QED BY <2>2, <2>3 DEF StagedRecord
<1> QED BY <1>3, <1>4, <1>5, <1>6

LEMMA AppendStep ==
    ASSUME JournalTypeOK, FoldedTrue, NEW line \in Record, UNCHANGED <<inode, folded>>,
           AppendLine(line, TRUE) \/ AppendLine(line, FALSE) \/ AppendUnterminated(line)
    PROVE  /\ JournalTypeOK' /\ FoldedTrue'
           /\ \A t \in Target, k \in Token, v \in Version :
                 OnFile(t, k, v)' => OnFile(t, k, v) \/ line = StagedRecord(t, k, v)
<1>1. /\ log \in Seq(Line) /\ line \in Line /\ Garbage \in Line /\ Len(log) \in Nat
      /\ folded.lines \in Nat
  BY DEF JournalTypeOK, Line
<1>2. CASE AppendLine(line, TRUE)
  <2> DEFINE written == IF tail = <<>> THEN line ELSE Garbage
  <2>1. log' = Append(log, written) /\ tail' = <<>> /\ written \in Line
    BY <1>1, <1>2 DEF AppendLine
  <2>2. written = line \/ written = Garbage OBVIOUS
  <2> HIDE DEF written
  <2>3. /\ log' \in Seq(Line) /\ Len(log') = Len(log) + 1
        /\ \A i \in DOMAIN log : log'[i] = log[i]
        /\ \A i \in DOMAIN log' : i \in DOMAIN log \/ log'[i] = written
    BY <1>1, <2>1
  <2>4. <<>> \in Seq(Line) /\ Len(<<>>) = 0 /\ DOMAIN <<>> = {} OBVIOUS
  <2>5. JournalTypeOK' BY <2>1, <2>3, <2>4 DEF JournalTypeOK
  <2>6. folded.lines <= Len(log) => SubSeq(log', 1, folded.lines) = SubSeq(log, 1, folded.lines)
    BY <1>1, <2>1
  <2>7. FoldedTrue'
    <3>1. folded.inode = inode => folded.lines <= Len(log') BY <1>1, <2>3 DEF FoldedTrue
    <3> QED BY <1>1, <2>6, <3>1 DEF FoldedTrue
  <2>8. ASSUME NEW t \in Target, NEW k \in Token, NEW v \in Version, OnFile(t, k, v)'
        PROVE  OnFile(t, k, v) \/ line = StagedRecord(t, k, v)
    <3>1. PICK i \in DOMAIN log' : log'[i] = StagedRecord(t, k, v)
      BY <2>1, <2>4, <2>8 DEF OnFile, StagedRecord
    <3>2. CASE i \in DOMAIN log BY <2>3, <3>1, <3>2 DEF OnFile
    <3>3. CASE log'[i] = written /\ written = Garbage BY <3>1, <3>3, RecordType
    <3>4. CASE log'[i] = written /\ written = line BY <3>1, <3>4
    <3> QED BY <2>2, <2>3, <3>2, <3>3, <3>4
  <2> QED BY <2>5, <2>7, <2>8
<1>3. ASSUME log' = log, NEW last \in Line, tail' = <<last>>, last = line \/ last = Garbage
      PROVE  /\ JournalTypeOK' /\ FoldedTrue'
             /\ \A t \in Target, k \in Token, v \in Version :
                   OnFile(t, k, v)' => OnFile(t, k, v) \/ line = StagedRecord(t, k, v)
  <2>1. tail' \in Seq(Line) /\ Len(tail') = 1 BY <1>3
  <2>2. JournalTypeOK' BY <1>3, <2>1 DEF JournalTypeOK
  <2>3. FoldedTrue' BY <1>3 DEF FoldedTrue
  <2>4. \A i \in DOMAIN tail' : tail'[i] = last BY <1>3
  <2>5. ASSUME NEW t \in Target, NEW k \in Token, NEW v \in Version, OnFile(t, k, v)'
        PROVE  OnFile(t, k, v) \/ line = StagedRecord(t, k, v)
    <3>1. OnFile(t, k, v) \/ last = StagedRecord(t, k, v)
      BY <1>3, <2>4, <2>5 DEF OnFile, StagedRecord
    <3> QED BY <1>3, <3>1, RecordType
  <2> QED BY <2>2, <2>3, <2>5
<1>4. CASE AppendLine(line, FALSE) BY <1>1, <1>3, <1>4 DEF AppendLine
<1>5. CASE AppendUnterminated(line)
  <2>1. CASE tail = <<>> BY <1>1, <1>3, <1>5, <2>1 DEF AppendUnterminated
  <2>2. CASE tail # <<>> BY <1>1, <1>3, <1>5, <2>2 DEF AppendUnterminated
  <2> QED BY <2>1, <2>2
<1> QED BY <1>2, <1>4, <1>5

-------------------------------------------------------------------------------
(* The calls *)


\* Calls that run at once have their own targets and their own tokens, and a sweep runs alone.
CallsApart ==
    /\ \A p \in Publisher : Busy(p) => put[p].token \in Token /\ put[p].token <= used
    /\ \A p, q \in Publisher : p # q /\ Busy(p) /\ Busy(q) =>
          T(p) # T(q) /\ put[p].token # put[q].token
    /\ sweep # "idle" => \A p \in Publisher : ~Busy(p)
    /\ sweep = "clearing" => todo # <<>>

\* A token on file was drawn, for one version of one target.
TokensTell ==
    /\ \A t \in Target, k \in Token, v \in Version : OnFile(t, k, v) => k <= used
    /\ \A t, u \in Target, k \in Token, v, w \in Version :
          OnFile(t, k, v) /\ OnFile(u, k, w) => t = u /\ v = w
    /\ \A p \in Publisher, t \in Target, v \in Version :
          Busy(p) /\ OnFile(t, put[p].token, v) => t = T(p) /\ v = put[p].version

\* Of one version of the target at most.
Holds(file, t, v) == file # Absent => file.target = t /\ file.from \subseteq {v}

\* A staging file is of the version and the target its token was drawn for.
FilesBelong ==
    /\ \A k \in Token : k > used => staged[k] = Absent
    /\ \A k \in Token : staged[k] # Absent => \E v \in Version : staged[k].from \subseteq {v}
    /\ \A t \in Target, k \in Token, v \in Version : OnFile(t, k, v) => Holds(staged[k], t, v)

\* What a call has made of its staging file, by where the call is.
Filling(here, call, file) ==
    /\ Holds(file, call.target, call.version)
    /\ here = "filling" => file # Absent /\ (call.hole => file.unchecked)
    /\ here \in {"checking", "publishing", "renaming", "probing", "removing", "replacing"} =>
          /\ file # Absent /\ file.full /\ file.from = {call.version}
          /\ file.holed => file.unchecked

\* What it has made of its destination.
Replacing(here, call, file, place) ==
    /\ here \in {"removing", "replacing"} => ~call.strict
    /\ here = "removing" => place # Absent
    /\ call.unlinks => here \in {"replacing", "published", "discarding", "clearing"}
    /\ call.unlinks /\ here \in {"discarding", "clearing"} => place # Absent
    /\ here = "published" => /\ place # Absent /\ place.from = {call.version}
                             /\ file = Absent

CallsStand ==
    \A p \in Publisher : Busy(p) =>
        /\ Filling(pc[p], put[p], File(p))
        /\ Replacing(pc[p], put[p], File(p), dest[T(p)])

\* What stands at a destination was published whole, or was there before.
Standing(file) ==
    /\ file.full /\ (file.holed => file.unchecked)
    /\ \E v \in Version \cup {0} : file.from = {v}
DestinationsStand == \A t \in Target : dest[t] # Absent => Standing(dest[t])

\* As long as no append was torn, the file ends in a whole line.
OnRecord == (torn = 0 => tail = <<>>) /\ StagingIsOnRecord

IndInv ==
    /\ TypeOK
    /\ FoldedTrue
    /\ CallsApart
    /\ TokensTell
    /\ FilesBelong
    /\ CallsStand
    /\ DestinationsStand
    /\ OnRecord

-------------------------------------------------------------------------------
(* What one step of a publisher does *)

Where == {"idle", "refusing", "recording", "opening", "filling", "checking", "publishing",
          "renaming", "probing", "removing", "replacing", "published", "discarding", "clearing"}
\* From the OPEN until the file is moved or discarded.
Named == {"opening", "filling", "checking", "publishing", "renaming", "probing", "removing",
          "replacing"}

\* Where the step leads, the call, its staging file and its destination after it.
Outcome(p, there, call, file, place) ==
    /\ pc' = [pc EXCEPT ![p] = there] /\ put' = [put EXCEPT ![p] = call]
    /\ staged' = [staged EXCEPT ![put[p].token] = file]
    /\ dest' = [dest EXCEPT ![T(p)] = place]

\* They are as they should be.
Allowed(p, there, call, file, place) ==
    /\ there \in Where /\ call \in Call
    /\ file \in Content \cup {Absent} /\ place \in Content \cup {Absent}
    /\ Holds(file, T(p), put[p].version) /\ (place # Absent => Standing(place))
    /\ put[p].strict /\ dest[T(p)] # Absent => place # Absent
    /\ there # "idle" =>
          /\ call.target = T(p) /\ call.token = put[p].token /\ call.version = put[p].version
          /\ Filling(there, call, file) /\ Replacing(there, call, file, place)

\* What it writes to the journal: nothing, or a record about its own target.
Noted(p, there) ==
    \/ /\ UNCHANGED <<journalVars, torn>>
       /\ there \in Named => pc[p] \in Named
    \/ /\ Appended(StagedRecord(T(p), put[p].token, put[p].version))
       /\ UNCHANGED <<inode, folded>>
    \/ /\ Appended(PublishedRecord(T(p)))
       /\ UNCHANGED <<inode, folded>> /\ there = "idle"

Shared == UNCHANGED <<server, source, drawn, sweeper, crashes, scene>>

Done(p) ==
    /\ Busy(p) /\ Shared /\ (had' = had \/ had' = had \cup {T(p)})
    /\ \E there, call, file, place :
          Outcome(p, there, call, file, place) /\ Allowed(p, there, call, file, place) /\ Noted(p, there)

\* What is known of a call before its step.
Ready(p) ==
    /\ Busy(p) /\ pc \in [Publisher -> Where] /\ put \in [Publisher -> Call]
    /\ staged \in [Token -> Content \cup {Absent}] /\ dest \in [Target -> Content \cup {Absent}]
    /\ put[p] \in Call /\ put[p].token \in Token /\ T(p) \in Target
    /\ File(p) \in Content \cup {Absent} /\ dest[T(p)] \in Content \cup {Absent}
    /\ (dest[T(p)] # Absent => Standing(dest[T(p)]))
    /\ Filling(pc[p], put[p], File(p)) /\ Replacing(pc[p], put[p], File(p), dest[T(p)])

LEMMA IsReady ==
    ASSUME IndInv, NEW p \in Publisher, Busy(p)
    PROVE  Ready(p)
<1>1. put[p] \in Call /\ put[p].token \in Token /\ T(p) \in Target
  BY DEF IndInv, TypeOK, CallsApart, Call, T
<1>2. File(p) \in Content \cup {Absent} /\ dest[T(p)] \in Content \cup {Absent}
  BY <1>1 DEF IndInv, TypeOK, File, T
<1>3. Filling(pc[p], put[p], File(p)) /\ Replacing(pc[p], put[p], File(p), dest[T(p)])
  BY DEF IndInv, CallsStand
<1>4. dest[T(p)] # Absent => Standing(dest[T(p)])
  BY <1>1 DEF IndInv, DestinationsStand
<1> QED BY <1>1, <1>2, <1>3, <1>4 DEF Ready, IndInv, TypeOK, Where

LEMMA NoCallType == NoCall \in Call
BY PublishAssumption DEF NoCall, Call

\* A function changed where it is, to what it is, is unchanged.
LEMMA Unmoved ==
    ASSUME NEW p \in Publisher, Ready(p)
    PROVE  /\ put = [put EXCEPT ![p] = put[p]] /\ pc = [pc EXCEPT ![p] = pc[p]]
           /\ staged = [staged EXCEPT ![put[p].token] = File(p)]
           /\ dest = [dest EXCEPT ![T(p)] = dest[T(p)]]
<1>1. put = [put EXCEPT ![p] = put[p]] BY DEF Ready
<1>2. pc = [pc EXCEPT ![p] = pc[p]] BY DEF Ready
<1>3. staged = [staged EXCEPT ![put[p].token] = File(p)] BY DEF Ready, File
<1>4. dest = [dest EXCEPT ![T(p)] = dest[T(p)]] BY DEF Ready
<1> QED BY <1>1, <1>2, <1>3, <1>4

\* Ending a call, whatever became of its files.
LEMMA EndsDone ==
    ASSUME NEW p \in Publisher, Ready(p), NEW file, NEW place,
           pc' = [pc EXCEPT ![p] = "idle"], put' = [put EXCEPT ![p] = NoCall],
           staged' = [staged EXCEPT ![put[p].token] = file],
           dest' = [dest EXCEPT ![T(p)] = place],
           file \in Content \cup {Absent}, place \in Content \cup {Absent},
           Holds(file, T(p), put[p].version), place # Absent => Standing(place),
           put[p].strict /\ dest[T(p)] # Absent => place # Absent,
           had' = had \/ had' = had \cup {T(p)}, Shared, Noted(p, "idle")
    PROVE  Done(p)
<1>1. Allowed(p, "idle", NoCall, file, place) BY NoCallType DEF Allowed, Where
<1>2. Outcome(p, "idle", NoCall, file, place) BY DEF Outcome
<1> QED BY <1>1, <1>2 DEF Done, Ready

\* Going on with the call.
LEMMA GoesOn ==
    ASSUME NEW p \in Publisher, Ready(p), NEW there \in Where, NEW call \in Call, NEW file, NEW place,
           pc' = [pc EXCEPT ![p] = there], put' = [put EXCEPT ![p] = call],
           staged' = [staged EXCEPT ![put[p].token] = file],
           dest' = [dest EXCEPT ![T(p)] = place],
           file \in Content \cup {Absent}, place \in Content \cup {Absent},
           place # Absent => Standing(place),
           put[p].strict /\ dest[T(p)] # Absent => place # Absent,
           call.target = T(p), call.token = put[p].token, call.version = put[p].version,
           Filling(there, call, file), Replacing(there, call, file, place),
           had' = had \/ had' = had \cup {T(p)}, Shared, Noted(p, there)
    PROVE  Done(p)
<1>1. Holds(file, T(p), put[p].version) BY DEF Filling
<1>2. Allowed(p, there, call, file, place) BY <1>1 DEF Allowed
<1>3. Outcome(p, there, call, file, place) BY DEF Outcome
<1> QED BY <1>2, <1>3 DEF Done, Ready

\* A step that changes nothing but where the call is.
LEMMA WalksOn ==
    ASSUME NEW p \in Publisher, Ready(p), NEW there \in Where,
           pc' = [pc EXCEPT ![p] = there], UNCHANGED <<put, remote>>, Shared, Noted(p, there),
           Filling(there, put[p], File(p)), Replacing(there, put[p], File(p), dest[T(p)])
    PROVE  Done(p)
<1>1. put[p] \in Call BY DEF Ready
<1>2. had' = had BY DEF remote
<1>3. put' = [put EXCEPT ![p] = put[p]] BY Unmoved
<1>4. staged' = [staged EXCEPT ![put[p].token] = File(p)] BY Unmoved DEF remote
<1>5. dest' = [dest EXCEPT ![T(p)] = dest[T(p)]] BY Unmoved DEF remote
<1>6. /\ File(p) \in Content \cup {Absent} /\ dest[T(p)] \in Content \cup {Absent}
      /\ (dest[T(p)] # Absent => Standing(dest[T(p)]))
  BY DEF Ready
<1>7. put[p].target = T(p) BY DEF T
<1> QED BY <1>1, <1>2, <1>3, <1>4, <1>5, <1>6, <1>7, GoesOn

LEMMA ServerOnlyShared ==
    ASSUME ServerOnly, UNCHANGED scene, NEW p \in Publisher, NEW there,
           there \in Named => pc[p] \in Named
    PROVE  Shared /\ Noted(p, there)
BY DEF ServerOnly, Shared, Noted, drawn, sweeper

\* Steps that only walk on.
LEMMA Walks ==
    ASSUME NEW p \in Publisher, Ready(p), UNCHANGED scene,
           \/ Step(p, "refusing", "recording") /\ NoChange
           \/ FillFails(p) \/ PosixRefused(p) \/ PlainRefused(p)
           \/ ProbeInTheWay(p) \/ ProbeGivesUp(p)
    PROVE  Done(p)
<1>1. ASSUME NEW here \in Where, NEW there \in Where, Step(p, here, there), NoChange,
             there \in Named => here \in Named,
             Filling(there, put[p], File(p)), Replacing(there, put[p], File(p), dest[T(p)])
      PROVE  Done(p)
  <2>1. pc[p] = here /\ pc' = [pc EXCEPT ![p] = there] BY <1>1 DEF Step
  <2>2. ServerOnly /\ UNCHANGED <<remote, put>> BY <1>1 DEF NoChange
  <2>3. Shared /\ Noted(p, there) BY <1>1, <2>1, <2>2, ServerOnlyShared
  <2> QED BY <1>1, <2>1, <2>2, <2>3, WalksOn
<1>2. CASE Step(p, "refusing", "recording") /\ NoChange
  <2>1. Step(p, "refusing", "recording") /\ NoChange BY <1>2 DEF Step
  <2>2. Filling("recording", put[p], File(p)) BY <2>1 DEF Ready, Filling, Step
  <2>3. Replacing("recording", put[p], File(p), dest[T(p)])
    BY <1>2, <2>1 DEF Ready, Replacing, Step
  <2> QED BY <1>1, <2>1, <2>2, <2>3 DEF Where, Named
<1>3. CASE Step(p, "filling", "discarding") /\ NoChange
  <2>1. Step(p, "filling", "discarding") /\ NoChange BY <1>3 DEF Step
  <2>2. Filling("discarding", put[p], File(p)) BY <2>1 DEF Ready, Filling, Step
  <2>3. Replacing("discarding", put[p], File(p), dest[T(p)])
    BY <1>3, <2>1 DEF Ready, Replacing, Step
  <2> QED BY <1>1, <2>1, <2>2, <2>3 DEF Where, Named
<1>4. CASE Step(p, "checking", "discarding") /\ NoChange
  <2>1. Step(p, "checking", "discarding") /\ NoChange BY <1>4 DEF Step
  <2>2. Filling("discarding", put[p], File(p)) BY <2>1 DEF Ready, Filling, Step
  <2>3. Replacing("discarding", put[p], File(p), dest[T(p)])
    BY <1>4, <2>1 DEF Ready, Replacing, Step
  <2> QED BY <1>1, <2>1, <2>2, <2>3 DEF Where, Named
<1>5. CASE Step(p, "publishing", "discarding") /\ NoChange
  <2>1. Step(p, "publishing", "discarding") /\ NoChange BY <1>5 DEF Step
  <2>2. Filling("discarding", put[p], File(p)) BY <2>1 DEF Ready, Filling, Step
  <2>3. Replacing("discarding", put[p], File(p), dest[T(p)])
    BY <1>5, <2>1 DEF Ready, Replacing, Step
  <2> QED BY <1>1, <2>1, <2>2, <2>3 DEF Where, Named
<1>6. CASE Step(p, "publishing", "renaming") /\ NoChange
  <2>1. Step(p, "publishing", "renaming") /\ NoChange BY <1>6 DEF Step
  <2>2. Filling("renaming", put[p], File(p)) BY <2>1 DEF Ready, Filling, Step
  <2>3. Replacing("renaming", put[p], File(p), dest[T(p)])
    BY <1>6, <2>1 DEF Ready, Replacing, Step
  <2> QED BY <1>1, <2>1, <2>2, <2>3 DEF Where, Named
<1>7. CASE PlainRefused(p)
  <2>1. Step(p, "renaming", "probing") /\ NoChange
    BY <1>7 DEF PlainRefused, ProbeInTheWay, ProbeGivesUp, Step
  <2>2. Filling("probing", put[p], File(p)) BY <2>1 DEF Ready, Filling, Step
  <2>3. Replacing("probing", put[p], File(p), dest[T(p)])
    BY <1>7, <2>1 DEF PlainRefused, ProbeInTheWay, ProbeGivesUp, Ready, Replacing, Step
  <2> QED BY <1>1, <2>1, <2>2, <2>3 DEF Where, Named
<1>8. CASE ProbeInTheWay(p)
  <2>1. Step(p, "probing", "removing") /\ NoChange
    BY <1>8 DEF PlainRefused, ProbeInTheWay, ProbeGivesUp, Step
  <2>2. Filling("removing", put[p], File(p)) BY <2>1 DEF Ready, Filling, Step
  <2>3. Replacing("removing", put[p], File(p), dest[T(p)])
    BY <1>8, <2>1 DEF PlainRefused, ProbeInTheWay, ProbeGivesUp, Ready, Replacing, Step
  <2> QED BY <1>1, <2>1, <2>2, <2>3 DEF Where, Named
<1>9. CASE ProbeGivesUp(p)
  <2>1. Step(p, "probing", "discarding") /\ NoChange
    BY <1>9 DEF PlainRefused, ProbeInTheWay, ProbeGivesUp, Step
  <2>2. Filling("discarding", put[p], File(p)) BY <2>1 DEF Ready, Filling, Step
  <2>3. Replacing("discarding", put[p], File(p), dest[T(p)])
    BY <1>9, <2>1 DEF PlainRefused, ProbeInTheWay, ProbeGivesUp, Ready, Replacing, Step
  <2> QED BY <1>1, <2>1, <2>2, <2>3 DEF Where, Named
<1> QED BY <1>2, <1>3, <1>4, <1>5, <1>6, <1>7, <1>8, <1>9 DEF FillFails, PosixRefused

\* A call that ends with its files as they are.
LEMMA EndsHere ==
    ASSUME NEW p \in Publisher, Ready(p), NEW here, Ends(p, here), UNCHANGED remote,
           Shared, Noted(p, "idle")
    PROVE  Done(p)
<1>1. pc' = [pc EXCEPT ![p] = "idle"] /\ put' = [put EXCEPT ![p] = NoCall] BY DEF Ends, Step
<1>2. had' = had BY DEF remote
<1>3. staged' = [staged EXCEPT ![put[p].token] = File(p)] BY Unmoved DEF remote
<1>4. dest' = [dest EXCEPT ![T(p)] = dest[T(p)]] BY Unmoved DEF remote
<1>5. /\ File(p) \in Content \cup {Absent} /\ dest[T(p)] \in Content \cup {Absent}
      /\ (dest[T(p)] # Absent => Standing(dest[T(p)]))
  BY DEF Ready
<1>6. Holds(File(p), T(p), put[p].version) BY DEF Ready, Filling, T
<1> QED BY <1>1, <1>2, <1>3, <1>4, <1>5, <1>6, EndsDone

\* What an empty file and a moved one are.
LEMMA Made ==
    ASSUME NEW p \in Publisher, Ready(p)
    PROVE  /\ Empty(T(p)) \in Content /\ Holds(Empty(T(p)), T(p), put[p].version)
           /\ Empty(T(p)) # Absent
           /\ pc[p] \in {"publishing", "renaming", "replacing"} => Standing(File(p))
<1>1. T(p) \in Target /\ put[p].version \in Version BY DEF Ready, Call
<1>2. Empty(T(p)) \in Content BY <1>1 DEF Empty, Content
<1>3. Holds(Empty(T(p)), T(p), put[p].version) BY DEF Holds, Empty
<1>4. Empty(T(p)) # Absent BY <1>2, PublishAssumption
<1>5. pc[p] \in {"publishing", "renaming", "replacing"} => Standing(File(p))
  BY <1>1 DEF Ready, Filling, Standing
<1> QED BY <1>2, <1>3, <1>4, <1>5

\* A file that is moved takes its name with it.
LEMMA MovedOn ==
    ASSUME NEW p \in Publisher, Ready(p), Moved(p)
    PROVE  /\ staged' = [staged EXCEPT ![put[p].token] = Absent]
           /\ dest' = [dest EXCEPT ![T(p)] = File(p)]
           /\ had' = had \cup {T(p)} /\ File(p) # Absent /\ File(p) \in Content
BY DEF Moved, Ours, Ready

\* Steps after which put returns or raises.
LEMMA Ended ==
    ASSUME NEW p \in Publisher, Ready(p), UNCHANGED scene,
           \/ Ends(p, "refusing") /\ ServerOnly /\ UNCHANGED remote
           \/ RecordFails(p) \/ OpeningFails(p) \/ RemoveLost(p) \/ ReplaceFails(p)
           \/ Finish(p) \/ FinishFails(p) \/ Clear(p)
    PROVE  Done(p)
<1>1. ASSUME ServerOnly PROVE Shared /\ Noted(p, "idle")
  BY <1>1, ServerOnlyShared DEF Named
<1>2. ASSUME NEW here, Ends(p, here), ServerOnly, UNCHANGED remote PROVE Done(p)
  BY <1>1, <1>2, EndsHere
<1>3. ASSUME NEW here, Ends(p, here), LocalOnly, UNCHANGED <<inode, folded>>,
             Appended(PublishedRecord(T(p))) \/ Unwritten
      PROVE  Done(p)
  <2>1. Shared /\ UNCHANGED remote BY <1>3 DEF LocalOnly, Shared, drawn, sweeper
  <2>2. Noted(p, "idle") BY <1>3 DEF Noted, Unwritten, journalVars, Named
  <2> QED BY <1>3, <2>1, <2>2, EndsHere
<1>4. CASE OpeningFails(p)
  <2>1. Ends(p, "opening") /\ ServerOnly /\ UNCHANGED <<dest, had>> BY <1>4 DEF OpeningFails
  <2>2. CASE Ours(p, File(p))
    <3>1. UNCHANGED remote BY <2>1, <2>2, Unmoved DEF Ours, remote
    <3> QED BY <1>2, <2>1, <3>1
  <2>3. CASE Ours(p, Empty(T(p)))
    <3>1. staged' = [staged EXCEPT ![put[p].token] = Empty(T(p))] BY <2>3 DEF Ours
    <3>2. dest' = [dest EXCEPT ![T(p)] = dest[T(p)]] BY <2>1, Unmoved
    <3>3. pc' = [pc EXCEPT ![p] = "idle"] /\ put' = [put EXCEPT ![p] = NoCall]
      BY <2>1 DEF Ends, Step
    <3>4. Empty(T(p)) \in Content /\ Holds(Empty(T(p)), T(p), put[p].version) BY Made
    <3>5. dest[T(p)] \in Content \cup {Absent} /\ (dest[T(p)] # Absent => Standing(dest[T(p)]))
      BY DEF Ready
    <3> QED BY <1>1, <2>1, <3>1, <3>2, <3>3, <3>4, <3>5, EndsDone
  <2> QED BY <1>4, <2>2, <2>3 DEF OpeningFails
<1>5. CASE RemoveLost(p)
  <2>1. Ends(p, "removing") /\ ServerOnly BY <1>5 DEF RemoveLost
  <2>2. CASE UNCHANGED remote BY <1>2, <2>1, <2>2
  <2>3. CASE Unlinked(p)
    <3>1. dest' = [dest EXCEPT ![T(p)] = Absent] /\ UNCHANGED <<staged, had>>
      BY <2>3 DEF Unlinked
    <3>2. staged' = [staged EXCEPT ![put[p].token] = File(p)] BY <3>1, Unmoved
    <3>3. pc[p] = "removing" /\ pc' = [pc EXCEPT ![p] = "idle"] /\ put' = [put EXCEPT ![p] = NoCall]
      BY <2>1 DEF Ends, Step
    <3>4. File(p) \in Content \cup {Absent} /\ Holds(File(p), T(p), put[p].version)
      BY DEF Ready, Filling, T
    <3>5. ~put[p].strict BY <3>3 DEF Ready, Replacing
    <3> QED BY <1>1, <2>1, <3>1, <3>2, <3>3, <3>4, <3>5, EndsDone
  <2> QED BY <1>5, <2>2, <2>3 DEF RemoveLost
<1>6. CASE ReplaceFails(p)
  <2>1. Ends(p, "replacing") /\ ServerOnly BY <1>6 DEF ReplaceFails
  <2>2. CASE UNCHANGED remote BY <1>2, <2>1, <2>2
  <2>3. CASE Moved(p)
    <3>1. /\ staged' = [staged EXCEPT ![put[p].token] = Absent]
          /\ dest' = [dest EXCEPT ![T(p)] = File(p)]
          /\ had' = had \cup {T(p)} /\ File(p) # Absent /\ File(p) \in Content
      BY <2>3, MovedOn
    <3>2. pc[p] = "replacing" /\ pc' = [pc EXCEPT ![p] = "idle"] /\ put' = [put EXCEPT ![p] = NoCall]
      BY <2>1 DEF Ends, Step
    <3>3. Standing(File(p)) BY <3>2, Made
    <3>4. Holds(Absent, T(p), put[p].version) BY DEF Holds
    <3> QED BY <1>1, <2>1, <3>1, <3>2, <3>3, <3>4, EndsDone
  <2> QED BY <1>6, <2>2, <2>3 DEF ReplaceFails, MovedOntoNothing
<1>7. CASE Finish(p) BY <1>3, <1>7 DEF Finish
<1>8. CASE Clear(p) BY <1>3, <1>8 DEF Clear
<1>9. CASE RecordFails(p) \/ FinishFails(p) \/ (Ends(p, "refusing") /\ ServerOnly /\ UNCHANGED remote)
  BY <1>2, <1>9 DEF RecordFails, FinishFails
<1> QED BY <1>4, <1>5, <1>6, <1>7, <1>8, <1>9

\* A step that works on the staging file.
LEMMA WorksOn ==
    ASSUME NEW p \in Publisher, Ready(p), UNCHANGED scene, ServerOnly, UNCHANGED <<dest, had>>,
           pc[p] \in {"opening", "filling", "checking"},
           NEW there \in {"filling", "checking", "publishing"},
           NEW file \in Content, NEW hole \in BOOLEAN,
           pc' = [pc EXCEPT ![p] = there], put' = [put EXCEPT ![p].hole = hole],
           Ours(p, file), Holds(file, T(p), put[p].version),
           there = "filling" /\ hole => file.unchecked,
           there # "filling" => /\ file.full /\ file.from = {put[p].version}
                                /\ file.holed => file.unchecked
    PROVE  Done(p)
<1> DEFINE call == [put[p] EXCEPT !.hole = hole]
<1>1. put[p] \in Call /\ put[p].target = T(p) BY DEF Ready, T
<1>2. /\ call \in Call /\ call.target = T(p) /\ call.token = put[p].token
      /\ call.version = put[p].version /\ call.unlinks = put[p].unlinks /\ call.hole = hole
  BY <1>1 DEF Call
<1>3. put' = [put EXCEPT ![p] = call] BY DEF Ready
<1>4. dest' = [dest EXCEPT ![T(p)] = dest[T(p)]] BY Unmoved
<1>5. staged' = [staged EXCEPT ![put[p].token] = file] BY DEF Ours
<1>6. dest[T(p)] \in Content \cup {Absent} /\ (dest[T(p)] # Absent => Standing(dest[T(p)]))
  BY DEF Ready
<1>7. there \in Where /\ Shared /\ Noted(p, there)
  BY ServerOnlyShared DEF Where, Named
<1>8. file # Absent BY PublishAssumption
<1> HIDE DEF call
<1>9. Filling(there, call, file) BY <1>2, <1>8 DEF Filling
<1>10. Replacing(there, call, file, dest[T(p)]) BY <1>2 DEF Replacing, Ready
<1> QED BY <1>2, <1>3, <1>4, <1>5, <1>6, <1>7, <1>8, <1>9, <1>10, GoesOn

\* Steps that make the staging file.
LEMMA Fills ==
    ASSUME NEW p \in Publisher, Ready(p), UNCHANGED scene,
           RecordStaging(p) \/ OpenStaging(p) \/ Write(p) \/ Filled(p) \/ Confirm(p)
    PROVE  Done(p)
<1>1. /\ put[p].version \in Version /\ put[p].hole \in BOOLEAN /\ put[p].target = T(p)
      /\ Holds(File(p), T(p), put[p].version) /\ File(p) \in Content \cup {Absent}
  BY DEF Ready, Filling, Call, T
<1>2. UNCHANGED put => put' = [put EXCEPT ![p].hole = put[p].hole] BY DEF Ready, Call
<1>3. CASE RecordStaging(p)
  <2>1. /\ pc[p] = "recording" /\ pc' = [pc EXCEPT ![p] = "opening"]
        /\ Appended(StagedRecord(T(p), put[p].token, put[p].version))
        /\ LocalOnly /\ UNCHANGED <<inode, folded, put>>
    BY <1>3 DEF RecordStaging, Step
  <2>2. Shared /\ UNCHANGED remote BY <2>1 DEF LocalOnly, Shared, drawn, sweeper
  <2>3. Noted(p, "opening") BY <2>1 DEF Noted
  <2>4. Filling("opening", put[p], File(p)) BY DEF Ready, Filling
  <2>5. Replacing("opening", put[p], File(p), dest[T(p)]) BY <2>1 DEF Ready, Replacing
  <2> QED BY <2>1, <2>2, <2>3, <2>4, <2>5, WalksOn DEF Where
<1>4. CASE OpenStaging(p)
  <2>1. PICK compared \in Comparable :
          /\ Adopting(p) /\ compared => PrefixAgrees(p)
          /\ Ours(p, IF Adopting(p) THEN [File(p) EXCEPT !.unchecked = ~compared]
                     ELSE Empty(T(p)))
    BY <1>4 DEF OpenStaging
  <2>2. /\ pc[p] = "opening" /\ pc' = [pc EXCEPT ![p] = "filling"]
        /\ put' = [put EXCEPT ![p].hole = Adopting(p) /\ File(p).holed]
        /\ ServerOnly /\ UNCHANGED <<dest, had>>
    BY <1>4 DEF OpenStaging, Step
  <2>3. compared \in BOOLEAN BY PublishAssumption
  <2>4. CASE Adopting(p)
    <3>1. File(p) \in Content /\ File(p) # Absent BY <1>1, <2>4 DEF Adopting
    <3> DEFINE file == [File(p) EXCEPT !.unchecked = ~compared]
    <3>2. file \in Content BY <2>3, <3>1 DEF Content
    <3>3. Holds(file, T(p), put[p].version) BY <1>1, <3>1 DEF Holds, Content
    <3>4. File(p).holed \in BOOLEAN /\ (File(p).holed => file.unchecked)
      BY <2>1, <2>3, <2>4, <3>1 DEF PrefixAgrees, Content
    <3>5. Ours(p, file) BY <2>1, <2>4
    <3>6. put' = [put EXCEPT ![p].hole = File(p).holed]
      <4>1. (Adopting(p) /\ File(p).holed) = File(p).holed BY <2>4, <3>4
      <4> QED BY <2>2, <4>1
    <3> HIDE DEF file
    <3> QED BY <2>2, <3>2, <3>3, <3>4, <3>5, <3>6, WorksOn
  <2>5. CASE ~Adopting(p)
    <3>1. Ours(p, Empty(T(p))) BY <2>1, <2>5
    <3>2. put' = [put EXCEPT ![p].hole = FALSE]
      <4>1. (Adopting(p) /\ File(p).holed) = FALSE BY <2>5
      <4> QED BY <2>2, <4>1
    <3>3. Empty(T(p)) \in Content /\ Holds(Empty(T(p)), T(p), put[p].version) BY Made
    <3> HIDE DEF Empty
    <3> QED BY <2>2, <3>1, <3>2, <3>3, WorksOn
  <2> QED BY <2>4, <2>5
<1>5. CASE Write(p)
  <2>1. /\ pc[p] = "filling" /\ pc' = pc /\ ServerOnly /\ UNCHANGED <<dest, had, put>>
    BY <1>5 DEF Write
  <2>2. pc' = [pc EXCEPT ![p] = "filling"] BY <2>1 DEF Ready
  <2>3. PICK full, holed \in BOOLEAN :
          Ours(p, [File(p) EXCEPT !.from = @ \cup {put[p].version}, !.full = full, !.holed = holed])
    BY <1>5 DEF Write
  <2> DEFINE file == [File(p) EXCEPT !.from = @ \cup {put[p].version}, !.full = full, !.holed = holed]
  <2>4. File(p) \in Content /\ File(p) # Absent /\ (put[p].hole => File(p).unchecked)
    BY <1>1, <2>1 DEF Ready, Filling
  <2>5. file \in Content BY <1>1, <2>4 DEF Content
  <2>6. Holds(file, T(p), put[p].version) BY <1>1, <2>4 DEF Holds, Content
  <2>7. file.unchecked = File(p).unchecked BY <2>4 DEF Content
  <2>8. Ours(p, file) BY <2>3
  <2> HIDE DEF file
  <2> QED BY <1>1, <1>2, <2>1, <2>2, <2>4, <2>5, <2>6, <2>7, <2>8, WorksOn
<1>6. CASE Filled(p)
  <2>1. /\ pc[p] = "filling" /\ pc' = [pc EXCEPT ![p] = "checking"]
        /\ ServerOnly /\ UNCHANGED <<dest, had, put>>
    BY <1>6 DEF Filled, Step
  <2> DEFINE file == [File(p) EXCEPT !.from = @ \cup {put[p].version},
                                     !.full = TRUE, !.holed = put[p].hole]
  <2>2. File(p) \in Content /\ File(p) # Absent /\ (put[p].hole => File(p).unchecked)
    BY <1>1, <2>1 DEF Ready, Filling
  <2>3. file \in Content BY <1>1, <2>2 DEF Content
  <2>4. Holds(file, T(p), put[p].version) BY <1>1, <2>2 DEF Holds, Content
  <2>5. /\ file.full /\ file.holed = put[p].hole /\ file.unchecked = File(p).unchecked
        /\ put[p].version \in file.from
    BY <2>2 DEF Content
  <2>6. Ours(p, file) BY <1>6 DEF Filled
  <2>7. file # Absent BY <2>3, PublishAssumption
  <2> HIDE DEF file
  <2>8. file.from = {put[p].version} BY <2>4, <2>5, <2>7 DEF Holds
  <2> QED BY <1>1, <1>2, <2>1, <2>2, <2>3, <2>4, <2>5, <2>6, <2>8, WorksOn
<1>7. CASE Confirm(p)
  <2>1. /\ pc[p] = "checking" /\ pc' = [pc EXCEPT ![p] = "publishing"]
        /\ ServerOnly /\ UNCHANGED <<dest, had, put>>
    BY <1>7 DEF Confirm, Step
  <2>2. PICK compared \in Comparable :
          /\ compared => PrefixAgrees(p)
          /\ Ours(p, [File(p) EXCEPT !.unchecked = @ /\ ~compared])
    BY <1>7 DEF Confirm
  <2> DEFINE file == [File(p) EXCEPT !.unchecked = @ /\ ~compared]
  <2>3. /\ File(p) \in Content /\ File(p) # Absent /\ File(p).full /\ File(p).from = {put[p].version}
        /\ (File(p).holed => File(p).unchecked)
    BY <1>1, <2>1 DEF Ready, Filling
  <2>4. compared \in BOOLEAN BY PublishAssumption
  <2>5. file \in Content BY <2>3, <2>4 DEF Content
  <2>6. /\ file.full /\ file.from = {put[p].version} /\ file.target = File(p).target
        /\ file.holed = File(p).holed
    BY <2>3 DEF Content
  <2>7. file.holed => file.unchecked
    <3>1. file.unchecked = (File(p).unchecked /\ ~compared) BY <2>3 DEF Content
    <3> QED BY <2>2, <2>3, <2>4, <2>6, <3>1 DEF PrefixAgrees
  <2>8. Holds(file, T(p), put[p].version) BY <1>1, <2>3, <2>6 DEF Holds
  <2>9. Ours(p, file) BY <2>2
  <2> HIDE DEF file
  <2> QED BY <1>1, <1>2, <2>1, <2>3, <2>5, <2>6, <2>7, <2>8, <2>9, WorksOn
<1> QED BY <1>3, <1>4, <1>5, <1>6, <1>7

\* A rename that is performed, answered or not.
LEMMA Renames ==
    ASSUME NEW p \in Publisher, Ready(p), UNCHANGED scene, NEW here \in {"publishing", "renaming", "replacing"},
           NEW there \in {"published", "discarding"}, there = "discarding" => here # "replacing",
           Step(p, here, there), Moved(p), ServerOnly, UNCHANGED put
    PROVE  Done(p)
<1>1. /\ staged' = [staged EXCEPT ![put[p].token] = Absent]
      /\ dest' = [dest EXCEPT ![T(p)] = File(p)]
      /\ had' = had \cup {T(p)} /\ File(p) # Absent /\ File(p) \in Content
  BY MovedOn
<1>2. pc[p] = here /\ pc' = [pc EXCEPT ![p] = there] BY DEF Step
<1>3. Standing(File(p)) BY <1>2, Made
<1>4. put' = [put EXCEPT ![p] = put[p]] /\ put[p] \in Call /\ put[p].target = T(p)
  BY Unmoved DEF Ready, T
<1>5. there \in Where /\ Shared /\ Noted(p, there) BY ServerOnlyShared DEF Where, Named
<1>6. Filling(there, put[p], Absent) BY DEF Filling, Holds
<1>7. File(p).from = {put[p].version} BY <1>2 DEF Ready, Filling
<1>8. Replacing(there, put[p], Absent, File(p)) BY <1>1, <1>2, <1>7 DEF Replacing, Ready
<1> QED BY <1>1, <1>2, <1>3, <1>4, <1>5, <1>6, <1>8, GoesOn

\* Steps that put the file in its place.
LEMMA Places ==
    ASSUME NEW p \in Publisher, Ready(p), UNCHANGED scene,
           \/ PosixRename(p) \/ PosixLost(p) \/ PlainRename(p) \/ PlainLost(p)
           \/ RemoveTarget(p) \/ RemoveRefused(p) \/ ReplaceTarget(p) \/ Discard(p)
    PROVE  Done(p)
<1>1. /\ put[p] \in Call /\ put[p].target = T(p) /\ File(p) \in Content \cup {Absent}
      /\ dest[T(p)] \in Content \cup {Absent} /\ (dest[T(p)] # Absent => Standing(dest[T(p)]))
      /\ Filling(pc[p], put[p], File(p)) /\ Replacing(pc[p], put[p], File(p), dest[T(p)])
  BY DEF Ready, T
<1>2. UNCHANGED put => put' = [put EXCEPT ![p] = put[p]] BY Unmoved
<1>3. UNCHANGED staged => staged' = [staged EXCEPT ![put[p].token] = File(p)] BY Unmoved
<1>4. UNCHANGED dest => dest' = [dest EXCEPT ![T(p)] = dest[T(p)]] BY Unmoved
<1>5. ASSUME ServerOnly, NEW there \in {"published", "discarding", "clearing"}
      PROVE  there \in Where /\ Shared /\ Noted(p, there)
  BY <1>5, ServerOnlyShared DEF Named, Where
<1>6. CASE PosixRename(p) BY <1>6, Renames DEF PosixRename
<1>7. CASE PlainRename(p) BY <1>7, Renames DEF PlainRename, MovedOntoNothing
<1>8. CASE ReplaceTarget(p) BY <1>8, Renames DEF ReplaceTarget, MovedOntoNothing
<1>9. ASSUME NEW here \in {"publishing", "renaming"}, Step(p, here, "discarding"),
             UNCHANGED <<remote, put>>, ServerOnly
      PROVE  Done(p)
  <2>1. pc[p] = here /\ pc' = [pc EXCEPT ![p] = "discarding"] BY <1>9 DEF Step
  <2>2. Filling("discarding", put[p], File(p)) BY <1>1 DEF Filling
  <2>3. Replacing("discarding", put[p], File(p), dest[T(p)]) BY <1>1, <2>1 DEF Replacing
  <2> QED BY <1>5, <1>9, <2>1, <2>2, <2>3, WalksOn
<1>10. CASE PosixLost(p)
  <2>1. Step(p, "publishing", "discarding") /\ ServerOnly /\ UNCHANGED put BY <1>10 DEF PosixLost
  <2>2. CASE Moved(p) BY <2>1, <2>2, Renames
  <2>3. CASE UNCHANGED remote BY <1>9, <2>1, <2>3
  <2> QED BY <1>10, <2>2, <2>3 DEF PosixLost
<1>11. CASE PlainLost(p)
  <2>1. Step(p, "renaming", "discarding") /\ ServerOnly /\ UNCHANGED put BY <1>11 DEF PlainLost
  <2>2. CASE Moved(p) BY <2>1, <2>2, Renames
  <2>3. CASE UNCHANGED remote BY <1>9, <2>1, <2>3
  <2> QED BY <1>11, <2>2, <2>3 DEF PlainLost, MovedOntoNothing
<1> DEFINE call == [put[p] EXCEPT !.unlinks = TRUE]
<1>12. /\ call \in Call /\ call.target = T(p) /\ call.token = put[p].token
       /\ call.version = put[p].version /\ call.strict = put[p].strict
       /\ Unlinks(p) => put' = [put EXCEPT ![p] = call]
  <2>1. /\ call \in Call /\ call.target = T(p) /\ call.token = put[p].token
        /\ call.version = put[p].version /\ call.strict = put[p].strict
    BY <1>1 DEF Call
  <2>2. Unlinks(p) => put' = [put EXCEPT ![p] = call] BY DEF Unlinks, Ready
  <2> QED BY <2>1, <2>2
<1> HIDE DEF call
<1>13. CASE RemoveTarget(p)
  <2>1. /\ pc[p] = "removing" /\ pc' = [pc EXCEPT ![p] = "replacing"] /\ ServerOnly
        /\ dest' = [dest EXCEPT ![T(p)] = Absent] /\ UNCHANGED <<staged, had>>
        /\ put' = [put EXCEPT ![p] = call]
    BY <1>12, <1>13 DEF RemoveTarget, Step, Unlinked
  <2>2. ~put[p].strict BY <1>1, <2>1 DEF Replacing
  <2>3. Filling("replacing", call, File(p)) BY <1>1, <1>12, <2>1 DEF Filling
  <2>4. Replacing("replacing", call, File(p), Absent) BY <1>12, <2>2 DEF Replacing
  <2>5. Shared /\ Noted(p, "replacing") BY <2>1, ServerOnlyShared DEF Named
  <2>6. "replacing" \in Where BY DEF Where
  <2> QED BY <1>1, <1>3, <1>12, <2>1, <2>2, <2>3, <2>4, <2>5, <2>6, GoesOn
<1>14. CASE RemoveRefused(p)
  <2>1. /\ pc[p] = "removing" /\ pc' = [pc EXCEPT ![p] = "discarding"] /\ ServerOnly
        /\ UNCHANGED <<dest, staged, had>>
        /\ put' = [put EXCEPT ![p] = call]
    BY <1>12, <1>14 DEF RemoveRefused, Step, remote
  <2>2. Filling("discarding", call, File(p)) BY <1>1, <1>12 DEF Filling
  <2>3. Replacing("discarding", call, File(p), dest[T(p)]) BY <1>1, <1>12, <2>1 DEF Replacing
  <2> QED BY <1>1, <1>3, <1>4, <1>5, <1>12, <2>1, <2>2, <2>3, GoesOn
<1>15. CASE Discard(p)
  <2>1. /\ pc[p] = "discarding" /\ pc' = [pc EXCEPT ![p] = "clearing"] /\ ServerOnly
        /\ UNCHANGED <<dest, had, put>>
    BY <1>15 DEF Discard, Step
  <2>2. PICK file \in {Absent, File(p)} : Ours(p, file) BY <1>15 DEF Discard
  <2>3. staged' = [staged EXCEPT ![put[p].token] = file] /\ file \in Content \cup {Absent}
    BY <1>1, <2>2 DEF Ours
  <2>4. Filling("clearing", put[p], file) BY <1>1, <2>2 DEF Filling, Holds
  <2>5. Replacing("clearing", put[p], file, dest[T(p)]) BY <1>1, <2>1 DEF Replacing
  <2> QED BY <1>1, <1>2, <1>4, <1>5, <2>1, <2>3, <2>4, <2>5, GoesOn
<1> QED BY <1>6, <1>7, <1>8, <1>10, <1>11, <1>13, <1>14, <1>15

LEMMA StepDone ==
    ASSUME IndInv, NEW p \in Publisher, PublisherStep(p), UNCHANGED scene
    PROVE  Done(p)
<1>1. Busy(p)
  BY DEF PublisherStep, Busy, CheckReplaceable, RecordStaging, RecordFails, OpenStaging, OpeningFails,
     Write, Filled, Confirm, FillFails, PosixRename, PosixRefused, PosixLost, PlainRename,
     PlainRefused, PlainLost, ProbeInTheWay, ProbeGivesUp, RemoveTarget, RemoveRefused, RemoveLost,
     ReplaceTarget, ReplaceFails, Finish, FinishFails, Discard, Clear, Ends, Step
<1>2. Ready(p) BY <1>1, IsReady
<1>3. CASE CheckReplaceable(p) BY <1>2, <1>3, Walks, Ended DEF CheckReplaceable
<1>4. CASE \/ FillFails(p) \/ PosixRefused(p) \/ PlainRefused(p)
           \/ ProbeInTheWay(p) \/ ProbeGivesUp(p)
  BY <1>2, <1>4, Walks
<1>5. CASE \/ RecordFails(p) \/ OpeningFails(p) \/ RemoveLost(p) \/ ReplaceFails(p)
           \/ Finish(p) \/ FinishFails(p) \/ Clear(p)
  BY <1>2, <1>5, Ended
<1>6. CASE RecordStaging(p) \/ OpenStaging(p) \/ Write(p) \/ Filled(p) \/ Confirm(p)
  BY <1>2, <1>6, Fills
<1>7. CASE \/ PosixRename(p) \/ PosixLost(p) \/ PlainRename(p) \/ PlainLost(p)
           \/ RemoveTarget(p) \/ RemoveRefused(p) \/ ReplaceTarget(p) \/ Discard(p)
  BY <1>2, <1>7, Places
<1> QED BY <1>3, <1>4, <1>5, <1>6, <1>7 DEF PublisherStep

-------------------------------------------------------------------------------
(* What one step does to the journal *)

LEMMA AppendedStep ==
    ASSUME JournalTypeOK, FoldedTrue, NEW line \in Record, Appended(line), UNCHANGED <<inode, folded>>,
           torn \in Nat, torn = 0 => tail = <<>>
    PROVE  /\ JournalTypeOK' /\ FoldedTrue' /\ torn' \in Nat
           /\ torn' = 0 => torn = 0 /\ tail' = <<>>
           /\ \A t \in Target, k \in Token, v \in Version :
                 OnFile(t, k, v)' => OnFile(t, k, v) \/ line = StagedRecord(t, k, v)
           /\ torn' = 0 => \A t \in Target :
                 FoldedLog'[t] = IF line.target = t THEN line.entry ELSE FoldedLog[t]
<1>1. \/ AppendLine(line, TRUE) /\ UNCHANGED torn
      \/ torn' = torn + 1 /\ (AppendLine(line, FALSE) \/ AppendUnterminated(line))
  BY DEF Appended
<1>2. /\ JournalTypeOK' /\ FoldedTrue'
      /\ \A t \in Target, k \in Token, v \in Version :
            OnFile(t, k, v)' => OnFile(t, k, v) \/ line = StagedRecord(t, k, v)
  BY <1>1, AppendStep
<1>3. torn' \in Nat
  <2>1. torn' = torn \/ torn' = torn + 1 BY DEF Appended
  <2> QED BY <2>1
<1>4. ASSUME torn' = 0 PROVE torn = 0 /\ tail' = <<>> /\ log' = Append(log, line) /\ tail = <<>>
  BY <1>1, <1>4 DEF AppendLine
<1>5. ASSUME torn' = 0, NEW t \in Target
      PROVE  FoldedLog'[t] = IF line.target = t THEN line.entry ELSE FoldedLog[t]
  <2>1. log \in Seq(Line) /\ line \in Line /\ line # Garbage
    BY JournalAssumption DEF JournalTypeOK, Line
  <2>2. FoldedLog = Apply(Nothing, log)
    <3>1. log \o <<>> = log BY <2>1
    <3> QED BY <1>4, <1>5, <3>1 DEF FoldedLog, Fold
  <2>3. FoldedLog' = Apply(Nothing, Append(log, line))
    <3>1. Append(log, line) \o <<>> = Append(log, line) BY <2>1
    <3>2. log' \o tail' = Append(log, line) BY <1>4, <1>5, <3>1
    <3>3. FoldedLog' = Fold(log' \o tail') BY DEF FoldedLog, Fold, Apply, About
    <3> QED BY <3>2, <3>3 DEF Fold
  <2> QED BY <2>1, <2>2, <2>3, ApplyAppend
<1> QED BY <1>2, <1>3, <1>4, <1>5

\* A publisher's record is about its own target.
LEMMA NotedStep ==
    ASSUME IndInv, NEW p \in Publisher, Ready(p), NEW there, Noted(p, there)
    PROVE  /\ JournalTypeOK' /\ FoldedTrue' /\ torn' \in Nat
           /\ torn' = 0 => torn = 0 /\ tail' = <<>>
           /\ \A t \in Target, k \in Token, v \in Version :
                 OnFile(t, k, v)' => \/ OnFile(t, k, v)
                                     \/ t = T(p) /\ k = put[p].token /\ v = put[p].version
           /\ torn' = 0 => \A t \in Target : t # T(p) => FoldedLog'[t] = FoldedLog[t]
           /\ torn' = 0 /\ there \in Named =>
                 FoldedLog'[T(p)] = [staged |-> put[p].token, version |-> put[p].version]
<1>1. /\ JournalTypeOK /\ FoldedTrue /\ torn \in Nat /\ (torn = 0 => tail = <<>>)
      /\ StagingIsOnRecord
  BY DEF IndInv, TypeOK, OnRecord
<1>2. T(p) \in Target /\ put[p].token \in Token /\ put[p].version \in Version
  BY DEF Ready, Call
<1>3. CASE UNCHANGED <<journalVars, torn>> /\ (there \in Named => pc[p] \in Named)
  <2>1. log' = log /\ tail' = tail /\ inode' = inode /\ folded' = folded /\ torn' = torn
    BY <1>3 DEF journalVars
  <2>2. JournalTypeOK' BY <1>1, <2>1 DEF JournalTypeOK
  <2>3. FoldedTrue' BY <1>1, <2>1 DEF FoldedTrue
  <2>4. FoldedLog' = FoldedLog BY <2>1 DEF FoldedLog, Fold, Apply, About
  <2>5. \A t \in Target, k \in Token, v \in Version : OnFile(t, k, v)' => OnFile(t, k, v)
    BY <2>1 DEF OnFile
  <2>6. torn' = 0 /\ there \in Named =>
          FoldedLog[T(p)] = [staged |-> put[p].token, version |-> put[p].version]
    BY <1>1, <1>3, <2>1 DEF StagingIsOnRecord, Named
  <2> QED BY <1>1, <2>1, <2>2, <2>3, <2>4, <2>5, <2>6
<1>4. CASE Appended(StagedRecord(T(p), put[p].token, put[p].version)) /\ UNCHANGED <<inode, folded>>
  <2> DEFINE line == StagedRecord(T(p), put[p].token, put[p].version)
  <2>1. line \in Record /\ line.target = T(p)
        /\ line.entry = [staged |-> put[p].token, version |-> put[p].version]
    BY <1>2, RecordType DEF StagedRecord
  <2>2. \A t \in Target, k \in Token, v \in Version :
          line = StagedRecord(t, k, v) => t = T(p) /\ k = put[p].token /\ v = put[p].version
    BY DEF StagedRecord
  <2> HIDE DEF line
  <2>3. Appended(line) BY <1>4 DEF line
  <2> QED BY <1>1, <1>2, <1>4, <2>1, <2>2, <2>3, AppendedStep
<1>5. CASE Appended(PublishedRecord(T(p))) /\ UNCHANGED <<inode, folded>> /\ there = "idle"
  <2> DEFINE line == PublishedRecord(T(p))
  <2>1. line \in Record /\ line.target = T(p)
        /\ \A t \in Target, k \in Token, v \in Version : line # StagedRecord(t, k, v)
    BY <1>2, PublishedType DEF PublishedRecord
  <2> HIDE DEF line
  <2>2. Appended(line) BY <1>5 DEF line
  <2>3. there \notin Named BY <1>5 DEF Named
  <2> QED BY <1>1, <1>2, <1>5, <2>1, <2>2, <2>3, AppendedStep
<1> QED BY <1>3, <1>4, <1>5 DEF Noted

\* What a publisher's step is to others: they keep their calls, their staging files and
\* their destinations.
LEMMA DoneKeeps ==
    ASSUME IndInv, NEW p \in Publisher, Done(p)
    PROVE  IndInv' /\ \A q \in Publisher : StaysUnlessReplaced(q)
<1>1. /\ TypeOK /\ FoldedTrue /\ CallsApart /\ TokensTell /\ FilesBelong /\ CallsStand
      /\ DestinationsStand /\ OnRecord
  BY DEF IndInv
<1>2. Ready(p) BY IsReady DEF Done
<1>3. PICK there, call, file, place :
        Outcome(p, there, call, file, place) /\ Allowed(p, there, call, file, place) /\ Noted(p, there)
  BY DEF Done
<1>4. /\ put[p] \in Call /\ put[p].token \in Token /\ T(p) \in Target /\ put[p].version \in Version
      /\ T(p) = put[p].target
  BY <1>2 DEF Ready, Call, T
<1>5. /\ pc'[p] = there /\ put'[p] = call /\ pc' \in [Publisher -> Where] /\ put' \in [Publisher -> Call]
      /\ \A q \in Publisher : q # p => pc'[q] = pc[q] /\ put'[q] = put[q]
  BY <1>2, <1>3 DEF Ready, Outcome, Allowed
<1>6. /\ staged' \in [Token -> Content \cup {Absent}] /\ staged'[put[p].token] = file
      /\ \A k \in Token : k # put[p].token => staged'[k] = staged[k]
  BY <1>2, <1>3, <1>4 DEF Ready, Outcome, Allowed
<1>7. /\ dest' \in [Target -> Content \cup {Absent}] /\ dest'[T(p)] = place
      /\ \A t \in Target : t # T(p) => dest'[t] = dest[t]
  BY <1>2, <1>3, <1>4 DEF Ready, Outcome, Allowed
<1>8. /\ server' = server /\ source' = source /\ used' = used /\ calls' = calls /\ sweep' = sweep
      /\ todo' = todo /\ sweeps' = sweeps /\ crashes' = crashes /\ scene' = scene
      /\ had' \in {had, had \cup {T(p)}} /\ Busy(p)
  BY DEF Done, Shared, drawn, sweeper
<1>9. /\ JournalTypeOK' /\ FoldedTrue' /\ torn' \in Nat
      /\ torn' = 0 => torn = 0 /\ tail' = <<>>
      /\ \A t \in Target, k \in Token, v \in Version :
            OnFile(t, k, v)' => \/ OnFile(t, k, v)
                                \/ t = T(p) /\ k = put[p].token /\ v = put[p].version
      /\ torn' = 0 => \A t \in Target : t # T(p) => FoldedLog'[t] = FoldedLog[t]
      /\ torn' = 0 /\ there \in Named =>
            FoldedLog'[T(p)] = [staged |-> put[p].token, version |-> put[p].version]
  BY <1>2, <1>3, NotedStep
<1>10. /\ Holds(file, T(p), put[p].version) /\ (place # Absent => Standing(place))
       /\ (put[p].strict /\ dest[T(p)] # Absent => place # Absent)
       /\ there # "idle" =>
             /\ call.target = T(p) /\ call.token = put[p].token /\ call.version = put[p].version
             /\ Filling(there, call, file) /\ Replacing(there, call, file, place)
  BY <1>3 DEF Allowed
<1>11. \A q \in Publisher : q # p /\ Busy(q) => T(q) # T(p) /\ put[q].token # put[p].token
  BY <1>1, <1>8 DEF CallsApart
<1>12. \A q \in Publisher : Busy(q) => T(q) \in Target /\ put[q].token \in Token
  BY <1>1 DEF TypeOK, CallsApart, Call, T
<1>13. \A q \in Publisher : pc'[q] # "idle" =>
         /\ pc[q] # "idle" /\ put'[q].target = put[q].target
         /\ put'[q].token = put[q].token /\ put'[q].version = put[q].version
  BY <1>4, <1>5, <1>8, <1>10 DEF Busy, T
<1>14. TypeOK'
  <2>1. had' \subseteq Target BY <1>1, <1>4, <1>8 DEF TypeOK
  <2> QED BY <1>1, <1>5, <1>6, <1>7, <1>8, <1>9, <2>1 DEF TypeOK, Where
<1>15. CallsApart'
  <2>1. \A q \in Publisher : Busy(q)' => put'[q].token \in Token /\ put'[q].token <= used'
    BY <1>1, <1>8, <1>13 DEF CallsApart, Busy, T
  <2>2. \A q, r \in Publisher : q # r /\ Busy(q)' /\ Busy(r)' =>
          T(q)' # T(r)' /\ put'[q].token # put'[r].token
    BY <1>1, <1>13 DEF CallsApart, Busy, T
  <2>3. sweep' = "idle" BY <1>1, <1>8 DEF CallsApart
  <2> QED BY <2>1, <2>2, <2>3 DEF CallsApart
<1>16. TokensTell'
  <2>1. \A t \in Target, k \in Token, v \in Version : OnFile(t, k, v)' => k <= used'
    BY <1>1, <1>8, <1>9 DEF TokensTell, CallsApart
  <2>2. \A t \in Target, v \in Version : OnFile(t, put[p].token, v) => t = T(p) /\ v = put[p].version
    BY <1>1, <1>8 DEF TokensTell
  <2>3. \A t, u \in Target, k \in Token, v, w \in Version :
          OnFile(t, k, v)' /\ OnFile(u, k, w)' => t = u /\ v = w
    BY <1>1, <1>9, <2>2 DEF TokensTell
  <2>4. ASSUME NEW q \in Publisher, NEW t \in Target, NEW v \in Version,
               Busy(q)', OnFile(t, put[q].token, v)'
        PROVE  t = T(q)' /\ v = put'[q].version
    BY <1>1, <1>9, <1>11, <1>12, <1>13, <2>2, <2>4 DEF TokensTell, Busy, T
  <2> QED BY <2>1, <2>3, <2>4 DEF TokensTell
<1>17. FilesBelong'
  <2>1. \A k \in Token : k > used' => staged'[k] = Absent
    <3>1. ~(put[p].token > used)
      <4>1. put[p].token <= used /\ put[p].token \in Nat /\ used \in Nat
        BY <1>1, <1>4, <1>8, PublishAssumption DEF CallsApart, TypeOK
      <4> QED BY <4>1
    <3> QED BY <1>1, <1>6, <1>8, <3>1 DEF FilesBelong
  <2>2. \A k \in Token : staged'[k] # Absent => \E v \in Version : staged'[k].from \subseteq {v}
    BY <1>1, <1>4, <1>6, <1>10 DEF FilesBelong, Holds
  <2>3. ASSUME NEW t \in Target, NEW k \in Token, NEW v \in Version, OnFile(t, k, v)'
        PROVE  Holds(staged'[k], t, v)
    <3>1. CASE k = put[p].token
      <4>1. t = T(p) /\ v = put[p].version BY <1>1, <1>8, <1>9, <2>3, <3>1 DEF TokensTell
      <4> QED BY <1>6, <1>10, <3>1, <4>1
    <3>2. CASE k # put[p].token
      <4>1. OnFile(t, k, v) BY <1>9, <2>3, <3>2
      <4>2. Holds(staged[k], t, v) BY <1>1, <4>1 DEF FilesBelong
      <4> QED BY <1>6, <3>2, <4>2
    <3> QED BY <3>1, <3>2
  <2> QED BY <2>1, <2>2, <2>3 DEF FilesBelong
<1>18. CallsStand'
  <2> SUFFICES ASSUME NEW q \in Publisher, Busy(q)'
               PROVE  /\ Filling(pc'[q], put'[q], File(q)')
                      /\ Replacing(pc'[q], put'[q], File(q)', dest'[T(q)'])
    BY DEF CallsStand
  <2>1. Busy(q) /\ T(q)' = T(q) /\ put'[q].token = put[q].token BY <1>13 DEF Busy, T
  <2>2. CASE q = p
    <3>1. there # "idle" BY <1>5, <2>2 DEF Busy
    <3>2. File(p)' = file BY <1>5, <1>6, <2>1, <2>2 DEF File
    <3>3. dest'[T(p)'] = place BY <1>7, <2>1, <2>2
    <3> QED BY <1>5, <1>10, <2>2, <3>1, <3>2, <3>3
  <2>3. CASE q # p
    <3>1. File(q)' = File(q) BY <1>5, <1>6, <1>11, <1>12, <2>1, <2>3 DEF File
    <3>2. dest'[T(q)'] = dest[T(q)] BY <1>7, <1>11, <1>12, <2>1, <2>3
    <3>3. Filling(pc[q], put[q], File(q)) /\ Replacing(pc[q], put[q], File(q), dest[T(q)])
      BY <1>1, <2>1 DEF CallsStand
    <3> QED BY <1>5, <2>3, <3>1, <3>2, <3>3
  <2> QED BY <2>2, <2>3
<1>19. DestinationsStand'
  BY <1>1, <1>7, <1>10 DEF DestinationsStand
<1>20. OnRecord'
  <2>1. torn' = 0 => tail' = <<>> BY <1>9
  <2>2. ASSUME torn' = 0, NEW q \in Publisher, pc'[q] \in Named
        PROVE  FoldedLog'[T(q)'] = [staged |-> put'[q].token, version |-> put'[q].version]
    <3>1. Busy(q)' BY <2>2 DEF Busy, Named
    <3>2. Busy(q) /\ T(q)' = T(q) /\ put'[q].token = put[q].token /\ put'[q].version = put[q].version
      BY <1>13, <3>1 DEF Busy, T
    <3>3. CASE q = p BY <1>5, <1>9, <2>2, <3>2, <3>3
    <3>4. CASE q # p
      <4>1. FoldedLog'[T(q)] = FoldedLog[T(q)] BY <1>9, <1>11, <1>12, <2>2, <3>2, <3>4
      <4>2. FoldedLog[T(q)] = [staged |-> put[q].token, version |-> put[q].version]
        BY <1>1, <1>5, <1>9, <2>2, <3>4 DEF OnRecord, StagingIsOnRecord, Named
      <4> QED BY <3>2, <4>1, <4>2
    <3> QED BY <3>3, <3>4
  <2>3. StagingIsOnRecord' BY <2>2 DEF StagingIsOnRecord, Named
  <2> QED BY <2>1, <2>3 DEF OnRecord
<1>21. ASSUME NEW q \in Publisher PROVE StaysUnlessReplaced(q)
  <2>1. CASE q = p BY <1>7, <1>10, <2>1 DEF StaysUnlessReplaced
  <2>2. CASE q # p BY <1>7, <1>11, <1>12, <2>2 DEF StaysUnlessReplaced
  <2> QED BY <2>1, <2>2
<1> QED BY <1>9, <1>14, <1>15, <1>16, <1>17, <1>18, <1>19, <1>20, <1>21 DEF IndInv

-------------------------------------------------------------------------------
(* Sweeps and crashes *)

\* While no call is running, removing files and records keeps everything as it should be.
LEMMA QuietKeeps ==
    ASSUME IndInv, pc' \in [Publisher -> {"idle"}], put' \in [Publisher -> Call],
           UNCHANGED <<scene, server, dest, had, source, drawn>>,
           staged' \in [Token -> Content \cup {Absent}],
           \A k \in Token : staged'[k] = staged[k] \/ staged'[k] = Absent,
           JournalTypeOK', FoldedTrue', torn' \in Nat, torn' = 0 => tail' = <<>>,
           \A t \in Target, k \in Token, v \in Version : OnFile(t, k, v)' => OnFile(t, k, v),
           sweep' \in {"idle", "removing", "clearing"}, todo' \in Seq([target : Target, staged : Token]),
           sweep' = "clearing" => todo' # <<>>, sweeps' \in Nat, crashes' \in Nat
    PROVE  IndInv'
<1>1. /\ TypeOK /\ TokensTell /\ FilesBelong /\ DestinationsStand
      /\ used' = used /\ calls' = calls /\ dest' = dest /\ scene' = scene /\ server' = server
      /\ had' = had /\ source' = source
  BY DEF IndInv, drawn
<1>2. \A p \in Publisher : pc'[p] = "idle" OBVIOUS
<1>3. TypeOK'
  <2>1. pc' \in [Publisher -> Where] BY DEF Where
  <2> QED BY <1>1, <2>1 DEF TypeOK, Where
<1>4. CallsApart' BY <1>2 DEF CallsApart, Busy
<1>5. TokensTell' BY <1>1, <1>2 DEF TokensTell, Busy
<1>6. FilesBelong'
  <2>1. \A k \in Token : k > used' => staged'[k] = Absent BY <1>1 DEF FilesBelong
  <2>2. \A k \in Token : staged'[k] # Absent => \E v \in Version : staged'[k].from \subseteq {v}
    BY <1>1 DEF FilesBelong
  <2>3. \A t \in Target, k \in Token, v \in Version : OnFile(t, k, v)' => Holds(staged'[k], t, v)
    BY <1>1 DEF FilesBelong, Holds
  <2> QED BY <2>1, <2>2, <2>3 DEF FilesBelong
<1>7. CallsStand' BY <1>2 DEF CallsStand, Busy
<1>8. DestinationsStand' BY <1>1 DEF DestinationsStand
<1>9. OnRecord' BY <1>2 DEF OnRecord, StagingIsOnRecord
<1> QED BY <1>3, <1>4, <1>5, <1>6, <1>7, <1>8, <1>9 DEF IndInv

\* discard_staged, one step of it.
LEMMA SweepKeeps ==
    ASSUME IndInv, StartSweep \/ SweepRemove \/ SweepClear \/ SweepCompact \/ SweepFails,
           UNCHANGED scene
    PROVE  IndInv' /\ UNCHANGED <<dest, pc, put>>
<1>1. /\ TypeOK /\ JournalTypeOK /\ FoldedTrue /\ CallsApart /\ OnRecord /\ torn \in Nat
      /\ (torn = 0 => tail = <<>>) /\ sweeps \in Nat /\ crashes \in Nat
      /\ todo \in Seq([target : Target, staged : Token])
      /\ staged \in [Token -> Content \cup {Absent}] /\ put \in [Publisher -> Call]
  BY DEF IndInv, TypeOK, OnRecord
<1>2. UNCHANGED pc /\ (\A p \in Publisher : ~Busy(p)) => pc' \in [Publisher -> {"idle"}]
  BY <1>1 DEF TypeOK, Busy
<1>3. sweep # "idle" => \A p \in Publisher : ~Busy(p) BY <1>1 DEF CallsApart
<1>4. UNCHANGED <<journalVars, torn>> =>
        /\ JournalTypeOK' /\ FoldedTrue' /\ torn' \in Nat /\ (torn' = 0 => tail' = <<>>)
        /\ \A t \in Target, k \in Token, v \in Version : OnFile(t, k, v)' => OnFile(t, k, v)
  <2> SUFFICES ASSUME UNCHANGED <<journalVars, torn>>
               PROVE  /\ JournalTypeOK' /\ FoldedTrue' /\ torn' \in Nat /\ (torn' = 0 => tail' = <<>>)
                      /\ \A t \in Target, k \in Token, v \in Version : OnFile(t, k, v)' => OnFile(t, k, v)
    OBVIOUS
  <2>1. log' = log /\ tail' = tail /\ inode' = inode /\ folded' = folded /\ torn' = torn
    BY DEF journalVars
  <2>2. JournalTypeOK' BY <1>1, <2>1 DEF JournalTypeOK
  <2>3. FoldedTrue' BY <1>1, <2>1 DEF FoldedTrue
  <2>4. \A t \in Target, k \in Token, v \in Version : OnFile(t, k, v)' => OnFile(t, k, v)
    BY <2>1 DEF OnFile
  <2> QED BY <1>1, <2>1, <2>2, <2>3, <2>4
<1>5. <<>> \in Seq([target : Target, staged : Token]) OBVIOUS
<1>6. ASSUME todo # <<>>
      PROVE  /\ Head(todo).target \in Target /\ Head(todo).staged \in Token
             /\ Tail(todo) \in Seq([target : Target, staged : Token])
  <2> DEFINE Item == [target : Target, staged : Token]
  <2>1. \A item \in Item : item.target \in Target /\ item.staged \in Token OBVIOUS
  <2>2. todo \in Seq(Item) BY <1>1
  <2> HIDE DEF Item
  <2>3. Head(todo) \in Item /\ Tail(todo) \in Seq(Item) BY <1>6, <2>2, HeadTailProperties
  <2>4. Head(todo).target \in Target /\ Head(todo).staged \in Token BY <2>1, <2>3
  <2> QED BY <2>3, <2>4 DEF Item
<1>7. ASSUME staged' = [staged EXCEPT ![Head(todo).staged] = Absent]
      PROVE  /\ staged' \in [Token -> Content \cup {Absent}]
             /\ \A k \in Token : staged'[k] = staged[k] \/ staged'[k] = Absent
  BY <1>1, <1>7
<1>8. CASE StartSweep
  <2>1. /\ \A p \in Publisher : ~Busy(p)
        /\ sweep' = "removing" /\ sweeps' = sweeps + 1
        /\ todo' = SetToSeq({EntryOf(t) : t \in Survivors})
        /\ UNCHANGED <<journalVars, server, remote, source, drawn, pc, put, torn, crashes>>
    BY <1>8 DEF StartSweep
  <2>2. todo' \in Seq([target : Target, staged : Token])
    <3> DEFINE S == {EntryOf(t) : t \in Survivors}
    <3>1. log \in Seq(Line) /\ tail \in Seq(Line) BY <1>1 DEF JournalTypeOK
    <3>2. log \o tail \in Seq(Line) BY <3>1
    <3>3. IsFiniteSet(Survivors) BY <3>2, SurvivorsFinite
    <3>4. IsFiniteSet(S)
      <4> DEFINE Of == [t \in Survivors |-> EntryOf(t)]
      <4>1. Of \in Surjection(Survivors, S) BY DEF Surjection
      <4> HIDE DEF S, Of
      <4> QED BY <3>3, <4>1, FS_Surjection
    <3>5. FoldedLog \in InFlight BY <3>2, NothingType, ApplyType DEF FoldedLog, Fold
    <3>6. \A t \in Survivors : EntryOf(t) \in [target : Target, staged : Token]
      BY <3>5 DEF Survivors, EntryOf, InFlight, Entry
    <3>7. S \subseteq [target : Target, staged : Token] BY <3>6
    <3>8. todo' = SetToSeq(S) BY <2>1
    <3> HIDE DEF S
    <3>9. todo' \in Seq(S) BY <3>4, <3>8, InSomeOrder
    <3> QED BY <3>7, <3>9, SeqMonotonic
  <2>3. UNCHANGED <<dest, had, staged>> BY <2>1 DEF remote
  <2> QED BY <1>1, <1>2, <1>4, <2>1, <2>2, <2>3, QuietKeeps
<1>9. CASE SweepRemove
  <2>1. /\ sweep = "removing" /\ todo # <<>> /\ sweep' = "clearing"
        /\ staged' = [staged EXCEPT ![Head(todo).staged] = Absent]
        /\ UNCHANGED <<journalVars, server, dest, had, source, drawn, pc, put, todo, sweeps,
                       torn, crashes>>
    BY <1>9 DEF SweepRemove
  <2> QED BY <1>1, <1>2, <1>3, <1>4, <1>7, <2>1, QuietKeeps
<1>10. CASE SweepClear
  <2>1. /\ sweep = "clearing" /\ sweep' = "removing" /\ todo' = Tail(todo)
        /\ Appended(PublishedRecord(Head(todo).target))
        /\ UNCHANGED <<inode, folded, server, remote, source, drawn, pc, put, sweeps, crashes>>
    BY <1>10 DEF SweepClear
  <2>2. todo # <<>> BY <1>1, <2>1 DEF CallsApart
  <2>3. UNCHANGED <<dest, had, staged>> BY <2>1 DEF remote
  <2>4. /\ JournalTypeOK' /\ FoldedTrue' /\ torn' \in Nat /\ (torn' = 0 => tail' = <<>>)
        /\ \A t \in Target, k \in Token, v \in Version : OnFile(t, k, v)' => OnFile(t, k, v)
    BY <1>1, <1>6, <2>1, <2>2, PublishedType, AppendedStep
  <2> QED BY <1>1, <1>2, <1>3, <1>6, <2>1, <2>2, <2>3, <2>4, QuietKeeps
<1>11. CASE SweepCompact
  <2>1. /\ sweep = "removing" /\ sweep' = "idle" /\ Compact /\ tail' = <<>>
        /\ UNCHANGED <<server, remote, source, drawn, pc, put, todo, sweeps, torn, crashes>>
    BY <1>11 DEF SweepCompact, Compact
  <2>2. UNCHANGED <<dest, had, staged>> BY <2>1 DEF remote
  <2>3. /\ JournalTypeOK' /\ FoldedTrue'
        /\ \A t, k, v : OnFile(t, k, v)' => \E u \in Survivors :
              t = u /\ k = FoldedLog[u].staged /\ v = FoldedLog[u].version
    BY <1>1, <2>1, CompactStep
  <2>4. ASSUME NEW u \in Survivors PROVE OnFile(u, FoldedLog[u].staged, FoldedLog[u].version)
    <3>1. u \in Target /\ FoldedLog[u] # NoEntry BY DEF Survivors
    <3>2. Says(u) = FoldedLog[u] BY <1>1, <3>1, LookupFresh DEF LookupIsFresh
    <3>3. OnFile(u, Says(u).staged, Says(u).version) BY <1>1, <3>1, <3>2, SaysOnFile
    <3> QED BY <3>2, <3>3
  <2>5. \A t \in Target, k \in Token, v \in Version : OnFile(t, k, v)' => OnFile(t, k, v)
    BY <2>3, <2>4
  <2> QED BY <1>1, <1>2, <1>3, <2>1, <2>2, <2>3, <2>5, QuietKeeps
<1>12. CASE SweepFails
  <2>1. /\ sweep # "idle" /\ sweep' = "idle" /\ todo' = <<>>
        /\ \/ UNCHANGED staged
           \/ staged' = [staged EXCEPT ![Head(todo).staged] = Absent]
        /\ UNCHANGED <<journalVars, server, dest, had, source, drawn, pc, put, sweeps, torn,
                       crashes>>
    BY <1>12 DEF SweepFails
  <2>2. /\ staged' \in [Token -> Content \cup {Absent}]
        /\ \A k \in Token : staged'[k] = staged[k] \/ staged'[k] = Absent
    BY <1>1, <1>7, <2>1
  <2> QED BY <1>1, <1>2, <1>3, <1>4, <1>5, <2>1, <2>2, QuietKeeps
<1> QED BY <1>8, <1>9, <1>10, <1>11, <1>12

-------------------------------------------------------------------------------
(* A call begins *)

\* The token it is given is its own, and tells of nothing but its own file.
LEMMA TokenGiven ==
    ASSUME IndInv, NEW p \in Publisher, NEW t \in Target, NEW resume \in BOOLEAN,
           NEW strict \in BOOLEAN, Begin(p, t, resume, strict), NEW token,
           token = IF Continuing(t, resume) THEN Says(t).staged ELSE used'
    PROVE  /\ token \in Token /\ token <= used' /\ used <= used' /\ used' \in Nat
           /\ \A q \in Publisher : Busy(q) => put[q].token # token
           /\ \A u \in Target, v \in Version : OnFile(u, token, v) => u = t /\ v = source[t]
           /\ Holds(staged[token], t, source[t])
<1>1. /\ JournalTypeOK /\ FoldedTrue /\ CallsApart /\ TokensTell /\ FilesBelong /\ used \in Nat
      /\ source[t] \in Version
  BY DEF IndInv, TypeOK
<1>2. /\ used' = IF Continuing(t, resume) THEN used ELSE used + 1
      /\ used' \in Token \cup {0} /\ ~Publishing(t)
  BY DEF Begin
<1>3. CASE Continuing(t, resume)
  <2>1. Says(t) # NoEntry /\ Says(t).version = source[t] BY <1>3 DEF Continuing, Matches
  <2>2. Says(t) \in Entry /\ OnFile(t, Says(t).staged, Says(t).version) BY <1>1, <2>1, SaysOnFile
  <2>3. token = Says(t).staged /\ used' = used BY <1>2, <1>3
  <2>4. token \in Token /\ OnFile(t, token, source[t]) BY <2>1, <2>2, <2>3 DEF Entry
  <2>5. token <= used BY <1>1, <2>4 DEF TokensTell
  <2>6. ASSUME NEW q \in Publisher, Busy(q) PROVE put[q].token # token
    <3>1. T(q) # t BY <1>2, <2>6 DEF Publishing, T
    <3> QED BY <1>1, <2>4, <2>6, <3>1 DEF TokensTell
  <2>7. \A u \in Target, v \in Version : OnFile(u, token, v) => u = t /\ v = source[t]
    BY <1>1, <2>4 DEF TokensTell
  <2>8. Holds(staged[token], t, source[t]) BY <1>1, <2>4 DEF FilesBelong
  <2> QED BY <1>1, <2>3, <2>4, <2>5, <2>6, <2>7, <2>8
<1>4. CASE ~Continuing(t, resume)
  <2>1. token = used + 1 /\ used' = used + 1 /\ token \in Token
    BY <1>1, <1>2, <1>4
  <2>2. token > used /\ \A k : k <= used => k # token BY <1>1, <2>1
  <2>3. \A q \in Publisher : Busy(q) => put[q].token # token BY <1>1, <2>2 DEF CallsApart
  <2>4. \A u \in Target, v \in Version : ~OnFile(u, token, v) BY <1>1, <2>1, <2>2 DEF TokensTell
  <2>5. staged[token] = Absent BY <1>1, <2>1, <2>2 DEF FilesBelong
  <2> QED BY <1>1, <2>1, <2>3, <2>4, <2>5 DEF Holds
<1> QED BY <1>3, <1>4

LEMMA BeginKeeps ==
    ASSUME IndInv, NEW p \in Publisher, NEW t \in Target, NEW resume \in BOOLEAN,
           NEW strict \in BOOLEAN, Begin(p, t, resume, strict), UNCHANGED scene
    PROVE  IndInv' /\ dest' = dest /\ \A q \in Publisher : StaysUnlessReplaced(q)
<1>1. /\ TypeOK /\ JournalTypeOK /\ FoldedTrue /\ CallsApart /\ TokensTell /\ FilesBelong
      /\ CallsStand /\ DestinationsStand /\ OnRecord /\ source[t] \in Version
      /\ put \in [Publisher -> Call] /\ pc \in [Publisher -> Where] /\ calls \in Nat
  BY DEF IndInv, TypeOK, Where
<1>2. PICK token : token = IF Continuing(t, resume) THEN Says(t).staged ELSE used' OBVIOUS
<1> DEFINE call == [NoCall EXCEPT !.target = t, !.version = source[t], !.resume = resume,
                                  !.strict = strict, !.token = token]
           there == IF strict /\ server # "advertised" THEN "refusing" ELSE "recording"
<1>3. /\ ~Busy(p) /\ ~Publishing(t) /\ sweep = "idle" /\ calls' = calls + 1
      /\ put' = [put EXCEPT ![p] = call] /\ pc' = [pc EXCEPT ![p] = there]
      /\ folded' = Refolded \/ folded' = folded
  BY <1>2 DEF Begin
<1>4. /\ log' = log /\ tail' = tail /\ inode' = inode /\ server' = server /\ dest' = dest
      /\ staged' = staged /\ had' = had /\ source' = source /\ sweep' = sweep /\ todo' = todo
      /\ sweeps' = sweeps /\ torn' = torn /\ crashes' = crashes /\ scene' = scene
  BY DEF Begin, remote, sweeper
<1>5. /\ token \in Token /\ token <= used' /\ used <= used' /\ used' \in Nat
      /\ \A q \in Publisher : Busy(q) => put[q].token # token
      /\ \A u \in Target, v \in Version : OnFile(u, token, v) => u = t /\ v = source[t]
      /\ Holds(staged[token], t, source[t])
  BY <1>2, TokenGiven
<1>6. /\ call \in Call /\ call.target = t /\ call.version = source[t] /\ call.token = token
      /\ call.unlinks = FALSE
  BY <1>1, <1>5, NoCallType DEF NoCall, Call
<1>7. there \in {"refusing", "recording"} OBVIOUS
<1> HIDE DEF call, there
<1>8. /\ pc'[p] = there /\ put'[p] = call /\ pc' \in [Publisher -> Where] /\ put' \in [Publisher -> Call]
      /\ \A q \in Publisher : q # p => pc'[q] = pc[q] /\ put'[q] = put[q]
  BY <1>1, <1>3, <1>6, <1>7 DEF Where
<1>9. JournalTypeOK' /\ FoldedTrue'
  <2>1. CASE folded' = Refolded BY <1>1, <1>4, <2>1, RefoldStep
  <2>2. CASE folded' = folded
    <3>1. JournalTypeOK' BY <1>1, <1>4, <2>2 DEF JournalTypeOK
    <3>2. FoldedTrue' BY <1>1, <1>4, <2>2 DEF FoldedTrue
    <3> QED BY <3>1, <3>2
  <2> QED BY <1>3, <2>1, <2>2
<1>10. \A u \in Target, k \in Token, v \in Version : OnFile(u, k, v)' = OnFile(u, k, v)
  BY <1>4 DEF OnFile
<1>11. \A q \in Publisher : q # p /\ pc[q] # "idle" => put[q].target # t
  BY <1>3 DEF Publishing, Busy
<1>12. TypeOK'
  <2>1. calls' \in Nat BY <1>1, <1>3
  <2> QED BY <1>1, <1>4, <1>5, <1>8, <1>9, <2>1 DEF TypeOK, Where
<1>13. used \in Nat /\ \A k \in Token : k \in Nat BY <1>1, PublishAssumption DEF TypeOK
<1>14. CallsApart'
  <2>1. ASSUME NEW q \in Publisher, pc'[q] # "idle"
        PROVE  put'[q].token \in Token /\ put'[q].token <= used'
    <3>1. CASE q = p BY <1>5, <1>6, <1>8, <3>1
    <3>2. CASE q # p
      <4>1. put[q].token \in Token /\ put[q].token <= used
        BY <1>1, <1>8, <2>1, <3>2 DEF CallsApart, Busy
      <4>2. put[q].token <= used' BY <1>5, <1>13, <4>1
      <4> QED BY <1>8, <3>2, <4>1, <4>2
    <3> QED BY <3>1, <3>2
  <2>2. \A q, r \in Publisher : q # r /\ pc'[q] # "idle" /\ pc'[r] # "idle" =>
          put'[q].target # put'[r].target /\ put'[q].token # put'[r].token
    BY <1>1, <1>5, <1>6, <1>8, <1>11 DEF CallsApart, Busy, T
  <2>3. sweep' = "idle" BY <1>3, <1>4
  <2> QED BY <2>1, <2>2, <2>3 DEF CallsApart, Busy, T
<1>15. TokensTell'
  <2>1. ASSUME NEW u \in Target, NEW k \in Token, NEW v \in Version, OnFile(u, k, v)
        PROVE  k <= used'
    <3>1. k <= used BY <1>1, <2>1 DEF TokensTell
    <3> QED BY <1>5, <1>13, <3>1
  <2>2. ASSUME NEW q \in Publisher, NEW u \in Target, NEW v \in Version, pc'[q] # "idle",
               OnFile(u, put'[q].token, v)
        PROVE  u = put'[q].target /\ v = put'[q].version
    <3>1. CASE q = p BY <1>5, <1>6, <1>8, <2>2, <3>1
    <3>2. CASE q # p BY <1>1, <1>8, <2>2, <3>2 DEF TokensTell, Busy, T
    <3> QED BY <3>1, <3>2
  <2>3. \A u, w \in Target, k \in Token, v, x \in Version :
          OnFile(u, k, v) /\ OnFile(w, k, x) => u = w /\ v = x
    BY <1>1 DEF TokensTell
  <2>4. \A q \in Publisher : pc'[q] # "idle" => put'[q].token \in Token
    BY <1>14 DEF CallsApart, Busy
  <2> QED BY <1>10, <2>1, <2>2, <2>3, <2>4 DEF TokensTell, Busy, T
<1>16. FilesBelong'
  <2>1. ASSUME NEW k \in Token, k > used' PROVE staged[k] = Absent
    <3>1. k > used BY <1>5, <1>13, <2>1
    <3> QED BY <1>1, <3>1 DEF FilesBelong
  <2>2. /\ \A k \in Token : staged[k] # Absent => \E v \in Version : staged[k].from \subseteq {v}
        /\ \A u \in Target, k \in Token, v \in Version : OnFile(u, k, v) => Holds(staged[k], u, v)
    BY <1>1 DEF FilesBelong
  <2> QED BY <1>4, <1>10, <2>1, <2>2 DEF FilesBelong
<1>17. CallsStand'
  <2> SUFFICES ASSUME NEW q \in Publisher, pc'[q] # "idle"
               PROVE  /\ Filling(pc'[q], put'[q], staged[put'[q].token])
                      /\ Replacing(pc'[q], put'[q], staged[put'[q].token], dest[put'[q].target])
    BY <1>4 DEF CallsStand, Busy, File, T
  <2>1. CASE q = p
    <3>1. Filling(there, call, staged[token]) BY <1>5, <1>6, <1>7 DEF Filling
    <3>2. Replacing(there, call, staged[token], dest[t]) BY <1>6, <1>7 DEF Replacing
    <3> QED BY <1>6, <1>8, <2>1, <3>1, <3>2
  <2>2. CASE q # p BY <1>1, <1>8, <2>2 DEF CallsStand, Busy, File, T
  <2> QED BY <2>1, <2>2
<1>18. DestinationsStand' BY <1>1, <1>4 DEF DestinationsStand
<1>19. OnRecord'
  <2>1. FoldedLog' = FoldedLog BY <1>4 DEF FoldedLog, Fold, Apply, About
  <2>2. ASSUME torn' = 0, NEW q \in Publisher, pc'[q] \in Named
        PROVE  FoldedLog[put'[q].target] = [staged |-> put'[q].token, version |-> put'[q].version]
    <3>1. q # p /\ pc[q] \in Named /\ put'[q] = put[q] BY <1>7, <1>8, <2>2 DEF Named
    <3> QED BY <1>1, <1>4, <2>2, <3>1 DEF OnRecord, StagingIsOnRecord, Named, T
  <2>3. StagingIsOnRecord' BY <2>1, <2>2 DEF StagingIsOnRecord, Named, T
  <2> QED BY <1>1, <1>4, <2>3 DEF OnRecord
<1>20. \A q \in Publisher : StaysUnlessReplaced(q) BY <1>4 DEF StaysUnlessReplaced
<1> QED BY <1>4, <1>9, <1>12, <1>14, <1>15, <1>16, <1>17, <1>18, <1>19, <1>20 DEF IndInv

-------------------------------------------------------------------------------
(* Every step *)

LEMMA InitInd == Init => IndInv
<1> SUFFICES ASSUME Init PROVE IndInv OBVIOUS
<1>1. /\ log = <<>> /\ tail = <<>> /\ inode = 1 /\ folded = Unfolded
      /\ scene \in Scenes /\ server \in scene.renames
      /\ dest \in {[t \in Target |-> Absent], [t \in Target |-> Old(t)]}
      /\ had = {t \in Target : dest[t] # Absent}
      /\ staged = [k \in Token |-> Absent] /\ source = [t \in Target |-> 1]
      /\ used = 0 /\ calls = 0 /\ pc = [p \in Publisher |-> "idle"]
      /\ put = [p \in Publisher |-> NoCall] /\ sweep = "idle" /\ todo = <<>>
      /\ sweeps = 0 /\ torn = 0 /\ crashes = 0
  BY DEF Init, JournalInit
<1>2. \A t \in Target : Old(t) \in Content /\ Standing(Old(t))
  BY DEF Old, Empty, Content, Standing
<1>3. /\ dest \in [Target -> Content \cup {Absent}]
      /\ \A t \in Target : dest[t] # Absent => Standing(dest[t])
  BY <1>1, <1>2
<1>4. JournalTypeOK
  <2>1. <<>> \in Seq(Line) /\ Len(<<>>) = 0 OBVIOUS
  <2> QED BY <1>1, <2>1, NothingType DEF JournalTypeOK, Unfolded
<1>5. FoldedTrue BY <1>1 DEF FoldedTrue, Unfolded
<1>6. TypeOK
  <2>1. <<>> \in Seq([target : Target, staged : Token]) OBVIOUS
  <2>2. put \in [Publisher -> Call] BY <1>1, NoCallType
  <2>3. source \in [Target -> Version] BY <1>1, PublishAssumption
  <2> QED BY <1>1, <1>3, <1>4, <2>1, <2>2, <2>3 DEF TypeOK
<1>7. \A p \in Publisher : ~Busy(p) /\ pc[p] \notin Named BY <1>1 DEF Busy, Named
<1>8. \A t, k, v : ~OnFile(t, k, v)
  <2>1. DOMAIN log = {} /\ DOMAIN tail = {} BY <1>1
  <2> QED BY <2>1 DEF OnFile
<1>9. CallsApart BY <1>1, <1>7 DEF CallsApart
<1>10. TokensTell BY <1>8 DEF TokensTell
<1>11. FilesBelong BY <1>1, <1>8 DEF FilesBelong
<1>12. CallsStand BY <1>7 DEF CallsStand
<1>13. DestinationsStand BY <1>3 DEF DestinationsStand
<1>14. OnRecord BY <1>1, <1>7 DEF OnRecord, StagingIsOnRecord, Named
<1> QED BY <1>5, <1>6, <1>9, <1>10, <1>11, <1>12, <1>13, <1>14 DEF IndInv

LEMMA CrashKeeps ==
    ASSUME IndInv, Crash, UNCHANGED scene
    PROVE  IndInv' /\ dest' = dest
<1>1. /\ pc' = [p \in Publisher |-> "idle"] /\ put' = [p \in Publisher |-> NoCall]
      /\ folded' = Unfolded /\ sweep' = "idle" /\ todo' = <<>> /\ crashes' = crashes + 1
      /\ UNCHANGED <<log, tail, inode, server, remote, source, drawn, sweeps, torn>>
  BY DEF Crash
<1>2. UNCHANGED <<dest, had, staged>> BY <1>1 DEF remote
<1>3. /\ JournalTypeOK /\ FoldedTrue /\ torn \in Nat /\ sweeps \in Nat /\ crashes \in Nat
      /\ (torn = 0 => tail = <<>>) /\ staged \in [Token -> Content \cup {Absent}]
  BY DEF IndInv, TypeOK, OnRecord
<1>4. JournalTypeOK' /\ FoldedTrue' BY <1>1, <1>3, ForgetStep
<1>5. \A t \in Target, k \in Token, v \in Version : OnFile(t, k, v)' => OnFile(t, k, v)
  BY <1>1 DEF OnFile
<1>6. <<>> \in Seq([target : Target, staged : Token]) OBVIOUS
<1>7. pc' \in [Publisher -> {"idle"}] /\ put' \in [Publisher -> Call] BY <1>1, NoCallType
<1> QED BY <1>1, <1>2, <1>3, <1>4, <1>5, <1>6, <1>7, QuietKeeps

\* A step that leaves everything alone but the sources.
LEMMA EditKeeps ==
    ASSUME IndInv, source' \in [Target -> Version],
           UNCHANGED <<journalVars, server, remote, drawn, pc, put, sweeper, torn, crashes, scene>>
    PROVE  IndInv' /\ dest' = dest
<1>1. /\ log' = log /\ tail' = tail /\ inode' = inode /\ folded' = folded /\ server' = server
      /\ dest' = dest /\ staged' = staged /\ had' = had /\ used' = used /\ calls' = calls
      /\ pc' = pc /\ put' = put /\ sweep' = sweep /\ todo' = todo /\ sweeps' = sweeps
      /\ torn' = torn /\ crashes' = crashes /\ scene' = scene
  BY DEF journalVars, remote, drawn, sweeper
<1>2. JournalTypeOK' BY <1>1 DEF IndInv, TypeOK, JournalTypeOK
<1>3. TypeOK' BY <1>1, <1>2 DEF IndInv, TypeOK
<1>4. FoldedTrue' BY <1>1 DEF IndInv, FoldedTrue
<1>5. CallsApart' BY <1>1 DEF IndInv, CallsApart, Busy, T
<1>6. \A t, k, v : OnFile(t, k, v)' = OnFile(t, k, v) BY <1>1 DEF OnFile
<1>7. TokensTell' BY <1>1, <1>6 DEF IndInv, TokensTell, Busy, T
<1>8. FilesBelong' BY <1>1, <1>6 DEF IndInv, FilesBelong
<1>9. CallsStand' BY <1>1 DEF IndInv, CallsStand, Busy, File, T
<1>10. DestinationsStand' BY <1>1 DEF IndInv, DestinationsStand
<1>11. OnRecord'
  <2>1. FoldedLog' = FoldedLog BY <1>1 DEF FoldedLog, Fold, Apply, About
  <2>2. StagingIsOnRecord' BY <1>1, <2>1 DEF IndInv, OnRecord, StagingIsOnRecord, T
  <2> QED BY <1>1, <2>2 DEF IndInv, OnRecord
<1> QED BY <1>1, <1>3, <1>4, <1>5, <1>7, <1>8, <1>9, <1>10, <1>11 DEF IndInv

LEMMA NextKeeps ==
    ASSUME IndInv, [Next]_vars
    PROVE  IndInv' /\ \A q \in Publisher : StaysUnlessReplaced(q)
<1>1. dest' = dest => \A q \in Publisher : StaysUnlessReplaced(q) BY DEF StaysUnlessReplaced
<1>2. CASE UNCHANGED vars
  <2>1. /\ source' = source
        /\ UNCHANGED <<journalVars, server, remote, drawn, pc, put, sweeper, torn, crashes, scene>>
    BY <1>2 DEF vars
  <2>2. source' \in [Target -> Version] BY <2>1 DEF IndInv, TypeOK
  <2> QED BY <1>1, <2>1, <2>2, EditKeeps
<1>3. ASSUME UNCHANGED scene, NEW p \in Publisher, NEW t \in Target, NEW resume \in BOOLEAN,
             NEW strict \in BOOLEAN, Begin(p, t, resume, strict)
      PROVE  IndInv' /\ \A q \in Publisher : StaysUnlessReplaced(q)
  BY <1>3, BeginKeeps
<1>4. ASSUME UNCHANGED scene, NEW p \in Publisher, PublisherStep(p)
      PROVE  IndInv' /\ \A q \in Publisher : StaysUnlessReplaced(q)
  BY <1>4, StepDone, DoneKeeps
<1>5. ASSUME UNCHANGED scene, StartSweep \/ SweepRemove \/ SweepClear \/ SweepCompact \/ SweepFails
      PROVE  IndInv' /\ \A q \in Publisher : StaysUnlessReplaced(q)
  BY <1>1, <1>5, SweepKeeps
<1>6. ASSUME UNCHANGED scene, Crash PROVE IndInv' /\ \A q \in Publisher : StaysUnlessReplaced(q)
  BY <1>1, <1>6, CrashKeeps
<1>7. ASSUME UNCHANGED scene, NEW t \in Target, Edit(t)
      PROVE  IndInv' /\ \A q \in Publisher : StaysUnlessReplaced(q)
  <2>1. /\ source[t] < scene.versions /\ source' = [source EXCEPT ![t] = source[t] + 1]
        /\ UNCHANGED <<journalVars, server, remote, drawn, pc, put, sweeper, torn, crashes>>
    BY <1>7 DEF Edit
  <2>2. source \in [Target -> Version] /\ scene \in Scenes BY DEF IndInv, TypeOK
  <2>3. scene.versions \in Version BY <2>2, ScenesAssumption DEF SceneOK
  <2>4. source[t] + 1 \in Version
    <3>1. source[t] \in Nat \ {0} /\ scene.versions \in Nat BY <2>2, <2>3, PublishAssumption
    <3>2. source[t] + 1 \in 1 .. scene.versions BY <2>1, <3>1
    <3> QED BY <2>3, <3>2, PublishAssumption
  <2>5. source' \in [Target -> Version] BY <2>1, <2>2, <2>4
  <2> QED BY <1>1, <1>7, <2>1, <2>5, EditKeeps
<1>8. CASE Next
  <2>1. AnyStep /\ UNCHANGED scene BY <1>8 DEF Next
  <2> QED BY <1>3, <1>4, <1>5, <1>6, <1>7, <2>1 DEF AnyStep
<1> QED BY <1>2, <1>8

LEMMA SpecInd == Spec => []IndInv
<1>1. IndInv /\ [Next]_vars => IndInv' BY NextKeeps
<1> QED BY InitInd, <1>1, PTL DEF Spec

-------------------------------------------------------------------------------
(* Theorems *)

\* Every variable has its type.
THEOREM PublishTypeCorrect == Spec => []TypeOK
<1>1. IndInv => TypeOK BY DEF IndInv
<1> QED BY SpecInd, <1>1, PTL

\* What stands at a destination has its full length, and no hole unless a partial nobody could
\* compare was gone on from, however often uploads were killed and resumed (_put_atomically).
THEOREM DestinationWhole == Spec => []DestinationIsWhole
<1>1. IndInv => DestinationIsWhole BY DEF IndInv, DestinationsStand, Standing, DestinationIsWhole
<1> QED BY SpecInd, <1>1, PTL

\* No file mixes two versions of its source (entry_matches): a token stands for one version of
\* one target, in the journal and in every call.
THEOREM NeverSpliced == Spec => []NothingSpliced
<1>1. ASSUME IndInv PROVE NothingSpliced
  <2>1. \A v : IsFiniteSet({v}) /\ Cardinality({v}) = 1 BY FS_Singleton
  <2>2. ASSUME NEW t \in Target, dest[t] # Absent PROVE Cardinality(dest[t].from) = 1
    <3>1. PICK v : dest[t].from = {v} BY <1>1, <2>2 DEF IndInv, DestinationsStand, Standing
    <3> QED BY <2>1, <3>1
  <2>3. ASSUME NEW k \in Token, staged[k] # Absent PROVE Cardinality(staged[k].from) <= 1
    <3>1. PICK v : staged[k].from \subseteq {v} BY <1>1, <2>3 DEF IndInv, FilesBelong
    <3>2. Cardinality(staged[k].from) <= Cardinality({v}) BY <2>1, <3>1, FS_Subset
    <3> QED BY <2>1, <3>2
  <2> QED BY <2>2, <2>3 DEF NothingSpliced
<1> QED BY SpecInd, <1>1, PTL

\* A put that returned published its own bytes and left nothing over (_put_atomically).
THEOREM ReturnedPublished == Spec => []ReturnedIsPublished
<1>1. ASSUME IndInv PROVE ReturnedIsPublished
  BY <1>1 DEF IndInv, CallsStand, Replacing, Busy, ReturnedIsPublished
<1> QED BY SpecInd, <1>1, PTL

\* The journal's records can be gone by: a lookup says what the file says, whatever was appended,
\* torn or compacted since, and every staging file a call is filling is on record.
THEOREM RecordsTrue == Spec => []RecordsAreTrue
<1>1. ASSUME IndInv PROVE RecordsAreTrue
  <2>1. TypeOK /\ JournalTypeOK /\ FoldedTrue /\ StagingIsOnRecord
    BY <1>1 DEF IndInv, TypeOK, OnRecord
  <2>2. LookupIsFresh BY <2>1, LookupFresh
  <2> QED BY <2>1, <2>2 DEF RecordsAreTrue
<1> QED BY SpecInd, <1>1, PTL

\* No step removes what a strict caller had, or the only copy anybody had
\* (_publish_by_plain_rename, _publish).
THEOREM NothingLost == Spec => NothingTakenAway
<1>1. ASSUME IndInv, NEW p \in Publisher PROVE OnlyCopyKept(p)
  <2> SUFFICES ASSUME Busy(p), put[p].unlinks PROVE Copy(T(p)) BY DEF OnlyCopyKept
  <2>1. /\ Filling(pc[p], put[p], File(p)) /\ Replacing(pc[p], put[p], File(p), dest[T(p)])
        /\ put[p].token \in Token
    BY <1>1 DEF IndInv, CallsStand, CallsApart
  <2>2. CASE pc[p] = "replacing"
    <3>1. File(p) # Absent /\ File(p).full /\ File(p).target = T(p)
      BY <2>1, <2>2 DEF Filling, Holds, T
    <3> QED BY <2>1, <3>1 DEF Copy, File
  <2>3. CASE pc[p] \in {"published", "discarding", "clearing"}
    <3>1. dest[T(p)] # Absent BY <2>1, <2>3 DEF Replacing
    <3> QED BY <3>1 DEF Copy
  <2> QED BY <2>1, <2>2, <2>3 DEF Replacing
<1>2. IndInv => \A p \in Publisher : OnlyCopyKept(p) BY <1>1
<1>3. IndInv /\ [Next]_vars => \A p \in Publisher : StaysUnlessReplaced(p) BY NextKeeps
<1>4. Spec => [][\A p \in Publisher : StaysUnlessReplaced(p)]_vars
  BY SpecInd, <1>3, PTL DEF Spec
<1>5. Spec => [](\A p \in Publisher : OnlyCopyKept(p)) BY SpecInd, <1>2, PTL
<1>6. /\ (\A p \in Publisher : OnlyCopyKept(p))' /\ [\A p \in Publisher : StaysUnlessReplaced(p)]_vars
      => [\A p \in Publisher : OnlyCopyKept(p)' /\ StaysUnlessReplaced(p)]_vars
  OBVIOUS
<1> QED BY <1>4, <1>5, <1>6, PTL DEF NothingTakenAway

\* Compaction of the journal changes nothing that it says (compact), not even after torn appends.
THEOREM CompactionLosesNothing == Spec => [][Compact => FoldedLog' = FoldedLog]_vars
<1>1. ASSUME IndInv, Compact PROVE FoldedLog' = FoldedLog
  BY <1>1, CompactStep DEF IndInv, TypeOK
<1>2. IndInv /\ [Next]_vars => [Compact => FoldedLog' = FoldedLog]_vars BY <1>1
<1> QED BY SpecInd, <1>2, PTL DEF Spec
===============================================================================
