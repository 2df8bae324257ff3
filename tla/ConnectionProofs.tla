--------------------------- MODULE ConnectionProofs ---------------------------
(* Proofs about Connection, for any number of attempts and every chunking of every stream. *)
EXTENDS Connection, FiniteSetTheorems, WellFoundedInduction, SequenceTheorems, TLAPS

Trying == {"init", "version", "probe", "limits", "start"}
Body == {"open", "work", "close"}
Ending == {"leave", "aclose", "release", "reap", "terminated", "killed", "decide"}

\* The call is somewhere, and so is the child.
Bounds ==
    /\ pc \in {"idle", "sleep", "done"} \cup Trying \cup Body \cup Ending
    /\ child \in [state : {"none", "running", "mute", "exited", "reaped"}, stdin : BOOLEAN,
                  signal : {"none", "term", "kill"}]
    /\ attempt \in 0 .. Attempts /\ delay \in 1 .. BackoffMax
    /\ pc \in {"idle", "sleep"} => attempt < Attempts

\* Only a child that left, or was seen off, is done with.
ChildAccounted == pc \in {"idle", "sleep", "done", "decide"} => child.state \in {"none", "reaped"}

\* While the operation runs, somebody routes its replies or has failed.
Routed == InBody => reader \/ failure # "none"

\* An operation that was refused for good, or done, is on its way out with that.
Final ==
    settled => /\ pc \in Body \cup Ending \cup {"done"}
               /\ error \in {"no", "none"} /\ (error = "none" => ~InBody)

IndInv == Bounds /\ ChildAccounted /\ Routed /\ Final


LEMMA InitInd == Init => IndInv
BY ConnectionAssumption DEF Init, IndInv, Bounds, ChildAccounted, Routed, Final, NoChild, InBody

\* Starting a child and its session.
LEMMA StartKeeps ==
    ASSUME IndInv,
           \/ Connect \/ ConnectFails
           \/ SendInit \/ SendBroken \/ HandshakeDeadline \/ HandshakeEnds
           \/ SendProbe \/ SkipProbe \/ ProbeDeadline \/ StartSession
    PROVE  IndInv'
<1> USE DEF IndInv, Bounds, ChildAccounted, Routed, Final, InBody, Trying, Body, Ending,
            sessionVars, childVars, callVars, history
<1>1. CASE Connect BY <1>1, ConnectionAssumption DEF Connect
<1>2. CASE ConnectFails BY <1>2, ConnectionAssumption DEF ConnectFails
<1>3. CASE SendInit BY <1>3 DEF SendInit, Advance
<1>4. CASE SendBroken BY <1>4 DEF SendBroken, Leave
<1>5. CASE HandshakeDeadline BY <1>5 DEF HandshakeDeadline, Leave
<1>6. CASE HandshakeEnds BY <1>6 DEF HandshakeEnds, Leave
<1>7. CASE SendProbe BY <1>7 DEF SendProbe, Advance
<1>8. CASE SkipProbe BY <1>8 DEF SkipProbe, Advance
<1>9. CASE ProbeDeadline BY <1>9 DEF ProbeDeadline, Advance
<1>10. CASE StartSession BY <1>10 DEF StartSession, Advance
<1> QED BY <1>1, <1>2, <1>3, <1>4, <1>5, <1>6, <1>7, <1>8, <1>9, <1>10

\* The end of one step of the operation.
LEMMA AfterKeeps ==
    ASSUME IndInv, InBody, NEW e, After(e), UNCHANGED child, UNCHANGED <<failure>>,
           reader' = reader \/ pc' = "leave" \/ failure # "none"
    PROVE  IndInv'
BY DEF IndInv, Bounds, ChildAccounted, Routed, Final, InBody, Trying, Body, Ending, After

\* The operation.
LEMMA BodyKeeps ==
    ASSUME IndInv,
           \/ Ask \/ Answered \/ Works("none") \/ Works("no") \/ Fails \/ WriteBroken
           \/ RequestDeadline \/ CancelBody
    PROVE  IndInv'
<1>1. CASE Ask
  BY <1>1 DEF Ask, IndInv, Bounds, ChildAccounted, Routed, Final, InBody, callVars, childVars,
           history
<1>2. CASE Answered BY <1>2, AfterKeeps DEF Answered, sessionVars, childVars
<1>3. CASE Works("none") \/ Works("no")
  BY <1>3, AfterKeeps DEF Works, InBody, sessionVars, childVars
<1>4. CASE Fails BY <1>4, AfterKeeps DEF Fails, sessionVars, childVars
<1>5. CASE WriteBroken BY <1>5, AfterKeeps DEF WriteBroken, sessionVars, childVars
<1>6. CASE RequestDeadline BY <1>6, AfterKeeps DEF RequestDeadline, sessionVars, childVars
<1>7. CASE CancelBody BY <1>7, AfterKeeps DEF CancelBody, sessionVars, childVars
<1> QED BY <1>1, <1>2, <1>3, <1>4, <1>5, <1>6, <1>7

\* Taking the attempt down, and deciding about another.
LEMMA EndKeeps ==
    ASSUME IndInv,
           \/ CloseDispatcher \/ CloseStdin \/ ReleasePipes \/ ReapWaited \/ ReapEscalates
           \/ Decide \/ Slept \/ Cancel
    PROVE  IndInv'
<1> USE DEF IndInv, Bounds, ChildAccounted, Routed, Final, InBody, Trying, Body, Ending,
            sessionVars, childVars, callVars, history
<1>1. CASE CloseDispatcher BY <1>1 DEF CloseDispatcher, Advance
<1>2. CASE CloseStdin BY <1>2 DEF CloseStdin, Advance, DropAttempt
<1>3. CASE ReleasePipes BY <1>3 DEF ReleasePipes, Advance, Reaped, Waited
<1>4. CASE ReapWaited BY <1>4 DEF ReapWaited, Advance, Reaped
<1>5. CASE ReapEscalates BY <1>5 DEF ReapEscalates, Advance
<1>6. CASE Decide
  <2>1. /\ pc = "decide" /\ UNCHANGED <<attempt, delay, error, reader, failure, child, settled>>
        /\ \/ pc' = "done"
           \/ pc' = "sleep" /\ ~(attempt >= Attempts) /\ error \in Retryable
    BY <1>6 DEF Decide
  <2>2. pc' = "sleep" => attempt < Attempts BY <2>1, ConnectionAssumption
  <2> QED BY <2>1, <2>2 DEF Retryable
<1>7. CASE Slept BY <1>7, ConnectionAssumption DEF Slept
<1>8. CASE Cancel BY <1>8 DEF Cancel, Shielded
<1> QED BY <1>1, <1>2, <1>3, <1>4, <1>5, <1>6, <1>7, <1>8

\* What the session reads, and what the child does.
LEMMA OtherKeeps ==
    ASSUME IndInv, ReadsSome \/ ReaderEnds \/ Env \/ UNCHANGED vars
    PROVE  IndInv'
<1> USE DEF IndInv, Bounds, ChildAccounted, Routed, Final, InBody, Trying, Body, Ending,
            sessionVars, childVars, callVars, history
<1>1. ASSUME NEW n, NEW referenced, ReadVersion(n, referenced) PROVE IndInv'
  BY <1>1 DEF ReadVersion, Leave, Advance
<1>2. ASSUME NEW n, NEW referenced, ReadLimits(n, referenced) PROVE IndInv'
  BY <1>2 DEF ReadLimits, Leave, Advance
<1>3. ASSUME NEW n, NEW referenced, ReaderReads(n, referenced) PROVE IndInv'
  <2>1. /\ UNCHANGED <<callVars, child, settled>>
        /\ reader' \/ failure' # "none"
    BY <1>3 DEF ReaderReads
  <2> QED BY <2>1
<1>4. CASE ReaderEnds
  <2>1. UNCHANGED <<callVars, child, settled>> /\ failure' # "none"
    BY <1>4 DEF ReaderEnds, Classified
  <2> QED BY <2>1
<1>5. ASSUME UNCHANGED <<callVars, reader, failure, settled>>, UNCHANGED child PROVE IndInv' BY <1>5
<1>6. CASE Drain BY <1>6 DEF Drain
<1>7. ASSUME ChildExits \/ ChildHangsUp PROVE IndInv'
  BY <1>7 DEF ChildExits, ChildHangsUp, Running
<1>8. ASSUME NEW lines, ChildRefuses(lines) PROVE IndInv' BY <1>8 DEF ChildRefuses, Running
<1>9. ASSUME NEW v, ServerVersion(v) PROVE IndInv' BY <1>9, <1>5 DEF ServerVersion
<1>10. ASSUME NEW q, NEW answer, NEW answers, ServerPerforms(q, answer, answers) PROVE IndInv'
  BY <1>10, <1>5 DEF ServerPerforms
<1>11. ASSUME NEW b, ServerJunk(b) PROVE IndInv' BY <1>11, <1>5 DEF ServerJunk
<1>12. CASE UNCHANGED vars BY <1>12, <1>5 DEF vars
<1> HIDE DEF IndInv
<1>13. CASE Env BY <1>6, <1>7, <1>8, <1>9, <1>10, <1>11, <1>13 DEF Env
<1>14. CASE ReadsSome BY <1>1, <1>2, <1>3, <1>14 DEF ReadsSome
<1> QED BY <1>4, <1>12, <1>13, <1>14

LEMMA NextKeeps == IndInv /\ [Next]_vars => IndInv'
BY StartKeeps, BodyKeeps, EndKeeps, OtherKeeps DEF Next, Client, Done

LEMMA SpecInd == Spec => []IndInv
BY InitInd, NextKeeps, PTL DEF Spec

-------------------------------------------------------------------------------
(* Loops: what a step keeps, the whole keeps *)

Below == {ss \in Nat \X Nat : ss[1] < ss[2]}
LEMMA BelowIs == OpToRel(<, Nat) = Below
BY Zenon DEF OpToRel, Below

\* Induction over the natural numbers, for a set.
LEMMA NatInd ==
    ASSUME NEW S, 0 \in S, \A n \in Nat : n \in S => n + 1 \in S
    PROVE  Nat \subseteq S
<1> SUFFICES ASSUME Nat \ S # {} PROVE FALSE OBVIOUS
<1>1. IsWellFoundedOn(Below, Nat) BY Zenon, BelowIs, NatLessThanWellFounded
<1>2. PICK x \in Nat \ S : \A y \in Nat \ S : ~(<<y, x>> \in Below) BY <1>1, WFMin
<1>3. x # 0 BY <1>2
<1>4. x - 1 \in Nat /\ x - 1 < x BY <1>2, <1>3
<1>5. <<x - 1, x>> \in Below BY <1>2, <1>4 DEF Below
<1>6. x - 1 \in S BY <1>2, <1>4, <1>5
<1>7. (x - 1) + 1 \in S BY <1>4, <1>6
<1>8. (x - 1) + 1 = x BY <1>2
<1> QED BY <1>2, <1>7, <1>8

\* What a loop computes exists, and keeps what each of its steps keeps.
Loop(N, X, R, first, step) ==
    /\ N \in Nat /\ R \in [0..N -> SUBSET X] /\ first \in R[0]
    /\ \A n \in 1..N : \A r \in R[n - 1] : step[<<r, n>>] \in R[n]

LEMMA Iterates ==
    ASSUME NEW N, NEW X, NEW R, NEW first, NEW step, Loop(N, X, R, first, step)
    PROVE  \E f \in [0..N -> X] :
              /\ f[0] = first
              /\ \A n \in 1..N : f[n] = step[<<f[n - 1], n>>]
              /\ \A n \in 0..N : f[n] \in R[n]
<1> DEFINE Runs(f, n) == /\ f[0] = first
                         /\ \A i \in 1..n : f[i] = step[<<f[i - 1], i>>]
                         /\ \A i \in 0..n : f[i] \in R[i]
           S == {n \in Nat : n <= N => \E f \in [0..n -> X] : Runs(f, n)}
<1> USE DEF Loop
<1>1. 0 \in S
  <2> DEFINE f == [i \in 0..0 |-> first]
  <2>1. f \in [0..0 -> X] /\ f[0] = first BY DEF S
  <2>2. Runs(f, 0) BY <2>1
  <2> QED BY <2>1, <2>2
<1>2. ASSUME NEW n \in Nat, n \in S PROVE n + 1 \in S
  <2> SUFFICES ASSUME n + 1 <= N PROVE \E f \in [0..n + 1 -> X] : Runs(f, n + 1)
    <3> HIDE DEF Runs, Loop
    <3> QED OBVIOUS
  <2>1. PICK f \in [0..n -> X] : Runs(f, n) BY <1>2
  <2> DEFINE g == [i \in 0..n + 1 |-> IF i = n + 1 THEN step[<<f[n], n + 1>>] ELSE f[i]]
  <2>2. step[<<f[n], n + 1>>] \in R[n + 1]
    <3>1. n + 1 \in 1..N /\ (n + 1) - 1 = n OBVIOUS
    <3>2. f[n] \in R[n] BY <2>1
    <3> QED BY <3>1, <3>2
  <2>3. R[n + 1] \subseteq X OBVIOUS
  <2>4. g \in [0..n + 1 -> X] BY <2>2, <2>3
  <2>5. \A i \in 0..n : g[i] = f[i] OBVIOUS
  <2>6. g[n + 1] = step[<<g[n], n + 1>>] /\ g[n + 1] \in R[n + 1]
    <3>1. g[n + 1] = step[<<f[n], n + 1>>] OBVIOUS
    <3>2. g[n] = f[n] OBVIOUS
    <3> HIDE DEF g
    <3> QED BY <2>2, <3>1, <3>2
  <2> HIDE DEF g
  <2>7. \A i \in 1..n + 1 : g[i] = step[<<g[i - 1], i>>]
    <3> SUFFICES ASSUME NEW i \in 1..n + 1 PROVE g[i] = step[<<g[i - 1], i>>] OBVIOUS
    <3>1. CASE i = n + 1 BY <2>6, <3>1
    <3>2. CASE i # n + 1
      <4>1. i \in 1..n /\ i - 1 \in 0..n /\ i \in 0..n BY <3>2
      <4> QED BY <2>1, <2>5, <4>1
    <3> QED BY <3>1, <3>2
  <2>8. \A i \in 0..n + 1 : g[i] \in R[i]
    <3> SUFFICES ASSUME NEW i \in 0..n + 1 PROVE g[i] \in R[i] OBVIOUS
    <3>1. CASE i = n + 1 BY <2>6, <3>1
    <3>2. CASE i # n + 1
      <4>1. i \in 0..n BY <3>2
      <4> QED BY <2>1, <2>5, <4>1
    <3> QED BY <3>1, <3>2
  <2>9. g[0] = first BY <2>1, <2>5
  <2> QED BY <2>4, <2>7, <2>8, <2>9
<1> HIDE DEF S
<1>3. N \in S BY <1>1, <1>2, NatInd
<1> QED BY <1>3 DEF S

-------------------------------------------------------------------------------
(* The splitter *)

Answer == {"ok", "no", "busy", "short"}
Cell == ({"length", "version"} \X Nat) \cup ({"reply"} \X Nat \X Answer)

\* What a server wrote: frames of one cell of body each, and after them at most a length
\* nobody would send.
Stream(w, m) ==
    /\ w \in Seq(Cell) /\ m \in Nat /\ Len(w) \in {3 * m, 3 * m + 2}
    /\ \A i \in 1..m : w[3 * i - 2] = <<"length", 0>> /\ w[3 * i - 1] = <<"length", 1>>
    /\ Len(w) = 3 * m + 2 =>
          /\ w[3 * m + 1] = <<"length", (MaxFrameLength + 1) \div 2>>
          /\ w[3 * m + 2] = <<"length", (MaxFrameLength + 1) % 2>>

\* A splitter that took t cells holds those behind the first h frames.
Holding(sp, w, h, t) ==
    /\ sp \in [buf : Seq(Cell), start : Nat]
    /\ Len(sp.buf) = sp.start + (t - 3 * h)
    /\ \A j \in 1..t - 3 * h : sp.buf[sp.start + j] = w[3 * h + j]

LEMMA MoreIs ==
    ASSUME NEW sp \in [buf : Seq(Cell), start : Nat], NEW data
    PROVE  [sp EXCEPT !.buf = @ \o data] = [buf |-> sp.buf \o data, start |-> sp.start]
<1>1. sp = [buf |-> sp.buf, start |-> sp.start] OBVIOUS
<1>2. [sp EXCEPT !.buf = @ \o data] = [sp EXCEPT !.buf = sp.buf \o data] OBVIOUS
<1>3. \A x : [sp EXCEPT !.buf = x] = [buf |-> x, start |-> sp.start] BY <1>1
<1> QED BY <1>2, <1>3

LEMMA HalvesAre == \A n \in Nat : n = 2 * (n \div 2) + (n % 2)
<1> TAKE n \in Nat
<1> QED BY SMT

\* Whatever becomes of the buffer, it goes on where the splitter was.
Fed(m, w, h, t, n, sp) ==
    /\ Stream(w, m) /\ Holding(sp, w, h, t)
    /\ h \in 0..m /\ t \in 3 * h..Len(w) /\ n \in 1..Len(w) - t

\* The next n cells of the stream.
Cut(w, t, n) == SubSeq(w, t + 1, t + n)

LEMMA AbsorbIs ==
    ASSUME NEW m, NEW w, NEW h, NEW t, NEW n, NEW sp, Fed(m, w, h, t, n, sp), NEW referenced
    PROVE  /\ Holding(Absorb(sp, Cut(w, t, n), referenced), w, h, t + n)
           /\ Len(Cut(w, t, n)) = n
<1> DEFINE data == Cut(w, t, n)
           rest == SubSeq(sp.buf, sp.start + 1, Len(sp.buf))
<1>1. w \in Seq(Cell) /\ Len(w) \in Nat /\ t \in Nat /\ n \in Nat
      /\ h \in Nat /\ t \in 3 * h..Len(w) /\ n \in 1..Len(w) - t
  BY LenProperties DEF Fed, Stream
<1>2. /\ sp \in [buf : Seq(Cell), start : Nat] /\ sp.start \in Nat /\ sp.buf \in Seq(Cell)
      /\ Len(sp.buf) \in Nat /\ Len(sp.buf) = sp.start + (t - 3 * h)
      /\ \A j \in 1..t - 3 * h : sp.buf[sp.start + j] = w[3 * h + j]
  BY LenProperties DEF Fed, Holding
<1>3. data \in Seq(Cell) /\ Len(data) = n /\ \A j \in 1..n : data[j] = w[t + j]
  <2>1. \A i \in t + 1..t + n : w[i] \in Cell
    <3> SUFFICES ASSUME NEW i \in t + 1..t + n PROVE w[i] \in Cell OBVIOUS
    <3>1. i \in 1..Len(w) BY <1>1
    <3> QED BY <1>1, <3>1, ElementOfSeq
  <2>2. /\ data \in Seq(Cell)
        /\ Len(data) = IF t + 1 <= t + n THEN (t + n) - (t + 1) + 1 ELSE 0
        /\ \A j \in 1..(t + n) - (t + 1) + 1 : data[j] = w[(t + 1) + j - 1]
    BY <1>1, <2>1, SubSeqProperties DEF Cut
  <2>3. (t + n) - (t + 1) + 1 = n /\ t + 1 <= t + n /\ \A j \in 1..n : (t + 1) + j - 1 = t + j
    BY <1>1
  <2> HIDE DEF data
  <2> QED BY <2>2, <2>3
<1>4. /\ rest \in Seq(Cell) /\ Len(rest) = t - 3 * h
      /\ \A j \in 1..t - 3 * h : rest[j] = w[3 * h + j]
  <2>1. \A i \in sp.start + 1..Len(sp.buf) : sp.buf[i] \in Cell
    <3> SUFFICES ASSUME NEW i \in sp.start + 1..Len(sp.buf) PROVE sp.buf[i] \in Cell OBVIOUS
    <3>1. i \in 1..Len(sp.buf) BY <1>2
    <3> QED BY <1>2, <3>1, ElementOfSeq
  <2>2. /\ rest \in Seq(Cell)
        /\ Len(rest) = IF sp.start + 1 <= Len(sp.buf) THEN Len(sp.buf) - (sp.start + 1) + 1 ELSE 0
        /\ \A j \in 1..Len(sp.buf) - (sp.start + 1) + 1 :
              rest[j] = sp.buf[(sp.start + 1) + j - 1]
    BY <1>2, <2>1, SubSeqProperties
  <2>3. Len(sp.buf) - (sp.start + 1) + 1 = t - 3 * h /\ t - 3 * h \in Nat BY <1>1, <1>2
  <2>4. \A j \in 1..t - 3 * h : (sp.start + 1) + j - 1 = sp.start + j BY <1>1, <1>2
  <2>5. Len(rest) = t - 3 * h
    <3> HIDE DEF rest
    <3> QED BY <1>1, <1>2, <2>2, <2>3
  <2> HIDE DEF rest
  <2> QED BY <1>2, <2>2, <2>3, <2>4, <2>5
<1> HIDE DEF data, rest
<1>5. ASSUME NEW b \in Seq(Cell), NEW s \in Nat, Len(b) = s + (t - 3 * h),
             \A j \in 1..t - 3 * h : b[s + j] = w[3 * h + j]
      PROVE  Holding([buf |-> b \o data, start |-> s], w, h, t + n)
  <2>1. /\ b \o data \in Seq(Cell) /\ Len(b \o data) = Len(b) + n
        /\ \A i \in 1..Len(b) + n : (b \o data)[i] = IF i <= Len(b) THEN b[i] ELSE data[i - Len(b)]
    BY <1>3, ConcatProperties
  <2>2. Len(b) + n = s + ((t + n) - 3 * h) BY <1>1, <1>5
  <2>3. ASSUME NEW j \in 1..(t + n) - 3 * h PROVE (b \o data)[s + j] = w[3 * h + j]
    <3>1. s + j \in 1..Len(b) + n BY <1>1, <1>5
    <3>2. CASE j <= t - 3 * h
      <4>1. s + j <= Len(b) BY <1>1, <1>5, <3>2
      <4>2. j \in 1..t - 3 * h BY <1>1, <3>2
      <4> QED BY <1>5, <2>1, <3>1, <4>1, <4>2
    <3>3. CASE ~(j <= t - 3 * h)
      <4>1. ~(s + j <= Len(b)) BY <1>1, <1>5, <3>3
      <4>2. s + j - Len(b) = j - (t - 3 * h) BY <1>1, <1>5
      <4>3. j - (t - 3 * h) \in 1..n /\ t + (j - (t - 3 * h)) = 3 * h + j BY <1>1, <3>3
      <4>4. (b \o data)[s + j] = data[j - (t - 3 * h)] BY <2>1, <3>1, <4>1, <4>2
      <4> QED BY <1>3, <4>3, <4>4
    <3> QED BY <3>2, <3>3
  <2> HIDE DEF Holding
  <2>4. [buf |-> b \o data, start |-> s] \in [buf : Seq(Cell), start : Nat] BY <2>1
  <2> QED BY <2>1, <2>2, <2>3, <2>4 DEF Holding
<1>6. Holding([buf |-> rest \o data, start |-> 0], w, h, t + n)
  <2>1. Len(rest) = 0 + (t - 3 * h) /\ \A j \in 1..t - 3 * h : rest[0 + j] = w[3 * h + j]
    BY <1>1, <1>4
  <2> QED BY <1>4, <1>5, <2>1
<1>7. Holding([buf |-> sp.buf \o data, start |-> sp.start], w, h, t + n) BY <1>2, <1>5
<1>8. \/ Absorb(sp, data, referenced) = [buf |-> rest \o data, start |-> 0]
      \/ Absorb(sp, data, referenced) = [buf |-> sp.buf \o data, start |-> sp.start]
  <2>1. CASE referenced BY <2>1 DEF Absorb, rest
  <2>2. CASE ~referenced
    <3>1. Absorb(sp, data, referenced) = [Reclaimed(sp) EXCEPT !.buf = @ \o data]
      BY <2>2 DEF Absorb
    <3>2. Reclaimed(sp) = [buf |-> rest, start |-> 0] \/ Reclaimed(sp) = sp BY DEF Reclaimed, rest
    <3>3. sp = [buf |-> sp.buf, start |-> sp.start] BY <1>2
    <3>4. CASE Reclaimed(sp) = sp BY <1>2, <3>1, <3>4, MoreIs
    <3>5. CASE Reclaimed(sp) = [buf |-> rest, start |-> 0]
      <4> DEFINE kept == [buf |-> rest, start |-> 0]
      <4>1. kept \in [buf : Seq(Cell), start : Nat] /\ kept.buf = rest /\ kept.start = 0 BY <1>4
      <4> HIDE DEF kept
      <4>2. [kept EXCEPT !.buf = @ \o data] = [buf |-> rest \o data, start |-> 0]
        BY <4>1, MoreIs
      <4> QED BY <3>1, <3>5, <4>2 DEF kept
    <3> QED BY <3>2, <3>4, <3>5
  <2> QED BY <2>1, <2>2
<1> QED BY <1>3, <1>6, <1>7, <1>8 DEF data

\* As far as feed has come with the cells up to t: the frames behind the first h, each of one
\* cell of body, up to one it cannot believe.
Scanned(fed, w, m, h, t) ==
    LET k == Len(fed.frames) IN
    /\ fed \in [splitter : [buf : Seq(Cell), start : Nat], frames : Seq(Seq(Cell)), bad : BOOLEAN]
    /\ h + k <= m /\ 3 * (h + k) <= t
    /\ Holding(fed.splitter, w, h + k, t)
    /\ \A i \in 1..k : fed.frames[i] = <<w[3 * (h + i)]>>
    /\ fed.bad => h + k = m /\ t = 3 * m + 2

Ended(fed, h, t) == fed.bad \/ t < 3 * (h + Len(fed.frames)) + 3

\* One more frame, or there is none.
Place(w, m, h, t) == Stream(w, m) /\ h \in 0..m /\ t \in 0..Len(w)
Moves(fed, more, h, t) ==
    \/ Ended(fed, h, t) /\ more = fed
    \/ fed.bad = FALSE /\ more.bad
    \/ Len(more.frames) = Len(fed.frames) + 1

LEMMA NextFrameIs ==
    ASSUME NEW m, NEW w, NEW h, NEW t, Place(w, m, h, t), NEW fed, Scanned(fed, w, m, h, t)
    PROVE  Scanned(NextFrame(fed), w, m, h, t) /\ Moves(fed, NextFrame(fed), h, t)
<1> DEFINE k == Len(fed.frames)
           sp == fed.splitter
           more == NextFrame(fed)
           length == 2 * sp.buf[sp.start + 1][2] + sp.buf[sp.start + 2][2]
<1>1. /\ w \in Seq(Cell) /\ m \in Nat /\ Len(w) \in {3 * m, 3 * m + 2}
      /\ \A i \in 1..m : w[3 * i - 2] = <<"length", 0>> /\ w[3 * i - 1] = <<"length", 1>>
      /\ h \in Nat /\ t \in Nat /\ t <= Len(w) /\ Stream(w, m)
  <2>1. Len(w) \in Nat BY LenProperties DEF Place, Stream
  <2>2. h \in Nat /\ t \in Nat /\ t <= Len(w) BY <2>1 DEF Place, Stream
  <2> QED BY <2>2 DEF Place, Stream
<1>2. /\ fed \in [splitter : [buf : Seq(Cell), start : Nat], frames : Seq(Seq(Cell)), bad : BOOLEAN]
      /\ k \in Nat /\ h + k <= m /\ 3 * (h + k) <= t
      /\ \A i \in 1..k : fed.frames[i] = <<w[3 * (h + i)]>>
      /\ fed.bad => h + k = m /\ t = 3 * m + 2
      /\ h \in Nat /\ t \in Nat /\ t <= Len(w)
  <2>1. fed.frames \in Seq(Seq(Cell)) BY DEF Scanned
  <2> QED BY <1>1, <2>1, LenProperties DEF Scanned
<1>3. /\ sp \in [buf : Seq(Cell), start : Nat] /\ sp.start \in Nat /\ sp.buf \in Seq(Cell)
      /\ Len(sp.buf) = sp.start + (t - 3 * (h + k))
      /\ \A j \in 1..t - 3 * (h + k) : sp.buf[sp.start + j] = w[3 * (h + k) + j]
  BY <1>2 DEF Scanned, Holding
<1>4. Buffered(sp) = t - 3 * (h + k) BY <1>2, <1>3 DEF Buffered
<1> HIDE DEF sp, k
<1> USE DEF Moves
<1>5. CASE fed.bad \/ t - 3 * (h + k) < 2
  <2>1. more = fed BY <1>4, <1>5 DEF NextFrame, PrefixSize, sp
  <2>2. Ended(fed, h, t) BY <1>2, <1>5 DEF Ended, k
  <2> QED BY <2>1, <2>2
<1>6. CASE ~fed.bad /\ ~(t - 3 * (h + k) < 2) /\ h + k = m
  <2>1. t = 3 * m + 2 /\ Len(w) = 3 * m + 2 BY <1>1, <1>2, <1>6
  <2>2. /\ w[3 * m + 1] = <<"length", (MaxFrameLength + 1) \div 2>>
        /\ w[3 * m + 2] = <<"length", (MaxFrameLength + 1) % 2>>
    BY <1>1, <2>1 DEF Stream
  <2>3. sp.buf[sp.start + 1] = w[3 * m + 1] /\ sp.buf[sp.start + 2] = w[3 * m + 2]
    <3>1. 1 \in 1..t - 3 * (h + k) /\ 2 \in 1..t - 3 * (h + k)
      <4>1. t - 3 * (h + k) = 2 BY <1>1, <1>2, <1>6, <2>1
      <4> QED BY <4>1
    <3> QED BY <1>3, <1>6, <3>1
  <2>4. length = 2 * ((MaxFrameLength + 1) \div 2) + ((MaxFrameLength + 1) % 2) BY <2>2, <2>3
  <2>5. length = MaxFrameLength + 1
    <3>1. MaxFrameLength + 1 \in Nat BY FramingAssumption
    <3> HIDE DEF length
    <3> QED BY <2>4, <3>1, HalvesAre
  <2>6. length > MaxFrameLength
    <3> HIDE DEF length
    <3> QED BY <2>5, FramingAssumption
  <2>7. more = [fed EXCEPT !.bad = TRUE]
    BY <1>4, <1>6, <2>6 DEF NextFrame, PrefixSize, sp
  <2>8. more.splitter = fed.splitter /\ more.frames = fed.frames /\ more.bad = TRUE
        /\ more \in [splitter : [buf : Seq(Cell), start : Nat], frames : Seq(Seq(Cell)), bad : BOOLEAN]
    BY <1>2, <2>7
  <2> HIDE DEF more
  <2>9. Scanned(more, w, m, h, t)
    BY <1>2, <1>6, <2>1, <2>8 DEF Scanned, k
  <2> QED BY <1>6, <2>8, <2>9 DEF more
<1>7. CASE ~fed.bad /\ ~(t - 3 * (h + k) < 2) /\ h + k < m
  <2>1. h + k + 1 \in 1..m /\ 3 * (h + k + 1) - 2 = 3 * (h + k) + 1
        /\ 3 * (h + k + 1) - 1 = 3 * (h + k) + 2
    BY <1>1, <1>2, <1>7
  <2>2. w[3 * (h + k) + 1] = <<"length", 0>> /\ w[3 * (h + k) + 2] = <<"length", 1>>
    BY <1>1, <2>1
  <2>3. sp.buf[sp.start + 1] = <<"length", 0>> /\ sp.buf[sp.start + 2] = <<"length", 1>>
    <3>1. 1 \in 1..t - 3 * (h + k) /\ 2 \in 1..t - 3 * (h + k) BY <1>1, <1>2, <1>7
    <3> QED BY <1>3, <2>2, <3>1
  <2>4. length = 1 BY <2>3
  <2>5. ~(length = 0 \/ length > MaxFrameLength)
    <3> HIDE DEF length
    <3> QED BY <2>4, FramingAssumption
  <2>6. CASE t - 3 * (h + k) - 2 < 1
    <3>1. more = fed
      <4> HIDE DEF more
      <4>1. more = IF fed.bad \/ Buffered(sp) < 2 THEN fed
                   ELSE IF length = 0 \/ length > MaxFrameLength THEN [fed EXCEPT !.bad = TRUE]
                   ELSE IF Buffered(sp) - 2 < length THEN fed ELSE more
        BY DEF NextFrame, PrefixSize, sp, more
      <4> HIDE DEF length
      <4> QED BY <1>4, <1>7, <2>4, <2>5, <2>6, <4>1
    <3>2. Ended(fed, h, t) BY <1>2, <2>6 DEF Ended, k
    <3> QED BY <3>1, <3>2
  <2>7. CASE ~(t - 3 * (h + k) - 2 < 1)
    <3> DEFINE body == SubSeq(sp.buf, sp.start + 2 + 1, sp.start + 2 + 1)
    <3>1. more = [fed EXCEPT !.splitter = [sp EXCEPT !.start = sp.start + 2 + 1],
                             !.frames = Append(@, body)]
      <4> DEFINE other == [fed EXCEPT !.splitter = [sp EXCEPT !.start = sp.start + 2 + length],
                      !.frames = Append(@, SubSeq(sp.buf, sp.start + 2 + 1, sp.start + 2 + length))]
      <4>1. more = IF fed.bad \/ Buffered(sp) < 2 THEN fed
                   ELSE IF length = 0 \/ length > MaxFrameLength THEN [fed EXCEPT !.bad = TRUE]
                   ELSE IF Buffered(sp) - 2 < length THEN fed ELSE other
        BY DEF NextFrame, PrefixSize, sp
      <4> HIDE DEF length, more
      <4>2. more = other BY <1>4, <1>7, <2>4, <2>5, <2>7, <4>1
      <4> QED BY <2>4, <4>2
    <3>2. body = <<w[3 * (h + (k + 1))]>> /\ body \in Seq(Cell)
      <4>1. sp.start + 3 \in 1..Len(sp.buf) BY <1>2, <1>3, <2>7
      <4>2. sp.buf[sp.start + 3] \in Cell BY <1>3, <4>1, ElementOfSeq
      <4>3. 3 \in 1..t - 3 * (h + k) BY <1>2, <2>7
      <4>4. sp.buf[sp.start + 3] = w[3 * (h + k) + 3] BY <1>3, <4>3
      <4>5. 3 * (h + k) + 3 = 3 * (h + (k + 1)) BY <1>2
      <4>6. sp.start + 2 + 1 = sp.start + 3 BY <1>3
      <4>7. body = <<sp.buf[sp.start + 3]>>
        <5>1. body = SubSeq(sp.buf, sp.start + 3, sp.start + 3) BY <4>6
        <5>2. \A i \in sp.start + 3..sp.start + 3 : sp.buf[i] \in Cell BY <1>3, <4>2
        <5>3. /\ SubSeq(sp.buf, sp.start + 3, sp.start + 3) \in Seq(Cell)
              /\ Len(SubSeq(sp.buf, sp.start + 3, sp.start + 3)) =
                   IF sp.start + 3 <= sp.start + 3 THEN (sp.start + 3) - (sp.start + 3) + 1 ELSE 0
              /\ \A i \in 1..(sp.start + 3) - (sp.start + 3) + 1 :
                    SubSeq(sp.buf, sp.start + 3, sp.start + 3)[i] = sp.buf[(sp.start + 3) + i - 1]
          BY <1>3, <5>2, SubSeqProperties
        <5>4. sp.start + 3 <= sp.start + 3 /\ (sp.start + 3) - (sp.start + 3) + 1 = 1
              /\ (sp.start + 3) + 1 - 1 = sp.start + 3
          BY <1>3
        <5> HIDE DEF body
        <5>5. body \in Seq(Cell) /\ Len(body) = 1 /\ body[1] = sp.buf[sp.start + 3]
          BY <5>1, <5>3, <5>4
        <5> QED BY <5>5
      <4>8. w[3 * (h + k) + 3] = w[3 * (h + (k + 1))] BY <4>5
      <4> HIDE DEF body
      <4> QED BY <4>2, <4>4, <4>7, <4>8
    <3> HIDE DEF body
    <3>3. /\ more.splitter = [sp EXCEPT !.start = sp.start + 2 + 1]
          /\ more.frames = Append(fed.frames, body) /\ more.bad = fed.bad
      BY <1>2, <3>1
    <3>4. /\ more.frames \in Seq(Seq(Cell)) /\ Len(more.frames) = k + 1
          /\ \A i \in 1..k : more.frames[i] = fed.frames[i]
          /\ more.frames[k + 1] = body
      <4>1. fed.frames \in Seq(Seq(Cell)) BY <1>2
      <4> HIDE DEF more
      <4> QED BY <3>2, <3>3, <4>1, AppendProperties DEF k
    <3>5. more.splitter = [buf |-> sp.buf, start |-> sp.start + 3]
      <4>1. [sp EXCEPT !.start = sp.start + 2 + 1] = [buf |-> sp.buf, start |-> sp.start + 2 + 1]
        BY <1>3
      <4>2. sp.start + 2 + 1 = sp.start + 3 BY <1>3
      <4> QED BY <3>3, <4>1, <4>2
    <3>6. more.splitter \in [buf : Seq(Cell), start : Nat] BY <1>3, <3>5
    <3>7. more \in [splitter : [buf : Seq(Cell), start : Nat], frames : Seq(Seq(Cell)), bad : BOOLEAN]
      <4>1. more = [splitter |-> more.splitter, frames |-> more.frames, bad |-> more.bad]
        <5>1. fed = [splitter |-> fed.splitter, frames |-> fed.frames, bad |-> fed.bad] BY <1>2
        <5> HIDE DEF body
        <5> QED BY <3>1, <5>1
      <4> HIDE DEF more
      <4>2. fed.bad \in BOOLEAN BY <1>2
      <4> QED BY <3>3, <3>4, <3>6, <4>1, <4>2
    <3> HIDE DEF more
    <3>8. Holding(more.splitter, w, h + (k + 1), t)
      <4>1. Len(sp.buf) = sp.start + 3 + (t - 3 * (h + (k + 1)))
        <5>1. Len(sp.buf) = sp.start + (t - 3 * (h + k)) /\ sp.start \in Nat BY <1>3
        <5>2. t \in Nat /\ h \in Nat /\ k \in Nat BY <1>2
        <5> HIDE DEF k, sp
        <5> QED BY <5>1, <5>2
      <4>2. ASSUME NEW j \in 1..t - 3 * (h + (k + 1))
            PROVE  sp.buf[sp.start + 3 + j] = w[3 * (h + (k + 1)) + j]
        <5>1. 3 + j \in 1..t - 3 * (h + k) BY <1>2
        <5>2. sp.buf[sp.start + (3 + j)] = w[3 * (h + k) + (3 + j)] BY <1>3, <5>1
        <5>3. sp.start + (3 + j) = sp.start + 3 + j /\ 3 * (h + k) + (3 + j) = 3 * (h + (k + 1)) + j
          <6>1. sp.start \in Nat /\ j \in Nat /\ k \in Nat /\ h \in Nat BY <1>2, <1>3
          <6> HIDE DEF length
          <6> QED BY <6>1
        <5> QED BY <5>2, <5>3
      <4> QED BY <1>3, <3>5, <3>6, <4>1, <4>2 DEF Holding
    <3>9. h + (k + 1) <= m /\ 3 * (h + (k + 1)) <= t BY <1>1, <1>2, <1>7, <2>7
    <3>10. \A i \in 1..k + 1 : more.frames[i] = <<w[3 * (h + i)]>>
      <4> SUFFICES ASSUME NEW i \in 1..k + 1 PROVE more.frames[i] = <<w[3 * (h + i)]>> OBVIOUS
      <4>1. CASE i \in 1..k BY <1>2, <3>4, <4>1
      <4>2. CASE i = k + 1 BY <3>2, <3>4, <4>2
      <4>3. k \in Nat BY <1>2
      <4>4. i \in 1..k \/ i = k + 1 BY <4>3
      <4> QED BY <4>1, <4>2, <4>4
    <3>11. Scanned(more, w, m, h, t)
      <4>1. Len(more.frames) = k + 1 BY <3>4
      <4>2. ~more.bad BY <1>7, <3>3
      <4> QED BY <3>7, <3>8, <3>9, <3>10, <4>1, <4>2 DEF Scanned
    <3> QED BY <3>4, <3>11 DEF k, more
  <2> QED BY <2>6, <2>7
<1>8. h + k = m \/ h + k < m
  <2>1. h \in Nat /\ k \in Nat /\ m \in Nat /\ h + k <= m BY <1>1, <1>2
  <2> QED BY <2>1
<1> HIDE DEF more, length
<1> QED BY <1>5, <1>6, <1>7, <1>8

\* Every loop that takes such steps keeps what they keep.
Follows(N, X, g, step) == \A n \in 1..N : g[n - 1] \in X => g[n] = step[<<g[n - 1], n>>]
LEMMA IteratesKeep ==
    ASSUME NEW N, NEW X, NEW R, NEW g, NEW step, Loop(N, X, R, g[0], step),
           Follows(N, X, g, step)
    PROVE  \A n \in 0..N : g[n] \in R[n]
<1> DEFINE S == {n \in Nat : n <= N => g[n] \in R[n]}
<1> USE DEF Loop, Follows
<1>1. 0 \in S OBVIOUS
<1>2. ASSUME NEW n \in Nat, n \in S PROVE n + 1 \in S
  <2> SUFFICES ASSUME n + 1 <= N PROVE g[n + 1] \in R[n + 1] OBVIOUS
  <2>1. n + 1 \in 1..N /\ (n + 1) - 1 = n /\ n \in 0..N OBVIOUS
  <2>2. g[n] \in R[n] /\ R[n] \subseteq X BY <1>2, <2>1
  <2>3. g[n + 1] = step[<<g[n], n + 1>>] BY <2>1, <2>2
  <2> QED BY <2>1, <2>2, <2>3
<1> HIDE DEF S
<1>3. Nat \subseteq S BY <1>1, <1>2, NatInd
<1>4. \A n \in 0..N : n \in S BY <1>3
<1> QED BY <1>4 DEF S

\* However the stream is cut, and whatever became of the buffer, feed returns the frames that
\* are complete, in order, and keeps the beginning of the next.
LEMMA FeedIs ==
    ASSUME NEW m, NEW w, NEW h, NEW t, NEW n, NEW sp, Fed(m, w, h, t, n, sp), NEW referenced
    PROVE  /\ Scanned(Feed(sp, Cut(w, t, n), referenced), w, m, h, t + n)
           /\ Ended(Feed(sp, Cut(w, t, n), referenced), h, t + n)
<1>0. /\ Holding(Absorb(sp, Cut(w, t, n), referenced), w, h, t + n)
      /\ Len(Cut(w, t, n)) = n
  BY AbsorbIs
<1>1. /\ w \in Seq(Cell) /\ Len(w) \in Nat /\ t \in Nat /\ n \in Nat /\ t + n \in Nat
      /\ t + n <= Len(w) /\ m \in Nat /\ h \in Nat /\ h <= m /\ Stream(w, m)
  BY LenProperties DEF Fed, Stream
<1>a. \A r : Scanned(r, w, m, h, t + n) =>
        /\ Scanned(NextFrame(r), w, m, h, t + n)
        /\ \/ Ended(r, h, t + n) /\ NextFrame(r) = r
           \/ r.bad = FALSE /\ NextFrame(r).bad
           \/ Len(NextFrame(r).frames) = Len(r.frames) + 1
  <2>1. Place(w, m, h, t + n) BY <1>1 DEF Place
  <2>2. \A r : Scanned(r, w, m, h, t + n) =>
          Scanned(NextFrame(r), w, m, h, t + n) /\ Moves(r, NextFrame(r), h, t + n)
    BY <2>1, NextFrameIs
  <2> QED BY <2>2 DEF Moves
<1> DEFINE data == Cut(w, t, n)
           N == Len(sp.buf) + Len(data)
           X == [splitter : [buf : Seq(Cell), start : Nat], frames : Seq(Seq(Cell)), bad : BOOLEAN]
           R == [i \in 0..N |-> {r \in X : Scanned(r, w, m, h, t + n)
                                           /\ (Ended(r, h, t + n) \/ Len(r.frames) >= i)}]
           step == [p \in X \X (1..N) |-> NextFrame(p[1])]
           first == [splitter |-> Absorb(sp, data, referenced), frames |-> <<>>, bad |-> FALSE]
           Is(f) == f = [i \in 0..N |-> IF i = 0 THEN first ELSE NextFrame(f[i - 1])]
<1>2. Holding(Absorb(sp, data, referenced), w, h, t + n) /\ Len(data) = n BY <1>0
<1>3. N \in Nat /\ N >= (t + n) - 3 * h /\ N >= 1
  <2>1. sp.buf \in Seq(Cell) /\ sp.start \in Nat /\ Len(sp.buf) = sp.start + (t - 3 * h)
        /\ t \in 3 * h..Len(w) /\ n \in 1..Len(w) - t
    BY DEF Fed, Holding
  <2>2. Len(sp.buf) \in Nat BY <2>1, LenProperties
  <2>3. N = Len(sp.buf) + n BY <1>2
  <2> HIDE DEF data, N
  <2> QED BY <1>1, <2>1, <2>2, <2>3
<1> HIDE DEF N, data, Cut
<1>4. first \in R[0]
  <2>1. Len(first.frames) = 0 OBVIOUS
  <2>2. first \in X BY <1>2 DEF Holding
  <2>3. h + 0 = h /\ 3 * h <= t + n
    <3>1. 3 * h <= t BY <1>1 DEF Fed
    <3> HIDE DEF X, R, step, first, Is
    <3> QED BY <1>1, <3>1
  <2>4. Scanned(first, w, m, h, t + n)
    <3> HIDE DEF X, R, step, Is
    <3>1. first.splitter = Absorb(sp, data, referenced) /\ first.bad = FALSE /\ first.frames = <<>>
      OBVIOUS
    <3> HIDE DEF first
    <3>2. h + Len(first.frames) <= m /\ 3 * (h + Len(first.frames)) <= t + n
      BY <1>1, <2>1, <2>3
    <3>3. Holding(first.splitter, w, h + Len(first.frames), t + n) BY <1>2, <2>1, <2>3, <3>1
    <3>4. \A i \in 1..Len(first.frames) : first.frames[i] = <<w[3 * (h + i)]>> BY <2>1
    <3> QED BY <2>2, <3>1, <3>2, <3>3, <3>4 DEF Scanned, X
  <2> HIDE DEF first, X
  <2> QED BY <1>3, <2>1, <2>2, <2>4
<1>5. ASSUME NEW i \in 1..N, NEW r \in R[i - 1] PROVE step[<<r, i>>] \in R[i]
  <2>0. i - 1 \in 0..N /\ i \in 0..N BY <1>3
  <2>1. /\ r \in X /\ Scanned(r, w, m, h, t + n)
        /\ Ended(r, h, t + n) \/ Len(r.frames) >= i - 1
    BY <1>5, <2>0
  <2>2. step[<<r, i>>] = NextFrame(r) BY <2>1
  <2>3. /\ Scanned(NextFrame(r), w, m, h, t + n)
        /\ \/ Ended(r, h, t + n) /\ NextFrame(r) = r
           \/ r.bad = FALSE /\ NextFrame(r).bad
           \/ Len(NextFrame(r).frames) = Len(r.frames) + 1
    BY <1>a, <2>1
  <2>4. NextFrame(r) \in X BY <2>3 DEF Scanned
  <2>5. Len(r.frames) \in Nat
    <3>1. r.frames \in Seq(Seq(Cell)) BY <2>1
    <3> QED BY <3>1, LenProperties
  <2>6. Ended(NextFrame(r), h, t + n) \/ Len(NextFrame(r).frames) >= i
    <3>1. CASE Ended(r, h, t + n) /\ NextFrame(r) = r BY <3>1
    <3>2. CASE NextFrame(r).bad BY <3>2 DEF Ended
    <3>3. CASE Len(NextFrame(r).frames) = Len(r.frames) + 1 /\ Len(r.frames) >= i - 1
      BY <1>3, <2>5, <3>3
    <3>4. CASE Len(NextFrame(r).frames) = Len(r.frames) + 1 /\ Ended(r, h, t + n)
      <4>1. NextFrame(r).frames \in Seq(Seq(Cell)) BY <2>4
      <4>2. CASE r.bad
        <5>1. NextFrame(r) = r BY <4>2 DEF NextFrame
        <5> QED BY <3>4, <5>1
      <4>3. CASE t + n < 3 * (h + Len(r.frames)) + 3
        <5>1. t + n < 3 * (h + Len(NextFrame(r).frames)) + 3 BY <1>1, <2>5, <3>4, <4>3
        <5> QED BY <5>1 DEF Ended
      <4> QED BY <3>4, <4>2, <4>3 DEF Ended
    <3> HIDE DEF X, R
    <3> QED BY <2>1, <2>3, <3>1, <3>2, <3>3, <3>4
  <2> HIDE DEF X, step
  <2> QED BY <2>0, <2>2, <2>3, <2>4, <2>6
<1>6. R \in [0..N -> SUBSET X] OBVIOUS
<1>7. \A i \in 1..N : \A r \in R[i - 1] : step[<<r, i>>] \in R[i] BY <1>5
<1>8. \A r \in X : \A i \in 1..N : step[<<r, i>>] = NextFrame(r) OBVIOUS
<1> HIDE DEF X, R, step, first, Is
<1>9. \E f : Is(f)
  <2>1. PICK f \in [0..N -> X] : /\ f[0] = first
                                /\ \A i \in 1..N : f[i] = step[<<f[i - 1], i>>]
    <3>1. Loop(N, X, R, first, step) BY <1>3, <1>4, <1>6, <1>7 DEF Loop
    <3> QED BY <3>1, Iterates
  <2>2. \A i \in 0..N : f[i] = IF i = 0 THEN first ELSE NextFrame(f[i - 1])
    <3> SUFFICES ASSUME NEW i \in 0..N, i # 0 PROVE f[i] = NextFrame(f[i - 1]) BY <2>1
    <3>1. i \in 1..N /\ i - 1 \in 0..N BY <1>3
    <3> QED BY <1>8, <2>1, <3>1
  <2>3. f = [i \in 0..N |-> f[i]] BY <2>1
  <2> QED BY <2>2, <2>3 DEF Is
<1> DEFINE fed == CHOOSE f : Is(f)
<1>10. Is(fed) BY <1>9
<1>11. Feed(sp, data, referenced) = fed[N] BY DEF Feed, first, N, Is
<1> HIDE DEF fed
<1>12. /\ fed[0] = first
       /\ \A i \in 1..N : fed[i] = NextFrame(fed[i - 1])
  <2>1. \A i \in 0..N : fed[i] = IF i = 0 THEN first ELSE NextFrame(fed[i - 1])
    BY <1>10 DEF Is
  <2>2. 0 \in 0..N /\ \A i \in 1..N : i \in 0..N /\ i # 0 BY <1>3
  <2> HIDE DEF Is
  <2> QED BY <2>1, <2>2
<1>13. \A i \in 0..N : fed[i] \in R[i]
  <2>1. Follows(N, X, fed, step) BY <1>8, <1>12 DEF Follows
  <2>2. Loop(N, X, R, fed[0], step) BY <1>3, <1>4, <1>6, <1>7, <1>12 DEF Loop
  <2> QED BY <2>1, <2>2, IteratesKeep
<1>14. fed[N] \in R[N] BY <1>3, <1>13
<1>15. /\ fed[N] \in X /\ Scanned(fed[N], w, m, h, t + n)
       /\ Ended(fed[N], h, t + n) \/ Len(fed[N].frames) >= N
  BY <1>3, <1>14 DEF R
<1>16. ~(Len(fed[N].frames) >= N)
  <2>1. fed[N].frames \in Seq(Seq(Cell)) BY <1>15 DEF X
  <2>2. Len(fed[N].frames) \in Nat BY <2>1, LenProperties
  <2>3. 3 * (h + Len(fed[N].frames)) <= t + n BY <1>15 DEF Scanned
  <2> QED BY <1>1, <1>3, <2>2, <2>3
<1> QED BY <1>11, <1>15, <1>16 DEF data

-------------------------------------------------------------------------------
(* What is on its way between the server and the codec *)

Codecs == [state : {"new", "awaiting", "ready", "failed"}, outstanding : SUBSET Nat, next : Nat]
Frame(i) == written[3 * i]

\* What the server wrote, and that only nonsense leaves a length without a body.
Shape ==
    /\ ends \in Seq(Nat) /\ \A i \in 1..Len(ends) : ends[i] = 3 * i
    /\ Stream(written, Len(ends)) /\ taken \in 0..Len(written)
    /\ greeted \in {"no", "init", "done", "junk"}
    /\ Len(written) # 3 * Len(ends) => greeted = "junk"
    /\ greeted \in {"no", "init"} => Len(ends) = 0
    /\ greeted = "done" => Len(ends) >= 1

\* A frame not yet read that the codec will take: VERSION first, then each reply to a
\* request of its own that was asked and is no longer.
Good(i) ==
    \/ i = 1 /\ Frame(i) = <<"version", 3>>
    \/ /\ i > 1 /\ Frame(i) \in {"reply"} \X Nat \X Answer
       /\ Frame(i)[2] \in codec.outstanding
       /\ \A j \in handled + 1..i - 1 : j > 1 => Frame(j)[2] # Frame(i)[2]
       /\ \A q \in asked : q.id # Frame(i)[2]
\* One that it will not is the last.
Wrong(i) ==
    /\ i = Len(ends) /\ greeted = "junk"
    /\ \/ Frame(i) = <<"version", 2>>
       \/ i > 1 /\ Frame(i) = <<"version", 3>>
       \/ Frame(i) = <<"reply", 0, "ok">>

\* Where the splitter and the codec are in it.
Placed ==
    /\ codec \in Codecs
    /\ codec.state = "failed" => greeted = "junk"
    /\ codec.state # "failed" =>
          /\ handled \in 0..Len(ends) /\ taken \in 3 * handled..3 * handled + 2
          /\ Holding(splitter, written, handled, taken)
          /\ codec.state = IF greeted = "no" THEN "new"
                           ELSE IF handled = 0 THEN "awaiting" ELSE "ready"
          /\ handled = 0 => codec.outstanding = {}
          /\ \A i \in handled + 1..Len(ends) : Good(i) \/ Wrong(i)

\* What was asked and not served is outstanding, once.
Numbered ==
    /\ codec.next \in Nat \ {0} /\ codec.outstanding \subseteq 1..codec.next - 1
    /\ asked \subseteq [id : Nat, kind : {"limits", "open", "close"}]
    /\ codec.state # "failed" =>
          /\ \A q \in asked : q.id \in codec.outstanding
          /\ \A p, q \in asked : p.id = q.id => p = q

Fresh ==
    /\ codec = NewCodec /\ splitter = NewSplitter /\ reader = FALSE
    /\ greeted = "no" /\ asked = {} /\ written = <<>> /\ taken = 0 /\ ends = <<>> /\ handled = 0

\* At which points of the call which state of the codec is met.
Lives ==
    /\ reader \in BOOLEAN /\ (reader => pc \in Body \cup {"leave"} /\ codec.state = "ready")
    /\ pc \in {"idle", "init", "sleep", "done"} \cup (Ending \ {"leave", "aclose"}) => Fresh
    /\ pc = "version" => codec.state = "awaiting"
    /\ pc \in {"probe", "limits", "start"} => codec.state = "ready"
    /\ InBody => codec.state \in {"ready", "failed"}
    /\ InBody /\ codec.state = "failed" => failure # "none"

\* The round trip of the operation gets the answer to its request, and to no other.
Told(answer) == answer \in {"ok", "no", "busy"} /\ (answer = "ok" => pc \in performed)
Trips ==
    /\ request \in Nat /\ (request # NoId => pc \in {"open", "close"} /\ request < codec.next)
    /\ IF request = NoId THEN reply = "none" ELSE reply = "none" \/ Told(reply)
    /\ codec.state # "failed" /\ request # NoId =>
          /\ \A q \in asked : q.id = request => q.kind = pc
          /\ \A i \in handled + 1..Len(ends) :
                i > 1 /\ Good(i) /\ Frame(i)[2] = request => Told(Frame(i)[3])

\* So without an error the steps that lie behind were performed.
Earned ==
    /\ error \in Failure \cup {"none", "cancelled"}
    /\ failure \in {"none", "protocol", "connect", "auth", "hostkey"}
    /\ outcome \in Failure \cup {"none", "cancelled", "returned"}
    /\ error = "none" /\ pc \in {"work", "close"} => "open" \in performed
    /\ error = "none" /\ pc \in Ending => {"open", "close"} \subseteq performed
    /\ outcome = "returned" => pc = "done" /\ {"open", "close"} \subseteq performed

TripInv == Shape /\ Placed /\ Numbered /\ Lives /\ Trips /\ Earned

-------------------------------------------------------------------------------
(* The codec *)

Event == [id : Nat, answer : Answer]
Handling == [codec : Codecs, events : Seq(Event), bad : BOOLEAN]

\* The three things a packet can do to it.
LEMMA HandleVersion ==
    ASSUME NEW r \in Handling, ~r.bad, r.codec.state = "awaiting", NEW body,
           body[1] = <<"version", 3>>
    PROVE  Handle(r, body) = [codec |-> [state |-> "ready", outstanding |-> r.codec.outstanding,
                                         next |-> r.codec.next],
                              events |-> r.events, bad |-> FALSE]
<1> DEFINE c == r.codec
<1>1. r.bad = FALSE BY DEF Handling
<1>2. c = [state |-> c.state, outstanding |-> c.outstanding, next |-> c.next]
  BY DEF Handling, Codecs
<1>3. Handle(r, body) = [r EXCEPT !.codec.state = "ready"] BY DEF Handle
<1>4. [r EXCEPT !.codec.state = "ready"] = [r EXCEPT !.codec = [c EXCEPT !.state = "ready"]] OBVIOUS
<1> HIDE DEF c
<1>5. [c EXCEPT !.state = "ready"] = [state |-> "ready", outstanding |-> c.outstanding, next |-> c.next]
  BY <1>2
<1>6. \A x : [r EXCEPT !.codec = x] = [codec |-> x, events |-> r.events, bad |-> r.bad]
  BY DEF Handling
<1> QED BY <1>1, <1>3, <1>4, <1>5, <1>6 DEF c

Replied(r, id, answer) ==
    [codec |-> [state |-> "ready", outstanding |-> r.codec.outstanding \ {id},
                next |-> r.codec.next],
     events |-> Append(r.events, [id |-> id, answer |-> answer]), bad |-> FALSE]

LEMMA HandleReply ==
    ASSUME NEW r, NEW body, NEW id, NEW answer,
           r \in Handling /\ ~r.bad /\ r.codec.state = "ready",
           body[1] = <<"reply", id, answer>> /\ id \in r.codec.outstanding
    PROVE  Handle(r, body) = Replied(r, id, answer)
<1> USE DEF Replied
<1> DEFINE c == r.codec
           event == [id |-> id, answer |-> answer]
<1>1. r.bad = FALSE BY DEF Handling
<1>2. c = [state |-> "ready", outstanding |-> c.outstanding, next |-> c.next]
  BY DEF Handling, Codecs
<1>3. Handle(r, body) = [r EXCEPT !.codec.outstanding = @ \ {id}, !.events = Append(@, event)]
  BY DEF Handle
<1>4. [r EXCEPT !.codec.outstanding = @ \ {id}, !.events = Append(@, event)]
      = [r EXCEPT !.codec = [c EXCEPT !.outstanding = c.outstanding \ {id}],
                  !.events = Append(r.events, event)]
  OBVIOUS
<1> HIDE DEF c, event
<1>5. \A x : [c EXCEPT !.outstanding = x] = [state |-> "ready", outstanding |-> x, next |-> c.next]
  BY <1>2
<1>6. ASSUME NEW x, NEW y
      PROVE  [r EXCEPT !.codec = x, !.events = y] = [codec |-> x, events |-> y, bad |-> r.bad]
  <2> DEFINE s == [r EXCEPT !.codec = x, !.events = y]
  <2>1. s.codec = x /\ s.events = y /\ s.bad = r.bad BY DEF Handling
  <2>2. s \in [codec : {x}, events : {y}, bad : {r.bad}] BY DEF Handling
  <2> HIDE DEF s
  <2>3. s = [codec |-> s.codec, events |-> s.events, bad |-> s.bad] BY <2>2
  <2> QED BY <2>1, <2>3 DEF s
<1> QED BY <1>1, <1>3, <1>4, <1>5, <1>6 DEF c, event

LEMMA HandleRefused ==
    ASSUME NEW r \in Handling, ~r.bad, NEW body,
           \/ \E v \in Nat : body[1] = <<"version", v>> /\ (r.codec.state # "awaiting" \/ v # 3)
           \/ \E id \in Nat, a \in Answer : /\ body[1] = <<"reply", id, a>>
                                            /\ id \notin r.codec.outstanding
    PROVE  Handle(r, body) = [codec |-> r.codec, events |-> r.events, bad |-> TRUE]
<1>1. \A x : [r EXCEPT !.bad = x] = [codec |-> r.codec, events |-> r.events, bad |-> x]
  BY DEF Handling
<1>2. Handle(r, body) = [r EXCEPT !.bad = TRUE] BY DEF Handle
<1>3. [r EXCEPT !.bad = TRUE] = [codec |-> r.codec, events |-> r.events, bad |-> TRUE]
  BY <1>1 DEF Handling
<1> QED BY <1>2, <1>3

\* What the codec has done with the frames up to h.
Reply(i) == [id |-> Frame(i)[2], answer |-> Frame(i)[3]]
Named(h) == {Frame(i)[2] : i \in {i \in handled + 1..h : i > 1}}
Kept(r, h) ==
    /\ r \in Handling
    /\ r.codec.next = codec.next /\ r.codec.outstanding \subseteq codec.outstanding
    /\ r.bad => greeted = "junk"
    /\ ~r.bad =>
          /\ r.codec.state = IF h = 0 THEN "awaiting" ELSE "ready"
          /\ r.codec.outstanding = codec.outstanding \ Named(h)
          /\ \A i \in handled + 1..h : Good(i)
          /\ \A e \in 1..Len(r.events) : \E i \in handled + 1..h : i > 1 /\ r.events[e] = Reply(i)

\* One more frame.
LEMMA HandleKeeps ==
    ASSUME Shape, Placed, Numbered, codec.state # "failed", NEW i \in handled + 1..Len(ends), NEW r,
           Kept(r, i - 1), NEW body, body = <<Frame(i)>>
    PROVE  Kept(Handle(r, body), i)
<1>1. /\ handled \in Nat /\ i \in Nat /\ i >= 1 /\ Len(ends) \in Nat /\ r \in Handling
      /\ handled <= i - 1 /\ i - 1 \in Nat /\ codec \in Codecs
      /\ \A j \in handled + 1..i : j \in handled + 1..i - 1 \/ j = i
  <2>1. Len(ends) \in Nat BY LenProperties DEF Shape
  <2>2. handled \in 0..Len(ends) /\ codec \in Codecs BY DEF Placed
  <2>3. r \in Handling BY DEF Kept
  <2> QED BY <2>1, <2>2, <2>3
<1>2. body[1] = Frame(i) BY DEF Handle
<1>3. CASE r.bad
  <2>1. Handle(r, body) = r BY <1>3 DEF Handle
  <2> QED BY <1>3, <2>1 DEF Kept
<1>4. CASE ~r.bad /\ i = 1 /\ Frame(i) = <<"version", 3>>
  <2>1. r.codec.state = "awaiting" BY <1>4 DEF Kept
  <2>2. Handle(r, body) = [codec |-> [state |-> "ready", outstanding |-> r.codec.outstanding,
                                      next |-> r.codec.next], events |-> r.events, bad |-> FALSE]
    BY <1>1, <1>2, <1>4, <2>1, HandleVersion
  <2>3. Good(i) BY <1>4 DEF Good
  <2>4. Named(i) = {} /\ Named(i - 1) = {} BY <1>1, <1>4 DEF Named
  <2> DEFINE q == Handle(r, body)
  <2>5. q \in Handling
    <3>1. r.codec \in Codecs /\ r.events \in Seq(Event) BY <1>1 DEF Handling
    <3>2. [state |-> "ready", outstanding |-> r.codec.outstanding, next |-> r.codec.next] \in Codecs
      BY <3>1 DEF Codecs
    <3> HIDE DEF q
    <3>3. q = [codec |-> [state |-> "ready", outstanding |-> r.codec.outstanding,
                          next |-> r.codec.next], events |-> r.events, bad |-> FALSE]
      BY <2>2 DEF q
    <3> QED BY <3>1, <3>2, <3>3 DEF Handling
  <2>6. /\ q.codec.next = r.codec.next /\ q.codec.outstanding = r.codec.outstanding
        /\ q.codec.state = "ready" /\ q.events = r.events /\ q.bad = FALSE
    BY <2>2
  <2> HIDE DEF q
  <2>7. Kept(q, i) BY <1>1, <1>4, <2>3, <2>4, <2>5, <2>6 DEF Kept
  <2> QED BY <2>7 DEF q
<1>5. CASE ~r.bad /\ i > 1 /\ Good(i)
  <2>1. PICK id \in Nat, answer \in Answer : Frame(i) = <<"reply", id, answer>>
    BY <1>1, <1>5 DEF Good
  <2>2. /\ id \in codec.outstanding /\ \A j \in handled + 1..i - 1 : j > 1 => Frame(j)[2] # id
        /\ Frame(i)[2] = id /\ Frame(i)[3] = answer
    BY <1>1, <1>5, <2>1 DEF Good
  <2>3. r.codec.state = "ready" /\ r.codec.outstanding = codec.outstanding \ Named(i - 1)
        /\ r.codec.next = codec.next
    BY <1>1, <1>5 DEF Kept
  <2>4. id \in r.codec.outstanding BY <2>2, <2>3 DEF Named
  <2> DEFINE event == [id |-> id, answer |-> answer]
             q == Handle(r, body)
  <2>5. q = [codec |-> [state |-> "ready", outstanding |-> r.codec.outstanding \ {id},
                        next |-> r.codec.next],
             events |-> Append(r.events, event), bad |-> FALSE]
    <3>1. r \in Handling /\ ~r.bad /\ r.codec.state = "ready" /\ id \in r.codec.outstanding
          /\ body[1] = <<"reply", id, answer>>
      BY <1>1, <1>2, <1>5, <2>1, <2>3, <2>4
    <3>2. q = Replied(r, id, answer) BY <3>1, HandleReply
    <3> QED BY <3>2 DEF Replied
  <2>6. event \in Event /\ event = Reply(i) BY <2>2 DEF Event, Reply
  <2>7. /\ r.events \in Seq(Event) /\ Append(r.events, event) \in Seq(Event)
        /\ Len(Append(r.events, event)) = Len(r.events) + 1 /\ Len(r.events) \in Nat
        /\ \A e \in 1..Len(r.events) : Append(r.events, event)[e] = r.events[e]
        /\ Append(r.events, event)[Len(r.events) + 1] = event
    <3>1. r.events \in Seq(Event) BY <1>1 DEF Handling
    <3> HIDE DEF event
    <3> QED BY <2>6, <3>1, AppendProperties, LenProperties
  <2> HIDE DEF event
  <2>8. q \in Handling
    <3>1. r.codec \in Codecs BY <1>1 DEF Handling
    <3>2. [state |-> "ready", outstanding |-> r.codec.outstanding \ {id}, next |-> r.codec.next]
          \in Codecs
      BY <3>1 DEF Codecs
    <3> HIDE DEF q
    <3> QED BY <2>5, <2>7, <3>2 DEF Handling
  <2>9. /\ q.codec.next = codec.next /\ q.codec.outstanding = r.codec.outstanding \ {id}
        /\ q.codec.state = "ready" /\ q.events = Append(r.events, event) /\ q.bad = FALSE
    BY <2>3, <2>5
  <2> HIDE DEF q
  <2>10. Named(i) = Named(i - 1) \cup {id} BY <1>1, <1>5, <2>2 DEF Named
  <2>11. \A j \in handled + 1..i : Good(j) BY <1>1, <1>5 DEF Kept
  <2>12. ASSUME NEW e \in 1..Len(q.events)
         PROVE  \E j \in handled + 1..i : j > 1 /\ q.events[e] = Reply(j)
    <3>1. CASE e = Len(r.events) + 1 BY <1>1, <1>5, <2>6, <2>7, <2>9, <3>1
    <3>2. CASE e \in 1..Len(r.events)
      <4>1. PICK j \in handled + 1..i - 1 : j > 1 /\ r.events[e] = Reply(j)
        BY <1>5, <3>2 DEF Kept
      <4>2. j \in handled + 1..i BY <1>1
      <4> QED BY <2>7, <2>9, <3>2, <4>1, <4>2
    <3> QED BY <2>7, <2>9, <3>1, <3>2
  <2>13. i # 0 BY <1>1
  <2>14. Kept(q, i) BY <2>3, <2>8, <2>9, <2>10, <2>11, <2>12, <2>13 DEF Kept
  <2> QED BY <2>14 DEF q
<1>6. CASE ~r.bad /\ Wrong(i)
  <2>1. /\ r.codec.state = IF i - 1 = 0 THEN "awaiting" ELSE "ready"
        /\ r.codec.outstanding \subseteq codec.outstanding
    BY <1>6 DEF Kept
  <2>2. Handle(r, body) = [codec |-> r.codec, events |-> r.events, bad |-> TRUE]
    <3>1. CASE Frame(i) = <<"version", 2>>
      <4>1. \E v \in Nat : body[1] = <<"version", v>> /\ v # 3 BY <1>2, <3>1
      <4> QED BY <1>1, <1>6, <4>1, HandleRefused
    <3>2. CASE i > 1 /\ Frame(i) = <<"version", 3>>
      <4>1. r.codec.state # "awaiting" BY <1>1, <2>1, <3>2
      <4> QED BY <1>1, <1>2, <1>6, <3>2, <4>1, HandleRefused
    <3>3. CASE Frame(i) = <<"reply", 0, "ok">>
      <4>1. 0 \notin r.codec.outstanding BY <2>1 DEF Numbered
      <4> QED BY <1>1, <1>2, <1>6, <3>3, <4>1, HandleRefused DEF Answer
    <3> QED BY <1>6, <3>1, <3>2, <3>3 DEF Wrong
  <2> DEFINE q == Handle(r, body)
  <2>3. q \in Handling
    <3>1. r.codec \in Codecs /\ r.events \in Seq(Event) BY <1>1 DEF Handling
    <3> HIDE DEF q
    <3>2. q = [codec |-> r.codec, events |-> r.events, bad |-> TRUE] BY <2>2 DEF q
    <3> QED BY <3>1, <3>2 DEF Handling
  <2>4. q.codec = r.codec /\ q.bad = TRUE BY <2>2
  <2> HIDE DEF q
  <2>5. Kept(q, i) BY <1>6, <2>3, <2>4 DEF Kept, Wrong
  <2> QED BY <2>5 DEF q
<1>7. Good(i) \/ Wrong(i) BY DEF Placed
<1> QED BY <1>1, <1>3, <1>4, <1>5, <1>6, <1>7 DEF Good

\* What receive makes of the frames that feed returned: it fails at nonsense only.
Heard(got, h) ==
    IF got.bad
    THEN /\ got.codec \in Codecs /\ got.codec.state = "failed" /\ got.codec.next = codec.next
         /\ got.codec.outstanding \subseteq codec.outstanding
         /\ got.events = <<>> /\ greeted = "junk"
    ELSE Kept(got, h)

LEMMA ReceiveIs ==
    ASSUME Shape, Placed, Numbered, codec.state \in {"awaiting", "ready"}, NEW t \in 0..Len(written),
           NEW fed, Scanned(fed, written, Len(ends), handled, t)
    PROVE  /\ Heard(CodecReceive(codec, fed), handled + Len(fed.frames))
           /\ fed.bad => CodecReceive(codec, fed).bad
<1> DEFINE N == Len(fed.frames)
           R == [i \in 0..N |-> {r \in Handling : Kept(r, handled + i)}]
           step == [p \in Handling \X (1..N) |-> Handle(p[1], fed.frames[p[2]])]
           first == [codec |-> codec, events |-> <<>>, bad |-> FALSE]
           Is(f) == f = [i \in 0..N |-> IF i = 0 THEN first ELSE Handle(f[i - 1], fed.frames[i])]
<1>1. /\ N \in Nat /\ handled \in Nat /\ Len(ends) \in Nat /\ handled + N <= Len(ends)
      /\ codec.state # "failed" /\ codec \in Codecs
      /\ codec.state = IF handled = 0 THEN "awaiting" ELSE "ready"
      /\ \A i \in 1..N : fed.frames[i] = <<Frame(handled + i)>>
  <2>1. fed.frames \in Seq(Seq(Cell)) BY DEF Scanned
  <2>2. N \in Nat BY <2>1, LenProperties
  <2>3. Len(ends) \in Nat BY LenProperties DEF Shape
  <2>4. codec.state # "failed" OBVIOUS
  <2>5. handled \in 0..Len(ends) /\ codec \in Codecs BY <2>4 DEF Placed
  <2>6. codec.state = IF handled = 0 THEN "awaiting" ELSE "ready" BY <2>4 DEF Placed
  <2>7. handled \in Nat BY <2>3, <2>5
  <2>8. handled + N <= Len(ends) BY DEF Scanned
  <2>9. \A i \in 1..N : fed.frames[i] = <<Frame(handled + i)>> BY DEF Scanned, Frame
  <2> QED BY <2>2, <2>3, <2>4, <2>5, <2>6, <2>7, <2>8, <2>9
<1>2. first \in R[0]
  <2>1. first \in Handling BY <1>1 DEF Handling
  <2>2. first.codec = codec /\ first.events = <<>> /\ first.bad = FALSE OBVIOUS
  <2>3. handled + 0 = handled /\ handled + 1..handled = {} BY <1>1
  <2>4. Named(handled) = {} BY <2>3 DEF Named
  <2> HIDE DEF first
  <2>5. Kept(first, handled + 0) BY <1>1, <2>1, <2>2, <2>3, <2>4 DEF Kept
  <2> QED BY <1>1, <2>1, <2>5
<1>3. ASSUME NEW i \in 1..N, NEW r \in R[i - 1] PROVE step[<<r, i>>] \in R[i]
  <2>1. i - 1 \in 0..N /\ i \in 0..N BY <1>1
  <2>2. r \in Handling /\ Kept(r, handled + (i - 1)) BY <1>3, <2>1
  <2>3. step[<<r, i>>] = Handle(r, fed.frames[i]) BY <2>2
  <2>4. handled + i \in handled + 1..Len(ends) /\ handled + (i - 1) = (handled + i) - 1 BY <1>1
  <2>5. fed.frames[i] = <<Frame(handled + i)>> BY <1>1
  <2> HIDE DEF R, step, first, Is
  <2>6. Kept(Handle(r, fed.frames[i]), handled + i)
    <3>1. Kept(r, (handled + i) - 1) BY <2>2, <2>4
    <3> QED BY <1>1, <2>4, <2>5, <3>1, HandleKeeps
  <2>7. Handle(r, fed.frames[i]) \in Handling BY <2>6 DEF Kept
  <2> QED BY <2>1, <2>3, <2>6, <2>7 DEF R
<1>4. R \in [0..N -> SUBSET Handling] OBVIOUS
<1>5. \A i \in 1..N : \A r \in R[i - 1] : step[<<r, i>>] \in R[i] BY <1>3
<1>6. \A r \in Handling : \A i \in 1..N : step[<<r, i>>] = Handle(r, fed.frames[i]) OBVIOUS
<1> HIDE DEF N, R, step, first, Is
<1>7. \E f : Is(f)
  <2>1. Loop(N, Handling, R, first, step) BY <1>1, <1>2, <1>4, <1>5 DEF Loop
  <2>2. PICK f \in [0..N -> Handling] : /\ f[0] = first
                                        /\ \A i \in 1..N : f[i] = step[<<f[i - 1], i>>]
    BY <2>1, Iterates
  <2>3. \A i \in 0..N : f[i] = IF i = 0 THEN first ELSE Handle(f[i - 1], fed.frames[i])
    <3> SUFFICES ASSUME NEW i \in 0..N, i # 0 PROVE f[i] = Handle(f[i - 1], fed.frames[i]) BY <2>2
    <3>1. i \in 1..N /\ i - 1 \in 0..N BY <1>1
    <3> QED BY <1>6, <2>2, <3>1
  <2>4. f = [i \in 0..N |-> f[i]] BY <2>2
  <2> QED BY <2>3, <2>4 DEF Is
<1> DEFINE after == CHOOSE f : Is(f)
           got == CodecReceive(codec, fed)
<1>8. Is(after) BY <1>7
<1>9. got = IF after[N].bad \/ fed.bad
            THEN [codec |-> [after[N].codec EXCEPT !.state = "failed"], events |-> <<>>, bad |-> TRUE]
            ELSE after[N]
  BY DEF CodecReceive, first, N, Is
<1> HIDE DEF after, got
<1>10. /\ after[0] = first
       /\ \A i \in 1..N : after[i] = Handle(after[i - 1], fed.frames[i])
  <2>1. \A i \in 0..N : after[i] = IF i = 0 THEN first ELSE Handle(after[i - 1], fed.frames[i])
    BY <1>8 DEF Is
  <2>2. 0 \in 0..N /\ \A i \in 1..N : i \in 0..N /\ i # 0 BY <1>1
  <2> QED BY <2>1, <2>2
<1>11. \A i \in 0..N : after[i] \in R[i]
  <2>1. Follows(N, Handling, after, step) BY <1>6, <1>10 DEF Follows
  <2>2. Loop(N, Handling, R, after[0], step) BY <1>1, <1>2, <1>4, <1>5, <1>10 DEF Loop
  <2> QED BY <2>1, <2>2, IteratesKeep
<1>12. Kept(after[N], handled + N) BY <1>1, <1>11 DEF R
<1>13. after[N] \in Handling BY <1>12 DEF Kept
<1>14. ASSUME ~(after[N].bad \/ fed.bad) PROVE Heard(got, handled + N)
  <2>1. got = after[N] BY <1>9, <1>14
  <2> QED BY <1>12, <1>14, <2>1 DEF Heard
<1>15. ASSUME after[N].bad \/ fed.bad PROVE Heard(got, handled + N)
  <2> DEFINE c == after[N].codec
  <2>1. c \in Codecs /\ c.next = codec.next /\ c.outstanding \subseteq codec.outstanding
    BY <1>12, <1>13 DEF Kept, Handling
  <2> HIDE DEF c
  <2>2. [c EXCEPT !.state = "failed"]
        = [state |-> "failed", outstanding |-> c.outstanding, next |-> c.next]
    BY <2>1 DEF Codecs
  <2>3. got = [codec |-> [c EXCEPT !.state = "failed"], events |-> <<>>, bad |-> TRUE]
    BY <1>9, <1>15 DEF c
  <2>4. got.bad = TRUE /\ got.events = <<>>
        /\ got.codec = [state |-> "failed", outstanding |-> c.outstanding, next |-> c.next]
    BY <2>2, <2>3
  <2>5. /\ got.codec \in Codecs /\ got.codec.state = "failed" /\ got.codec.next = codec.next
        /\ got.codec.outstanding \subseteq codec.outstanding
    BY <2>1, <2>4 DEF Codecs
  <2>6. greeted = "junk"
    <3>1. CASE after[N].bad BY <1>12, <3>1 DEF Kept
    <3>2. CASE fed.bad
      <4>1. t = 3 * Len(ends) + 2 BY <3>2 DEF Scanned
      <4>2. Len(written) \in Nat /\ t <= Len(written) /\ Len(written) \in {3 * Len(ends), 3 * Len(ends) + 2}
        BY LenProperties DEF Shape, Stream
      <4>3. Len(written) # 3 * Len(ends) BY <1>1, <4>1, <4>2
      <4> QED BY <4>3 DEF Shape
    <3> QED BY <1>15, <3>1, <3>2
  <2> QED BY <2>4, <2>5, <2>6 DEF Heard
<1>16. fed.bad => got.bad
  <2>1. CASE fed.bad BY <1>9, <2>1
  <2> QED BY <2>1
<1> QED BY <1>14, <1>15, <1>16 DEF got, N

-------------------------------------------------------------------------------
(* What each step makes of it *)

\* A chunk that is read leaves the splitter and the codec in their places, and the events it
\* brings are replies to requests nobody had answered.
Brought(got) ==
    /\ codec' = got.codec /\ (got.bad <=> codec'.state = "failed") /\ codec'.next = codec.next
    /\ codec'.state # "new" /\ (codec.state = "ready" => codec'.state # "awaiting")
    /\ \A e \in DOMAIN got.events :
          \E i \in handled + 1..Len(ends) : i > 1 /\ Good(i) /\ got.events[e] = Reply(i)
    /\ codec'.state # "failed" =>
          /\ handled' >= handled
          /\ \A i \in handled' + 1..Len(ends) : i > 1 /\ Good(i)' => Good(i)

LEMMA ReadsIs ==
    ASSUME Shape, Placed, Numbered, codec.state \in {"awaiting", "ready"},
           NEW n, n \in Chunks, NEW referenced, Reads(n, referenced)
    PROVE  Shape' /\ Placed' /\ Numbered' /\ Brought(Received(n, referenced))
<1> DEFINE m == Len(ends)
           fed == Feed(splitter, Chunk(n), referenced)
           got == CodecReceive(codec, fed)
           k == Len(fed.frames)
<1>1. /\ m \in Nat /\ Stream(written, m) /\ Len(written) \in Nat /\ codec.state # "failed"
      /\ handled \in 0..m /\ taken \in 3 * handled..3 * handled + 2 /\ taken \in 0..Len(written)
      /\ Holding(splitter, written, handled, taken) /\ n \in 1..Len(written) - taken
      /\ codec.state = IF greeted = "no" THEN "new" ELSE IF handled = 0 THEN "awaiting" ELSE "ready"
      /\ handled = 0 => codec.outstanding = {}
      /\ \A i \in handled + 1..m : Good(i) \/ Wrong(i)
  <2>1. m \in Nat BY LenProperties DEF Shape
  <2>2. Len(written) \in Nat BY LenProperties DEF Shape, Stream
  <2> QED BY <2>1, <2>2 DEF Shape, Placed, Chunks
<1>2. /\ splitter' = fed.splitter /\ handled' = handled + k /\ codec' = got.codec
      /\ taken' = taken + n /\ UNCHANGED <<greeted, asked, written, ends>>
      /\ got = Received(n, referenced)
  BY DEF Reads, Received
<1>3. Scanned(fed, written, m, handled, taken + n) /\ Ended(fed, handled, taken + n)
  <2>1. Fed(m, written, handled, taken, n, splitter) BY <1>1 DEF Fed
  <2>2. Chunk(n) = Cut(written, taken, n) BY DEF Chunk, Cut
  <2> HIDE DEF m
  <2> QED BY <2>1, <2>2, FeedIs
<1>4. taken + n \in 0..Len(written) /\ taken + n \in Nat BY <1>1
<1>5. Heard(got, handled + k) /\ (fed.bad => got.bad)
  <2> HIDE DEF fed
  <2> QED BY <1>3, <1>4, ReceiveIs
<1>6. /\ k \in Nat /\ handled + k <= m /\ 3 * (handled + k) <= taken + n
      /\ Holding(fed.splitter, written, handled + k, taken + n)
      /\ fed.bad \/ taken + n < 3 * (handled + k) + 3
  <2>1. fed.frames \in Seq(Seq(Cell)) BY <1>3 DEF Scanned
  <2>2. k \in Nat BY <2>1, LenProperties
  <2> HIDE DEF fed
  <2> QED BY <1>3, <2>2 DEF Scanned, Ended
<1> HIDE DEF m, fed, got, k
<1>7. got.codec \in Codecs /\ got.codec.next = codec.next /\ got.codec.outstanding \subseteq codec.outstanding
  BY <1>5 DEF Heard, Kept, Handling
<1>8. Shape' BY <1>2, <1>4 DEF Shape, Stream
<1>9. CASE got.bad
  <2>1. codec'.state = "failed" /\ got.events = <<>> /\ greeted = "junk"
    BY <1>2, <1>5, <1>9 DEF Heard
  <2>2. Placed' BY <1>2, <1>7, <2>1 DEF Placed
  <2>3. Numbered' BY <1>2, <1>7, <2>1 DEF Numbered
  <2>4. Brought(got) BY <1>2, <1>7, <1>9, <2>1 DEF Brought
  <2> QED BY <1>2, <1>8, <2>2, <2>3, <2>4
<1>10. CASE ~got.bad
  <2>1. /\ Kept(got, handled + k) /\ taken + n < 3 * (handled + k) + 3
    BY <1>5, <1>6, <1>10 DEF Heard
  <2>2. /\ codec'.state = IF handled' = 0 THEN "awaiting" ELSE "ready"
        /\ codec'.outstanding = codec.outstanding \ Named(handled')
        /\ \A i \in handled + 1..handled' : Good(i)
        /\ \A e \in 1..Len(got.events) : \E i \in handled + 1..handled' : i > 1 /\ got.events[e] = Reply(i)
        /\ got.events \in Seq(Event)
    BY <1>2, <1>10, <2>1 DEF Kept, Handling
  <2>3. handled' \in 0..m /\ handled \in Nat /\ handled' >= handled /\ taken' \in 3 * handled'..3 * handled' + 2
    BY <1>1, <1>2, <1>4, <1>6, <2>1
  <2>30. PICK h : h = handled' OBVIOUS
  <2>31. m \in Nat /\ handled \in Nat /\ h \in Nat /\ handled <= h BY <1>1, <2>3, <2>30
  <2>4. Holding(splitter, written, handled, taken)' BY <1>2, <1>6 DEF Holding
  <2>5. greeted # "no" /\ codec'.state # "failed" /\ codec'.state # "new" BY <1>1, <2>2
  <2>6. ASSUME NEW i \in h + 1..m PROVE Good(i)' \/ Wrong(i)'
    <3>1. i \in handled + 1..m BY <2>31
    <3>2. Wrong(i) => Wrong(i)' BY <1>2 DEF Wrong, Frame
    <3>3. ASSUME Good(i), i # 1 PROVE Good(i)'
      <4>1. /\ i > 1 /\ Frame(i) \in {"reply"} \X Nat \X Answer /\ Frame(i)[2] \in codec.outstanding
            /\ \A j \in handled + 1..i - 1 : j > 1 => Frame(j)[2] # Frame(i)[2]
            /\ \A q \in asked : q.id # Frame(i)[2]
        BY <3>3 DEF Good
      <4>2. \A j \in handled + 1..h : j \in handled + 1..i - 1 BY <2>31
      <4>3. Frame(i)[2] \notin Named(h) BY <4>1, <4>2 DEF Named
      <4>4. \A j \in h + 1..i - 1 : j \in handled + 1..i - 1 BY <2>31
      <4>5. \A j : Frame(j)' = Frame(j) BY <1>2 DEF Frame
      <4>6. Frame(i)[2] \in codec'.outstanding BY <2>2, <2>30, <4>1, <4>3
      <4>7. \A j \in h + 1..i - 1 : j > 1 => Frame(j)'[2] # Frame(i)'[2] BY <4>1, <4>4, <4>5
      <4> QED BY <1>2, <2>30, <4>1, <4>5, <4>6, <4>7 DEF Good
    <3>4. Good(i) /\ i = 1 => Good(i)' BY <1>2 DEF Good, Frame
    <3> QED BY <1>1, <3>1, <3>2, <3>3, <3>4
  <2>7. Placed'
    <3>1. codec' \in Codecs /\ m = Len(ends)' BY <1>2, <1>7 DEF m
    <3>2. handled' = 0 => codec'.outstanding = {}
      <4>1. handled' = 0 => handled = 0 BY <1>1, <2>3
      <4> QED BY <1>1, <2>2, <4>1
    <3> QED BY <1>2, <2>2, <2>3, <2>30, <2>4, <2>5, <2>6, <3>1, <3>2 DEF Placed
  <2>8. Numbered'
    <3>1. ASSUME NEW q \in asked PROVE q.id \in codec'.outstanding
      <4>1. q.id \in codec.outstanding BY <1>1 DEF Numbered
      <4>2. ASSUME NEW i \in handled + 1..handled', i > 1 PROVE q.id # Frame(i)[2]
        BY <2>2, <4>2 DEF Good
      <4> QED BY <2>2, <4>1, <4>2 DEF Named
    <3> QED BY <1>1, <1>2, <1>7, <3>1 DEF Numbered
  <2>9. ASSUME NEW i \in h + 1..Len(ends), i > 1, Good(i)' PROVE Good(i)
    <3>1. i \in handled + 1..m BY <2>31 DEF m
    <3>2. CASE Good(i) BY <3>2
    <3>3. CASE Wrong(i)
      <4>1. Frame(i)' = Frame(i) BY <1>2 DEF Frame
      <4>2. Frame(i)[1] = "reply" /\ Frame(i)[2] \in codec'.outstanding BY <2>9, <4>1 DEF Good
      <4>3. Frame(i) = <<"reply", 0, "ok">> BY <3>3, <4>2 DEF Wrong
      <4>4. 0 \in codec.outstanding BY <2>2, <4>2, <4>3
      <4> QED BY <4>4 DEF Numbered
    <3> QED BY <1>1, <3>1, <3>2, <3>3
  <2>10. Brought(got)
    <3>1. DOMAIN got.events = 1..Len(got.events) BY <2>2, LenProperties
    <3>2. ASSUME NEW e \in DOMAIN got.events
          PROVE  \E i \in handled + 1..Len(ends) : i > 1 /\ Good(i) /\ got.events[e] = Reply(i)
      <4>1. PICK i \in handled + 1..handled' : i > 1 /\ got.events[e] = Reply(i) BY <2>2, <3>1
      <4>2. i \in handled + 1..Len(ends) BY <1>1, <2>3 DEF m
      <4> QED BY <2>2, <4>1, <4>2
    <3>3. codec.state = "ready" => codec'.state # "awaiting"
      <4>1. codec.state = "ready" => handled # 0 BY <1>1
      <4>2. handled # 0 => handled' # 0 BY <1>1, <2>3
      <4> QED BY <2>2, <4>1, <4>2
    <3> QED BY <1>2, <1>7, <1>10, <2>3, <2>30, <2>5, <2>9, <3>2, <3>3 DEF Brought
  <2> QED BY <1>2, <1>8, <2>7, <2>8, <2>10
<1> QED BY <1>9, <1>10

\* One more frame is written.
Books(w, e) == e \in Seq(Nat) /\ (\A i \in 1..Len(e) : e[i] = 3 * i) /\ Stream(w, Len(e))
Longer(w, e, v, f, cell) ==
    /\ Books(v, f) /\ Len(f) = Len(e) + 1 /\ Len(v) = 3 * Len(f)
    /\ \A j \in 1..Len(w) : v[j] = w[j]
    /\ v[3 * Len(f)] = cell
LEMMA WritesIs ==
    ASSUME NEW w, NEW e, Books(w, e), Len(w) = 3 * Len(e), NEW cell, cell \in Cell
    PROVE  Longer(w, e, w \o Framed(<<cell>>), Append(e, Len(w) + PrefixSize + Len(<<cell>>)), cell)
<1> DEFINE m == Len(e)
           v == w \o Framed(<<cell>>)
           f == Append(e, Len(w) + PrefixSize + Len(<<cell>>))
           frame == <<<<"length", 0>>, <<"length", 1>>, cell>>
<1>1. /\ m \in Nat /\ w \in Seq(Cell) /\ e \in Seq(Nat) /\ Len(w) = 3 * m
      /\ \A i \in 1..m : e[i] = 3 * i
      /\ \A i \in 1..m : w[3 * i - 2] = <<"length", 0>> /\ w[3 * i - 1] = <<"length", 1>>
  <2>1. m \in Nat BY LenProperties DEF Books
  <2> QED BY <2>1 DEF Books, Stream
<1>2. Framed(<<cell>>) = frame
  <2>1. Prefix(1) = <<<<"length", 0>>, <<"length", 1>>>>
    <3>1. 1 \div 2 = 0 /\ 1 % 2 = 1 BY SMT
    <3> QED BY <3>1 DEF Prefix
  <2>2. Len(<<cell>>) = 1 OBVIOUS
  <2>3. <<<<"length", 0>>, <<"length", 1>>>> \o <<cell>> = frame
    <3> DEFINE a == <<<<"length", 0>>, <<"length", 1>>>>
               b == <<cell>>
               s == a \o b
    <3>1. <<"length", 0>> \in Cell /\ <<"length", 1>> \in Cell BY DEF Cell
    <3>2. /\ a \in Seq(Cell) /\ b \in Seq(Cell) /\ Len(a) = 2 /\ Len(b) = 1
          /\ a[1] = <<"length", 0>> /\ a[2] = <<"length", 1>> /\ b[1] = cell
      BY <3>1
    <3> HIDE DEF a, b
    <3>3. /\ s \in Seq(Cell) /\ Len(s) = Len(a) + Len(b)
          /\ \A j \in 1..Len(a) + Len(b) : s[j] = IF j <= Len(a) THEN a[j] ELSE b[j - Len(a)]
      BY <3>2, ConcatProperties
    <3> HIDE DEF s
    <3>4. Len(s) = 3 /\ s[1] = a[1] /\ s[2] = a[2] /\ s[3] = b[1]
      <4>1. Len(a) + Len(b) = 3 /\ 1 \in 1..3 /\ 2 \in 1..3 /\ 3 \in 1..3 BY <3>2
      <4>2. 1 <= Len(a) /\ 2 <= Len(a) /\ ~(3 <= Len(a)) /\ 3 - Len(a) = 1 BY <3>2
      <4> QED BY <3>3, <4>1, <4>2
    <3>5. s = frame BY <3>2, <3>3, <3>4
    <3> QED BY <3>5 DEF s, a, b
  <2> QED BY <2>1, <2>2, <2>3 DEF Framed
<1>3. frame \in Seq(Cell) /\ Len(frame) = 3 /\ frame[1] = <<"length", 0>>
      /\ frame[2] = <<"length", 1>> /\ frame[3] = cell
  <2>1. <<"length", 0>> \in Cell /\ <<"length", 1>> \in Cell BY DEF Cell
  <2> QED BY <2>1
<1>4. v = w \o frame BY <1>2
<1> HIDE DEF frame, m
<1>5. /\ v \in Seq(Cell) /\ Len(v) = 3 * m + 3
      /\ \A j \in 1..3 * m : v[j] = w[j]
      /\ v[3 * m + 1] = <<"length", 0>> /\ v[3 * m + 2] = <<"length", 1>> /\ v[3 * m + 3] = cell
  <2>1. /\ w \o frame \in Seq(Cell) /\ Len(w \o frame) = Len(w) + Len(frame)
        /\ \A j \in 1..Len(w) + Len(frame) :
              (w \o frame)[j] = IF j <= Len(w) THEN w[j] ELSE frame[j - Len(w)]
    BY <1>1, <1>3, ConcatProperties
  <2>2. \A j \in 1..3 * m + 3 : v[j] = IF j <= 3 * m THEN w[j] ELSE frame[j - 3 * m]
    BY <1>1, <1>3, <1>4, <2>1
  <2>3. v \in Seq(Cell) /\ Len(v) = 3 * m + 3 BY <1>1, <1>3, <1>4, <2>1
  <2> HIDE DEF v
  <2>4. \A j \in 1..3 * m : v[j] = w[j] BY <1>1, <2>2
  <2>5. v[3 * m + 1] = frame[1]
    <3>1. 3 * m + 1 \in 1..3 * m + 3 /\ ~(3 * m + 1 <= 3 * m) /\ (3 * m + 1) - 3 * m = 1 BY <1>1
    <3> QED BY <2>2, <3>1
  <2>6. v[3 * m + 2] = frame[2]
    <3>1. 3 * m + 2 \in 1..3 * m + 3 /\ ~(3 * m + 2 <= 3 * m) /\ (3 * m + 2) - 3 * m = 2 BY <1>1
    <3> QED BY <2>2, <3>1
  <2>7. v[3 * m + 3] = frame[3]
    <3>1. 3 * m + 3 \in 1..3 * m + 3 /\ ~(3 * m + 3 <= 3 * m) /\ (3 * m + 3) - 3 * m = 3 BY <1>1
    <3> QED BY <2>2, <3>1
  <2> QED BY <1>3, <2>3, <2>4, <2>5, <2>6, <2>7
<1>6. /\ f \in Seq(Nat) /\ Len(f) = m + 1 /\ \A i \in 1..m : f[i] = e[i]
      /\ f[m + 1] = 3 * m + 3
  <2>1. Len(w) + PrefixSize + Len(<<cell>>) = 3 * m + 3
    <3> DEFINE one == Len(<<cell>>)
    <3>1. one = 1 OBVIOUS
    <3> HIDE DEF v, one, f
    <3>a. m \in Nat /\ Len(w) = 3 * m BY <1>1
    <3>2. Len(w) + 2 + one = 3 * m + 3 BY <3>a, <3>1
    <3> QED BY <3>2 DEF PrefixSize, one
  <2>2. 3 * m + 3 \in Nat BY <1>1
  <2>3. f = Append(e, 3 * m + 3) BY <2>1
  <2> HIDE DEF f
  <2> QED BY <1>1, <2>2, <2>3, AppendProperties DEF m
<1> HIDE DEF v, f
<1>7. \A i \in 1..m + 1 : f[i] = 3 * i
  <2> SUFFICES ASSUME NEW i \in 1..m + 1 PROVE f[i] = 3 * i OBVIOUS
  <2>1. CASE i = m + 1 BY <1>1, <1>6, <2>1
  <2>2. CASE i \in 1..m BY <1>1, <1>6, <2>2
  <2> QED BY <1>1, <2>1, <2>2
<1>8. ASSUME NEW i \in 1..m + 1
  PROVE v[3 * i - 2] = <<"length", 0>> /\ v[3 * i - 1] = <<"length", 1>>
  <2>1. CASE i = m + 1
    <3>1. 3 * i - 2 = 3 * m + 1 /\ 3 * i - 1 = 3 * m + 2 BY <1>1, <2>1
    <3> QED BY <1>5, <3>1
  <2>2. CASE i \in 1..m
    <3>1. 3 * i - 2 \in 1..3 * m /\ 3 * i - 1 \in 1..3 * m BY <1>1, <2>2
    <3> QED BY <1>1, <1>5, <2>2, <3>1
  <2> QED BY <1>1, <2>1, <2>2
<1>9. Stream(v, m + 1)
  <2>1. Len(v) = 3 * (m + 1) /\ 3 * (m + 1) # 3 * (m + 1) + 2 /\ m + 1 \in Nat BY <1>1, <1>5
  <2> QED BY <1>5, <1>8, <2>1 DEF Stream
<1>10. 3 * Len(f) = 3 * m + 3 BY <1>1, <1>6
<1>11. Longer(w, e, v, f, cell)
  BY <1>1, <1>5, <1>6, <1>7, <1>9, <1>10 DEF Longer, Books, m
<1> QED BY <1>11 DEF v, f

\* What the server may write next.
Next3(cell) ==
    \/ /\ greeted' = "junk"
       /\ \/ cell = <<"version", 2>>
          \/ Len(ends) >= 1 /\ cell = <<"version", 3>>
          \/ cell = <<"reply", 0, "ok">>
    \/ Len(ends) = 0 /\ cell = <<"version", 3>>
    \/ /\ Len(ends) >= 1 /\ cell \in {"reply"} \X Nat \X Answer /\ cell[2] \in codec.outstanding
       /\ \A j \in handled + 1..Len(ends) : j > 1 => Frame(j)[2] # cell[2]
       /\ \A q \in asked' : q.id # cell[2]
Added(cell) ==
    \A i \in handled + 1..Len(ends)' :
        \/ i \in handled + 1..Len(ends) /\ Good(i) /\ Frame(i)' = Frame(i)
        \/ i = Len(ends) + 1 /\ Frame(i)' = cell

LEMMA FrameKeeps ==
    ASSUME Shape, Placed, Numbered, greeted \in {"init", "done"},
           UNCHANGED <<codec, splitter, taken, handled>>, asked' \subseteq asked,
           NEW cell, cell \in Cell, Writes(<<cell>>), greeted' \in {"done", "junk"}, Next3(cell)
    PROVE  Shape' /\ Placed' /\ Numbered' /\ Added(cell)
<1>1. PICK v, f, m : v = written' /\ f = ends' /\ m = Len(ends) OBVIOUS
<1>2. /\ m \in Nat /\ Books(written, ends) /\ Len(written) = 3 * m /\ codec.state # "failed"
      /\ handled \in 0..m /\ taken \in 3 * handled..3 * handled + 2 /\ taken \in 0..Len(written)
      /\ Holding(splitter, written, handled, taken) /\ codec \in Codecs
      /\ codec.state = IF greeted = "no" THEN "new" ELSE IF handled = 0 THEN "awaiting" ELSE "ready"
      /\ handled = 0 => codec.outstanding = {}
      /\ \A i \in handled + 1..m : Good(i)
  <2>1. m \in Nat BY <1>1, LenProperties DEF Shape
  <2> QED BY <1>1, <2>1 DEF Shape, Placed, Books, Wrong
<1>3. Longer(written, ends, v, f, cell) BY <1>1, <1>2, WritesIs DEF Writes
<1>4. /\ Books(v, f) /\ Len(f) = m + 1 /\ Len(v) = 3 * m + 3
      /\ \A j \in 1..3 * m : v[j] = written[j]
      /\ v[3 * (m + 1)] = cell
  BY <1>1, <1>2, <1>3 DEF Longer
<1>5. \A i \in handled + 1..m : v[3 * i] = written[3 * i]
  <2>1. \A i \in handled + 1..m : 3 * i \in 1..3 * m BY <1>2
  <2> QED BY <1>4, <2>1
<1>6. \A i \in handled + 1..m : Frame(i)' = Frame(i) BY <1>1, <1>5 DEF Frame
<1>7. Frame(m + 1)' = cell BY <1>1, <1>4 DEF Frame
<1>8. \A i \in handled + 1..m + 1 : i \in handled + 1..m \/ i = m + 1 BY <1>2
<1>9. Shape'
  <2>1. taken \in 0..Len(v) BY <1>2, <1>4
  <2>2. Len(v) = 3 * Len(f) /\ Len(f) >= 1 /\ Len(f) # 0 BY <1>2, <1>4
  <2> QED BY <1>1, <1>4, <2>1, <2>2 DEF Shape, Books, Stream
<1>10. Holding(splitter, v, handled, taken)
  <2>1. ASSUME NEW j \in 1..taken - 3 * handled PROVE v[3 * handled + j] = written[3 * handled + j]
    <3>1. 3 * handled + j \in 1..3 * m BY <1>2
    <3> QED BY <1>4, <3>1
  <2> QED BY <1>2, <2>1 DEF Holding
<1>11. \A i \in handled + 1..m : Good(i)'
  <2> SUFFICES ASSUME NEW i \in handled + 1..m PROVE Good(i)' OBVIOUS
  <2>1. Good(i) /\ Frame(i)' = Frame(i) BY <1>2, <1>6
  <2>2. CASE i = 1 /\ Frame(i) = <<"version", 3>> BY <2>1, <2>2 DEF Good
  <2>3. CASE i > 1 /\ Frame(i) \in {"reply"} \X Nat \X Answer
    <3>1. \A j \in handled + 1..i - 1 : j \in handled + 1..m BY <1>2
    <3>2. /\ Frame(i)[2] \in codec.outstanding
          /\ \A j \in handled + 1..i - 1 : j > 1 => Frame(j)[2] # Frame(i)[2]
          /\ \A q \in asked : q.id # Frame(i)[2]
      BY <1>2, <2>1, <2>3 DEF Good
    <3>3. \A j \in handled + 1..i - 1 : j > 1 => Frame(j)'[2] # Frame(i)'[2]
      BY <1>6, <2>1, <3>1, <3>2
    <3>4. \A q \in asked' : q.id # Frame(i)'[2] BY <2>1, <3>2
    <3>5. Frame(i)'[2] \in codec'.outstanding /\ Frame(i)' \in {"reply"} \X Nat \X Answer
      BY <2>1, <2>3, <3>2
    <3> QED BY <2>3, <3>3, <3>4, <3>5 DEF Good
  <2> QED BY <2>1, <2>2, <2>3 DEF Good
<1>12. Good(m + 1)' \/ Wrong(m + 1)'
  <2>1. m + 1 = Len(ends)' BY <1>1, <1>4
  <2>2. CASE /\ greeted' = "junk"
             /\ \/ cell = <<"version", 2>>
                \/ Len(ends) >= 1 /\ cell = <<"version", 3>>
                \/ cell = <<"reply", 0, "ok">>
    <3>1. m >= 1 => m + 1 > 1 BY <1>2
    <3> QED BY <1>1, <1>7, <2>1, <2>2, <3>1 DEF Wrong
  <2>3. CASE Len(ends) = 0 /\ cell = <<"version", 3>>
    <3>1. m + 1 = 1 BY <1>1, <1>2, <2>3
    <3> QED BY <1>7, <2>3, <3>1 DEF Good
  <2>4. CASE /\ Len(ends) >= 1 /\ cell \in {"reply"} \X Nat \X Answer /\ cell[2] \in codec.outstanding
             /\ \A j \in handled + 1..Len(ends) : j > 1 => Frame(j)[2] # cell[2]
             /\ \A q \in asked' : q.id # cell[2]
    <3>1. m + 1 > 1 /\ (m + 1) - 1 = m BY <1>1, <1>2, <2>4
    <3>2. \A j \in handled + 1..m : j > 1 => Frame(j)'[2] # Frame(m + 1)'[2]
      BY <1>1, <1>6, <1>7, <2>4
    <3> QED BY <1>7, <2>4, <3>1, <3>2 DEF Good
  <2> QED BY <2>2, <2>3, <2>4 DEF Next3
<1>13. Placed'
  <2>1. \A i \in handled + 1..Len(f) : Good(i)' \/ Wrong(i)' BY <1>4, <1>8, <1>11, <1>12
  <2>2. handled \in 0..Len(f) BY <1>2, <1>4
  <2>3. greeted' # "no" /\ greeted # "no" OBVIOUS
  <2> QED BY <1>1, <1>2, <1>10, <2>1, <2>2, <2>3 DEF Placed
<1>14. Numbered' BY DEF Numbered
<1>15. Added(cell)
  <2>1. Len(ends)' = m + 1 BY <1>1, <1>4
  <2> QED BY <1>1, <1>2, <1>6, <1>7, <1>8, <2>1 DEF Added
<1> QED BY <1>9, <1>13, <1>14, <1>15

\* What is unread and good was so before.
Stays ==
    \A i \in handled' + 1..Len(ends)' :
        i > 1 /\ Good(i)' => i \in handled + 1..Len(ends) /\ Good(i) /\ Frame(i)' = Frame(i)

LEMMA WrongStays ==
    ASSUME Shape, Placed, Numbered, codec.state # "failed", NEW i \in handled + 1..Len(ends), i > 1,
           Frame(i)' = Frame(i), Good(i)', codec'.outstanding \subseteq codec.outstanding \cup {codec.next}
    PROVE  Good(i)
<1>1. Good(i) \/ Wrong(i) BY DEF Placed
<1>2. CASE Wrong(i)
  <2>1. Frame(i)' \in {"reply"} \X Nat \X Answer /\ Frame(i)'[2] \in codec'.outstanding
    BY DEF Good
  <2>2. Frame(i) = <<"reply", 0, "ok">> BY <1>2, <2>1 DEF Wrong
  <2>3. 0 \in codec.outstanding \cup {codec.next} BY <2>1, <2>2
  <2> QED BY <2>3 DEF Numbered
<1> QED BY <1>1, <1>2

\* Nothing is written, and no more is asked.
LEMMA QuietKeeps ==
    ASSUME Shape, Placed, Numbered, UNCHANGED <<codec, splitter, taken, handled, ends, written, greeted>>,
           asked' \subseteq asked
    PROVE  Shape' /\ Placed' /\ Numbered' /\ (codec'.state # "failed" => Stays)
<1>1. Shape' BY DEF Shape, Stream
<1>2. \A i : Frame(i)' = Frame(i) /\ (Wrong(i) => Wrong(i)') /\ (Good(i) => Good(i)')
  BY DEF Frame, Wrong, Good
<1>3. Placed' BY <1>2 DEF Placed, Holding
<1>4. Numbered' BY DEF Numbered
<1>5. ASSUME codec.state # "failed" PROVE Stays
  <2> SUFFICES ASSUME NEW i \in handled + 1..Len(ends), i > 1, Good(i)' PROVE Good(i)
    BY <1>2 DEF Stays
  <2>1. codec'.outstanding \subseteq codec.outstanding \cup {codec.next} OBVIOUS
  <2> QED BY <1>2, <1>5, <2>1, WrongStays
<1> QED BY <1>1, <1>3, <1>4, <1>5

\* A length nobody would send.
LEMMA PrefixKeeps ==
    ASSUME Shape, Placed, Numbered, greeted = "done", UNCHANGED <<codec, splitter, taken, handled, ends>>,
           asked' \subseteq asked, written' = written \o Prefix(MaxFrameLength + 1), greeted' = "junk"
    PROVE  Shape' /\ Placed' /\ Numbered' /\ (codec'.state # "failed" => Stays)
<1> DEFINE a == <<"length", (MaxFrameLength + 1) \div 2>>
           b == <<"length", (MaxFrameLength + 1) % 2>>
<1>1. PICK v, m : v = written' /\ m = Len(ends) OBVIOUS
<1>2. /\ m \in Nat /\ written \in Seq(Cell) /\ Len(written) = 3 * m /\ codec.state # "failed"
      /\ \A i \in 1..m : written[3 * i - 2] = <<"length", 0>> /\ written[3 * i - 1] = <<"length", 1>>
      /\ handled \in 0..m /\ taken \in 3 * handled..3 * handled + 2 /\ taken \in 0..Len(written)
      /\ Holding(splitter, written, handled, taken)
      /\ \A i \in handled + 1..m : Good(i)
  <2>1. m \in Nat BY <1>1, LenProperties DEF Shape
  <2> QED BY <1>1, <2>1 DEF Shape, Placed, Stream, Wrong
<1>3. a \in Cell /\ b \in Cell
  <2>1. MaxFrameLength + 1 \in Nat BY FramingAssumption
  <2>2. \A x \in Nat : x \div 2 \in Nat /\ x % 2 \in Nat
    <3> TAKE x \in Nat
    <3> QED BY SMT
  <2> QED BY <2>1, <2>2 DEF Cell
<1> HIDE DEF a, b
<1>4. /\ v \in Seq(Cell) /\ Len(v) = 3 * m + 2 /\ \A j \in 1..3 * m : v[j] = written[j]
      /\ v[3 * m + 1] = a /\ v[3 * m + 2] = b
  <2> DEFINE p == <<a, b>>
  <2>1. p \in Seq(Cell) /\ Len(p) = 2 /\ p[1] = a /\ p[2] = b BY <1>3
  <2>2. v = written \o p BY <1>1 DEF Prefix, a, b
  <2> HIDE DEF p
  <2>3. /\ written \o p \in Seq(Cell) /\ Len(written \o p) = Len(written) + Len(p)
        /\ \A j \in 1..Len(written) + Len(p) :
              (written \o p)[j] = IF j <= Len(written) THEN written[j] ELSE p[j - Len(written)]
    BY <1>2, <2>1, ConcatProperties
  <2>4. v \in Seq(Cell) /\ Len(v) = 3 * m + 2 BY <1>2, <2>1, <2>2, <2>3
  <2>5. \A j \in 1..3 * m + 2 : v[j] = IF j <= 3 * m THEN written[j] ELSE p[j - 3 * m]
    BY <1>2, <2>1, <2>2, <2>3
  <2>6. \A j \in 1..3 * m : v[j] = written[j] BY <1>2, <2>5
  <2>7. v[3 * m + 1] = p[1]
    <3>1. 3 * m + 1 \in 1..3 * m + 2 /\ ~(3 * m + 1 <= 3 * m) /\ (3 * m + 1) - 3 * m = 1 BY <1>2
    <3> QED BY <2>5, <3>1
  <2>8. v[3 * m + 2] = p[2]
    <3>1. 3 * m + 2 \in 1..3 * m + 2 /\ ~(3 * m + 2 <= 3 * m) /\ (3 * m + 2) - 3 * m = 2 BY <1>2
    <3> QED BY <2>5, <3>1
  <2> QED BY <2>1, <2>4, <2>6, <2>7, <2>8
<1>5. Stream(v, m)
  <2>1. ASSUME NEW i \in 1..m
        PROVE  v[3 * i - 2] = <<"length", 0>> /\ v[3 * i - 1] = <<"length", 1>>
    <3>1. 3 * i - 2 \in 1..3 * m /\ 3 * i - 1 \in 1..3 * m BY <1>2
    <3> QED BY <1>2, <1>4, <3>1
  <2> QED BY <1>2, <1>4, <2>1 DEF Stream, a, b
<1>6. \A i \in handled + 1..m : Frame(i)' = Frame(i)
  <2>1. \A i \in handled + 1..m : 3 * i \in 1..3 * m BY <1>2
  <2> QED BY <1>1, <1>4, <2>1 DEF Frame
<1>7. Shape'
  <2>1. taken \in 0..Len(v) BY <1>2, <1>4
  <2>2. m >= 1 BY <1>1 DEF Shape
  <2> QED BY <1>1, <1>5, <2>1, <2>2 DEF Shape
<1>8. Holding(splitter, v, handled, taken)
  <2>1. ASSUME NEW j \in 1..taken - 3 * handled PROVE v[3 * handled + j] = written[3 * handled + j]
    <3>1. 3 * handled + j \in 1..3 * m BY <1>2
    <3> QED BY <1>4, <3>1
  <2> QED BY <1>2, <2>1 DEF Holding
<1>9. \A i \in handled + 1..m : Good(i)'
  <2> SUFFICES ASSUME NEW i \in handled + 1..m PROVE Good(i)' OBVIOUS
  <2>1. \A j \in handled + 1..i - 1 : j \in handled + 1..m BY <1>2
  <2>2. Good(i) /\ Frame(i)' = Frame(i) /\ \A j \in handled + 1..i - 1 : Frame(j)' = Frame(j)
    BY <1>2, <1>6, <2>1
  <2> QED BY <2>2 DEF Good
<1>10. Placed' BY <1>1, <1>2, <1>8, <1>9 DEF Placed
<1>11. Numbered' BY DEF Numbered
<1>12. Stays BY <1>1, <1>2, <1>6 DEF Stays
<1> QED BY <1>7, <1>10, <1>11, <1>12

\* A request is numbered and written.
LEMMA SendsKeeps ==
    ASSUME Shape, Placed, Numbered, codec.state = "ready", NEW kind \in {"limits", "open", "close"},
           Sends(kind), UNCHANGED splitter
    PROVE  /\ Shape' /\ Placed' /\ Numbered' /\ Stays
           /\ codec'.state = "ready" /\ codec'.next = codec.next + 1
           /\ UNCHANGED <<handled, ends>>
           /\ asked' \subseteq asked \cup {[id |-> codec.next, kind |-> kind]}
<1> DEFINE q == [id |-> codec.next, kind |-> kind]
<1>1. /\ codec \in Codecs /\ codec.next \in Nat \ {0} /\ codec.outstanding \subseteq 1..codec.next - 1
      /\ asked \subseteq [id : Nat, kind : {"limits", "open", "close"}]
      /\ \A p \in asked : p.id \in codec.outstanding
      /\ \A p, r \in asked : p.id = r.id => p = r
  BY DEF Placed, Numbered
<1>2. /\ codec'.state = codec.state /\ codec'.next = codec.next + 1
      /\ codec'.outstanding = codec.outstanding \cup {codec.next} /\ codec' \in Codecs
  <2>1. codec' = [codec EXCEPT !.next = @ + 1, !.outstanding = @ \cup {codec.next}] BY DEF Sends
  <2>2. codec.next + 1 \in Nat /\ codec.next \in Nat BY <1>1
  <2> QED BY <1>1, <2>1, <2>2 DEF Codecs
<1>3. /\ UNCHANGED <<greeted, written, taken, ends, handled>>
      /\ asked' \subseteq asked \cup {q} /\ q.id = codec.next
      /\ q \in [id : Nat, kind : {"limits", "open", "close"}]
  BY <1>1 DEF Sends
<1> HIDE DEF q
<1>4. Shape' BY <1>3 DEF Shape, Stream
<1>5. codec.next \notin codec.outstanding BY <1>1
<1>6. \A i : Frame(i)' = Frame(i) /\ (Wrong(i) => Wrong(i)') BY <1>3 DEF Frame, Wrong
<1>7. ASSUME NEW i, Good(i) PROVE Good(i)'
  <2>1. \A p \in asked' : p \in asked \/ p.id = codec.next BY <1>3
  <2> QED BY <1>2, <1>3, <1>5, <1>6, <1>7, <2>1 DEF Good
<1>8. Placed'
  <2>1. handled' = 0 => codec'.outstanding = {} BY <1>3 DEF Placed
  <2> QED BY <1>2, <1>3, <1>6, <1>7, <2>1 DEF Placed, Holding
<1>9. Numbered'
  <2>1. codec'.outstanding \subseteq 1..codec'.next - 1 /\ codec'.next \in Nat \ {0} BY <1>1, <1>2
  <2>2. \A p \in asked' : p \in asked \/ p = q BY <1>3
  <2> QED BY <1>1, <1>2, <1>3, <1>5, <2>1, <2>2 DEF Numbered
<1>10. Stays
  <2> SUFFICES ASSUME NEW i \in handled + 1..Len(ends), i > 1, Good(i)' PROVE Good(i)
    BY <1>3, <1>6 DEF Stays
  <2> QED BY <1>2, <1>6, WrongStays
<1> QED BY <1>2, <1>3, <1>4, <1>8, <1>9, <1>10 DEF q

\* An attempt begins with nothing.
LEMMA FreshIs == Fresh => Shape /\ Placed /\ Numbered
<1> SUFFICES ASSUME Fresh PROVE Shape /\ Placed /\ Numbered OBVIOUS
<1>1. written = <<>> /\ ends = <<>> /\ Len(<<>>) = 0 /\ <<>> \in Seq(Nat) /\ <<>> \in Seq(Cell)
      /\ handled = 0 /\ taken = 0 /\ greeted = "no" /\ asked = {}
      /\ splitter = [buf |-> <<>>, start |-> 0]
      /\ codec = [state |-> "new", outstanding |-> {}, next |-> 1]
  BY DEF Fresh, NewSplitter, NewCodec
<1>2. Shape BY <1>1 DEF Shape, Stream
<1>3. Holding(splitter, written, handled, taken) BY <1>1 DEF Holding
<1>4. Placed BY <1>1, <1>3 DEF Placed, Codecs
<1>5. Numbered BY <1>1 DEF Numbered
<1> QED BY <1>2, <1>4, <1>5

\* A round trip stays sound while what comes in addition is sound.
News ==
    \A i \in handled' + 1..Len(ends)' :
        i > 1 /\ Good(i)' =>
            \/ i \in handled + 1..Len(ends) /\ Good(i) /\ Frame(i)' = Frame(i)
            \/ Frame(i)'[2] = request => Told(Frame(i)[3])'
LEMMA TripStays ==
    ASSUME Trips, request' = request, pc' = pc, performed \subseteq performed',
           codec'.next \in {codec.next, codec.next + 1}, codec.next \in Nat,
           request = NoId => reply' = "none",
           reply' = reply \/ Told(reply)',
           codec'.state # "failed" =>
              /\ codec.state # "failed" /\ News
              /\ \A q \in asked' : q \in asked \/ q.id # request
    PROVE  Trips'
<1>1. \A a : Told(a) => Told(a)' BY DEF Told
<1>2. request # NoId => request < codec'.next BY DEF Trips
<1>3. IF request' = NoId THEN reply' = "none" ELSE reply' = "none" \/ Told(reply)'
  BY <1>1 DEF Trips, NoId
<1>4. ASSUME codec'.state # "failed", request' # NoId
      PROVE  /\ \A q \in asked' : q.id = request' => q.kind = pc'
             /\ \A i \in handled' + 1..Len(ends)' :
                   i > 1 /\ Good(i)' /\ Frame(i)'[2] = request' => Told(Frame(i)[3])'
  <2>1. \A q \in asked' : q.id = request' => q.kind = pc' BY <1>4 DEF Trips
  <2>2. ASSUME NEW i \in handled' + 1..Len(ends)', i > 1, Good(i)', Frame(i)'[2] = request'
        PROVE  Told(Frame(i)[3])'
    <3>1. CASE i \in handled + 1..Len(ends) /\ Good(i) /\ Frame(i)' = Frame(i)
      BY <1>1, <1>4, <2>2, <3>1 DEF Trips
    <3>2. CASE Frame(i)'[2] = request => Told(Frame(i)[3])' BY <2>2, <3>2
    <3> QED BY <1>4, <2>2, <3>1, <3>2 DEF News
  <2> QED BY <2>1, <2>2
<1> QED BY <1>2, <1>3, <1>4 DEF Trips

\* Nothing that the session, the wire or the call is made of changes.
LEMMA StillKeeps ==
    ASSUME TripInv, UNCHANGED <<pc, error, outcome, tripVars, sessionVars, wireVars, history>>
    PROVE  TripInv'
<1>1. UNCHANGED <<codec, splitter, taken, handled, ends, written, greeted, asked, request, reply, pc,
                  performed, reader, failure, error, outcome>>
  BY DEF tripVars, sessionVars, wireVars, history
<1>2. Shape' /\ Placed' /\ Numbered' /\ (codec'.state # "failed" => Stays)
  BY <1>1, QuietKeeps DEF TripInv
<1>3. Lives' BY <1>1 DEF TripInv, Lives, Fresh, InBody
<1>4. Earned' BY <1>1 DEF TripInv, Earned
<1>5. Trips'
  <2>1. codec'.state # "failed" => News BY <1>2 DEF News, Stays
  <2> QED BY <1>1, <2>1, TripStays DEF TripInv, Trips, Numbered
<1> QED BY <1>2, <1>3, <1>4, <1>5 DEF TripInv

\* The server writes or performs.
LEMMA ServerKeeps ==
    ASSUME TripInv, Shape' /\ Placed' /\ Numbered', codec'.state # "failed" => News,
           UNCHANGED <<callVars, tripVars, sessionVars>>, asked' \subseteq asked,
           performed \subseteq performed', greeted # "no"
    PROVE  TripInv'
<1>1. UNCHANGED <<codec, request, reply, pc, reader, failure, error, outcome>>
  BY DEF callVars, tripVars, sessionVars
<1>2. Lives'
  <2>1. ~Fresh BY DEF Fresh
  <2> QED BY <1>1, <2>1 DEF TripInv, Lives, InBody
<1>3. Earned' BY <1>1 DEF TripInv, Earned
<1>4. Trips' BY <1>1, TripStays DEF TripInv, Trips, Numbered
<1> QED BY <1>2, <1>3, <1>4 DEF TripInv

LEMMA ServerVersionKeeps == ASSUME TripInv, NEW v \in {2, 3}, ServerVersion(v) PROVE TripInv'
<1> DEFINE cell == <<"version", v>>
<1>1. /\ greeted = "init" /\ Writes(<<cell>>) /\ greeted' = IF v = 3 THEN "done" ELSE "junk"
      /\ UNCHANGED <<callVars, tripVars, sessionVars, asked, taken, handled, performed>>
  BY DEF ServerVersion, VersionBody, history
<1>2. Next3(cell)
  <2>1. Len(ends) = 0 BY <1>1 DEF TripInv, Shape
  <2> QED BY <1>1, <2>1 DEF Next3
<1>3. cell \in Cell BY DEF Cell
<1>4. Shape' /\ Placed' /\ Numbered' /\ Added(cell)
  <2> HIDE DEF cell
  <2> QED BY <1>1, <1>2, <1>3, FrameKeeps DEF TripInv, sessionVars
<1>5. News
  <2> SUFFICES ASSUME NEW i \in handled' + 1..Len(ends)', i > 1, Good(i)'
      PROVE  i \in handled + 1..Len(ends) /\ Good(i) /\ Frame(i)' = Frame(i)
    BY DEF News
  <2>1. i \in handled + 1..Len(ends)' BY <1>1
  <2>2. Frame(i)' # cell BY DEF Good
  <2> QED BY <1>4, <2>1, <2>2 DEF Added
<1> QED BY <1>1, <1>4, <1>5, ServerKeeps

LEMMA ServerPerformsKeeps ==
    ASSUME TripInv, NEW q \in asked, NEW answer \in Answers(q.kind), NEW answers \in BOOLEAN,
           ServerPerforms(q, answer, answers)
    PROVE  TripInv'
<1> DEFINE cell == <<"reply", q.id, answer>>
<1>1. /\ greeted = "done" /\ UNCHANGED <<callVars, tripVars, sessionVars, greeted, taken, handled>>
      /\ asked' = asked \ {q} /\ performed \subseteq performed'
      /\ performed' = IF answer = "ok" THEN performed \cup {q.kind} ELSE performed
      /\ IF answers THEN Writes(<<cell>>) ELSE UNCHANGED <<written, ends>>
  BY DEF ServerPerforms, ReplyBody
<1>2. /\ codec.state # "failed" /\ Len(ends) >= 1 /\ q \in [id : Nat, kind : {"limits", "open", "close"}]
      /\ q.id \in codec.outstanding /\ \A p \in asked' : p.id # q.id
      /\ \A i \in handled + 1..Len(ends) : Good(i)
  BY <1>1 DEF TripInv, Shape, Placed, Numbered, Wrong
<1>3. CASE ~answers
  <2>1. UNCHANGED <<codec, splitter, taken, handled, ends, written, greeted>> /\ asked' \subseteq asked
    BY <1>1, <1>3 DEF sessionVars
  <2>2. Shape' /\ Placed' /\ Numbered' /\ (codec'.state # "failed" => Stays)
    BY <2>1, QuietKeeps DEF TripInv
  <2>3. codec'.state # "failed" => News BY <2>2 DEF News, Stays
  <2> QED BY <1>1, <2>1, <2>2, <2>3, ServerKeeps
<1>4. CASE answers
  <2>1. answer \in Answer BY <1>2 DEF Answers, Answer
  <2>2. cell \in Cell /\ cell \in {"reply"} \X Nat \X Answer /\ cell[2] = q.id /\ cell[3] = answer
    BY <1>2, <2>1 DEF Cell
  <2>3. \A j \in handled + 1..Len(ends) : j > 1 => Frame(j)[2] # q.id BY <1>2 DEF Good
  <2> HIDE DEF cell
  <2>4. Next3(cell) BY <1>2, <2>2, <2>3 DEF Next3
  <2>5. Shape' /\ Placed' /\ Numbered' /\ Added(cell)
    BY <1>1, <1>4, <2>2, <2>4, FrameKeeps DEF TripInv, sessionVars
  <2>6. News
    <3> SUFFICES ASSUME NEW i \in handled' + 1..Len(ends)', i > 1, Frame(i)' = cell,
                        cell[2] = request
        PROVE  Told(Frame(i)[3])'
      <4>1. handled' = handled BY <1>1
      <4> QED BY <2>5, <4>1 DEF News, Added
    <3>1. request # NoId BY <1>2, <2>2 DEF TripInv, Numbered, NoId
    <3>2. q.kind = pc /\ pc \in {"open", "close"} BY <1>2, <2>2, <3>1 DEF TripInv, Trips
    <3>3. answer \in {"ok", "no", "busy"} BY <3>2 DEF Answers
    <3>4. pc' = pc /\ Frame(i)'[3] = answer BY <1>1, <2>2 DEF callVars
    <3> QED BY <1>1, <3>2, <3>3, <3>4 DEF Told
  <2> QED BY <1>1, <2>5, <2>6, ServerKeeps
<1> QED BY <1>3, <1>4

LEMMA ServerJunkKeeps == ASSUME TripInv, NEW body \in JunkBody, ServerJunk(body) PROVE TripInv'
<1>1. /\ greeted = "done" /\ greeted' = "junk" /\ asked' \subseteq asked
      /\ UNCHANGED <<callVars, tripVars, sessionVars, taken, handled, performed>>
      /\ Writes(body) \/ (written' = written \o Prefix(MaxFrameLength + 1) /\ UNCHANGED ends)
  BY DEF ServerJunk, history
<1>2. CASE Writes(body)
  <2>1. PICK cell : body = <<cell>> /\ cell \in {<<"version", 3>>, <<"reply", 0, "ok">>}
    BY DEF JunkBody, VersionBody, ReplyBody
  <2>2. cell \in Cell BY <2>1 DEF Cell, Answer
  <2>3. Next3(cell)
    <3>1. Len(ends) >= 1 BY <1>1 DEF TripInv, Shape
    <3> QED BY <1>1, <2>1, <3>1 DEF Next3
  <2>4. Shape' /\ Placed' /\ Numbered' /\ Added(cell)
    BY <1>1, <1>2, <2>1, <2>2, <2>3, FrameKeeps DEF TripInv, sessionVars
  <2>5. News
    <3> SUFFICES ASSUME NEW i \in handled' + 1..Len(ends)', i > 1, Good(i)', Frame(i)' = cell
        PROVE  FALSE
      <4>1. handled' = handled BY <1>1
      <4> QED BY <2>4, <4>1 DEF News, Added
    <3>1. Frame(i)'[1] = "reply" /\ Frame(i)'[2] \in codec'.outstanding BY DEF Good
    <3>2. Frame(i)'[2] = 0 BY <2>1, <3>1
    <3> QED BY <2>4, <3>1, <3>2 DEF Numbered
  <2> QED BY <1>1, <2>4, <2>5, ServerKeeps
<1>3. CASE written' = written \o Prefix(MaxFrameLength + 1) /\ UNCHANGED ends
  <2>1. Shape' /\ Placed' /\ Numbered' /\ (codec'.state # "failed" => Stays)
    BY <1>1, <1>3, PrefixKeeps DEF TripInv, sessionVars
  <2>2. codec'.state # "failed" => News BY <2>1 DEF News, Stays
  <2> QED BY <1>1, <2>1, <2>2, ServerKeeps
<1> QED BY <1>1, <1>2, <1>3

\* What receive returned is looked at.
LEMMA ChunkKeeps ==
    ASSUME TripInv, codec.state \in {"awaiting", "ready"}, NEW n, n \in Chunks, NEW referenced,
           Reads(n, referenced)
    PROVE  /\ Shape' /\ Placed' /\ Numbered' /\ Brought(Received(n, referenced))
           /\ codec'.state \in {"awaiting", "ready", "failed"}
           /\ codec'.state # "failed" => Stays
           /\ UNCHANGED <<asked, greeted, written, ends>>
<1>1. Shape' /\ Placed' /\ Numbered' /\ Brought(Received(n, referenced))
  BY ReadsIs DEF TripInv
<1>2. codec'.state \in {"awaiting", "ready", "failed"} BY <1>1 DEF Brought, Placed, Codecs
<1>3. UNCHANGED <<asked, greeted, written, ends>> BY DEF Reads
<1>4. ASSUME codec'.state # "failed" PROVE Stays
  <2>1. PICK h : h = handled' OBVIOUS
  <2>2. /\ h >= handled /\ \A i \in h + 1..Len(ends) : i > 1 /\ Good(i)' => Good(i)
    BY <1>1, <1>4, <2>1 DEF Brought
  <2>3. h \in Nat /\ handled \in Nat /\ Len(ends) \in Nat
    <3>1. Len(ends) \in Nat BY LenProperties DEF TripInv, Shape
    <3>2. handled' \in 0..Len(ends) BY <1>1, <1>3, <1>4 DEF Placed
    <3>3. codec.state # "failed" OBVIOUS
    <3>4. handled \in 0..Len(ends) BY <3>3 DEF TripInv, Placed
    <3> QED BY <2>1, <3>1, <3>2, <3>4
  <2>4. \A i \in h + 1..Len(ends) : i \in handled + 1..Len(ends) BY <2>2, <2>3
  <2>5. \A i : Frame(i)' = Frame(i) BY <1>3 DEF Frame
  <2> QED BY <1>3, <2>1, <2>2, <2>4, <2>5 DEF Stays
<1> QED BY <1>1, <1>2, <1>3, <1>4

LEMMA NoTrip == ASSUME request' = NoId, reply' = "none" PROVE Trips'
BY DEF Trips, NoId

LEMMA ReadVersionKeeps ==
    ASSUME TripInv, NEW n, NEW referenced, ReadVersion(n, referenced) PROVE TripInv'
<1>1. /\ pc = "version" /\ n \in Chunks /\ Reads(n, referenced)
      /\ IF codec'.state = "failed" THEN Leave("protocol", "aclose")
         ELSE IF codec'.state = "ready" THEN Advance("probe") ELSE UNCHANGED callVars
      /\ UNCHANGED <<request, reply, reader, failure, performed>>
  BY DEF ReadVersion, tripVars, history
<1>2. /\ codec.state = "awaiting" /\ request = NoId /\ reply = "none" /\ reader = FALSE
  BY <1>1 DEF TripInv, Lives, Trips, Body
<1>3. /\ Shape' /\ Placed' /\ Numbered' /\ codec'.state \in {"awaiting", "ready", "failed"}
  BY <1>1, <1>2, ChunkKeeps
<1>4. \/ codec'.state = "failed" /\ pc' = "aclose" /\ error' = "protocol" /\ outcome' = outcome
      \/ codec'.state = "ready" /\ pc' = "probe" /\ error' = error /\ outcome' = outcome
      \/ codec'.state = "awaiting" /\ pc' = "version" /\ error' = error /\ outcome' = outcome
  BY <1>1, <1>3 DEF Leave, Advance, callVars
<1>5. Lives' BY <1>1, <1>2, <1>4 DEF Lives, InBody, Ending, Body
<1>6. Earned' BY <1>1, <1>4 DEF TripInv, Earned, Failure, Ending
<1>7. Trips' BY <1>1, <1>2, NoTrip
<1> QED BY <1>3, <1>5, <1>6, <1>7 DEF TripInv

LEMMA ReadLimitsKeeps ==
    ASSUME TripInv, NEW n, NEW referenced, ReadLimits(n, referenced) PROVE TripInv'
<1>1. /\ pc = "limits" /\ n \in Chunks /\ Reads(n, referenced)
      /\ \/ Leave("protocol", "aclose")
         \/ codec'.state # "failed" /\ Advance("start")
         \/ codec'.state # "failed" /\ UNCHANGED callVars
      /\ UNCHANGED <<request, reply, reader, failure, performed>>
  BY DEF ReadLimits, tripVars, history
<1>2. /\ codec.state = "ready" /\ request = NoId /\ reply = "none" /\ reader = FALSE
  BY <1>1 DEF TripInv, Lives, Trips, Body
<1>3. /\ Shape' /\ Placed' /\ Numbered' /\ codec'.state \in {"ready", "failed"}
  <2>1. Brought(Received(n, referenced)) /\ codec'.state \in {"awaiting", "ready", "failed"}
    BY <1>1, <1>2, ChunkKeeps
  <2>2. codec'.state \in {"ready", "failed"} BY <1>2, <2>1 DEF Brought
  <2> QED BY <1>1, <1>2, <2>2, ChunkKeeps
<1>4. \/ pc' = "aclose" /\ error' = "protocol" /\ outcome' = outcome
      \/ codec'.state = "ready" /\ pc' \in {"start", "limits"} /\ error' = error /\ outcome' = outcome
  BY <1>1, <1>3 DEF Leave, Advance, callVars
<1>5. Lives' BY <1>1, <1>2, <1>4 DEF Lives, InBody, Ending, Body
<1>6. Earned' BY <1>1, <1>4 DEF TripInv, Earned, Failure, Ending
<1>7. Trips' BY <1>1, <1>2, NoTrip
<1> QED BY <1>3, <1>5, <1>6, <1>7 DEF TripInv

LEMMA ReaderReadsKeeps ==
    ASSUME TripInv, NEW n, NEW referenced, ReaderReads(n, referenced) PROVE TripInv'
<1> DEFINE got == Received(n, referenced)
           mine == {i \in DOMAIN got.events : got.events[i].id = request}
<1>1. /\ reader /\ n \in Chunks /\ Reads(n, referenced)
      /\ failure' = (IF got.bad THEN "protocol" ELSE failure) /\ reader' = ~got.bad
      /\ reply' = IF mine # {} THEN got.events[CHOOSE i \in mine : TRUE].answer ELSE reply
      /\ UNCHANGED <<pc, error, outcome, request, performed>>
  BY DEF ReaderReads, callVars, history
<1>2. codec.state = "ready" /\ pc \in Body \cup {"leave"} BY <1>1 DEF TripInv, Lives
<1>3. /\ Shape' /\ Placed' /\ Numbered' /\ Brought(got)
      /\ codec'.state \in {"awaiting", "ready", "failed"} /\ (codec'.state # "failed" => Stays)
      /\ UNCHANGED <<asked, greeted, written, ends>>
  BY <1>1, <1>2, ChunkKeeps
<1> HIDE DEF got
<1>4. codec'.state \in {"ready", "failed"} /\ (got.bad <=> codec'.state = "failed")
  BY <1>2, <1>3 DEF Brought
<1>5. Lives'
  <2>1. reader' \in BOOLEAN /\ (reader' => codec'.state = "ready") BY <1>1, <1>4
  <2>2. codec'.state = "failed" => failure' # "none" BY <1>1, <1>4
  <2> QED BY <1>1, <1>2, <1>4, <2>1, <2>2 DEF Lives, InBody, Ending, Body
<1>6. Earned' BY <1>1 DEF TripInv, Earned
<1>7. ASSUME NEW e \in mine
      PROVE  request # NoId /\ Told(got.events[e].answer)
  <2>1. e \in DOMAIN got.events /\ got.events[e].id = request OBVIOUS
  <2>2. PICK i \in handled + 1..Len(ends) : i > 1 /\ Good(i) /\ got.events[e] = Reply(i)
    BY <1>3, <2>1 DEF Brought
  <2>3. Frame(i)[2] = request /\ got.events[e].answer = Frame(i)[3] BY <2>1, <2>2 DEF Reply
  <2>4. Frame(i)[2] \in codec.outstanding BY <2>2 DEF Good
  <2>5. request # NoId BY <2>3, <2>4 DEF TripInv, Numbered, NoId
  <2> QED BY <1>2, <2>2, <2>3, <2>5 DEF TripInv, Trips
<1>8. Trips'
  <2>1. CASE mine = {}
    <3>1. reply' = reply BY <1>1, <2>1
    <3>2. codec'.state # "failed" => News BY <1>3 DEF News, Stays
    <3>3. codec'.next = codec.next BY <1>3 DEF Brought
    <3> HIDE DEF mine
    <3> QED BY <1>1, <1>2, <1>3, <3>1, <3>2, <3>3, TripStays DEF TripInv, Trips, Numbered
  <2>2. CASE mine # {}
    <3> DEFINE e == CHOOSE i \in mine : TRUE
    <3>1. e \in mine BY <2>2
    <3>2. reply' = got.events[e].answer BY <1>1, <2>2
    <3> HIDE DEF mine, e
    <3>3. request # NoId /\ Told(reply') BY <1>7, <3>1, <3>2
    <3>4. Told(reply)' BY <1>1, <3>3 DEF Told
    <3>5. codec'.state # "failed" => News BY <1>3 DEF News, Stays
    <3>6. codec'.next = codec.next BY <1>3 DEF Brought
    <3> QED BY <1>1, <1>2, <1>3, <3>3, <3>4, <3>5, <3>6, TripStays DEF TripInv, Trips, Numbered
  <2> QED BY <2>1, <2>2
<1> QED BY <1>3, <1>5, <1>6, <1>8 DEF TripInv

\* The wire is left alone.
LEMMA WireSame ==
    ASSUME TripInv, UNCHANGED <<codec, splitter, wireVars>>
    PROVE  Shape' /\ Placed' /\ Numbered'
BY QuietKeeps DEF TripInv, wireVars

LEMMA ReaderEndsKeeps == ASSUME TripInv, ReaderEnds PROVE TripInv'
<1>1. /\ reader /\ reader' = FALSE /\ failure' \in {"hostkey", "auth", "connect"}
      /\ UNCHANGED <<pc, error, outcome, request, reply, codec, splitter, taken, handled, ends, written,
                     greeted, asked, performed>>
  BY DEF ReaderEnds, Classified, callVars, tripVars, wireVars, history
<1>2. Shape' /\ Placed' /\ Numbered' /\ (codec'.state # "failed" => Stays)
  BY <1>1, QuietKeeps DEF TripInv
<1>3. Lives' BY <1>1 DEF TripInv, Lives, Fresh, InBody
<1>4. Earned' BY <1>1 DEF TripInv, Earned
<1>5. Trips'
  <2>1. codec'.state # "failed" => News BY <1>2 DEF News, Stays
  <2> QED BY <1>1, <2>1, TripStays DEF TripInv, Trips, Numbered
<1> QED BY <1>2, <1>3, <1>4, <1>5 DEF TripInv

LEMMA EnvKeeps == ASSUME TripInv, Env PROVE TripInv'
<1>1. CASE Drain \/ ChildExits \/ ChildHangsUp
  BY <1>1, StillKeeps DEF Drain, ChildExits, ChildHangsUp, callVars
<1>2. ASSUME NEW lines, ChildRefuses(lines) PROVE TripInv'
  BY <1>2, StillKeeps DEF ChildRefuses, callVars
<1>3. ASSUME NEW v \in {2, 3}, ServerVersion(v) PROVE TripInv' BY <1>3, ServerVersionKeeps
<1>4. ASSUME NEW q \in asked, NEW answers \in BOOLEAN, NEW a \in Answers(q.kind),
             ServerPerforms(q, a, answers)
      PROVE  TripInv'
  BY <1>4, ServerPerformsKeeps
<1>5. ASSUME NEW b \in JunkBody, ServerJunk(b) PROVE TripInv' BY <1>5, ServerJunkKeeps
<1> QED BY <1>1, <1>2, <1>3, <1>4, <1>5 DEF Env

\* Starting a child and its session: no round trip has begun.
LEMMA Idle ==
    ASSUME TripInv, pc \in {"idle", "sleep", "done"} \cup Trying \cup (Ending \ {"leave"})
    PROVE  request = NoId /\ reply = "none" /\ reader = FALSE /\ reader \in BOOLEAN
BY DEF TripInv, Lives, Trips, Trying, Ending, Body

LEMMA ConnectKeeps == ASSUME TripInv, Connect \/ ConnectFails PROVE TripInv'
<1>1. /\ pc = "idle" /\ UNCHANGED <<request, reply, reader, failure, outcome, codec, splitter, wireVars>>
      /\ \/ pc' = "init" /\ error' = "none"
         \/ pc' = "decide" /\ error' = "connect" /\ performed' = performed
  BY DEF Connect, ConnectFails, tripVars, sessionVars, history
<1>2. request = NoId /\ reply = "none" /\ reader = FALSE BY <1>1, Idle
<1>3. Shape' /\ Placed' /\ Numbered' BY <1>1, WireSame
<1>4. Lives' BY <1>1, <1>2 DEF TripInv, Lives, Fresh, InBody, Body, Ending, wireVars
<1>5. Earned' BY <1>1 DEF TripInv, Earned, Failure, Ending
<1>6. Trips' BY <1>1, <1>2, NoTrip
<1> QED BY <1>3, <1>4, <1>5, <1>6 DEF TripInv

LEMMA SendInitKeeps == ASSUME TripInv, SendInit PROVE TripInv'
<1>1. /\ pc = "init" /\ pc' = "version" /\ codec' = [codec EXCEPT !.state = "awaiting"]
      /\ greeted' = "init"
      /\ UNCHANGED <<request, reply, reader, failure, error, outcome, splitter, asked, written, taken,
                     ends, handled, performed>>
  BY DEF SendInit, Advance, tripVars, history
<1>2. request = NoId /\ reply = "none" /\ reader = FALSE BY <1>1, Idle DEF Trying
<1>3. Fresh BY <1>1 DEF TripInv, Lives
<1>4. codec' = [state |-> "awaiting", outstanding |-> {}, next |-> 1]
  BY <1>1, <1>3 DEF Fresh, NewCodec
<1>5. /\ ends = <<>> /\ Len(ends) = 0 /\ asked = {} /\ handled = 0 /\ taken = 0
      /\ written = <<>> /\ Len(written) = 0
  BY <1>3 DEF Fresh
<1>6. Shape' BY <1>1, <1>5 DEF TripInv, Shape, Stream
<1>7. Placed'
  <2>1. Holding(splitter, written, handled, taken) BY <1>3 DEF TripInv, Placed, Fresh, NewCodec
  <2>2. handled' = 0 /\ taken' = 0 /\ Len(ends)' = 0 BY <1>1, <1>5
  <2>3. handled' \in 0..Len(ends)' /\ taken' \in 3 * handled'..3 * handled' + 2
    <3>1. 0 \in 0..0 /\ 0 \in 3 * 0..3 * 0 + 2 OBVIOUS
    <3> QED BY <2>2, <3>1
  <2>4. codec' \in Codecs /\ codec'.state = "awaiting" /\ codec'.outstanding = {}
    BY <1>4 DEF Codecs
  <2>5. Holding(splitter, written, handled, taken)' BY <1>1, <2>1 DEF Holding
  <2>6. \A i : i \notin handled' + 1..Len(ends)'
    <3>1. \A i : i \notin 0 + 1..0 OBVIOUS
    <3> QED BY <2>2, <3>1
  <2> QED BY <1>1, <2>2, <2>3, <2>4, <2>5, <2>6 DEF Placed
<1>8. Numbered' BY <1>1, <1>4, <1>5 DEF Numbered
<1>9. Lives' BY <1>1, <1>2, <1>4 DEF Lives, InBody, Body, Ending
<1>10. Earned' BY <1>1 DEF TripInv, Earned, Ending
<1>11. Trips' BY <1>1, <1>2, NoTrip
<1> QED BY <1>6, <1>7, <1>8, <1>9, <1>10, <1>11 DEF TripInv

LEMMA HandshakeKeeps ==
    ASSUME TripInv, SendBroken \/ HandshakeDeadline \/ HandshakeEnds \/ ProbeDeadline \/ StartSession
    PROVE  TripInv'
<1>1. /\ pc \in Trying /\ UNCHANGED <<request, reply, failure, outcome, codec, splitter, wireVars, performed>>
      /\ \/ pc' = "aclose" /\ error' \in {"hostkey", "auth", "connect", "timeout"} /\ reader' = reader
         \/ pc = "limits" /\ pc' = "start" /\ error' = error /\ reader' = reader
         \/ pc = "start" /\ pc' = "open" /\ error' = error /\ reader' = TRUE
  BY DEF SendBroken, HandshakeDeadline, HandshakeEnds, ProbeDeadline, StartSession, Leave, Advance,
         Classified, tripVars, sessionVars, wireVars, history, Trying
<1>2. request = NoId /\ reply = "none" /\ reader = FALSE BY <1>1, Idle
<1>3. Shape' /\ Placed' /\ Numbered' BY <1>1, WireSame
<1>4. Lives' BY <1>1, <1>2 DEF TripInv, Lives, InBody, Body, Ending
<1>5. Earned' BY <1>1 DEF TripInv, Earned, Failure, Ending, Trying
<1>6. Trips' BY <1>1, <1>2, NoTrip
<1> QED BY <1>3, <1>4, <1>5, <1>6 DEF TripInv

LEMMA ProbeKeeps == ASSUME TripInv, SendProbe \/ SkipProbe PROVE TripInv'
<1>1. /\ pc = "probe" /\ pc' \in {"limits", "start"}
      /\ UNCHANGED <<request, reply, reader, failure, error, outcome, splitter, performed>>
      /\ Sends("limits") \/ UNCHANGED <<codec, wireVars>>
  BY DEF SendProbe, SkipProbe, Advance, tripVars, sessionVars, history
<1>2. request = NoId /\ reply = "none" /\ reader = FALSE BY <1>1, Idle DEF Trying
<1>3. codec.state = "ready" BY <1>1 DEF TripInv, Lives
<1>4. Shape' /\ Placed' /\ Numbered' /\ codec'.state = "ready"
  <2>1. CASE Sends("limits") BY <1>1, <1>3, <2>1, SendsKeeps DEF TripInv
  <2>2. CASE UNCHANGED <<codec, wireVars>> BY <1>1, <1>3, <2>2, WireSame
  <2> QED BY <1>1, <2>1, <2>2
<1>5. Lives' BY <1>1, <1>2, <1>4 DEF Lives, InBody, Body, Ending
<1>6. Earned' BY <1>1 DEF TripInv, Earned, Ending
<1>7. Trips' BY <1>1, <1>2, NoTrip
<1> QED BY <1>4, <1>5, <1>6, <1>7 DEF TripInv

\* The number of a request is new.
LEMMA AskKeeps == ASSUME TripInv, Ask PROVE TripInv'
<1>1. /\ pc \in {"open", "close"} /\ request = NoId /\ failure = "none" /\ InBody
      /\ Sends(pc) /\ request' = codec.next /\ reply' = "none"
      /\ UNCHANGED <<pc, reader, failure, error, outcome, splitter, performed>>
  BY DEF Ask, InBody, callVars, history
<1>2. codec.state = "ready" BY <1>1 DEF TripInv, Lives
<1>3. /\ Shape' /\ Placed' /\ Numbered' /\ Stays
      /\ codec'.state = "ready" /\ codec'.next = codec.next + 1
      /\ UNCHANGED <<handled, ends>>
      /\ asked' \subseteq asked \cup {[id |-> codec.next, kind |-> pc]}
  BY <1>1, <1>2, SendsKeeps DEF TripInv
<1>4. Lives' BY <1>1, <1>2, <1>3 DEF TripInv, Lives, InBody, Body, Ending
<1>5. Earned' BY <1>1 DEF TripInv, Earned
<1>6. Trips'
  <2>1. /\ codec.next \in Nat /\ codec.next # NoId /\ codec.next < codec.next + 1
        /\ codec.next \notin codec.outstanding /\ \A q \in asked : q.id \in codec.outstanding
    BY <1>2 DEF TripInv, Numbered, NoId
  <2>2. \A q \in asked' : q.id = codec.next => q.kind = pc BY <1>3, <2>1
  <2>3. ASSUME NEW i \in handled' + 1..Len(ends)', i > 1, Good(i)', Frame(i)'[2] = codec.next
        PROVE  FALSE
    <3>1. Good(i) /\ Frame(i)' = Frame(i) BY <1>3, <2>3 DEF Stays
    <3>2. Frame(i)[2] \in codec.outstanding BY <2>3, <3>1 DEF Good
    <3> QED BY <2>1, <2>3, <3>1, <3>2
  <2> QED BY <1>1, <1>3, <2>1, <2>2, <2>3 DEF Trips
<1> QED BY <1>3, <1>4, <1>5, <1>6 DEF TripInv

\* A step of the operation ends without an error only when it was performed.
LEMMA StepEnds ==
    ASSUME TripInv, InBody, NEW e, After(e), UNCHANGED <<sessionVars, wireVars>>,
           e \in Failure \cup {"none", "cancelled"}, e = "none" => pc = "work" \/ pc \in performed
    PROVE  TripInv'
<1>1. /\ request' = NoId /\ reply' = "none" /\ UNCHANGED <<outcome, performed>>
      /\ error' = (IF error = "none" THEN e ELSE error)
      /\ \/ pc = "open" /\ e = "none" /\ pc' = "work"
         \/ pc = "open" /\ e # "none" /\ pc' = "leave"
         \/ pc = "work" /\ pc' = "close"
         \/ pc = "close" /\ pc' = "leave"
  BY DEF After, InBody
<1>2. UNCHANGED <<reader, failure, codec, splitter, wireVars>> BY DEF sessionVars
<1>3. Shape' /\ Placed' /\ Numbered' BY <1>2, WireSame
<1>4. Lives' BY <1>1, <1>2 DEF TripInv, Lives, InBody, Body, Ending
<1>5. Earned' BY <1>1, <1>2 DEF TripInv, Earned, Failure, Ending
<1>6. Trips' BY <1>1, NoTrip
<1> QED BY <1>3, <1>4, <1>5, <1>6 DEF TripInv

LEMMA OperationKeeps ==
    ASSUME TripInv,
           \/ Answered \/ Works("none") \/ Works("no") \/ Fails \/ WriteBroken
           \/ RequestDeadline \/ CancelBody
    PROVE  TripInv'
<1> USE DEF Failure
<1>1. CASE Answered
  <2>1. request # NoId /\ Told(reply) BY <1>1 DEF Answered, TripInv, Trips
  <2>2. (IF reply = "ok" THEN "none" ELSE reply) \in Failure \cup {"none", "cancelled"}
    BY <2>1 DEF Told
  <2>3. (IF reply = "ok" THEN "none" ELSE reply) = "none" => pc \in performed BY <2>1 DEF Told
  <2> QED BY <1>1, <2>2, <2>3, StepEnds DEF Answered
<1>2. CASE Works("none") \/ Works("no") BY <1>2, StepEnds DEF Works, InBody
<1>3. CASE Fails
  <2>1. failure \in Failure BY <1>3 DEF Fails, TripInv, Earned
  <2> QED BY <1>3, <2>1, StepEnds DEF Fails
<1>4. CASE WriteBroken
  <2>1. Classified \in Failure /\ Classified # "none" BY DEF Classified
  <2> QED BY <1>4, <2>1, StepEnds DEF WriteBroken
<1>5. CASE RequestDeadline BY <1>5, StepEnds DEF RequestDeadline
<1>6. CASE CancelBody BY <1>6, StepEnds DEF CancelBody
<1> QED BY <1>1, <1>2, <1>3, <1>4, <1>5, <1>6

\* What belonged to the attempt goes with it.
LEMMA DropKeeps == ASSUME TripInv, CloseDispatcher \/ CloseStdin PROVE TripInv'
<1>1. CASE CloseDispatcher
  <2>1. /\ pc = "leave" /\ pc' = "aclose" /\ reader' = FALSE
        /\ UNCHANGED <<request, reply, failure, error, outcome, codec, splitter, wireVars, performed>>
    BY <1>1 DEF CloseDispatcher, Advance, tripVars, history
  <2>2. request = NoId /\ reply = "none" BY <2>1 DEF TripInv, Trips
  <2>3. Shape' /\ Placed' /\ Numbered' BY <2>1, WireSame
  <2>4. Lives' BY <2>1 DEF TripInv, Lives, InBody, Body, Ending
  <2>5. Earned' BY <2>1 DEF TripInv, Earned, Ending
  <2>6. Trips' BY <2>1, <2>2, NoTrip
  <2> QED BY <2>3, <2>4, <2>5, <2>6 DEF TripInv
<1>2. CASE CloseStdin
  <2>1. /\ pc = "aclose" /\ pc' = "release" /\ DropAttempt /\ UNCHANGED <<error, outcome, performed>>
    BY <1>2 DEF CloseStdin, Advance, history
  <2>2. Fresh' BY <2>1 DEF Fresh, DropAttempt, NewCodec, NewSplitter
  <2>3. Shape' /\ Placed' /\ Numbered' BY <2>2, FreshIs, PTL
  <2>4. Lives' BY <2>1, <2>2 DEF Lives, InBody, DropAttempt
  <2>5. Earned' BY <2>1 DEF TripInv, Earned, Ending, DropAttempt
  <2>6. Trips' BY <2>1, NoTrip DEF DropAttempt
  <2> QED BY <2>3, <2>4, <2>5, <2>6 DEF TripInv
<1> QED BY <1>1, <1>2

\* Taking it down, and deciding about another.
LEMMA LeaveKeeps ==
    ASSUME TripInv, ReleasePipes \/ ReapWaited \/ ReapEscalates \/ Decide \/ Slept
    PROVE  TripInv'
<1> DEFINE Down == {"release", "reap", "terminated", "killed", "decide", "sleep"}
<1>1. /\ pc \in Down
      /\ UNCHANGED <<request, reply, reader, failure, error, codec, splitter, wireVars, performed>>
      /\ \/ pc' \in {"reap", "terminated", "killed", "decide"} /\ pc \in Ending /\ outcome' = outcome
         \/ pc' \in {"idle", "sleep"} /\ outcome' = outcome
         \/ pc' = "done" /\ outcome' = "cancelled"
         \/ /\ pc = "decide" /\ pc' = "done" /\ outcome' = "returned" /\ error = "none"
         \/ pc' = "done" /\ outcome' = error
  <2>1. CASE ReleasePipes \/ ReapWaited \/ ReapEscalates
    BY <2>1
       DEF ReleasePipes, ReapWaited, ReapEscalates, Advance, Ending, tripVars, sessionVars, history
  <2>2. CASE Decide BY <2>2 DEF Decide, tripVars, sessionVars, history
  <2>3. CASE Slept BY <2>3 DEF Slept, tripVars, sessionVars, history
  <2> QED BY <2>1, <2>2, <2>3
<1>2. request = NoId /\ reply = "none" /\ reader = FALSE BY <1>1, Idle DEF Ending
<1>3. Shape' /\ Placed' /\ Numbered' BY <1>1, WireSame
<1>4. Fresh BY <1>1 DEF TripInv, Lives, Ending
<1>5. Fresh' BY <1>1, <1>4 DEF Fresh, wireVars
<1>6. Lives' BY <1>1, <1>2, <1>5 DEF Lives, InBody
<1>7. Earned' BY <1>1 DEF TripInv, Earned, Failure, Ending
<1>8. Trips' BY <1>1, <1>2, NoTrip
<1> QED BY <1>3, <1>6, <1>7, <1>8 DEF TripInv

LEMMA CancelKeeps == ASSUME TripInv, Cancel PROVE TripInv'
<1>1. /\ UNCHANGED <<outcome, tripVars, sessionVars, wireVars, history>> /\ pc # "done"
      /\ \/ pc \in Trying /\ pc' = "aclose" /\ error' = "cancelled"
         \/ UNCHANGED <<pc, error>>
  BY DEF Cancel, Trying
<1>2. CASE UNCHANGED <<pc, error>> BY <1>1, <1>2, StillKeeps
<1>3. CASE pc \in Trying /\ pc' = "aclose" /\ error' = "cancelled"
  <2>1. request = NoId /\ reply = "none" /\ reader = FALSE BY <1>3, Idle
  <2>2. UNCHANGED <<reader, failure, codec, splitter, wireVars, request, reply, performed>>
    BY <1>1 DEF sessionVars, tripVars, history
  <2>3. Shape' /\ Placed' /\ Numbered' BY <2>2, WireSame
  <2>4. Lives' BY <1>3, <2>1, <2>2 DEF Lives, InBody, Ending
  <2>5. Earned' BY <1>1, <1>3, <2>2 DEF TripInv, Earned, Ending
  <2>6. Trips' BY <2>1, <2>2, NoTrip
  <2> QED BY <2>3, <2>4, <2>5, <2>6 DEF TripInv
<1> QED BY <1>1, <1>2, <1>3

LEMMA InitTrip == Init => TripInv
<1> SUFFICES ASSUME Init PROVE TripInv OBVIOUS
<1>1. Fresh /\ pc = "idle" BY DEF Init, Fresh
<1>2. Shape /\ Placed /\ Numbered BY <1>1, FreshIs
<1>3. Lives BY <1>1 DEF Lives, InBody, Init
<1>4. Trips BY DEF Trips, Init, NoId
<1>5. Earned BY DEF Earned, Init, Ending
<1> QED BY <1>2, <1>3, <1>4, <1>5 DEF TripInv

LEMMA TripNext == TripInv /\ [Next]_vars => TripInv'
<1> SUFFICES ASSUME TripInv, [Next]_vars PROVE TripInv' OBVIOUS
<1>1. CASE Client
  BY <1>1, ConnectKeeps, SendInitKeeps, HandshakeKeeps, ProbeKeeps, AskKeeps, OperationKeeps,
     DropKeeps, LeaveKeeps DEF Client
<1>2. CASE ReadsSome
  BY <1>2, ReadVersionKeeps, ReadLimitsKeeps, ReaderReadsKeeps DEF ReadsSome
<1>3. CASE UNCHANGED vars BY <1>3, StillKeeps DEF vars, callVars
<1> QED
  BY <1>1, <1>2, <1>3, ReaderEndsKeeps, OperationKeeps, CancelKeeps, EnvKeeps DEF Next, Done

LEMMA SpecTrip == Spec => []TripInv
BY InitTrip, TripNext, PTL DEF Spec

-------------------------------------------------------------------------------
(* Theorems *)

\* No child outlives its attempt, whatever went wrong (SubprocessTransport.aclose).
THEOREM NoChildSurvives == Spec => []NoChildLeft
<1>1. IndInv => NoChildLeft BY DEF IndInv, ChildAccounted, NoChildLeft
<1> QED BY SpecInd, <1>1, PTL

\* A shielded CLOSE waits only while somebody routes its answer, or has failed (D-34).
THEOREM CleanupHeard == Spec => []CleanupIsHeard
<1>1. IndInv => CleanupIsHeard BY DEF IndInv, Routed, CleanupIsHeard
<1> QED BY SpecInd, <1>1, PTL

\* An operation that was refused for good, or done, or given up by the caller, is not run
\* again (with_reconnect).
THEOREM SettledFinal == Spec => SettledIsFinal
<1>1. IndInv /\ [Next]_vars => [settled \/ cancelled => attempt' = attempt]_vars
  <2> SUFFICES ASSUME IndInv, Next, settled \/ cancelled PROVE attempt' = attempt OBVIOUS
  <2>1. pc = "idle" => cancelled BY DEF IndInv, Final, Body, Ending
  <2>2. ~Connect /\ ~ConnectFails BY <2>1 DEF Connect, ConnectFails
  <2>3. Client => attempt' = attempt
    BY <2>2
       DEF Client, SendInit, SendBroken, HandshakeDeadline, HandshakeEnds, SendProbe, SkipProbe,
       ProbeDeadline, StartSession, Ask, Answered, Works, Fails, WriteBroken, RequestDeadline,
       CloseDispatcher, CloseStdin, ReleasePipes, ReapWaited, ReapEscalates, Decide, Slept,
       Leave, Advance, After, callVars
  <2>4. ReadsSome => attempt' = attempt
    BY DEF ReadsSome, ReadVersion, ReadLimits, ReaderReads, Leave, Advance, callVars
  <2>5. Env => attempt' = attempt
    BY DEF Env, Drain, ChildExits, ChildRefuses, ChildHangsUp, ServerVersion, ServerPerforms,
       ServerJunk, callVars
  <2>6. ReaderEnds \/ CancelBody \/ Cancel \/ Done => attempt' = attempt
    BY DEF ReaderEnds, CancelBody, Cancel, Done, After, vars, callVars
  <2> QED BY <2>3, <2>4, <2>5, <2>6 DEF Next
<1> QED BY SpecInd, <1>1, PTL DEF Spec, SettledIsFinal

\* with_reconnect starts no more than its attempts, and waits no longer than its longest delay.
THEOREM AttemptsBounded == Spec => [](attempt <= Attempts /\ delay <= BackoffMax)
<1>1. IndInv => attempt <= Attempts /\ delay <= BackoffMax
  BY ConnectionAssumption DEF IndInv, Bounds
<1> QED BY SpecInd, <1>1, PTL

\* However the stream is cut, and whichever buffer it is in, the codec was handed the frames
\* that are complete, once each, and the splitter holds the beginning of the next
\* (FrameSplitter.feed); the codec fails at nonsense only.
THEOREM SplitterHolds == Spec => []SplitterKeepsPlace
<1>1. ASSUME IndInv, TripInv PROVE SplitterKeepsPlace
  <2>1. TypeOK
    <3>1. codec.outstanding \subseteq 1..codec.next BY <1>1 DEF TripInv, Numbered
    <3>2. taken \in 0..Len(written) BY <1>1 DEF TripInv, Shape
    <3>3. attempt \in 0..Attempts /\ delay \in 1..BackoffMax
          /\ child.state \in {"none", "running", "mute", "exited", "reaped"}
      BY <1>1 DEF IndInv, Bounds
    <3> QED BY <1>1, <3>1, <3>2, <3>3 DEF TypeOK, TripInv, Earned
  <2>2. codec.state = "failed" => greeted = "junk" BY <1>1 DEF TripInv, Placed
  <2> SUFFICES ASSUME codec.state # "failed"
      PROVE  LET whole == {i \in DOMAIN ends : ends[i] <= taken}
                 last == IF whole = {} THEN 0 ELSE ends[Cardinality(whole)]
             IN  /\ handled = Cardinality(whole)
                 /\ SubSeq(splitter.buf, splitter.start + 1, Len(splitter.buf))
                    = SubSeq(written, last + 1, taken)
    BY <2>1, <2>2 DEF SplitterKeepsPlace
  <2> DEFINE whole == {i \in DOMAIN ends : ends[i] <= taken}
             last == IF whole = {} THEN 0 ELSE ends[Cardinality(whole)]
             m == Len(ends)
  <2>3. /\ m \in Nat /\ DOMAIN ends = 1..m /\ (\A i \in 1..m : ends[i] = 3 * i)
        /\ written \in Seq(Cell) /\ taken \in 0..Len(written) /\ Len(written) \in Nat
        /\ handled \in 0..m /\ taken \in 3 * handled..3 * handled + 2
        /\ Holding(splitter, written, handled, taken)
    <3>1. m \in Nat /\ DOMAIN ends = 1..m BY <1>1, LenProperties DEF TripInv, Shape
    <3>2. written \in Seq(Cell) /\ Len(written) \in Nat
      BY <1>1, LenProperties DEF TripInv, Shape, Stream
    <3> QED BY <1>1, <3>1, <3>2 DEF TripInv, Shape, Placed
  <2> HIDE DEF m
  <2>4. whole = 1..handled
    <3>1. ASSUME NEW i \in 1..m PROVE 3 * i <= taken <=> i <= handled BY <2>3
    <3>2. \A i : i \in 1..handled <=> i \in 1..m /\ i <= handled BY <2>3
    <3> QED BY <2>3, <3>1, <3>2
  <2> HIDE DEF whole
  <2>5. handled = Cardinality(whole)
    <3>1. 0 \in Nat /\ 1 \in Int /\ handled \in Int /\ handled \in Nat BY <2>3
    <3>2. Cardinality(1..handled) = IF 1 > handled THEN 0 ELSE handled - 1 + 1
      BY <3>1, FS_Interval
    <3> QED BY <2>4, <3>1, <3>2
  <2>6. last = 3 * handled
    <3>1. CASE handled = 0
      <4>1. whole = {} BY <2>4, <3>1
      <4> QED BY <3>1, <4>1
    <3>2. CASE handled # 0
      <4>1. handled \in 1..handled /\ handled \in 1..m BY <2>3, <3>2
      <4> QED BY <2>3, <2>4, <2>5, <4>1
    <3> QED BY <3>1, <3>2
  <2>7. SubSeq(splitter.buf, splitter.start + 1, Len(splitter.buf))
        = SubSeq(written, 3 * handled + 1, taken)
    <3>1. PICK buf, start, t, h : /\ buf = splitter.buf /\ start = splitter.start
                                  /\ t = taken /\ h = handled
      OBVIOUS
    <3>2. /\ buf \in Seq(Cell) /\ start \in Nat /\ Len(buf) = start + (t - 3 * h)
          /\ h \in Nat /\ t \in Nat /\ 3 * h <= t /\ t <= Len(written)
          /\ \A j \in 1..t - 3 * h : buf[start + j] = written[3 * h + j]
      BY <2>3, <3>1 DEF Holding
    <3>3. PICK k : k = t - 3 * h OBVIOUS
    <3>4. k \in Nat /\ Len(buf) = start + k /\ t = 3 * h + k BY <3>2, <3>3
    <3> DEFINE left == SubSeq(buf, start + 1, start + k)
               right == SubSeq(written, 3 * h + 1, 3 * h + k)
    <3>5. left \in Seq(Cell) /\ Len(left) = k /\ \A j \in 1..k : left[j] = buf[start + j]
      <4>1. \A i \in start + 1..start + k : buf[i] \in Cell
        <5>1. \A i \in start + 1..start + k : i \in 1..Len(buf) BY <3>2, <3>4
        <5> QED BY <3>2, <5>1, ElementOfSeq
      <4>2. start + 1 \in Int /\ start + k \in Int BY <3>2, <3>4
      <4>3. /\ left \in Seq(Cell)
            /\ Len(left) = IF start + 1 <= start + k THEN (start + k) - (start + 1) + 1 ELSE 0
            /\ \A i \in 1..(start + k) - (start + 1) + 1 : left[i] = buf[(start + 1) + i - 1]
        BY <4>1, <4>2, SubSeqProperties
      <4> HIDE DEF left
      <4>4. Len(left) = k BY <3>2, <3>4, <4>3
      <4>5. \A j \in 1..k : /\ j \in 1..(start + k) - (start + 1) + 1
                            /\ (start + 1) + j - 1 = start + j
        BY <3>2, <3>4
      <4> QED BY <4>3, <4>4, <4>5
    <3>6. right \in Seq(Cell) /\ Len(right) = k /\ \A j \in 1..k : right[j] = written[3 * h + j]
      <4>1. \A i \in 3 * h + 1..3 * h + k : written[i] \in Cell
        <5>1. \A i \in 3 * h + 1..3 * h + k : i \in 1..Len(written) BY <2>3, <3>2, <3>4
        <5> QED BY <2>3, <5>1, ElementOfSeq
      <4>2. 3 * h + 1 \in Int /\ 3 * h + k \in Int BY <3>2, <3>4
      <4>3. /\ right \in Seq(Cell)
            /\ Len(right) = IF 3 * h + 1 <= 3 * h + k THEN (3 * h + k) - (3 * h + 1) + 1 ELSE 0
            /\ \A i \in 1..(3 * h + k) - (3 * h + 1) + 1 : right[i] = written[(3 * h + 1) + i - 1]
        BY <4>1, <4>2, SubSeqProperties
      <4> HIDE DEF right
      <4>4. Len(right) = k BY <3>2, <3>4, <4>3
      <4>5. \A j \in 1..k : /\ j \in 1..(3 * h + k) - (3 * h + 1) + 1
                            /\ (3 * h + 1) + j - 1 = 3 * h + j
        BY <3>2, <3>4
      <4> QED BY <4>3, <4>4, <4>5
    <3>7. \A j \in 1..k : left[j] = right[j] BY <3>2, <3>3, <3>5, <3>6
    <3> HIDE DEF left, right
    <3>8. left = right BY <3>5, <3>6, <3>7, SeqEqual
    <3> QED BY <3>1, <3>4, <3>8 DEF left, right
  <2> QED BY <2>5, <2>6, <2>7 DEF whole
<1> QED BY SpecInd, SpecTrip, <1>1, PTL

\* A call that returns had its operation performed in the attempt that returned it.
THEOREM ReturnedHolds == Spec => []ReturnedWasPerformed
<1>1. TripInv => ReturnedWasPerformed BY DEF TripInv, Earned, ReturnedWasPerformed
<1> QED BY SpecTrip, <1>1, PTL
===============================================================================
