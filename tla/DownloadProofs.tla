---------------------------- MODULE DownloadProofs ----------------------------
(* Proofs about Download, for every length of a READ, window, file and server. *)
EXTENDS Download, FiniteSetTheorems, TLAPS

Preparing == pc \in {"opening", "gating", "reopening", "creating"}
Reading == Transferring \/ pc \in {"closing", "parting", "confirming"}

\* The circumstances, and what STAT said in them.
Circumstances ==
    /\ scene \in Scenes
    /\ ask \in Options \/ ask = AnyOptions
    /\ attrs.size <= MaxSize
    /\ ~attrs.permissions => TRUE \in Terse
    /\ ~Shifting => attrs.size \in {Unknown, size}

\* Which answers a call has when, and so when it owns a handle.
HandleKnown ==
    /\ opening # {} => pc \in {"opening", "reopening"}
    /\ pc = "opening" /\ ask.resume => opening \subseteq {"STAT"} /\ ~handle
    /\ pc \in {"opening", "gating"} /\ ~ask.resume => (handle <=> "OPEN" \notin opening)
    /\ pc = "gating" /\ ask.resume => ~handle
    /\ pc = "reopening" => opening \subseteq {"OPEN"} /\ (handle <=> "OPEN" \notin opening)
    /\ pc \in {"creating", "filling", "waiting", "closing", "cleanup"} => handle
    /\ pc \in {"parting", "cleaning", "confirming"} => ~handle

\* The handles the server holds are the call's own, those with a CLOSE on its way, the one
\* awaited among them, and those left open.
Owned == link = "up" /\ handle /\ pc \notin {"idle", "returned", "raised"}
HandlesCounted ==
    /\ link = "down" => handles = 0 /\ closes = 0 /\ left = 0
    /\ link = "up" => handles = closes + left + (IF Owned THEN 1 ELSE 0)
    /\ link = "up" => closes >= AwaitedCloses
    /\ LeavesNone => left = 0

\* Before the first READ: nothing has moved, and a resume begins where the partial ends.
NothingYet ==
    /\ ~ask.resume => start = 0
    /\ pc \in {"idle", "opening"} => start = 0
    /\ Preparing => /\ landed = {} /\ ended = {} /\ outstanding = {} /\ answers = {}
                    /\ backlog = <<>> /\ ~eofSeen /\ written = 0
    /\ pc \in {"idle", "opening", "gating"} => checks = Unchecked
    /\ pc \in {"gating", "reopening", "creating"} /\ ask.resume =>
          /\ start = length
          /\ attrs.size # Unknown /\ start <= attrs.size
    /\ pc = "reopening" => ask.resume

\* What the local file holds, of the adopted partial and of this run.
LocalFile ==
    /\ held \subseteq 0 .. length - 1
    /\ IsFiniteSet(landed) /\ written = Cardinality(landed)
    /\ (pc \in {"reopening", "creating"} \/ Reading) /\ checks.resume = "matched" =>
          0 .. start - 1 \subseteq held
    /\ Reading => /\ landed \subseteq held
                  /\ held \subseteq (0 .. start - 1) \cup landed
                  /\ start <= length
                  /\ length = start \/ length - 1 \in landed

\* Where every offset asked for is, and when there are no more to ask for.
Offsetting ==
    /\ Reading => /\ Accounted
                  /\ start <= nextOffset
                  /\ attrs.size # Unknown => start <= attrs.size
    /\ pc \in {"closing", "parting", "confirming"} =>
          outstanding = {} /\ ~MoreToIssue
    /\ \A a, b \in answers : a.range = b.range => a = b

\* Of a file that stands still, what landed is what it has, and an EOF is past its end.
StandingStill ==
    ~Shifting =>
        /\ \A a \in answers :
              /\ a.kind = "data" /\ a.count <= a.range.length /\ a.count # 0
                    => a.range.offset + a.count <= size
              /\ a.kind = "eof" => a.range.offset >= size
        /\ Reading => /\ landed \subseteq 0 .. size - 1
                      /\ ended \cap (0 .. size - 1) = {}
                      /\ eofSeen => nextOffset >= size
                      /\ start # 0 => start <= size

IndInv ==
    /\ TypeOK
    /\ Circumstances
    /\ HandleKnown
    /\ HandlesCounted
    /\ NothingYet
    /\ LocalFile
    /\ Offsetting
    /\ StandingStill
    /\ ReturnedIsWhole

-------------------------------------------------------------------------------
(* Ranges and their offsets. *)

LEMMA CellOf ==
    ASSUME NEW rs, NEW x
    PROVE  x \in CellsOf(rs) <=> \E r \in rs : x \in Cells(r)
BY DEF CellsOf

LEMMA QueuedCell ==
    ASSUME NEW x
    PROVE  x \in CellsOf(Queued) <=> \E i \in DOMAIN backlog : x \in Cells(backlog[i])
BY DEF CellsOf, Queued

\* The circumstances are what the assumption says of every scene.
LEMMA SceneTypes ==
    ASSUME scene \in Scenes
    PROVE  /\ Depth \in Nat \ {0}
           /\ Options \subseteq [resume : BOOLEAN, verifySize : BOOLEAN,
                                 verify : {"size", "hash", "reread"}, preserve : BOOLEAN]
           /\ Sized \subseteq BOOLEAN /\ Terse \subseteq BOOLEAN
           /\ scene.largest \in 0 .. MaxSize
BY DownloadAssumption DEF Depth, Options, Sized, Terse

\* There is something in the next range, and it ends within the span.
LEMMA NextRangeType ==
    ASSUME TypeOK, MoreToIssue
    PROVE  NextRange \in Ranges
<1>1. CASE backlog # <<>>
  <2>1. Head(backlog) \in Ranges BY <1>1 DEF TypeOK
  <2> QED BY <1>1, <2>1 DEF NextRange
<1>2. CASE backlog = <<>>
  BY <1>2, DownloadAssumption DEF TypeOK, NextRange, Ranges, SpanEnd, Unknown, MoreToIssue, Lesser
<1> QED BY <1>1, <1>2

LEMMA AnswersType ==
    ASSUME TypeOK, NEW r \in Ranges
    PROVE  AnswersTo(r) \subseteq Answers
<1>1. r.length \in Nat /\ r.offset \in Nat /\ size \in Nat BY DEF Ranges, TypeOK
<1>2. \A n \in 1 .. Lesser(r.length, size - r.offset) : n \in Nat
  BY <1>1 DEF Lesser
<1> QED BY <1>1, <1>2 DEF AnswersTo, Answers

LEMMA RestType ==
    ASSUME NEW r \in Ranges, NEW n \in Nat
    PROVE  Rest(r, n) \in Seq(Ranges)
<1>1. CASE n < r.length
  <2>1. [offset |-> r.offset + n, length |-> r.length - n] \in Ranges BY <1>1 DEF Ranges
  <2> QED BY <1>1, <2>1 DEF Rest
<1>2. CASE ~(n < r.length)
  <2>1. <<>> \in Seq(Ranges) OBVIOUS
  <2> QED BY <1>2, <2>1 DEF Rest
<1> QED BY <1>1, <1>2

-------------------------------------------------------------------------------
(* Types. *)

LEMMA InitType == Init => TypeOK
<1> SUFFICES ASSUME Init PROVE TypeOK OBVIOUS
<1>1. size \in 0 .. MaxSize BY DownloadAssumption DEF Init
<1>2. backlog \in Seq(Ranges)
  <2>1. <<>> \in Seq(Ranges) OBVIOUS
  <2> QED BY <2>1 DEF Init
<1>3. checks \in Checks BY DEF Init, Unchecked, Checks
<1>4. attrs \in [size : Nat \cup {Unknown}, permissions : BOOLEAN] BY DEF Init, NoAttrs
<1> QED BY <1>1, <1>2, <1>3, <1>4 DEF Init, TypeOK, AnyOptions

\* A step that only changes who answers for a handle.
LEMMA HandleMoves ==
    ASSUME TypeOK, handles' \in Nat, closes' \in Nat, left' \in Nat, handle' \in BOOLEAN,
           opening' \in SUBSET {"STAT", "OPEN"},
           pc' \in {"parting", "cleaning", "confirming", "raised", pc},
           UNCHANGED <<size, link, local, call, attrs, start, checks, window, tally>>
    PROVE  TypeOK'
<1>1. UNCHANGED <<size, link, held, length, exists, calls, ask, attrs, start, checks,
                  backlog, nextOffset, outstanding, answers, written, eofSeen, seenZero, landed,
                  ended>>
  BY DEF local, call, window, tally
<1>2. opening' \subseteq {"STAT", "OPEN"} OBVIOUS
<1>3. pc' \in {"idle", "opening", "gating", "reopening", "creating", "filling",
               "waiting", "closing", "parting", "confirming", "cleanup", "cleaning",
               "returned", "raised"}
  BY DEF TypeOK
<1> QED BY ZenonT(30), <1>1, <1>2, <1>3 DEF TypeOK

\* What a comparison leaves behind of the handle it opened.
LEMMA ProbeCounted ==
    ASSUME NEW comparing \in BOOLEAN, ProbeCloses(comparing),
           handles \in Nat, closes \in Nat, left \in Nat
    PROVE  /\ handles' \in Nat /\ closes' \in Nat /\ left' \in Nat
           /\ \A n \in Nat : handles = closes + left + n => handles' = closes' + left' + n
           /\ closes' >= closes
           /\ link = "down" => UNCHANGED <<handles, closes, left>>
           /\ ~Congested => left' = left
BY DEF ProbeCloses

LEMMA NextType == IndInv /\ [Next]_vars => TypeOK'
<1> SUFFICES ASSUME IndInv, [Next]_vars PROVE TypeOK' OBVIOUS
<1> USE DEF IndInv, remote, local, call, opened, window, tally, TypeOK
<1>1. ASSUME NEW options \in Options, Get(options) PROVE TypeOK'
  <2>1. backlog' \in Seq(Ranges)
    <3>1. <<>> \in Seq(Ranges) OBVIOUS
    <3> QED BY <1>1, <3>1 DEF Get
  <2>2. checks' \in Checks BY <1>1 DEF Get, Unchecked, Checks
  <2>3. attrs' \in [size : Nat \cup {Unknown}, permissions : BOOLEAN] BY <1>1 DEF Get, NoAttrs
  <2>4. ask' \in [resume : BOOLEAN, verifySize : BOOLEAN,
                  verify : {"size", "hash", "reread"}, preserve : BOOLEAN]
    BY <1>1, SceneTypes DEF Get, Circumstances
  <2>5. calls' \in Nat /\ opening' \subseteq {"STAT", "OPEN"} BY <1>1 DEF Get
  <2>6. UNCHANGED <<size, handles, closes, left, held, length, exists>> BY <1>1 DEF Get
  <2>7. /\ link' = "up" /\ handle' = FALSE /\ start' = 0 /\ nextOffset' = 0 /\ written' = 0
        /\ outstanding' = {} /\ answers' = {} /\ landed' = {} /\ ended' = {}
        /\ eofSeen' = FALSE /\ seenZero' = FALSE /\ pc' = "opening"
    BY <1>1 DEF Get
  <2> QED BY <2>1, <2>2, <2>3, <2>4, <2>5, <2>6, <2>7
<1>2. CASE StatAnswered
  <2>1. attrs' \in [size : Nat \cup {Unknown}, permissions : BOOLEAN]
    BY <1>2, SceneTypes DEF StatAnswered, Circumstances
  <2> QED BY <1>2, <2>1 DEF StatAnswered
<1>3. CASE OpenAnswered BY <1>3 DEF OpenAnswered
<1>4. CASE \/ OpeningRefused \/ ResumeRefused \/ ReopenAnswered \/ ReopenRefused
           \/ LocalRefused \/ WindowFilled \/ IdleTimeout \/ Cancelled \/ LinkFails
  BY ZenonT(30), <1>4
  DEF OpeningRefused, ResumeRefused, ReopenAnswered, ReopenRefused, LocalRefused, WindowFilled,
      IdleTimeout, Cancelled, LinkFails, AfterFailure
<1>18. CASE OpeningCancelled \/ ModeRefused \/ CloseCut
  <2>1. left' \in Nat /\ handle' = FALSE
    BY <1>18 DEF OpeningCancelled, ModeRefused, CloseCut, Leave
  <2>2. /\ opening' \in SUBSET {"STAT", "OPEN"} /\ pc' = "raised"
        /\ UNCHANGED <<size, handles, link, closes, local, call, attrs, start, checks, window,
                       tally>>
    BY <1>18 DEF OpeningCancelled, ModeRefused, CloseCut
  <2> QED BY <2>1, <2>2, HandleMoves
<1>19. CASE GateFails \/ GateRefuses \/ ConfirmFails
  <2>1. /\ ProbeCloses(TRUE) /\ pc' = "raised"
        /\ UNCHANGED <<size, link, local, call, opened, start, checks, window, tally>>
    BY <1>19 DEF GateFails, GateRefuses, ConfirmFails
  <2>2. handles' \in Nat /\ closes' \in Nat /\ left' \in Nat BY <2>1, ProbeCounted
  <2>3. handle' \in BOOLEAN /\ opening' \in SUBSET {"STAT", "OPEN"} BY <2>1
  <2> QED BY <2>1, <2>2, <2>3, HandleMoves
<1>5. CASE ResumeOffset BY <1>5 DEF ResumeOffset
<1>6. CASE GatePasses
  <2>1. handles' \in Nat /\ closes' \in Nat /\ left' \in Nat
    BY <1>6, ProbeCounted DEF GatePasses, GateCompares
  <2>2. checks' \in Checks BY <1>6 DEF GatePasses, Checks, ResumeVerdict
  <2> QED BY <1>6, <2>1, <2>2 DEF GatePasses
<1>7. CASE AlreadyComplete
  <2>1. handles' \in Nat /\ closes' \in Nat /\ left' \in Nat
    BY <1>7, ProbeCounted DEF AlreadyComplete, GateCompares
  <2>2. checks' \in Checks BY <1>7 DEF AlreadyComplete, Checks, ResumeVerdict
  <2> QED BY <1>7, <2>1, <2>2 DEF AlreadyComplete
<1>8. CASE CreateLocal BY ZenonT(30), <1>8 DEF CreateLocal
<1>9. CASE Issue
  <2>1. NextRange \in Ranges BY <1>9, NextRangeType DEF Issue
  <2>2. outstanding' \subseteq Ranges /\ \A a \in answers : a.range \in outstanding'
    BY <1>9, <2>1 DEF Issue
  <2>3. backlog' \in Seq(Ranges) BY SMTT(30), <1>9 DEF Issue
  <2>4. nextOffset' \in Nat BY <1>9, <2>1 DEF Issue, Ranges
  <2> QED BY <1>9, <2>2, <2>3, <2>4 DEF Issue
<1>10. ASSUME NEW r \in outstanding, ServerReads(r) PROVE TypeOK'
  <2>1. PICK a \in AnswersTo(r) : answers' = answers \cup {a} BY <1>10 DEF ServerReads
  <2>2. a \in Answers BY <2>1, AnswersType
  <2>3. a.range = r BY <2>1 DEF AnswersTo
  <2> QED BY <1>10, <2>1, <2>2, <2>3 DEF ServerReads
<1>11. ASSUME NEW a \in answers, Dispatch(a) PROVE TypeOK'
  <2>1. /\ outstanding' \subseteq Ranges /\ answers' \subseteq Answers
        /\ \A b \in answers' : b.range \in outstanding'
    BY <1>11 DEF Dispatch, HandleData, HandleEOF, HandleRefusal, Take, Offsetting
  <2>2. a.range \in Ranges /\ a.count \in Nat /\ a.range.offset \in Nat /\ a.range.length \in Nat
    BY DEF Answers, Ranges
  <2>3. CASE HandleData(a)
    <3>1. Payload(a.range, a.count) \subseteq Nat BY <2>2 DEF Payload
    <3>2. landed' \subseteq Nat /\ held' \subseteq Nat BY <2>3, <3>1 DEF HandleData
    <3>3. length' \in Nat /\ written' \in Nat BY <2>2, <2>3 DEF HandleData, Greater
    <3>4. backlog' \in Seq(Ranges)
      <4>1. Rest(a.range, a.count) \in Seq(Ranges) BY <2>2, RestType
      <4>2. backlog \in Seq(Ranges) OBVIOUS
      <4>3. backlog \o Rest(a.range, a.count) \in Seq(Ranges) BY <4>1, <4>2
      <4> QED BY <2>3, <4>3 DEF HandleData
    <3> QED BY <2>1, <2>3, <3>2, <3>3, <3>4 DEF HandleData
  <2>4. CASE HandleEOF(a)
    <3>1. Cells(a.range) \subseteq Nat BY <2>2 DEF Cells
    <3> QED BY ZenonT(30), <2>1, <2>4, <3>1 DEF HandleEOF, Take
  <2>5. CASE HandleRefusal(a) BY <2>1, <2>5 DEF HandleRefusal, Take
  <2> QED BY <1>11, <2>3, <2>4, <2>5 DEF Dispatch
<1>12. CASE SendClose
  <2>1. /\ closes' \in Nat /\ handle' = FALSE /\ pc' \in {"parting", "cleaning"}
        /\ UNCHANGED <<size, handles, link, left, local, call, opening, attrs, start, checks,
                       window, tally>>
    BY <1>12 DEF SendClose
  <2> QED BY <2>1, HandleMoves
<1>13. CASE CloseAnswered \/ CloseUnanswered \/ LateClose
  <2>1. link = "up" /\ closes >= AwaitedCloses /\ handles >= closes
    BY <1>13 DEF CloseAnswered, CloseUnanswered, LateClose, HandlesCounted
  <2>2. handles' \in Nat /\ closes' \in Nat
    BY <1>13, <2>1 DEF CloseAnswered, CloseUnanswered, LateClose, AwaitedCloses
  <2>3. /\ left' = left /\ handle' = handle /\ opening' = opening
        /\ pc' \in {"confirming", "raised", pc}
        /\ UNCHANGED <<size, link, local, call, attrs, start, checks, window, tally>>
    BY <1>13 DEF CloseAnswered, CloseUnanswered, LateClose
  <2> QED BY <2>2, <2>3, HandleMoves
<1>14. CASE Confirm
  <2>1. SizeVerdict \in {"skipped", "unavailable", "matched", "refused"} BY DEF SizeVerdict
  <2>2. ContentVerdict \in {"skipped", "unavailable", "matched", "refused"}
    BY DEF ContentVerdict, Comparable
  <2>3. checks' \in Checks BY <1>14, <2>1, <2>2 DEF Confirm, Checks
  <2>4. handles' \in Nat /\ closes' \in Nat /\ left' \in Nat
    BY <1>14, ProbeCounted DEF Confirm, ContentCompares
  <2> QED BY <1>14, <2>3, <2>4 DEF Confirm
<1>15. CASE LinkDrops BY <1>15 DEF LinkDrops
<1>16. CASE FileShifts
  <2>1. scene.largest \in 0 .. MaxSize BY SceneTypes DEF Circumstances
  <2>2. size' \in 0 .. MaxSize BY <1>16, <2>1, DownloadAssumption DEF FileShifts
  <2> QED BY <1>16, <2>2 DEF FileShifts
<1>17. CASE UNCHANGED vars BY <1>17 DEF vars
<1> QED
  BY <1>1, <1>2, <1>3, <1>4, <1>5, <1>6, <1>7, <1>8, <1>9, <1>10, <1>11, <1>12, <1>13, <1>14,
     <1>15, <1>16, <1>17, <1>18, <1>19
  DEF Next, Step

-------------------------------------------------------------------------------
(* The circumstances do not change. *)

LEMMA NextCircumstances == IndInv /\ [Next]_vars => Circumstances'
<1> SUFFICES ASSUME IndInv, [Next]_vars PROVE Circumstances' OBVIOUS
<1> USE DEF IndInv, remote, local, call, opened, window, tally, Circumstances, Options, Terse,
            Shifting, Sized
<1>0. UNCHANGED scene BY DEF Next, vars
<1>1. ASSUME NEW options \in Options, Get(options) PROVE Circumstances'
  BY <1>0, <1>1, DownloadAssumption DEF Get, NoAttrs, Unknown
<1>2. CASE StatAnswered
  <2>1. PICK sized \in Sized, terse \in Terse :
          attrs' = [size |-> IF sized THEN size ELSE Unknown, permissions |-> ~terse]
    BY <1>2 DEF StatAnswered
  <2>2. attrs'.size \in {size, Unknown} /\ attrs'.permissions = ~terse BY <2>1
  <2>3. terse \in BOOLEAN BY SceneTypes
  <2>4. attrs'.size <= MaxSize BY <2>2, DownloadAssumption DEF TypeOK, Unknown
  <2>5. ~attrs'.permissions => TRUE \in Terse BY <2>2, <2>3
  <2> QED BY <1>0, <1>2, <2>2, <2>4, <2>5 DEF StatAnswered
<1>3. CASE FileShifts BY <1>0, <1>3 DEF FileShifts
<1>4. ASSUME UNCHANGED <<size, ask, attrs>> PROVE Circumstances' BY <1>0, <1>4
<1>5. CASE \/ OpenAnswered \/ OpeningRefused \/ OpeningCancelled \/ ModeRefused \/ ResumeRefused
           \/ ResumeOffset \/ GateFails \/ GateRefuses \/ GatePasses \/ AlreadyComplete
           \/ ReopenAnswered \/ ReopenRefused \/ CreateLocal \/ LocalRefused
  BY <1>4, <1>5
  DEF OpenAnswered, OpeningRefused, OpeningCancelled, ModeRefused, ResumeRefused, ResumeOffset,
      GateFails, GateRefuses, GatePasses, AlreadyComplete, ReopenAnswered, ReopenRefused, CreateLocal,
      LocalRefused
<1>6. CASE \/ Issue \/ WindowFilled \/ IdleTimeout \/ Cancelled \/ LinkFails \/ SendClose
           \/ CloseCut \/ CloseAnswered \/ CloseUnanswered \/ LateClose \/ ConfirmFails
           \/ Confirm \/ LinkDrops
  BY <1>4, <1>6
  DEF Issue, WindowFilled, IdleTimeout, Cancelled, LinkFails, SendClose, CloseCut, CloseAnswered,
      CloseUnanswered, LateClose, ConfirmFails, Confirm, LinkDrops
<1>7. ASSUME NEW r \in outstanding, ServerReads(r) PROVE Circumstances'
  BY <1>4, <1>7 DEF ServerReads
<1>8. ASSUME NEW a \in answers, Dispatch(a) PROVE Circumstances'
  BY <1>4, <1>8 DEF Dispatch, HandleData, HandleEOF, HandleRefusal
<1>9. CASE UNCHANGED vars BY <1>4, <1>9 DEF vars
<1> QED BY <1>1, <1>2, <1>3, <1>5, <1>6, <1>7, <1>8, <1>9 DEF Next, Step

-------------------------------------------------------------------------------
(* Handles. *)

LEMMA NextHandle == IndInv /\ [Next]_vars => HandleKnown'
<1> SUFFICES ASSUME IndInv, [Next]_vars PROVE HandleKnown' OBVIOUS
<1> USE DEF IndInv, remote, local, call, opened, window, tally, HandleKnown, NothingYet
<1>1. ASSUME NEW options \in Options, Get(options) PROVE HandleKnown'
  BY <1>1, SceneTypes DEF Get, Circumstances
<1>2. CASE StatAnswered \/ OpenAnswered BY <1>2 DEF StatAnswered, OpenAnswered
<1>3. CASE OpeningRefused \/ OpeningCancelled \/ ModeRefused \/ ResumeRefused \/ ResumeOffset
  BY <1>3
  DEF OpeningRefused, OpeningCancelled, ModeRefused, ResumeRefused, ResumeOffset, AfterFailure,
      Leave
<1>4. CASE GateFails \/ GateRefuses \/ AlreadyComplete
  BY <1>4 DEF GateFails, GateRefuses, AlreadyComplete
<1>11. CASE GatePasses BY <1>11 DEF GatePasses
<1>5. CASE ReopenAnswered \/ ReopenRefused \/ CreateLocal \/ LocalRefused
  BY <1>5 DEF ReopenAnswered, ReopenRefused, CreateLocal, LocalRefused
<1>6. CASE Issue \/ WindowFilled \/ IdleTimeout \/ Cancelled \/ LinkFails
  BY <1>6 DEF Issue, WindowFilled, IdleTimeout, Cancelled, LinkFails, AfterFailure, Transferring
<1>7. CASE SendClose \/ CloseCut \/ CloseAnswered \/ CloseUnanswered
  BY <1>7 DEF SendClose, CloseCut, CloseAnswered, CloseUnanswered, Leave
<1>12. CASE LateClose BY <1>12 DEF LateClose
<1>14. CASE ConfirmFails BY <1>14 DEF ConfirmFails
<1>13. CASE Confirm \/ LinkDrops \/ FileShifts BY <1>13 DEF Confirm, LinkDrops, FileShifts
<1>8. ASSUME NEW r \in outstanding, ServerReads(r) PROVE HandleKnown'
  BY <1>8 DEF ServerReads
<1>9. ASSUME NEW a \in answers, Dispatch(a) PROVE HandleKnown'
  BY <1>9 DEF Dispatch, HandleData, HandleEOF, HandleRefusal, Take
<1>10. CASE UNCHANGED vars BY <1>10 DEF vars
<1> QED BY <1>1, <1>2, <1>3, <1>4, <1>5, <1>6, <1>7, <1>8, <1>9, <1>10, <1>11, <1>12, <1>13,
     <1>14
  DEF Next, Step

LEMMA NextCounted == IndInv /\ [Next]_vars => HandlesCounted'
<1> SUFFICES ASSUME IndInv, [Next]_vars PROVE HandlesCounted' OBVIOUS
<1> USE DEF remote, local, call, opened, window, tally, HandlesCounted, HandleKnown, Owned,
            AwaitedCloses
<1>0. /\ LeavesNone' = LeavesNone /\ HandlesCounted /\ HandleKnown /\ NothingYet /\ Circumstances
      /\ handles \in Nat /\ closes \in Nat /\ left \in Nat /\ link \in {"up", "down"}
      /\ handle \in BOOLEAN
  BY DEF IndInv, TypeOK, LeavesNone, Next, vars, CancelsIn, Terse, Options, Congested
<1>1. ASSUME NEW options \in Options, Get(options) PROVE HandlesCounted'
  BY <1>0, <1>1 DEF Get
<1>2. CASE StatAnswered BY <1>0, <1>2 DEF StatAnswered
<1>16. CASE OpenAnswered
  <2>1. ~handle /\ pc \in {"opening", "reopening"} /\ link = "up" BY <1>0, <1>16 DEF OpenAnswered
  <2>2. ~Owned /\ Owned' /\ AwaitedCloses' = 0 BY <1>16, <2>1 DEF OpenAnswered
  <2> QED BY <1>0, <1>16, <2>1, <2>2 DEF OpenAnswered
<1>3. CASE OpeningRefused \/ ResumeRefused \/ ResumeOffset
  BY <1>0, <1>3 DEF OpeningRefused, ResumeRefused, ResumeOffset, AfterFailure
<1>4. CASE OpeningCancelled \/ ModeRefused \/ CloseCut
  <2>1. ~LeavesNone
    <3>1. CASE OpeningCancelled \/ CloseCut BY <3>1 DEF OpeningCancelled, CloseCut, LeavesNone
    <3>2. CASE ModeRefused
      <4>1. ask.preserve /\ ~attrs.permissions BY <3>2 DEF ModeRefused
      <4>2. ask # AnyOptions BY <4>1 DEF AnyOptions
      <4>3. ask \in Options BY <1>0, <4>2 DEF Circumstances
      <4>4. TRUE \in Terse BY <1>0, <4>1 DEF Circumstances
      <4> QED BY <4>1, <4>3, <4>4 DEF LeavesNone
    <3> QED BY <1>4, <3>1, <3>2
  <2>2. /\ handle' = FALSE /\ pc' = "raised" /\ UNCHANGED <<link, handles, closes>>
        /\ left' = IF handle /\ link = "up" THEN left + 1 ELSE left
        /\ pc \in {"opening", "closing", "cleanup"}
    BY <1>4 DEF OpeningCancelled, ModeRefused, CloseCut, Leave
  <2> QED BY <1>0, <2>1, <2>2
\* What a comparison adds to the handles it adds to the CLOSEs on their way or to those left.
<1>5. ASSUME NEW comparing \in BOOLEAN, ProbeCloses(comparing), UNCHANGED <<link, handle>>,
             pc \in {"gating", "confirming"}, pc' \notin {"parting", "cleaning"},
             ~handle \/ pc' \notin {"returned", "raised", "idle"}
      PROVE  HandlesCounted'
  <2>1. /\ handles' \in Nat /\ closes' \in Nat /\ left' \in Nat
        /\ \A n \in Nat : handles = closes + left + n => handles' = closes' + left' + n
        /\ link = "down" => UNCHANGED <<handles, closes, left>>
        /\ ~Congested => left' = left
    BY <1>0, <1>5, ProbeCounted
  <2>2. LeavesNone => ~Congested BY DEF LeavesNone
  <2>3. (Owned' <=> Owned) /\ AwaitedCloses' = 0 BY <1>5
  <2>4. /\ link = "up" => handles = closes + left + (IF Owned THEN 1 ELSE 0)
        /\ link = "down" => handles = 0 /\ closes = 0 /\ left = 0
        /\ LeavesNone => left = 0
    BY <1>0
  <2> HIDE DEF Owned, AwaitedCloses
  <2>5. link = "up" => handles' = closes' + left' + (IF Owned' THEN 1 ELSE 0)
    <3>1. CASE Owned
      <4>1. link = "up" => handles = closes + left + 1 BY <2>4, <3>1
      <4>2. link = "up" => handles' = closes' + left' + 1 BY <2>1, <4>1
      <4> QED BY <2>3, <3>1, <4>2
    <3>2. CASE ~Owned
      <4>1. link = "up" => handles = closes + left + 0 BY <2>4, <3>2
      <4>2. link = "up" => handles' = closes' + left' + 0 BY <2>1, <4>1
      <4> QED BY <2>3, <3>2, <4>2
    <3> QED BY <3>1, <3>2
  <2>6. closes' >= AwaitedCloses' BY <2>1, <2>3
  <2>7. link' = "down" => handles' = 0 /\ closes' = 0 /\ left' = 0 BY <1>5, <2>1, <2>4
  <2>8. LeavesNone' => left' = 0 BY <1>0, <2>1, <2>2, <2>4
  <2>9. link' = link BY <1>5
  <2> QED BY <2>5, <2>6, <2>7, <2>8, <2>9
<1>6. CASE GateFails \/ GateRefuses \/ GatePasses \/ AlreadyComplete
  <2>1. UNCHANGED <<link, handle>> /\ pc = "gating" /\ pc' \notin {"parting", "cleaning"}
    BY <1>6 DEF GateFails, GateRefuses, GatePasses, AlreadyComplete
  <2>2. ProbeCloses(TRUE) \/ ProbeCloses(GateCompares)
    BY <1>6 DEF GateFails, GateRefuses, GatePasses, AlreadyComplete
  <2>3. ~handle \/ pc' \notin {"returned", "raised", "idle"}
    <3>1. CASE GateFails BY <1>0, <3>1 DEF GateFails, GateCompares, NothingYet
    <3>2. CASE GateRefuses BY <1>0, <3>2 DEF GateRefuses, ResumeVerdict, NothingYet
    <3>3. CASE GatePasses BY <3>3 DEF GatePasses
    <3>4. CASE AlreadyComplete BY <1>0, <3>4 DEF AlreadyComplete, Complete
    <3> QED BY <1>6, <3>1, <3>2, <3>3, <3>4
  <2> QED BY <1>5, <2>1, <2>2, <2>3 DEF GateCompares
<1>7. CASE ReopenAnswered \/ ReopenRefused \/ CreateLocal \/ LocalRefused
  <2>1. CASE ReopenAnswered BY <1>0, <2>1 DEF ReopenAnswered
  <2>2. CASE ReopenRefused BY <1>0, <2>2 DEF ReopenRefused
  <2>3. CASE CreateLocal BY <1>0, <2>3 DEF CreateLocal
  <2>4. CASE LocalRefused BY <1>0, <2>4 DEF LocalRefused
  <2> QED BY <1>7, <2>1, <2>2, <2>3, <2>4
<1>8. CASE Issue \/ WindowFilled \/ IdleTimeout \/ Cancelled \/ LinkFails
  BY <1>0, <1>8
  DEF Issue, WindowFilled, IdleTimeout, Cancelled, LinkFails, AfterFailure, Transferring
<1>9. CASE SendClose BY <1>0, <1>9 DEF SendClose
<1>10. CASE CloseAnswered BY <1>0, <1>10 DEF CloseAnswered
<1>17. CASE CloseUnanswered \/ LateClose BY <1>0, <1>17 DEF CloseUnanswered, LateClose
<1>11. CASE ConfirmFails \/ Confirm
  <2>1. UNCHANGED <<link, handle>> /\ pc = "confirming" /\ pc' \in {"returned", "raised"}
    BY <1>11 DEF ConfirmFails, Confirm
  <2>2. ProbeCloses(TRUE) \/ ProbeCloses(ContentCompares) BY <1>11 DEF ConfirmFails, Confirm
  <2> QED BY <1>0, <1>5, <2>1, <2>2 DEF ContentCompares
<1>12. CASE LinkDrops BY <1>0, <1>12 DEF LinkDrops
<1>18. CASE FileShifts BY <1>0, <1>18 DEF FileShifts
<1>13. ASSUME NEW r \in outstanding, ServerReads(r) PROVE HandlesCounted'
  BY <1>0, <1>13 DEF ServerReads
<1>14. ASSUME NEW a \in answers, Dispatch(a) PROVE HandlesCounted'
  BY <1>0, <1>14 DEF Dispatch, HandleData, HandleEOF, HandleRefusal, Take
<1>15. CASE UNCHANGED vars BY <1>0, <1>15 DEF vars
<1> QED
  BY <1>1, <1>2, <1>3, <1>4, <1>6, <1>7, <1>8, <1>9, <1>10, <1>11, <1>12, <1>13, <1>14, <1>15,
     <1>16, <1>17, <1>18
  DEF Next, Step

-------------------------------------------------------------------------------
(* Up to the first READ. *)

LEMMA NextNothingYet == IndInv /\ [Next]_vars => NothingYet'
<1> SUFFICES ASSUME IndInv, [Next]_vars PROVE NothingYet' OBVIOUS
<1> USE DEF IndInv, remote, local, call, opened, window, tally, NothingYet, Preparing
<1>1. ASSUME NEW options \in Options, Get(options) PROVE NothingYet'
  BY <1>1 DEF Get
<1>2. CASE StatAnswered \/ OpenAnswered
  BY <1>2 DEF StatAnswered, OpenAnswered, HandleKnown
<1>3. CASE OpeningRefused \/ OpeningCancelled \/ ModeRefused \/ ResumeRefused
  BY <1>3 DEF OpeningRefused, OpeningCancelled, ModeRefused, ResumeRefused, AfterFailure
<1>4. CASE ResumeOffset BY <1>4 DEF ResumeOffset
<1>5. CASE GateFails \/ GateRefuses \/ AlreadyComplete
  BY <1>5 DEF GateFails, GateRefuses, AlreadyComplete
<1>12. CASE GatePasses BY <1>12 DEF GatePasses
<1>6. CASE ReopenAnswered \/ ReopenRefused \/ CreateLocal \/ LocalRefused
  BY <1>6 DEF ReopenAnswered, ReopenRefused, CreateLocal, LocalRefused
<1>7. CASE Issue \/ WindowFilled \/ IdleTimeout \/ Cancelled \/ LinkFails
  BY <1>7 DEF Issue, WindowFilled, IdleTimeout, Cancelled, LinkFails, AfterFailure, Transferring
<1>8. CASE SendClose \/ CloseCut \/ CloseAnswered \/ CloseUnanswered
  BY <1>8 DEF SendClose, CloseCut, CloseAnswered, CloseUnanswered
<1>13. CASE LateClose BY <1>13 DEF LateClose
<1>15. CASE ConfirmFails BY <1>15 DEF ConfirmFails
<1>14. CASE Confirm \/ LinkDrops \/ FileShifts BY <1>14 DEF Confirm, LinkDrops, FileShifts
<1>9. ASSUME NEW r \in outstanding, ServerReads(r) PROVE NothingYet'
  BY <1>9 DEF ServerReads
<1>10. ASSUME NEW a \in answers, Dispatch(a) PROVE NothingYet'
  BY <1>10 DEF Dispatch, HandleData, HandleEOF, HandleRefusal, Take
<1>11. CASE UNCHANGED vars BY <1>11 DEF vars
<1> QED
  BY <1>1, <1>2, <1>3, <1>4, <1>5, <1>6, <1>7, <1>8, <1>9, <1>10, <1>11, <1>12, <1>13,
     <1>14, <1>15
  DEF Next, Step

-------------------------------------------------------------------------------
(* Every offset is in one place. *)

\* A range issued from the backlog changes its place; a new one extends the offsets asked for.
LEMMA IssueAccounts ==
    ASSUME IndInv, Issue
    PROVE  Accounted' /\ start <= nextOffset'
<1> USE DEF IndInv, TypeOK
<1>1. /\ pc = "filling" /\ MoreToIssue /\ Accounted /\ start <= nextOffset
      /\ UNCHANGED <<landed, ended, start, attrs>> /\ outstanding' = outstanding \cup {NextRange}
      /\ attrs.size # Unknown => start <= attrs.size
  BY DEF Issue, Offsetting, Reading, Transferring, opened, tally
<1>2. NextRange \in Ranges BY <1>1, NextRangeType
<1>3. \A x : x \in CellsOf(outstanding') <=> x \in CellsOf(outstanding) \/ x \in Cells(NextRange)
  BY <1>1 DEF CellsOf
<1>4. CASE backlog # <<>>
  <2>1. /\ NextRange = Head(backlog) /\ backlog' = Tail(backlog) /\ nextOffset' = nextOffset
    BY <1>4 DEF Issue, NextRange
  <2>2. /\ 1 \in DOMAIN backlog /\ NextRange = backlog[1]
        /\ \A i \in DOMAIN backlog' : i + 1 \in DOMAIN backlog /\ backlog'[i] = backlog[i + 1]
                                      /\ i \in Nat \ {0}
        /\ \A i \in DOMAIN backlog : i = 1 \/ (i - 1 \in DOMAIN backlog' /\ backlog'[i - 1] = backlog[i])
    BY <1>4, <2>1
  <2>3. \A x : x \in CellsOf(Queued) <=> x \in CellsOf(Queued)' \/ x \in Cells(NextRange)
    <3>1. ASSUME NEW x, x \in CellsOf(Queued) PROVE x \in CellsOf(Queued)' \/ x \in Cells(NextRange)
      <4>1. PICK i \in DOMAIN backlog : x \in Cells(backlog[i]) BY <3>1, QueuedCell
      <4>2. CASE i = 1 BY <2>2, <4>1, <4>2
      <4>3. CASE i # 1
        <5>1. i - 1 \in DOMAIN backlog' /\ x \in Cells(backlog'[i - 1]) BY <2>2, <4>1, <4>3
        <5> QED BY <5>1 DEF CellsOf, Queued
      <4> QED BY <4>2, <4>3
    <3>2. ASSUME NEW x, x \in CellsOf(Queued)' PROVE x \in CellsOf(Queued)
      <4>1. PICK i \in DOMAIN backlog' : x \in Cells(backlog'[i]) BY <3>2 DEF CellsOf, Queued
      <4> QED BY <2>2, <4>1, QueuedCell
    <3>3. ASSUME NEW x, x \in Cells(NextRange) PROVE x \in CellsOf(Queued)
      BY <2>2, <3>3, QueuedCell
    <3> QED BY <3>1, <3>2, <3>3
  <2>4. \A x : ~(x \in CellsOf(Queued)' /\ x \in Cells(NextRange))
    <3> SUFFICES ASSUME NEW x, x \in CellsOf(Queued)', x \in Cells(NextRange) PROVE FALSE
      OBVIOUS
    <3>1. PICK i \in DOMAIN backlog' : x \in Cells(backlog'[i]) BY DEF CellsOf, Queued
    <3>2. i + 1 \in DOMAIN backlog /\ i + 1 # 1 /\ x \in Cells(backlog[i + 1])
      BY <2>2, <3>1
    <3>3. Cells(backlog[1]) \cap Cells(backlog[i + 1]) = {} BY <1>1, <2>2, <3>2 DEF Accounted
    <3> QED BY <2>2, <3>2, <3>3
  <2>5. \A i, j \in DOMAIN backlog' : i # j => Cells(backlog'[i]) \cap Cells(backlog'[j]) = {}
    <3> SUFFICES ASSUME NEW i \in DOMAIN backlog', NEW j \in DOMAIN backlog', i # j
                 PROVE  Cells(backlog'[i]) \cap Cells(backlog'[j]) = {}
      OBVIOUS
    <3>1. i + 1 # j + 1 BY <2>2
    <3> QED BY <1>1, <2>2, <3>1 DEF Accounted
  <2>6. \A r \in outstanding : Cells(r) \cap Cells(NextRange) = {}
    <3> SUFFICES ASSUME NEW r \in outstanding, NEW x, x \in Cells(r), x \in Cells(NextRange)
                 PROVE  FALSE
      OBVIOUS
    <3>1. x \in CellsOf(outstanding) /\ x \in CellsOf(Queued) BY <2>3, CellOf
    <3> QED BY <1>1, <3>1 DEF Accounted
  <2>7. \A r, s \in outstanding' : r # s => Cells(r) \cap Cells(s) = {}
    BY <1>1, <2>6 DEF Accounted
  <2>8. landed \cup CellsOf(outstanding') \cup CellsOf(Queued)' \cup ended = start .. nextOffset - 1
    <3>1. CellsOf(outstanding') \cup CellsOf(Queued)' = CellsOf(outstanding) \cup CellsOf(Queued)
      BY <1>3, <2>3
    <3> QED BY <1>1, <3>1 DEF Accounted
  <2>9. /\ landed \cap (CellsOf(outstanding') \cup CellsOf(Queued)' \cup ended) = {}
        /\ ended \cap (CellsOf(outstanding') \cup CellsOf(Queued)') = {}
        /\ CellsOf(outstanding') \cap CellsOf(Queued)' = {}
    BY <1>1, <1>3, <2>3, <2>4 DEF Accounted
  <2>10. SpanEnd' # Unknown => nextOffset' <= Greater(start', SpanEnd')
    BY <1>1, <2>1 DEF Accounted, SpanEnd
  <2>11. CellsOf(outstanding)' = CellsOf(outstanding') BY DEF CellsOf
  <2> QED BY <1>1, <2>1, <2>5, <2>7, <2>8, <2>9, <2>10, <2>11 DEF Accounted
<1>5. CASE backlog = <<>>
  <2>1. /\ NextRange.offset = nextOffset /\ NextRange.length > 0 /\ NextRange.length \in Nat
        /\ nextOffset' = nextOffset + NextRange.length /\ UNCHANGED backlog
        /\ SpanEnd # Unknown => nextOffset + NextRange.length <= SpanEnd
    BY <1>1, <1>2, <1>5, DownloadAssumption
    DEF Issue, NextRange, Ranges, MoreToIssue, Lesser, SpanEnd, Unknown
  <2>2. Cells(NextRange) = nextOffset .. nextOffset' - 1 BY <2>1 DEF Cells
  <2>3. CellsOf(Queued)' = CellsOf(Queued) BY <2>1 DEF CellsOf, Queued
  <2>4. start .. nextOffset' - 1 = (start .. nextOffset - 1) \cup Cells(NextRange)
    BY <1>1, <2>1, <2>2
  <2>5. (start .. nextOffset - 1) \cap Cells(NextRange) = {} BY <2>1, <2>2
  <2>6. \A r \in outstanding : Cells(r) \cap Cells(NextRange) = {}
    <3> SUFFICES ASSUME NEW r \in outstanding, NEW x, x \in Cells(r), x \in Cells(NextRange)
                 PROVE  FALSE
      OBVIOUS
    <3>1. x \in CellsOf(outstanding) BY CellOf
    <3> QED BY <1>1, <2>5, <3>1 DEF Accounted
  <2>7. \A r, s \in outstanding' : r # s => Cells(r) \cap Cells(s) = {}
    BY <1>1, <2>6 DEF Accounted
  <2>8. CellsOf(outstanding)' = CellsOf(outstanding) \cup Cells(NextRange) BY <1>1 DEF CellsOf
  <2>9. landed \cup CellsOf(outstanding)' \cup CellsOf(Queued) \cup ended = start .. nextOffset' - 1
    BY <1>1, <2>4, <2>8 DEF Accounted
  <2>10. /\ landed \cap (CellsOf(outstanding)' \cup CellsOf(Queued) \cup ended) = {}
         /\ ended \cap (CellsOf(outstanding)' \cup CellsOf(Queued)) = {}
         /\ CellsOf(outstanding)' \cap CellsOf(Queued) = {}
    BY <1>1, <2>5, <2>8 DEF Accounted
  <2>11. SpanEnd' # Unknown => nextOffset' <= Greater(start', SpanEnd')
    BY <1>1, <2>1 DEF SpanEnd, Greater, Unknown
  <2>12. start <= nextOffset' BY <1>1, <2>1
  <2> QED BY <1>1, <2>1, <2>3, <2>7, <2>9, <2>10, <2>11, <2>12 DEF Accounted
<1> QED BY <1>4, <1>5

\* An answer handled takes its range, and nothing else, out of what is outstanding.
LEMMA TakeAccounts ==
    ASSUME IndInv, NEW a \in answers, Take(a)
    PROVE  /\ a.range \in outstanding /\ a.range \in Ranges /\ a.count \in Nat
           /\ outstanding' = outstanding \ {a.range}
           /\ CellsOf(outstanding)' = CellsOf(outstanding) \ Cells(a.range)
           /\ \A x \in Cells(a.range) : x \in CellsOf(outstanding)
           /\ \A r, s \in outstanding' : r # s => Cells(r) \cap Cells(s) = {}
           /\ Reading /\ Accounted
<1>1. a.range \in outstanding /\ a.range \in Ranges /\ a.count \in Nat
  BY DEF IndInv, TypeOK, Answers
<1>2. outstanding' = outstanding \ {a.range} /\ Reading /\ Accounted
  BY DEF Take, IndInv, Offsetting, Reading, Transferring
<1>3. ASSUME NEW x, x \in CellsOf(outstanding) \ Cells(a.range) PROVE x \in CellsOf(outstanding')
  <2>1. PICK r \in outstanding : x \in Cells(r) BY <1>3, CellOf
  <2>2. r # a.range BY <1>3, <2>1
  <2> QED BY <1>2, <2>1, <2>2, CellOf
<1>4. ASSUME NEW x, x \in CellsOf(outstanding')
      PROVE  x \in CellsOf(outstanding) /\ x \notin Cells(a.range)
  <2>1. PICK r \in outstanding : r # a.range /\ x \in Cells(r) BY <1>2, <1>4, CellOf
  <2>2. Cells(r) \cap Cells(a.range) = {} BY <1>1, <1>2, <2>1 DEF Accounted
  <2> QED BY <2>1, <2>2, CellOf
<1>5. CellsOf(outstanding') = CellsOf(outstanding) \ Cells(a.range) BY <1>3, <1>4
<1>6. CellsOf(outstanding)' = CellsOf(outstanding') BY DEF CellsOf
<1>7. \A x \in Cells(a.range) : x \in CellsOf(outstanding) BY <1>1, CellOf
<1> QED BY <1>1, <1>2, <1>5, <1>6, <1>7 DEF Accounted

LEMMA EOFAccounts ==
    ASSUME IndInv, NEW a \in answers, HandleEOF(a)
    PROVE  Accounted'
<1>1. Take(a) /\ UNCHANGED <<start, attrs, backlog, nextOffset, landed>>
      /\ ended' = ended \cup Cells(a.range)
  BY DEF HandleEOF, opened
<1>2. CellsOf(Queued)' = CellsOf(Queued) BY <1>1 DEF CellsOf, Queued
<1>3. /\ CellsOf(outstanding)' = CellsOf(outstanding) \ Cells(a.range)
      /\ \A x \in Cells(a.range) : x \in CellsOf(outstanding)
      /\ \A r, s \in outstanding' : r # s => Cells(r) \cap Cells(s) = {}
      /\ Accounted
  BY <1>1, TakeAccounts
<1>4. landed' \cup CellsOf(outstanding)' \cup CellsOf(Queued)' \cup ended' = start' .. nextOffset' - 1
  BY <1>1, <1>2, <1>3 DEF Accounted
<1>5. /\ landed' \cap (CellsOf(outstanding)' \cup CellsOf(Queued)' \cup ended') = {}
      /\ ended' \cap (CellsOf(outstanding)' \cup CellsOf(Queued)') = {}
      /\ CellsOf(outstanding)' \cap CellsOf(Queued)' = {}
  BY <1>1, <1>2, <1>3 DEF Accounted
<1>6. \A i, j \in DOMAIN backlog' : i # j => Cells(backlog'[i]) \cap Cells(backlog'[j]) = {}
  BY <1>1, <1>3 DEF Accounted
<1>7. SpanEnd' # Unknown => nextOffset' <= Greater(start', SpanEnd')
  BY <1>1, <1>3 DEF Accounted, SpanEnd
<1> QED BY <1>3, <1>4, <1>5, <1>6, <1>7 DEF Accounted

\* What a payload leaves out goes to the end of the backlog.
LEMMA RestQueued ==
    ASSUME IndInv, NEW a \in answers, HandleData(a)
    PROVE  /\ Payload(a.range, a.count) \subseteq Cells(a.range)
           /\ CellsOf(Queued)' = CellsOf(Queued) \cup (Cells(a.range) \ Payload(a.range, a.count))
           /\ \A i, j \in DOMAIN backlog' : i # j => Cells(backlog'[i]) \cap Cells(backlog'[j]) = {}
<1> DEFINE r == a.range
           n == a.count
<1>1. /\ Take(a) /\ n <= r.length /\ backlog' = backlog \o Rest(r, n)
  BY DEF HandleData, Tolerable
<1>2. /\ r \in outstanding /\ r.offset \in Nat /\ r.length \in Nat /\ n \in Nat
      /\ \A x \in Cells(r) : x \in CellsOf(outstanding)
      /\ Accounted
  BY <1>1, TakeAccounts DEF Ranges
<1>3. backlog \in Seq(Ranges) BY DEF IndInv, TypeOK
<1>4. Payload(r, n) \subseteq Cells(r) BY <1>1, <1>2 DEF Payload, Cells
<1>5. CASE n < r.length
  <2> DEFINE s == [offset |-> r.offset + n, length |-> r.length - n]
  <2>1. Rest(r, n) = <<s>> BY <1>5 DEF Rest
  <2>2. s \in Ranges BY <1>2, <1>5 DEF Ranges
  <2>3. Cells(s) = Cells(r) \ Payload(r, n)
    <3>1. s.offset = r.offset + n /\ s.length = r.length - n OBVIOUS
    <3>2. Cells(s) = r.offset + n .. r.offset + r.length - 1 BY <1>2, <3>1 DEF Cells
    <3>3. PICK o, m, k : o = r.offset /\ m = r.length /\ k = n OBVIOUS
    <3>4. o \in Nat /\ m \in Nat /\ k \in Nat /\ k < m BY <1>2, <1>5, <3>3
    <3>5. o + k .. o + m - 1 = (o .. o + m - 1) \ (o .. o + k - 1) BY <3>4
    <3> QED BY <3>2, <3>3, <3>5 DEF Cells, Payload
  <2>4. /\ backlog' = Append(backlog, s)
        /\ DOMAIN backlog' = 1 .. Len(backlog) + 1 /\ DOMAIN backlog = 1 .. Len(backlog)
        /\ Len(backlog) \in Nat
        /\ backlog'[Len(backlog) + 1] = s
        /\ \A i \in DOMAIN backlog : backlog'[i] = backlog[i]
    <3> HIDE DEF s
    <3>1. backlog' = backlog \o <<s>> BY <1>1, <2>1
    <3>2. backlog' = Append(backlog, s) BY <1>3, <2>2, <3>1
    <3> QED BY <1>3, <2>2, <3>2
  <2> HIDE DEF s, r, n
  <2>5. \A i \in DOMAIN backlog' : i \in DOMAIN backlog \/ i = Len(backlog) + 1 BY <2>4
  <2>6. Len(backlog) + 1 \in DOMAIN backlog' /\ Len(backlog) + 1 \notin DOMAIN backlog
        /\ \A i \in DOMAIN backlog : i \in DOMAIN backlog'
    BY <2>4
  <2>7. ASSUME NEW x, x \in CellsOf(Queued)' PROVE x \in CellsOf(Queued) \/ x \in Cells(s)
    <3>1. PICK i \in DOMAIN backlog' : x \in Cells(backlog'[i]) BY <2>7 DEF CellsOf, Queued
    <3> QED BY <2>4, <2>5, <3>1, QueuedCell
  <2>8. ASSUME NEW x, x \in CellsOf(Queued) PROVE x \in CellsOf(Queued)'
    <3>1. PICK i \in DOMAIN backlog : x \in Cells(backlog[i]) BY <2>8, QueuedCell
    <3>2. i \in DOMAIN backlog' /\ x \in Cells(backlog'[i]) BY <2>4, <2>6, <3>1
    <3> QED BY <3>2 DEF CellsOf, Queued
  <2>9. ASSUME NEW x, x \in Cells(s) PROVE x \in CellsOf(Queued)'
    <3>1. x \in Cells(backlog'[Len(backlog) + 1]) BY <2>4, <2>9
    <3> QED BY <2>6, <3>1 DEF CellsOf, Queued
  <2>10. CellsOf(Queued)' = CellsOf(Queued) \cup Cells(s) BY <2>7, <2>8, <2>9
  <2>11. \A i \in DOMAIN backlog : Cells(backlog[i]) \cap Cells(s) = {}
    <3> SUFFICES ASSUME NEW i \in DOMAIN backlog, NEW x, x \in Cells(backlog[i]), x \in Cells(s)
                 PROVE  FALSE
      OBVIOUS
    <3>1. x \in CellsOf(Queued) BY QueuedCell
    <3>2. x \in CellsOf(outstanding) BY <1>2, <2>3
    <3> QED BY <1>2, <3>1, <3>2 DEF Accounted
  <2>12. \A i, j \in DOMAIN backlog' : i # j => Cells(backlog'[i]) \cap Cells(backlog'[j]) = {}
    <3> SUFFICES ASSUME NEW i \in DOMAIN backlog', NEW j \in DOMAIN backlog', i # j
                 PROVE  Cells(backlog'[i]) \cap Cells(backlog'[j]) = {}
      OBVIOUS
    <3>1. CASE i \in DOMAIN backlog /\ j \in DOMAIN backlog
      BY <1>2, <2>4, <3>1 DEF Accounted
    <3>2. CASE i \in DOMAIN backlog /\ j = Len(backlog) + 1 BY <2>4, <2>11, <3>2
    <3>3. CASE j \in DOMAIN backlog /\ i = Len(backlog) + 1 BY <2>4, <2>11, <3>3
    <3> QED BY <2>5, <3>1, <3>2, <3>3
  <2> QED BY <1>4, <2>3, <2>10, <2>12 DEF r, n
<1>6. CASE n = r.length
  <2>1. backlog' = backlog
    <3>1. Rest(r, n) = <<>> BY <1>2, <1>6 DEF Rest
    <3> HIDE DEF r, n
    <3> QED BY <1>1, <1>3, <3>1
  <2>2. Cells(r) \ Payload(r, n) = {} BY <1>2, <1>6 DEF Cells, Payload
  <2>3. CellsOf(Queued)' = CellsOf(Queued) BY <2>1 DEF CellsOf, Queued
  <2>4. \A i, j \in DOMAIN backlog' : i # j => Cells(backlog'[i]) \cap Cells(backlog'[j]) = {}
    BY <1>2, <2>1 DEF Accounted
  <2> HIDE DEF r, n
  <2> QED BY <1>4, <2>2, <2>3, <2>4 DEF r, n
<1>7. n < r.length \/ n = r.length BY <1>1, <1>2
<1> QED BY <1>5, <1>6, <1>7

LEMMA DataAccounts ==
    ASSUME IndInv, NEW a \in answers, HandleData(a)
    PROVE  Accounted'
<1> DEFINE P == Payload(a.range, a.count)
<1>1. Take(a) /\ UNCHANGED <<start, attrs, nextOffset, ended>>
      /\ landed' = landed \cup P
  BY DEF HandleData, opened
<1>2. /\ P \subseteq Cells(a.range)
      /\ CellsOf(Queued)' = CellsOf(Queued) \cup (Cells(a.range) \ P)
      /\ \A i, j \in DOMAIN backlog' : i # j => Cells(backlog'[i]) \cap Cells(backlog'[j]) = {}
  BY RestQueued
<1>3. /\ CellsOf(outstanding)' = CellsOf(outstanding) \ Cells(a.range)
      /\ \A x \in Cells(a.range) : x \in CellsOf(outstanding)
      /\ \A r, s \in outstanding' : r # s => Cells(r) \cap Cells(s) = {}
      /\ Accounted
  BY <1>1, TakeAccounts
<1> HIDE DEF P
<1>4. landed' \cup CellsOf(outstanding)' \cup CellsOf(Queued)' \cup ended' = start' .. nextOffset' - 1
  BY <1>1, <1>2, <1>3 DEF Accounted
<1>5. /\ landed' \cap (CellsOf(outstanding)' \cup CellsOf(Queued)' \cup ended') = {}
      /\ ended' \cap (CellsOf(outstanding)' \cup CellsOf(Queued)') = {}
      /\ CellsOf(outstanding)' \cap CellsOf(Queued)' = {}
  BY <1>1, <1>2, <1>3 DEF Accounted
<1>6. SpanEnd' # Unknown => nextOffset' <= Greater(start', SpanEnd')
  BY <1>1, <1>3 DEF Accounted, SpanEnd
<1> QED BY <1>2, <1>3, <1>4, <1>5, <1>6 DEF Accounted

\* No offset moves in a step that touches none of the places it can be.
LEMMA NothingMoved ==
    ASSUME UNCHANGED <<landed, ended, outstanding, backlog, start, nextOffset, attrs, eofSeen>>
    PROVE  (Accounted' <=> Accounted) /\ (MoreToIssue' <=> MoreToIssue)
<1>1. CellsOf(outstanding)' = CellsOf(outstanding) BY DEF CellsOf
<1>2. CellsOf(Queued)' = CellsOf(Queued) BY DEF CellsOf, Queued
<1>3. SpanEnd' = SpanEnd BY DEF SpanEnd
<1>4. Accounted' <=> Accounted BY <1>1, <1>2, <1>3 DEF Accounted
<1>5. MoreToIssue' <=> MoreToIssue BY <1>3 DEF MoreToIssue
<1> QED BY <1>4, <1>5

LEMMA NextOffsetting == IndInv /\ [Next]_vars => Offsetting'
<1> SUFFICES ASSUME IndInv, [Next]_vars PROVE Offsetting' OBVIOUS
<1> USE DEF remote, local, call, opened, window, tally, Reading, Transferring
<1>0. Offsetting /\ NothingYet /\ TypeOK BY DEF IndInv
<1>1. ASSUME NEW options \in Options, Get(options) PROVE Offsetting'
  BY <1>1 DEF Get, Offsetting
<1>2. ASSUME UNCHANGED <<landed, ended, outstanding, backlog, start, nextOffset, attrs, eofSeen,
                         answers>>,
             Reading' => Reading,
             pc' \in {"closing", "parting", "confirming"}
                => pc \in {"closing", "parting", "confirming"}
      PROVE  Offsetting'
  BY <1>0, <1>2, NothingMoved DEF Offsetting
<1>3. ASSUME ~Reading', answers' = answers \/ answers' = {} PROVE Offsetting'
  BY <1>0, <1>3 DEF Offsetting
<1>4. CASE \/ OpeningRefused \/ OpeningCancelled \/ ModeRefused \/ ResumeRefused
           \/ ResumeOffset \/ GateFails \/ GateRefuses \/ GatePasses \/ AlreadyComplete
           \/ ReopenAnswered \/ ReopenRefused \/ LocalRefused \/ LinkFails \/ Cancelled
           \/ IdleTimeout \/ CloseCut \/ CloseUnanswered \/ ConfirmFails
  BY <1>3, <1>4
  DEF OpeningRefused, OpeningCancelled, ModeRefused, ResumeRefused, ResumeOffset, GateFails,
      GateRefuses, GatePasses, AlreadyComplete, ReopenAnswered, ReopenRefused, LocalRefused,
      LinkFails, AfterFailure, Cancelled, IdleTimeout, CloseCut, CloseUnanswered, ConfirmFails
<1>5. CASE \/ StatAnswered \/ OpenAnswered
  <2>1. pc \in {"opening", "reopening"} BY <1>5 DEF IndInv, HandleKnown, StatAnswered, OpenAnswered
  <2> QED BY <1>3, <1>5, <2>1 DEF StatAnswered, OpenAnswered
<1>6. CASE \/ SendClose \/ CloseAnswered \/ LateClose \/ Confirm \/ LinkDrops \/ FileShifts
  BY <1>2, <1>6 DEF SendClose, CloseAnswered, LateClose, Confirm, LinkDrops, FileShifts
<1>7. CASE CreateLocal
  <2>1. /\ landed' = {} /\ ended' = {} /\ outstanding' = {} /\ backlog' = <<>> /\ answers' = answers
        /\ start' = start /\ nextOffset' = start /\ attrs' = attrs /\ pc' = "filling"
    BY <1>0, <1>7 DEF CreateLocal, NothingYet, Preparing
  <2>2. start \in Nat /\ attrs.size \in Nat \cup {Unknown} BY <1>0 DEF TypeOK
  <2>3. CellsOf(outstanding)' = {} BY <2>1 DEF CellsOf
  <2>4. DOMAIN backlog' = {} BY <2>1
  <2>5. CellsOf(Queued)' = {} BY <2>4 DEF CellsOf, Queued
  <2>6. start' .. nextOffset' - 1 = {} BY <2>1, <2>2
  <2>7. Greater(start', SpanEnd') >= start BY <2>1, <2>2 DEF Greater, SpanEnd, Unknown
  <2>8. Accounted' BY <2>1, <2>2, <2>3, <2>4, <2>5, <2>6, <2>7 DEF Accounted, SpanEnd, Greater
  <2>9. attrs.size # Unknown => start <= attrs.size
    BY <1>0, <1>7, <2>2 DEF CreateLocal, NothingYet, Unknown
  <2> QED BY <1>0, <2>1, <2>2, <2>8, <2>9 DEF Offsetting
<1>8. CASE Issue
  <2>1. Accounted' /\ start <= nextOffset' BY <1>8, IssueAccounts
  <2> QED BY <1>0, <1>8, <2>1 DEF Issue, Offsetting
<1>9. CASE WindowFilled
  <2>1. UNCHANGED <<landed, ended, outstanding, backlog, start, nextOffset, attrs, eofSeen, answers>>
        /\ Reading
    BY <1>9 DEF WindowFilled
  <2>2. pc' = "closing" => outstanding = {} /\ ~MoreToIssue
    <3> SUFFICES ASSUME pc' = "closing" PROVE outstanding = {} /\ ~MoreToIssue OBVIOUS
    <3>1. outstanding = {} BY <1>9 DEF WindowFilled
    <3>2. Cardinality(outstanding) = 0 BY <3>1, FS_EmptySet
    <3>3. Depth > 0 BY SceneTypes DEF IndInv, Circumstances
    <3>4. Depth \in Nat BY SceneTypes DEF IndInv, Circumstances
    <3> QED BY <1>9, <3>1, <3>2, <3>3, <3>4 DEF WindowFilled
  <2>3. pc' \notin {"parting", "confirming"} BY <1>9 DEF WindowFilled
  <2> QED BY <1>0, <2>1, <2>2, <2>3, NothingMoved DEF Offsetting
<1>10. ASSUME NEW r \in outstanding, ServerReads(r) PROVE Offsetting'
  <2>1. PICK b \in AnswersTo(r) : answers' = answers \cup {b} BY <1>10 DEF ServerReads
  <2>2. b.range = r BY <2>1 DEF AnswersTo
  <2>3. \A a \in answers : a.range # r BY <1>10 DEF ServerReads
  <2>4. \A a, c \in answers' : a.range = c.range => a = c
    BY <1>0, <2>1, <2>2, <2>3 DEF Offsetting
  <2>5. UNCHANGED <<pc, landed, ended, outstanding, backlog, start, nextOffset, attrs, eofSeen>>
    BY <1>10 DEF ServerReads
  <2> QED BY <1>0, <2>4, <2>5, NothingMoved DEF Offsetting
<1>11. ASSUME NEW a \in answers, Dispatch(a) PROVE Offsetting'
  <2>1. \A b, c \in answers' : b.range = c.range => b = c
    BY <1>0, <1>11 DEF Dispatch, HandleData, HandleEOF, HandleRefusal, Take, Offsetting
  <2>2. UNCHANGED <<start, nextOffset, attrs>> /\ Reading
    BY <1>11 DEF Dispatch, HandleData, HandleEOF, HandleRefusal, Take
  <2>3. CASE HandleData(a) \/ HandleEOF(a)
    <3>1. Accounted' BY <2>3, DataAccounts, EOFAccounts
    <3>2. pc' = "filling" BY <2>3 DEF HandleData, HandleEOF
    <3> QED BY <1>0, <2>1, <2>2, <3>1, <3>2 DEF Offsetting
  <2>4. CASE HandleRefusal(a)
    BY <2>1, <2>4 DEF HandleRefusal, Offsetting
  <2> QED BY <1>11, <2>3, <2>4 DEF Dispatch
<1>12. CASE UNCHANGED vars BY <1>2, <1>12 DEF vars
<1> QED
  BY <1>1, <1>4, <1>5, <1>6, <1>7, <1>8, <1>9, <1>10, <1>11, <1>12 DEF Next, Step

-------------------------------------------------------------------------------
(* The local file. *)

\* A payload is as many bytes as it counts, and none of them had landed.
LEMMA PayloadCounted ==
    ASSUME IndInv, NEW a \in answers, HandleData(a)
    PROVE  /\ IsFiniteSet(landed') /\ written' = Cardinality(landed')
           /\ Payload(a.range, a.count) \cap landed = {}
<1> DEFINE P == Payload(a.range, a.count)
<1>1. Take(a) /\ landed' = landed \cup P /\ written' = written + a.count
  BY DEF HandleData
<1>2. a.range.offset \in Nat /\ a.count \in Nat BY DEF IndInv, TypeOK, Answers, Ranges
<1>3. IsFiniteSet(P) /\ Cardinality(P) = a.count
  <2> DEFINE lo == a.range.offset
             hi == a.range.offset + a.count - 1
  <2>1. lo \in Int /\ hi \in Int /\ (lo > hi => a.count = 0) /\ (~(lo > hi) => hi - lo + 1 = a.count)
    BY <1>2
  <2>2. P = lo .. hi BY DEF Payload
  <2> HIDE DEF lo, hi, P
  <2>3. IsFiniteSet(lo .. hi) /\ Cardinality(lo .. hi) = IF lo > hi THEN 0 ELSE hi - lo + 1
    BY <2>1, FS_Interval
  <2> QED BY <2>1, <2>2, <2>3
<1>4. P \cap landed = {}
  <2>1. P \subseteq Cells(a.range) BY RestQueued
  <2>2. \A x \in Cells(a.range) : x \in CellsOf(outstanding) BY <1>1, TakeAccounts
  <2>3. Accounted BY <1>1, TakeAccounts
  <2> QED BY <2>1, <2>2, <2>3 DEF Accounted
<1>5. IsFiniteSet(landed) /\ written = Cardinality(landed) /\ written \in Nat
  BY DEF IndInv, LocalFile, TypeOK
<1> HIDE DEF P
<1>6. IsFiniteSet(landed \cup P) BY <1>3, <1>5, FS_Union
<1>7. Cardinality(landed \cup P) = Cardinality(landed) + Cardinality(P) - Cardinality(landed \cap P)
  BY <1>3, <1>5, FS_Union
<1>8. landed \cap P = {} BY <1>4
<1>9. Cardinality(landed \cap P) = 0 BY <1>8, FS_EmptySet
<1>10. Cardinality(landed \cup P) = written + a.count BY <1>2, <1>3, <1>5, <1>7, <1>9
<1> QED BY <1>1, <1>4, <1>6, <1>10 DEF P

LEMMA NextLocalFile == IndInv /\ [Next]_vars => LocalFile'
<1> SUFFICES ASSUME IndInv, [Next]_vars PROVE LocalFile' OBVIOUS
<1> USE DEF remote, local, call, opened, window, tally, Reading, Transferring
<1>0. LocalFile /\ NothingYet /\ TypeOK BY DEF IndInv
<1>1. ASSUME NEW options \in Options, Get(options) PROVE LocalFile'
  <2>1. IsFiniteSet({}) /\ Cardinality({}) = 0 BY FS_EmptySet
  <2> QED BY <1>0, <1>1, <2>1 DEF Get, LocalFile
<1>2. ASSUME UNCHANGED <<held, length, landed, written, start>>, checks'.resume = checks.resume,
             Reading' => Reading,
             pc' \in {"reopening", "creating"} => pc \in {"reopening", "creating"}
      PROVE  LocalFile'
  BY <1>0, <1>2 DEF LocalFile
<1>3. ASSUME UNCHANGED <<held, length, landed, written>>, ~Reading',
             pc' \notin {"reopening", "creating"}
      PROVE  LocalFile'
  BY <1>0, <1>3 DEF LocalFile
<1>4. CASE \/ OpeningRefused \/ OpeningCancelled \/ ModeRefused \/ ResumeRefused
           \/ ResumeOffset \/ GateFails \/ GateRefuses \/ AlreadyComplete \/ ReopenRefused
           \/ LocalRefused \/ LinkFails \/ Cancelled \/ IdleTimeout \/ CloseCut
           \/ CloseUnanswered \/ ConfirmFails
  BY <1>3, <1>4
  DEF OpeningRefused, OpeningCancelled, ModeRefused, ResumeRefused, ResumeOffset, GateFails,
      GateRefuses, AlreadyComplete, ReopenRefused, LocalRefused, LinkFails, AfterFailure,
      Cancelled, IdleTimeout, CloseCut, CloseUnanswered, ConfirmFails
<1>5. CASE \/ StatAnswered \/ OpenAnswered \/ ReopenAnswered \/ Issue \/ WindowFilled
           \/ LinkDrops \/ FileShifts \/ SendClose \/ CloseAnswered \/ LateClose
  BY <1>2, <1>5
  DEF StatAnswered, OpenAnswered, ReopenAnswered, Issue, WindowFilled, LinkDrops, FileShifts,
      SendClose, CloseAnswered, LateClose
<1>6. CASE Confirm
  <2>1. checks'.resume = checks.resume BY <1>0, <1>6 DEF Confirm, TypeOK, Checks
  <2> QED BY <1>2, <1>6, <2>1 DEF Confirm
<1>7. CASE GatePasses
  <2>1. /\ UNCHANGED <<held, length, landed, written, start>> /\ pc' \in {"reopening", "creating"}
        /\ checks' = [checks EXCEPT !.resume = ResumeVerdict]
    BY <1>7 DEF GatePasses
  <2>2. checks'.resume = ResumeVerdict BY <1>0, <2>1 DEF TypeOK, Checks
  <2>3. ResumeVerdict = "matched" => 0 .. start - 1 \subseteq held
    BY <1>0 DEF ResumeVerdict, PrefixAgrees, TypeOK
  <2> QED BY <1>0, <2>1, <2>2, <2>3 DEF LocalFile
<1>8. CASE CreateLocal
  <2>1. /\ landed' = landed /\ written' = written /\ start' = start /\ checks' = checks
        /\ landed = {} /\ pc' = "filling" /\ start \in Nat /\ length \in Nat
    BY <1>0, <1>8 DEF CreateLocal, NothingYet, Preparing, TypeOK
  <2>2. CASE start = 0
    <3>1. held' = {} /\ length' = 0 BY <1>8, <2>2 DEF CreateLocal
    <3> QED BY <1>0, <2>1, <2>2, <3>1 DEF LocalFile
  <2>3. CASE start # 0
    <3>1. held' = held /\ length' = length /\ start = length
      BY <1>0, <1>8, <2>3 DEF CreateLocal, NothingYet
    <3>2. pc = "creating" BY <1>8 DEF CreateLocal
    <3> QED BY <1>0, <2>1, <3>1, <3>2 DEF LocalFile
  <2> QED BY <2>2, <2>3
<1>9. ASSUME NEW r \in outstanding, ServerReads(r) PROVE LocalFile'
  BY <1>2, <1>9 DEF ServerReads
<1>10. ASSUME NEW a \in answers, HandleData(a) PROVE LocalFile'
  <2> DEFINE P == Payload(a.range, a.count)
  <2>1. /\ landed' = landed \cup P /\ held' = held \cup P
        /\ length' = IF a.count = 0 THEN length ELSE Greater(length, a.range.offset + a.count)
        /\ UNCHANGED <<start, checks>> /\ pc' = "filling" /\ Reading
    BY <1>10 DEF HandleData, Take
  <2>2. a.range.offset \in Nat /\ a.count \in Nat /\ length \in Nat /\ start \in Nat
    BY <1>0 DEF TypeOK, Answers, Ranges
  <2>3. P \subseteq 0 .. length' - 1 /\ length <= length' /\ length' \in Nat
    BY <2>1, <2>2 DEF Payload, Greater
  <2>4. length' = length \/ length' - 1 \in P BY <2>1, <2>2 DEF Payload, Greater
  <2>5. IsFiniteSet(landed') /\ written' = Cardinality(landed') BY <1>10, PayloadCounted
  <2> HIDE DEF P
  <2>6. held' \subseteq 0 .. length' - 1 BY <1>0, <2>1, <2>2, <2>3 DEF LocalFile
  <2>7. start <= length' BY <1>0, <2>1, <2>2, <2>3 DEF LocalFile
  <2>8. length' = start \/ length' - 1 \in landed' BY <1>0, <2>1, <2>4 DEF LocalFile
  <2>9. /\ landed' \subseteq held' /\ held' \subseteq (0 .. start - 1) \cup landed'
        /\ checks.resume = "matched" => 0 .. start - 1 \subseteq held'
    BY <1>0, <2>1 DEF LocalFile
  <2> QED BY <2>1, <2>5, <2>6, <2>7, <2>8, <2>9 DEF LocalFile
<1>11. ASSUME NEW a \in answers, HandleEOF(a) \/ HandleRefusal(a) PROVE LocalFile'
  BY <1>2, <1>11 DEF HandleEOF, HandleRefusal, Take
<1>12. CASE UNCHANGED vars BY <1>2, <1>12 DEF vars
<1> QED
  BY <1>1, <1>4, <1>5, <1>6, <1>7, <1>8, <1>9, <1>10, <1>11, <1>12 DEF Next, Step, Dispatch

-------------------------------------------------------------------------------
(* A file that stands still. *)

\* What the server may answer: no data past the end of its file, but for an overlong or empty one.
LEMMA AnswersTrue ==
    ASSUME TypeOK, NEW r \in Ranges, NEW a \in AnswersTo(r)
    PROVE  /\ a.range = r
           /\ a.kind = "data" /\ a.count <= a.range.length /\ a.count # 0
                => a.range.offset + a.count <= size
           /\ a.kind = "eof" => a.range.offset >= size
<1>1. r.offset \in Nat /\ r.length \in Nat /\ size \in Nat BY DEF TypeOK, Ranges
<1>2. CASE \E n \in 1 .. Lesser(r.length, size - r.offset) :
               a = [range |-> r, kind |-> "data", count |-> n]
  BY <1>1, <1>2 DEF Lesser
<1>3. CASE r.offset >= size /\ a = [range |-> r, kind |-> "eof", count |-> 0] BY <1>1, <1>3
<1>4. CASE a = [range |-> r, kind |-> "data", count |-> 0] BY <1>1, <1>4
<1>5. CASE a = [range |-> r, kind |-> "data", count |-> r.length + 1] BY <1>1, <1>5
<1>6. CASE a = [range |-> r, kind |-> "refused", count |-> 0] BY <1>1, <1>6
<1> QED BY <1>2, <1>3, <1>4, <1>5, <1>6 DEF AnswersTo

LEMMA NextStandingStill == IndInv /\ [Next]_vars => StandingStill'
<1> SUFFICES ASSUME IndInv, [Next]_vars PROVE StandingStill' OBVIOUS
<1> USE DEF remote, local, call, opened, window, tally, Reading, Transferring, Shifting
<1>0. StandingStill /\ TypeOK /\ UNCHANGED scene BY DEF IndInv, Next, vars
<1>1. ASSUME NEW options \in Options, Get(options) PROVE StandingStill'
  BY <1>0, <1>1 DEF Get, StandingStill
<1>2. ASSUME UNCHANGED <<size, answers, landed, ended, eofSeen, nextOffset, start>>,
             Reading' => Reading
      PROVE  StandingStill'
  BY <1>0, <1>2 DEF StandingStill
<1>3. ASSUME UNCHANGED <<size, answers>>, ~Reading' PROVE StandingStill'
  BY <1>0, <1>3 DEF StandingStill
<1>4. CASE \/ OpeningRefused \/ OpeningCancelled \/ ModeRefused \/ ResumeRefused
           \/ ResumeOffset \/ GateFails \/ GateRefuses \/ GatePasses \/ AlreadyComplete
           \/ ReopenAnswered \/ ReopenRefused \/ LocalRefused \/ LinkFails \/ Cancelled
           \/ IdleTimeout \/ CloseCut \/ CloseUnanswered \/ ConfirmFails
  BY <1>3, <1>4
  DEF OpeningRefused, OpeningCancelled, ModeRefused, ResumeRefused, ResumeOffset, GateFails,
      GateRefuses, GatePasses, AlreadyComplete, ReopenAnswered, ReopenRefused, LocalRefused,
      LinkFails, AfterFailure, Cancelled, IdleTimeout, CloseCut, CloseUnanswered, ConfirmFails
<1>5. CASE \/ StatAnswered \/ OpenAnswered \/ WindowFilled \/ LinkDrops \/ SendClose
           \/ CloseAnswered \/ LateClose \/ Confirm
  BY <1>2, <1>5
  DEF StatAnswered, OpenAnswered, WindowFilled, LinkDrops, SendClose, CloseAnswered, LateClose,
      Confirm
<1>6. CASE FileShifts BY <1>0, <1>6 DEF FileShifts, StandingStill
<1>7. CASE CreateLocal
  <2>1. /\ landed' = {} /\ ended' = {} /\ ~eofSeen' /\ UNCHANGED <<size, answers, start>>
    BY <1>7 DEF IndInv, CreateLocal, NothingYet, Preparing
  <2>2. ~Shifting /\ start # 0 => start <= size
    BY <1>7 DEF IndInv, CreateLocal, NothingYet, Circumstances
  <2> QED BY <1>0, <2>1, <2>2 DEF StandingStill
<1>8. CASE Issue
  <2>1. NextRange.length \in Nat BY <1>0, <1>8, NextRangeType DEF Issue, Ranges
  <2>2. nextOffset' >= nextOffset BY <1>0, <1>8, <2>1 DEF Issue, TypeOK
  <2>3. eofSeen /\ nextOffset >= size => nextOffset' >= size
    BY <1>0, <1>8, <2>1, <2>2 DEF Issue, TypeOK
  <2> QED BY <1>0, <1>8, <2>3 DEF Issue, StandingStill
<1>9. ASSUME NEW r \in outstanding, ServerReads(r) PROVE StandingStill'
  <2>1. PICK b \in AnswersTo(r) : answers' = answers \cup {b} BY <1>9 DEF ServerReads
  <2>2. r \in Ranges BY <1>0 DEF TypeOK
  <2>3. /\ b.kind = "data" /\ b.count <= b.range.length /\ b.count # 0
             => b.range.offset + b.count <= size
        /\ b.kind = "eof" => b.range.offset >= size
    BY <1>0, <2>1, <2>2, AnswersTrue
  <2>4. UNCHANGED <<size, pc, landed, ended, eofSeen, nextOffset, start>> BY <1>9 DEF ServerReads
  <2> QED BY <1>0, <2>1, <2>3, <2>4 DEF StandingStill
<1>10. ASSUME NEW a \in answers, HandleData(a) PROVE StandingStill'
  <2>1. /\ landed' = landed \cup Payload(a.range, a.count) /\ answers' \subseteq answers
        /\ UNCHANGED <<size, ended, eofSeen, nextOffset, start>> /\ Reading
        /\ a.kind = "data" /\ a.count <= a.range.length
    BY <1>10 DEF HandleData, Take, Tolerable
  <2>2. a.range.offset \in Nat /\ a.count \in Nat /\ size \in Nat
    BY <1>0 DEF TypeOK, Answers, Ranges
  <2>3. ~Shifting => Payload(a.range, a.count) \subseteq 0 .. size - 1
    BY <1>0, <2>1, <2>2 DEF StandingStill, Payload
  <2> QED BY <1>0, <2>1, <2>3 DEF StandingStill
<1>11. ASSUME NEW a \in answers, HandleEOF(a) PROVE StandingStill'
  <2>1. /\ ended' = ended \cup Cells(a.range) /\ answers' \subseteq answers
        /\ UNCHANGED <<size, landed, nextOffset, start>> /\ Reading /\ a.kind = "eof" /\ Take(a)
    BY <1>11 DEF HandleEOF, Take
  <2>2. /\ a.range.offset \in Nat /\ a.range.length \in Nat \ {0} /\ size \in Nat
        /\ start \in Nat /\ nextOffset \in Nat
    BY <1>0 DEF TypeOK, Answers, Ranges
  <2>3. ~Shifting => a.range.offset >= size BY <1>0, <2>1 DEF StandingStill
  <2>4. ~Shifting => Cells(a.range) \cap (0 .. size - 1) = {} BY <2>2, <2>3 DEF Cells
  <2>5. a.range.offset \in CellsOf(outstanding) /\ Accounted
    <3>1. a.range.offset \in Cells(a.range) BY <2>2 DEF Cells
    <3> QED BY <2>1, <3>1, TakeAccounts
  <2>6. a.range.offset <= nextOffset - 1 BY <2>2, <2>5 DEF Accounted
  <2>7. ~Shifting => nextOffset >= size BY <2>2, <2>3, <2>6
  <2> QED BY <1>0, <2>1, <2>4, <2>7 DEF StandingStill
<1>12. ASSUME NEW a \in answers, HandleRefusal(a) PROVE StandingStill'
  BY <1>0, <1>12 DEF HandleRefusal, Take, StandingStill
<1>13. CASE UNCHANGED vars BY <1>2, <1>13 DEF vars
<1> QED
  BY <1>1, <1>4, <1>5, <1>6, <1>7, <1>8, <1>9, <1>10, <1>11, <1>12, <1>13 DEF Next, Step, Dispatch

-------------------------------------------------------------------------------
(* A call that returns. *)

\* As many offsets as there are, among those there are, are all of them.
LEMMA AllOfThem ==
    ASSUME NEW S, NEW lo \in Nat, NEW hi \in Nat, lo <= hi
    PROVE  /\ IsFiniteSet(S) /\ S \subseteq lo .. hi - 1 /\ Cardinality(S) = hi - lo => S = lo .. hi - 1
           /\ IsFiniteSet(S) /\ lo .. hi - 1 \subseteq S /\ Cardinality(S) = hi - lo => S = lo .. hi - 1
<1> DEFINE last == hi - 1
<1>1. lo \in Int /\ last \in Int BY DEF last
<1>2. (lo > last => hi - lo = 0) /\ (~(lo > last) => last - lo + 1 = hi - lo) BY DEF last
<1> HIDE DEF last
<1>3. IsFiniteSet(lo .. last) /\ Cardinality(lo .. last) = IF lo > last THEN 0 ELSE last - lo + 1
  BY <1>1, FS_Interval
<1>4. Cardinality(lo .. last) = hi - lo BY <1>2, <1>3
<1>5. IsFiniteSet(S) /\ S \subseteq lo .. last /\ Cardinality(S) = hi - lo => S = lo .. last
  BY <1>3, <1>4, FS_Subset
<1>6. IsFiniteSet(S) /\ lo .. last \subseteq S /\ Cardinality(S) = hi - lo => S = lo .. last
  BY <1>3, <1>4, FS_Subset
<1> QED BY <1>5, <1>6 DEF last

\* What is adopted whole, and followed by the rest of the file, is the file.
LEMMA WholeFrom ==
    ASSUME TypeOK, LocalFile, Reading, NEW n \in Nat, start <= n,
           landed = start .. n - 1, 0 .. start - 1 \subseteq held
    PROVE  held = 0 .. n - 1 /\ length = n
<1>1. /\ held \subseteq 0 .. length - 1 /\ landed \subseteq held
      /\ held \subseteq (0 .. start - 1) \cup landed
      /\ start <= length /\ (length = start \/ length - 1 \in landed)
      /\ start \in Nat /\ length \in Nat
  BY DEF LocalFile, TypeOK
<1>2. held = 0 .. n - 1
  <2>1. (0 .. start - 1) \cup (start .. n - 1) = 0 .. n - 1 BY <1>1
  <2> QED BY <1>1, <2>1
<1>3. n > 0 => n - 1 \in held BY <1>2
<1>4. n <= length BY <1>1, <1>3
<1>5. length <= n BY <1>1
<1> QED BY <1>1, <1>2, <1>4, <1>5

\* A size that matched is a span that landed, every byte of it.
LEMMA SpanLanded ==
    ASSUME IndInv, Confirm, SizeVerdict = "matched"
    PROVE  attrs.size # Unknown /\ landed = start .. attrs.size - 1
<1>1. /\ pc = "confirming" /\ Accounted /\ IsFiniteSet(landed) /\ written = Cardinality(landed)
      /\ attrs.size # Unknown => start <= attrs.size
      /\ start \in Nat /\ nextOffset \in Nat /\ written \in Nat /\ attrs.size \in Nat \cup {Unknown}
  BY DEF IndInv, Confirm, Offsetting, Reading, LocalFile, TypeOK
<1>2. attrs.size \in Nat /\ start + written = attrs.size
  BY <1>1 DEF SizeVerdict, Arrived, Unknown
<1>3. start <= attrs.size /\ written = attrs.size - start BY <1>1, <1>2
<1>4. nextOffset <= attrs.size BY <1>1, <1>2, <1>3 DEF Accounted, SpanEnd, Greater, Unknown
<1>5. landed \subseteq start .. attrs.size - 1 BY <1>1, <1>2, <1>4 DEF Accounted
<1>6. landed = start .. attrs.size - 1 BY <1>1, <1>2, <1>3, <1>5, AllOfThem
<1> QED BY <1>2, <1>6 DEF Unknown

LEMMA ConfirmReturns ==
    ASSUME IndInv, Confirm, pc' = "returned", UNCHANGED scene
    PROVE  ReturnedIsWhole'
<1> USE DEF opened, remote, local, tally
<1>1. /\ pc = "confirming" /\ Reading /\ UNCHANGED <<size, held, length, start, attrs, written>>
      /\ checks' = [checks EXCEPT !.size = SizeVerdict, !.content = ContentVerdict]
      /\ TypeOK /\ LocalFile /\ Accounted /\ outstanding = {} /\ ~MoreToIssue
      /\ start <= nextOffset
      /\ attrs.size # Unknown => start <= attrs.size
  BY DEF IndInv, Confirm, Reading, Offsetting
<1>2. checks'.size = SizeVerdict /\ checks'.content = ContentVerdict /\ checks'.resume = checks.resume
  BY <1>1 DEF TypeOK, Checks
<1>3. /\ start \in Nat /\ nextOffset \in Nat /\ written \in Nat /\ attrs.size \in Nat \cup {Unknown}
      /\ size \in Nat /\ length \in Nat /\ IsFiniteSet(landed) /\ Cardinality(landed) = written
  BY <1>1 DEF TypeOK, LocalFile
<1>4. landed \cup ended = start .. nextOffset - 1
  <2>1. CellsOf(outstanding) = {} BY <1>1 DEF CellsOf
  <2>2. backlog = <<>> BY <1>1 DEF MoreToIssue
  <2>3. CellsOf(Queued) = {} BY <2>2 DEF CellsOf, Queued
  <2> QED BY <1>1, <2>1, <2>3 DEF Accounted
<1>5. start = 0 \/ checks.resume = "matched" => 0 .. start - 1 \subseteq held
  BY <1>1, <1>3 DEF LocalFile
<1>6. MatchedIsWhole'
  <2> SUFFICES ASSUME SizeVerdict = "matched", start = 0 \/ checks.resume = "matched"
               PROVE  held = 0 .. attrs.size - 1 /\ length = attrs.size
    BY <1>1, <1>2 DEF MatchedIsWhole
  <2>1. attrs.size # Unknown /\ landed = start .. attrs.size - 1 BY SpanLanded
  <2>2. attrs.size \in Nat /\ start <= attrs.size BY <1>1, <1>3, <2>1
  <2> QED BY <1>1, <1>5, <2>1, <2>2, WholeFrom
<1>7. StableFileIsWhole'
  <2> SUFFICES ASSUME ~Shifting, start = 0 \/ checks.resume = "matched"
               PROVE  held = 0 .. size - 1 /\ length = size
    BY <1>1, <1>2 DEF StableFileIsWhole, Shifting
  <2>1. /\ landed \subseteq 0 .. size - 1 /\ ended \cap (0 .. size - 1) = {}
        /\ eofSeen => nextOffset >= size
        /\ start # 0 => start <= size
    BY <1>1 DEF IndInv, StandingStill
  <2>2. attrs.size \in {Unknown, size} BY DEF IndInv, Circumstances
  <2>3. nextOffset >= size BY <1>1, <1>3, <2>1, <2>2 DEF MoreToIssue, SpanEnd
  <2>4. start <= size BY <1>3, <2>1
  <2>5. start .. size - 1 \subseteq start .. nextOffset - 1 BY <1>3, <2>3
  <2>6. start .. size - 1 \subseteq 0 .. size - 1 BY <1>3
  <2>7. start .. size - 1 \subseteq landed BY <1>4, <2>1, <2>5, <2>6
  <2>8. landed \subseteq start .. size - 1 BY <1>3, <1>4, <2>1
  <2>9. landed = start .. size - 1 BY <2>7, <2>8
  <2> QED BY <1>1, <1>3, <1>5, <2>4, <2>9, WholeFrom
<1>8. CheckedContentHasNoHole'
  <2> SUFFICES ASSUME ContentVerdict = "matched" PROVE held = 0 .. length - 1
    BY <1>1, <1>2 DEF CheckedContentHasNoHole
  <2>1. 0 .. start + written - 1 \subseteq held
    <3>1. ask.verify # "size" /\ Comparable(ask.verify) BY DEF ContentVerdict
    <3>2. ContentVerdict = IF PrefixAgrees(Arrived) THEN "matched" ELSE "refused"
      BY <3>1 DEF ContentVerdict
    <3>3. PrefixAgrees(Arrived)
      <4> SUFFICES ASSUME ~PrefixAgrees(Arrived) PROVE FALSE OBVIOUS
      <4> QED BY <3>2
    <3>4. 0 .. Arrived - 1 \subseteq held BY <3>3 DEF PrefixAgrees
    <3>5. Arrived - 1 = start + written - 1 BY <1>3 DEF Arrived
    <3> QED BY <3>4, <3>5
  <2> DEFINE n == start + written
  <2>2. n \in Nat /\ start <= n /\ written = n - start /\ 0 .. n - 1 \subseteq held BY <1>3, <2>1
  <2>3. held \subseteq (0 .. start - 1) \cup landed BY <1>1 DEF LocalFile
  <2>4. start .. n - 1 \subseteq landed
    <3>1. start .. n - 1 \subseteq 0 .. n - 1 BY <1>3, <2>2
    <3>2. (start .. n - 1) \cap (0 .. start - 1) = {} BY <1>3, <2>2
    <3> QED BY <2>2, <2>3, <3>1, <3>2
  <2>5. landed = start .. n - 1 BY <1>3, <2>2, <2>4, AllOfThem
  <2>6. 0 .. start - 1 \subseteq held
    <3>1. 0 .. start - 1 \subseteq 0 .. n - 1 BY <1>3, <2>2
    <3> QED BY <2>2, <3>1
  <2>7. held = 0 .. n - 1 /\ length = n BY <1>1, <2>2, <2>5, <2>6, WholeFrom
  <2> QED BY <2>7
<1> QED BY <1>6, <1>7, <1>8 DEF ReturnedIsWhole

LEMMA NextReturned == IndInv /\ [Next]_vars => ReturnedIsWhole'
<1> SUFFICES ASSUME IndInv, [Next]_vars PROVE ReturnedIsWhole' OBVIOUS
<1> USE DEF remote, local, call, opened, window, tally
<1>0. ReturnedIsWhole /\ TypeOK /\ UNCHANGED scene BY DEF IndInv, Next, vars
<1>1. ASSUME pc' # "returned" PROVE ReturnedIsWhole'
  BY <1>1 DEF ReturnedIsWhole, MatchedIsWhole, StableFileIsWhole, CheckedContentHasNoHole
<1>2. ASSUME UNCHANGED <<held, length, attrs, start, checks>>, size' = size \/ Shifting,
             pc' = "returned" => pc = "returned"
      PROVE  ReturnedIsWhole'
  BY <1>0, <1>2
  DEF ReturnedIsWhole, MatchedIsWhole, StableFileIsWhole, CheckedContentHasNoHole, Shifting
<1>3. CASE \/ \E options \in Options : Get(options)
           \/ OpeningRefused \/ OpeningCancelled \/ ModeRefused \/ ResumeRefused
           \/ ResumeOffset \/ GateFails \/ GateRefuses \/ GatePasses \/ ReopenAnswered
           \/ ReopenRefused \/ LocalRefused \/ LinkFails \/ Cancelled \/ IdleTimeout
           \/ CreateLocal \/ Issue \/ WindowFilled \/ SendClose \/ CloseCut \/ CloseAnswered
           \/ CloseUnanswered \/ ConfirmFails
           \/ \E a \in answers : Dispatch(a)
  BY <1>1, <1>3
  DEF Get, OpeningRefused, OpeningCancelled, ModeRefused, ResumeRefused, ResumeOffset, GateFails,
      GateRefuses, GatePasses, ReopenAnswered, ReopenRefused, LocalRefused, LinkFails,
      AfterFailure, Cancelled, IdleTimeout, CreateLocal, Issue, WindowFilled, SendClose, CloseCut,
      CloseAnswered, CloseUnanswered, ConfirmFails, Dispatch, HandleData, HandleEOF, HandleRefusal
<1>4. CASE LateClose \/ LinkDrops \/ FileShifts \/ \E r \in outstanding : ServerReads(r)
  BY <1>2, <1>4 DEF LateClose, LinkDrops, FileShifts, ServerReads
<1>5. CASE StatAnswered \/ OpenAnswered
  <2>1. pc \in {"opening", "reopening"}
    BY <1>5 DEF IndInv, HandleKnown, StatAnswered, OpenAnswered
  <2> QED BY <1>1, <1>5, <2>1 DEF StatAnswered, OpenAnswered
<1>6. CASE Confirm BY <1>0, <1>1, <1>6, ConfirmReturns
<1>7. CASE AlreadyComplete
  <2>1. /\ UNCHANGED <<size, held, length, start, attrs>> /\ ask.resume
        /\ start = length /\ attrs.size = start /\ held \subseteq 0 .. length - 1
        /\ start \in Nat /\ length \in Nat /\ size \in Nat
        /\ ~Shifting => attrs.size \in {Unknown, size}
    BY <1>7
    DEF AlreadyComplete, Complete, IndInv, NothingYet, LocalFile, TypeOK, Circumstances
  <2>2. CASE pc' = "returned"
    <3>1. checks'.resume = ResumeVerdict
          /\ (checks'.content = "matched" => ResumeVerdict = "matched")
      BY <1>7, <2>2 DEF AlreadyComplete
    <3>2. start = 0 \/ ResumeVerdict = "matched" => 0 .. start - 1 \subseteq held
      BY <2>1 DEF ResumeVerdict, PrefixAgrees
    <3>3. start = 0 \/ ResumeVerdict = "matched" => held = 0 .. start - 1 BY <2>1, <3>2
    <3>4. ~Shifting => size = start BY <2>1 DEF Unknown
    <3>5. MatchedIsWhole' BY <2>1, <3>1, <3>3 DEF MatchedIsWhole
    <3>6. StableFileIsWhole' BY <1>0, <2>1, <3>1, <3>3, <3>4 DEF StableFileIsWhole, Shifting
    <3>7. CheckedContentHasNoHole' BY <2>1, <3>1, <3>3 DEF CheckedContentHasNoHole
    <3> QED BY <3>5, <3>6, <3>7 DEF ReturnedIsWhole
  <2> QED BY <1>1, <2>2
<1>8. CASE UNCHANGED vars BY <1>2, <1>8 DEF vars
<1> QED BY <1>3, <1>4, <1>5, <1>6, <1>7, <1>8 DEF Next, Step

-------------------------------------------------------------------------------
(* Every step keeps all of it. *)

LEMMA InitInv == Init => IndInv
<1> SUFFICES ASSUME Init PROVE IndInv OBVIOUS
<1> USE DEF Init
<1>1. TypeOK BY InitType
<1>2. Circumstances BY DownloadAssumption DEF Circumstances, NoAttrs, AnyOptions, Unknown
<1>3. HandleKnown /\ HandlesCounted BY DEF HandleKnown, HandlesCounted, Owned, AwaitedCloses
<1>4. NothingYet BY DEF NothingYet, Preparing, AnyOptions
<1>5. LocalFile BY FS_EmptySet DEF LocalFile, Reading, Transferring
<1>6. Offsetting /\ StandingStill BY DEF Offsetting, StandingStill, Reading, Transferring
<1>7. ReturnedIsWhole
  BY DEF ReturnedIsWhole, MatchedIsWhole, StableFileIsWhole, CheckedContentHasNoHole
<1> QED BY <1>1, <1>2, <1>3, <1>4, <1>5, <1>6, <1>7 DEF IndInv

LEMMA Inductive == Spec => []IndInv
<1>1. IndInv /\ [Next]_vars => IndInv'
  BY NextType, NextCircumstances, NextHandle, NextCounted, NextNothingYet, NextLocalFile,
     NextOffsetting, NextStandingStill, NextReturned
  DEF IndInv
<1> QED BY InitInv, <1>1, PTL DEF Spec

\* Whatever a server cuts short, reorders or answers past the end, each offset ever asked for is
\* in one place, and the bytes counted are the bytes that landed (_Downloader.run).
THEOREM EveryByteAccounted == Spec => []EveryByteOnce
<1>1. IndInv => EveryByteOnce BY DEF IndInv, LocalFile, Offsetting, Reading, EveryByteOnce
<1> QED BY Inductive, <1>1, PTL

\* A call that returns and says the size or the content matched has the file whole, and of a file
\* nobody changes so has every call that returns (Session.get, _confirm_download_size,
\* verify_downloaded_content).
THEOREM ReturnedWhole == Spec => []ReturnedIsWhole
<1>1. IndInv => ReturnedIsWhole BY DEF IndInv
<1> QED BY Inductive, <1>1, PTL

\* Every handle that the server still holds of a call that has ended has a CLOSE on its way, but
\* for those given up with none written; and there are none of those where nobody gives up
\* between STAT and OPEN, asks for a mode the server does not tell, or has a CLOSE cut before it
\* is written (get's close_quietly and close, and the close_quietly of a comparison).
THEOREM NoHandleLeft == Spec => []HandlesReturned
<1>1. IndInv => HandlesReturned
  BY DEF IndInv, TypeOK, HandlesCounted, Owned, HandlesReturned
<1> QED BY Inductive, <1>1, PTL

-------------------------------------------------------------------------------
(* A download is a transfer. *)

\* What the caller sees, in a state and in the one after it.
LEMMA Seen ==
    /\ pc \in {"idle", "opening", "gating", "reopening", "creating"} =>
          Report = "idle" /\ Promised = {} /\ Delivered = {}
    /\ pc \in {"cleanup", "cleaning", "raised"} \/ (Begun /\ ~Promising) =>
          Report = "failed" /\ Promised = {} /\ Delivered = {}
    /\ Begun /\ Promising =>
          /\ Report = IF pc = "returned" THEN "whole" ELSE "moving"
          /\ Promised = start .. attrs.size - 1 /\ Delivered = landed
BY DEF Report, Promised, Delivered, Begun, Promising, SpanEnd

LEMMA SeenNext ==
    /\ pc' \in {"idle", "opening", "gating", "reopening", "creating"} =>
          Report' = "idle" /\ Promised' = {} /\ Delivered' = {}
    /\ pc' \in {"cleanup", "cleaning", "raised"} \/ (Begun' /\ ~Promising') =>
          Report' = "failed" /\ Promised' = {} /\ Delivered' = {}
    /\ Begun' /\ Promising' =>
          /\ Report' = IF pc' = "returned" THEN "whole" ELSE "moving"
          /\ Promised' = start' .. attrs'.size - 1 /\ Delivered' = landed'
BY DEF Report, Promised, Delivered, Begun, Promising, SpanEnd

LEMMA StepKeepsPromise ==
    ASSUME IndInv, IndInv', [Next]_vars
    PROVE  [Promise!Next]_<<Report, Promised, Delivered>>
<1> DEFINE Kept == [Promise!Next]_<<Report, Promised, Delivered>>
           Waits == {"idle", "opening", "gating", "reopening", "creating"}
           Begins == {"filling", "waiting", "closing", "parting", "confirming", "returned"}
           Fails == {"cleanup", "cleaning", "raised"}
<1> USE DEF remote, local, call, opened, window, tally
<1>0. /\ Begun <=> pc \in Begins
      /\ Begun' <=> pc' \in Begins
      /\ pc \in Waits \cup Begins \cup Fails
      /\ pc' \in Waits \cup Begins \cup Fails
  BY DEF Begun, IndInv, TypeOK
<1>1. ASSUME NEW options \in Options, Get(options) PROVE Kept
  <2>1. Report' = "idle" /\ Promised' = {} /\ Delivered' = {} BY <1>1, SeenNext DEF Get
  <2>2. Report # "moving" BY <1>0, <1>1, Seen DEF Get
  <2> QED BY <2>1, <2>2 DEF Promise!Next, Promise!Prepare
<1>2. ASSUME pc \in Waits, pc' \in Waits PROVE Kept
  BY <1>2, Seen, SeenNext
<1>3. ASSUME pc \in Waits \cup Begins \cup Fails, pc \notin {"returned", "raised"}, pc' \in Fails
      PROVE  Kept
  <2>1. Report' = "failed" /\ Promised' = {} /\ Delivered' = {} BY <1>3, SeenNext
  <2>2. \/ Report = "failed" /\ Promised = {} /\ Delivered = {}
        \/ Report \in {"idle", "moving"}
    BY <1>0, <1>3, Seen
  <2> QED BY <2>1, <2>2 DEF Promise!Next, Promise!Fail
<1>4. ASSUME pc \in Begins \ {"returned"}, pc' \in Begins \ {"returned"},
             UNCHANGED <<ask, attrs, start, landed>>
      PROVE  Kept
  <2>1. Promising' <=> Promising BY <1>4 DEF Promising
  <2>2. CASE Promising
    <3>1. /\ Report = "moving" /\ Promised = start .. attrs.size - 1 /\ Delivered = landed
          /\ Report' = "moving" /\ Promised' = start' .. attrs'.size - 1 /\ Delivered' = landed'
      BY <1>0, <1>4, <2>1, <2>2, Seen, SeenNext
    <3> QED BY <1>4, <3>1
  <2>3. CASE ~Promising BY <1>0, <1>4, <2>1, <2>3, Seen, SeenNext
  <2> QED BY <2>2, <2>3
<1>5. ASSUME UNCHANGED <<pc, ask, attrs, start, landed>> PROVE Kept
  BY <1>5 DEF Report, Promised, Delivered, Begun, Promising, SpanEnd
<1>6. CASE StatAnswered \/ OpenAnswered
  <2>1. pc \in Waits /\ pc' \in Waits
    BY <1>6 DEF IndInv, HandleKnown, StatAnswered, OpenAnswered
  <2> QED BY <1>2, <2>1
<1>7. CASE ResumeOffset \/ GatePasses \/ ReopenAnswered
  BY <1>2, <1>7 DEF ResumeOffset, GatePasses, ReopenAnswered
<1>8. CASE \/ OpeningRefused \/ OpeningCancelled \/ ModeRefused \/ ResumeRefused \/ GateFails
           \/ GateRefuses \/ ReopenRefused \/ LocalRefused \/ LinkFails \/ IdleTimeout
           \/ Cancelled \/ CloseCut \/ CloseUnanswered \/ ConfirmFails
  BY <1>3, <1>8
  DEF OpeningRefused, OpeningCancelled, ModeRefused, ResumeRefused, GateFails, GateRefuses,
      ReopenRefused, LocalRefused, LinkFails, IdleTimeout, Cancelled, CloseCut, CloseUnanswered,
      ConfirmFails, AfterFailure, Transferring
<1>9. CASE Issue \/ WindowFilled
  BY <1>4, <1>9 DEF Issue, WindowFilled
<1>10. ASSUME NEW r \in outstanding, ServerReads(r) PROVE Kept BY <1>5, <1>10 DEF ServerReads
<1>11. CASE LateClose \/ LinkDrops \/ FileShifts
  BY <1>5, <1>11 DEF LateClose, LinkDrops, FileShifts
<1>12. CASE SendClose
  <2>1. CASE pc = "closing" BY <1>4, <1>12, <2>1 DEF SendClose
  <2>2. CASE pc = "cleanup" BY <1>3, <1>12, <2>2 DEF SendClose
  <2> QED BY <1>12, <2>1, <2>2 DEF SendClose
<1>13. CASE CloseAnswered
  <2>1. CASE pc' = "raised" BY <1>3, <1>13, <2>1 DEF CloseAnswered
  <2>2. CASE pc' = "confirming" BY <1>4, <1>13, <2>2 DEF CloseAnswered
  <2> QED BY <1>13, <2>1, <2>2 DEF CloseAnswered
<1>14. CASE AlreadyComplete
  <2>1. CASE pc' = "raised" BY <1>3, <1>14, <2>1 DEF AlreadyComplete
  <2>2. CASE pc' = "returned"
    <3>1. /\ start' = attrs'.size /\ start' \in Nat /\ landed' = {}
      BY <1>14, <2>2 DEF AlreadyComplete, Complete, IndInv, NothingYet, Preparing, TypeOK
    <3>2. Report = "idle" BY <1>14, Seen DEF AlreadyComplete
    <3>3. CASE Promising'
      <4>1. Report' = "whole" /\ Promised' = start' .. attrs'.size - 1 /\ Delivered' = landed'
        BY <1>0, <2>2, <3>3, SeenNext
      <4>2. start' .. attrs'.size - 1 = {} BY <3>1
      <4> QED BY <3>1, <3>2, <4>1, <4>2 DEF Promise!Next, Promise!NothingToMove
    <3>4. CASE ~Promising'
      <4>1. Report' = "failed" /\ Promised' = {} /\ Delivered' = {}
        BY <1>0, <2>2, <3>4, SeenNext
      <4> QED BY <3>2, <4>1 DEF Promise!Next, Promise!Fail
    <3> QED BY <3>3, <3>4
  <2> QED BY <1>14, <2>1, <2>2 DEF AlreadyComplete
<1>15. CASE CreateLocal
  <2>1. /\ landed' = {} /\ pc' = "filling" /\ start' \in Nat
        /\ attrs'.size <= MaxSize /\ attrs'.size \in Nat \cup {Unknown}
    BY <1>15 DEF CreateLocal, IndInv, NothingYet, Preparing, TypeOK, Circumstances
  <2>2. Report = "idle" BY <1>15, Seen DEF CreateLocal
  <2>3. CASE Promising'
    <3>1. Report' = "moving" /\ Promised' = start' .. attrs'.size - 1 /\ Delivered' = {}
      BY <1>0, <2>1, <2>3, SeenNext
    <3>2. attrs'.size \in Nat BY <2>1, <2>3 DEF Promising
    <3>3. Promised' \in SUBSET Promise!Offsets
      BY <2>1, <3>1, <3>2, DownloadAssumption DEF Promise!Offsets
    <3> QED BY <2>2, <3>1, <3>3 DEF Promise!Next, Promise!Begin
  <2>4. CASE ~Promising'
    <3>1. Report' = "failed" /\ Promised' = {} /\ Delivered' = {} BY <1>0, <2>1, <2>4, SeenNext
    <3> QED BY <2>2, <3>1 DEF Promise!Next, Promise!Fail
  <2> QED BY <2>3, <2>4
<1>16. ASSUME NEW a \in answers, HandleData(a) PROVE Kept
  <2>1. /\ pc = "waiting" /\ pc' = "filling" /\ UNCHANGED <<ask, attrs, start, nextOffset>>
        /\ landed \subseteq landed'
    BY <1>16 DEF HandleData, Take
  <2>2. Promising' <=> Promising BY <2>1 DEF Promising
  <2>3. CASE Promising
    <3>1. /\ Report = "moving" /\ Report' = "moving"
          /\ Promised = start .. attrs.size - 1 /\ Promised' = Promised
          /\ Delivered = landed /\ Delivered' = landed'
      BY <1>0, <2>1, <2>2, <2>3, Seen, SeenNext
    <3>2. /\ Accounted' /\ start \in Nat /\ nextOffset \in Nat
          /\ attrs.size \in Nat /\ start <= attrs.size
      <4>1. Accounted' BY <1>16, DataAccounts
      <4>2. attrs.size \in Nat BY <2>3 DEF Promising, IndInv, TypeOK, Unknown
      <4> QED BY <2>1, <4>1, <4>2
          DEF IndInv, TypeOK, Offsetting, Reading, Transferring, Unknown
    <3>3. landed' \subseteq start .. nextOffset - 1 BY <2>1, <3>2 DEF Accounted
    <3>4. nextOffset <= attrs.size BY <2>1, <3>2 DEF Accounted, SpanEnd, Greater, Unknown
    <3>5. start .. nextOffset - 1 \subseteq start .. attrs.size - 1 BY <3>2, <3>4
    <3>6. landed' \subseteq start .. attrs.size - 1 BY <3>3, <3>5
    <3> QED BY <2>1, <3>1, <3>6 DEF Promise!Next, Promise!Move
  <2>4. CASE ~Promising BY <1>0, <2>1, <2>2, <2>4, Seen, SeenNext
  <2> QED BY <2>3, <2>4
<1>17. ASSUME NEW a \in answers, HandleEOF(a) PROVE Kept
  BY <1>4, <1>17 DEF HandleEOF, Take
<1>18. ASSUME NEW a \in answers, HandleRefusal(a) PROVE Kept
  BY <1>3, <1>18 DEF HandleRefusal, Take
<1>19. CASE Confirm
  <2>1. CASE pc' = "raised" BY <1>3, <1>19, <2>1 DEF Confirm
  <2>2. CASE pc' = "returned"
    <3>1. /\ pc = "confirming" /\ UNCHANGED <<ask, attrs, start, landed>>
          /\ SizeVerdict # "refused"
      BY <1>19, <2>2 DEF Confirm
    <3>2. Promising' <=> Promising BY <3>1 DEF Promising
    <3>3. CASE Promising
      <4>1. SizeVerdict = "matched" BY <3>1, <3>3 DEF Promising, SizeVerdict
      <4>2. landed = start .. attrs.size - 1 BY <1>19, <4>1, SpanLanded
      <4>3. /\ Report = "moving" /\ Report' = "whole"
            /\ Promised = start .. attrs.size - 1 /\ Promised' = Promised
            /\ Delivered = landed /\ Delivered' = Delivered
        BY <1>0, <2>2, <3>1, <3>2, <3>3, Seen, SeenNext
      <4> QED BY <4>2, <4>3 DEF Promise!Next, Promise!Complete
    <3>4. CASE ~Promising BY <1>0, <2>2, <3>1, <3>2, <3>4, Seen, SeenNext
    <3> QED BY <3>3, <3>4
  <2> QED BY <1>19, <2>1, <2>2 DEF Confirm
<1>20. CASE UNCHANGED vars BY <1>5, <1>20 DEF vars
<1> HIDE DEF Waits, Begins, Fails
<1>21. ASSUME NEW a \in answers, Dispatch(a) PROVE Kept BY <1>16, <1>17, <1>18, <1>21 DEF Dispatch
<1>22. ASSUME Step PROVE Kept
  BY <1>1, <1>6, <1>7, <1>8, <1>9, <1>10, <1>11, <1>12, <1>13, <1>14, <1>15, <1>19, <1>21, <1>22
  DEF Step
<1> QED BY <1>20, <1>22 DEF Next

\* A download whose size is known and checked implements the abstract transfer: it fixes its
\* span, moves bytes of it and takes none back, and reports success only with every byte of it
\* there, whatever order, size or number the answers come in (Session.get).
THEOREM DownloadKeepsPromise == Spec => KeepsPromise
<1>1. Init => Promise!Init BY Seen DEF Init, Promise!Init
<1>2. IndInv /\ IndInv' /\ [Next]_vars => [Promise!Next]_<<Report, Promised, Delivered>>
  BY StepKeepsPromise
<1> QED BY Inductive, <1>1, <1>2, PTL DEF Spec, KeepsPromise, Promise!Spec
===============================================================================
