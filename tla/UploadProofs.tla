----------------------------- MODULE UploadProofs -----------------------------
(* Proofs about Upload, for every size of a WRITE, window and source. *)
EXTENDS Upload, FiniteSetTheorems, TLAPS

InFlight == snd \in {"sending", "sent"}

\* Where the sender is in its span, and what it has left to read.
SenderInSpan ==
    /\ start <= offset /\ start <= end /\ end <= MaxSize /\ least <= source
    /\ snd # "new" => start < end \/ result = "returned"
    /\ offset <= end
    /\ snd = "new" => /\ Running /\ stored = {} /\ wire = {} /\ answers = {}
                      /\ outstanding = {} /\ offset = start
    /\ snd \in {"acquiring", "sending", "sent"} => chunk > 0 /\ offset + chunk <= end
    /\ snd = "over" <=> ~Running
    /\ ~Running \/ (allSent <=> snd = "waiting")
    /\ allSent => offset = end \/ least < end

\* A chunk in flight is in the table, and in one of three places: the sender's
\* hands, the server's, or an answer; and two chunks never share a byte.
ChunksApart ==
    /\ IsFiniteSet(outstanding)
    /\ \A c \in outstanding : Cells(c) \subseteq Recorded
    /\ \A c, d \in outstanding : c # d => Cells(c) \cap Cells(d) = {}
    /\ wire \subseteq outstanding
    /\ \A a \in answers : a.chunk \in outstanding \ wire
    /\ \A a, b \in answers : a.chunk = b.chunk => a = b
    /\ snd = "sending" => /\ InHand \in outstanding \ wire
                          /\ \A a \in answers : a.chunk # InHand

\* What the server holds was recorded, and everything it said yes to is there.
BytesStored ==
    /\ stored \subseteq Recorded
    /\ Recorded \ CellsOf(outstanding) \subseteq stored
    /\ \A a \in answers : a.ok => Cells(a.chunk) \subseteq stored
    /\ acknowledged = Cardinality(Recorded \ CellsOf(outstanding))

\* The event is set when all is sent and answered, and nothing is under way then.
EndIsEnd ==
    /\ finished /\ result # "raised" => allSent /\ outstanding = {}
    /\ result = "returned" => wire = {}

IndInv ==
    /\ TypeOK
    /\ SenderInSpan
    /\ Running => ChunksApart /\ BytesStored /\ WindowBalanced
    /\ EndIsEnd
    /\ ReturnedIsStored

-------------------------------------------------------------------------------
(* Bytes and chunks. *)

LEMMA CellOf ==
    ASSUME NEW cs, NEW x
    PROVE  x \in CellsOf(cs) <=> \E c \in cs : x \in Cells(c)
BY DEF CellsOf

\* A chunk has as many bytes as its length says.
LEMMA CellsCounted ==
    ASSUME NEW c \in Chunks
    PROVE  IsFiniteSet(Cells(c)) /\ Cardinality(Cells(c)) = c.length
<1>1. c.offset \in Nat /\ c.length \in Nat \ {0} BY DEF Chunks
<1> DEFINE last == c.offset + c.length - 1
<1>2. last \in Int /\ c.offset \in Int /\ ~(c.offset > last) /\ last - c.offset + 1 = c.length
  BY <1>1
<1>3. IsFiniteSet(c.offset .. last) /\ Cardinality(c.offset .. last) = c.length
  <2> HIDE DEF last
  <2> QED BY <1>2, FS_Interval
<1> QED BY <1>3 DEF Cells

LEMMA RecordedCounted ==
    ASSUME TypeOK
    PROVE  /\ IsFiniteSet(Recorded)
           /\ \A S : IsFiniteSet(Recorded \ S)
<1>1. IsFiniteSet(Recorded) BY FS_Interval DEF Recorded, TypeOK
<1> QED BY <1>1, FS_Difference

-------------------------------------------------------------------------------
(* Types. *)

LEMMA InitType == Init => TypeOK
<1> SUFFICES ASSUME Init PROVE TypeOK OBVIOUS
<1>1. source \in Nat /\ start \in Nat BY UploadAssumption DEF Init
<1> QED BY <1>1, UploadAssumption DEF Init, TypeOK

LEMMA NextType == IndInv /\ [Next]_vars => TypeOK'
<1> SUFFICES ASSUME IndInv, [Next]_vars PROVE TypeOK' OBVIOUS
<1> USE UploadAssumption DEF IndInv, file, span, sender, receiver, shared, TypeOK
<1>1. CASE NothingLeft \/ Begin BY <1>1 DEF NothingLeft, Begin
<1>2. CASE ReadSource BY <1>2 DEF ReadSource, Readable, Lesser
<1>3. CASE SentAll BY <1>3 DEF SentAll, Settled
<1>4. CASE Acquire
  <2>1. InHand \in Chunks BY <1>4 DEF Acquire, InHand, Chunks, SenderInSpan
  <2> QED BY <1>4, <2>1 DEF Acquire
<1>5. CASE FrameWritten
  <2>1. InHand \in Chunks BY <1>5 DEF FrameWritten, InHand, Chunks, SenderInSpan
  <2> QED BY <1>5, <2>1 DEF FrameWritten
<1>6. CASE SenderResumes
  <2>1. offset' \in Nat BY <1>6 DEF SenderResumes
  <2> QED BY <1>6, <2>1 DEF SenderResumes
<1>12. CASE RunReturns BY <1>12 DEF RunReturns
<1>7. ASSUME NEW a \in answers, Acknowledge(a) \/ Refusal(a) PROVE TypeOK'
  <2>1. a.chunk.length \in Nat BY DEF Chunks
  <2>2. answers' \subseteq [chunk : Chunks, ok : BOOLEAN] /\ outstanding' \subseteq Chunks
    BY <1>7 DEF Acknowledge, Refusal, TakeAnswer
  <2>3. CASE Acknowledge(a) BY <2>1, <2>2, <2>3 DEF Acknowledge, Settled
  <2>4. CASE Refusal(a) BY <2>2, <2>4 DEF Refusal
  <2> QED BY <1>7, <2>3, <2>4
<1>8. CASE IdleTimeout \/ Interrupt BY <1>8 DEF IdleTimeout, Interrupt
<1>9. ASSUME NEW c \in wire, ServerWrites(c) PROVE TypeOK'
  <2>1. Cells(c) \subseteq Nat BY DEF Cells, Chunks
  <2>2. PICK ok \in BOOLEAN :
          /\ answers' = answers \cup {[chunk |-> c, ok |-> ok]}
          /\ stored' = IF ok THEN stored \cup Cells(c) ELSE stored
    BY <1>9 DEF ServerWrites
  <2>3. answers' \subseteq [chunk : Chunks, ok : BOOLEAN] /\ wire' \subseteq Chunks
    BY <1>9, <2>2 DEF ServerWrites
  <2>4. stored' \subseteq Nat BY <2>1, <2>2
  <2> QED BY <1>9, <2>3, <2>4 DEF ServerWrites
<1>10. CASE SourceShifts BY <1>10 DEF SourceShifts, Lesser
<1>11. CASE UNCHANGED vars BY <1>11 DEF vars
<1> QED
  BY <1>1, <1>2, <1>3, <1>4, <1>5, <1>6, <1>7, <1>8, <1>9, <1>10, <1>11, <1>12
  DEF Next, SenderSteps, ReceiverSteps, ServerSteps

-------------------------------------------------------------------------------
(* The sender stays in its span. *)

LEMMA NextSpan == IndInv /\ [Next]_vars => SenderInSpan'
<1> SUFFICES ASSUME IndInv, [Next]_vars PROVE SenderInSpan' OBVIOUS
<1> USE UploadAssumption DEF IndInv, file, span, sender, receiver, shared, SenderInSpan, Running,
        TypeOK
<1>1. CASE NothingLeft \/ Begin BY <1>1 DEF NothingLeft, Begin
<1>2. CASE ReadSource BY <1>2 DEF ReadSource, Readable, Lesser
<1>3. CASE SentAll BY <1>3 DEF SentAll, Readable, Lesser
<1>4. CASE Acquire \/ FrameWritten BY <1>4 DEF Acquire, FrameWritten
<1>5. CASE SenderResumes \/ RunReturns BY <1>5 DEF SenderResumes, RunReturns
<1>6. ASSUME NEW a \in answers, Acknowledge(a) \/ Refusal(a) PROVE SenderInSpan'
  BY <1>6 DEF Acknowledge, Refusal, TakeAnswer, Listening
<1>7. CASE IdleTimeout \/ Interrupt BY <1>7 DEF IdleTimeout, Interrupt, Listening
<1>8. ASSUME NEW c \in wire, ServerWrites(c) PROVE SenderInSpan'
  BY <1>8 DEF ServerWrites
<1>9. CASE SourceShifts BY <1>9 DEF SourceShifts, Lesser
<1>10. CASE UNCHANGED vars BY <1>10 DEF vars
<1> QED
  BY <1>1, <1>2, <1>3, <1>4, <1>5, <1>6, <1>7, <1>8, <1>9, <1>10
  DEF Next, SenderSteps, ReceiverSteps, ServerSteps

-------------------------------------------------------------------------------
(* Chunks in flight are apart. *)

LEMMA NextApart == IndInv /\ [Next]_vars /\ Running' => ChunksApart'
<1> SUFFICES ASSUME IndInv, [Next]_vars, Running' PROVE ChunksApart' OBVIOUS
<1> USE UploadAssumption DEF file, span, sender, receiver, shared
<1>1. CASE NothingLeft BY <1>1 DEF NothingLeft, Running
<1>2. CASE Begin
  BY <1>2, FS_EmptySet DEF Begin, IndInv, SenderInSpan, ChunksApart
<1>3. ASSUME UNCHANGED <<outstanding, wire, answers>>, Running, ChunksApart,
             Recorded' = Recorded, snd' # "sending" \/ UNCHANGED sender
      PROVE  ChunksApart'
  BY <1>3 DEF ChunksApart, InHand
<1>4. CASE ReadSource
  <2>1. Recorded' = Recorded BY <1>4 DEF ReadSource, Recorded
  <2> QED BY <1>3, <1>4, <2>1 DEF ReadSource, IndInv
<1>5. CASE SentAll
  <2>1. Recorded' = Recorded BY <1>5 DEF SentAll, Recorded
  <2> QED BY <1>3, <1>5, <2>1 DEF SentAll, IndInv
<1>6. CASE Acquire
  <2>1. ChunksApart BY <1>6 DEF Acquire, IndInv
  <2>2. /\ outstanding' = outstanding \cup {InHand} /\ InHand' = InHand
        /\ Recorded = start .. offset - 1 /\ Recorded' = start .. offset - 1 + chunk
        /\ Cells(InHand) = offset .. offset + chunk - 1
        /\ start \in Nat /\ offset \in Nat /\ chunk \in Nat /\ chunk > 0 /\ start <= offset
    BY <1>6 DEF Acquire, InHand, Recorded, Cells, IndInv, TypeOK, SenderInSpan
  <2>3. Cells(InHand) \cap Recorded = {} /\ Cells(InHand) \subseteq Recorded'
        /\ Recorded \subseteq Recorded' /\ offset \in Cells(InHand)
    BY <2>2
  <2>4. InHand \notin outstanding BY <2>1, <2>3 DEF ChunksApart
  <2>5. IsFiniteSet(outstanding') BY <2>1, <2>2, FS_AddElement DEF ChunksApart
  <2>6. \A c \in outstanding : Cells(c) \subseteq Recorded /\ Cells(c) \cap Cells(InHand) = {}
    BY <2>1, <2>3 DEF ChunksApart
  <2>7. UNCHANGED <<wire, answers>> BY <1>6 DEF Acquire
  <2> QED BY <2>1, <2>2, <2>3, <2>4, <2>5, <2>6, <2>7 DEF ChunksApart
<1>7. CASE FrameWritten
  <2>1. ChunksApart /\ Recorded' = Recorded BY <1>7 DEF FrameWritten, IndInv, Recorded
  <2> QED BY <1>7, <2>1 DEF FrameWritten, ChunksApart
<1>8. CASE SenderResumes
  <2>1. Recorded' = Recorded
    BY <1>8 DEF SenderResumes, Recorded, IndInv, TypeOK
  <2> QED BY <1>3, <1>8, <2>1 DEF SenderResumes, IndInv
<1>9. CASE RunReturns BY <1>9 DEF RunReturns, Running
<1>10. ASSUME NEW a \in answers, Acknowledge(a) PROVE ChunksApart'
  <2>1. ChunksApart /\ Recorded' = Recorded
    BY <1>10 DEF Acknowledge, TakeAnswer, Listening, IndInv, Recorded
  <2>2. /\ outstanding' = outstanding \ {a.chunk} /\ answers' = answers \ {a}
        /\ UNCHANGED <<sender, wire>>
    BY <1>10 DEF Acknowledge, TakeAnswer
  <2>3. IsFiniteSet(outstanding') BY <2>1, <2>2, FS_RemoveElement DEF ChunksApart
  <2> QED BY <2>1, <2>2, <2>3 DEF ChunksApart, InHand
<1>11. ASSUME NEW a \in answers, Refusal(a) PROVE ChunksApart'
  BY <1>11 DEF Refusal, Running
<1>12. CASE IdleTimeout \/ Interrupt BY <1>12 DEF IdleTimeout, Interrupt, Running
<1>13. ASSUME NEW c \in wire, ServerWrites(c) PROVE ChunksApart'
  <2>1. ChunksApart /\ Recorded' = Recorded
    BY <1>13 DEF ServerWrites, IndInv, Running, Recorded
  <2>2. PICK ok \in BOOLEAN : answers' = answers \cup {[chunk |-> c, ok |-> ok]}
    BY <1>13 DEF ServerWrites
  <2>3. wire' = wire \ {c} /\ UNCHANGED <<outstanding, sender>>
    BY <1>13 DEF ServerWrites
  <2>4. c \in outstanding /\ \A a \in answers : a.chunk # c BY <2>1 DEF ChunksApart
  <2>5. snd = "sending" => c # InHand BY <2>1 DEF ChunksApart
  <2> QED BY <2>1, <2>2, <2>3, <2>4, <2>5 DEF ChunksApart, InHand
<1>14. CASE SourceShifts
  <2>1. Recorded' = Recorded BY <1>14 DEF SourceShifts, Recorded
  <2> QED BY <1>3, <1>14, <2>1 DEF SourceShifts, IndInv
<1>15. CASE UNCHANGED vars
  <2>1. Recorded' = Recorded /\ UNCHANGED result BY <1>15 DEF vars, Recorded
  <2> QED BY <1>3, <1>15, <2>1 DEF vars, IndInv, Running
<1> QED
  BY <1>1, <1>2, <1>4, <1>5, <1>6, <1>7, <1>8, <1>9, <1>10, <1>11, <1>12, <1>13, <1>14, <1>15
  DEF Next, SenderSteps, ReceiverSteps, ServerSteps

-------------------------------------------------------------------------------
(* What is acknowledged is stored, and counted. *)

\* What has been acknowledged: recorded, and no longer in the table.
Answered == Recorded \ CellsOf(outstanding)

\* Taking the answer to c out of the table moves the bytes of c, and no others.
LEMMA AnsweredGrows ==
    ASSUME ChunksApart, NEW c \in outstanding
    PROVE  /\ Recorded \ CellsOf(outstanding \ {c}) = Answered \cup Cells(c)
           /\ Answered \cap Cells(c) = {}
<1>1. Answered \cap Cells(c) = {} BY CellOf DEF Answered
<1>2. ASSUME NEW x \in Cells(c) PROVE x \in Recorded /\ x \notin CellsOf(outstanding \ {c})
  <2>1. \A d \in outstanding \ {c} : x \notin Cells(d) BY <1>2 DEF ChunksApart
  <2> QED BY <1>2, <2>1, CellOf DEF ChunksApart
<1>3. \A x : x \in CellsOf(outstanding) <=> x \in CellsOf(outstanding \ {c}) \/ x \in Cells(c)
  BY CellOf
<1> QED BY <1>1, <1>2, <1>3 DEF Answered

LEMMA NextStored == IndInv /\ [Next]_vars /\ Running' => BytesStored'
<1> SUFFICES ASSUME IndInv, [Next]_vars, Running' PROVE BytesStored' OBVIOUS
<1> USE DEF file, span, sender, receiver, shared
<1>1. CASE NothingLeft BY <1>1 DEF NothingLeft, Running
<1>2. ASSUME UNCHANGED <<outstanding, stored, answers, acknowledged>>, Running,
             Recorded' = Recorded
      PROVE  BytesStored'
  BY <1>2 DEF BytesStored, IndInv
<1>3. CASE Begin
  <2>1. Recorded' = Recorded BY <1>3 DEF Begin, Recorded
  <2> QED BY <1>2, <1>3, <2>1 DEF Begin, IndInv, SenderInSpan
<1>4. CASE ReadSource
  <2>1. Recorded' = Recorded BY <1>4 DEF ReadSource, Recorded
  <2> QED BY <1>2, <1>4, <2>1 DEF ReadSource
<1>5. CASE SentAll
  <2>1. Recorded' = Recorded BY <1>5 DEF SentAll, Recorded
  <2> QED BY <1>2, <1>5, <2>1 DEF SentAll
<1>6. CASE Acquire
  <2>1. ChunksApart /\ BytesStored BY <1>6 DEF Acquire, IndInv
  <2>2. /\ outstanding' = outstanding \cup {InHand}
        /\ Recorded = start .. offset - 1 /\ Recorded' = start .. offset - 1 + chunk
        /\ Cells(InHand) = offset .. offset + chunk - 1
        /\ start \in Nat /\ offset \in Nat /\ chunk \in Nat /\ chunk > 0 /\ start <= offset
    BY <1>6 DEF Acquire, InHand, Recorded, Cells, IndInv, TypeOK, SenderInSpan
  <2>3. Recorded' = Recorded \cup Cells(InHand) /\ Cells(InHand) \cap Recorded = {}
    BY <2>2
  <2>4. \A x : x \in CellsOf(outstanding') <=> x \in CellsOf(outstanding) \/ x \in Cells(InHand)
    BY <2>2, CellOf
  <2>5. Recorded' \ CellsOf(outstanding') = Recorded \ CellsOf(outstanding)
    BY <2>3, <2>4
  <2> QED BY <1>6, <2>1, <2>3, <2>5 DEF Acquire, BytesStored
<1>7. CASE FrameWritten
  <2>1. Recorded' = Recorded BY <1>7 DEF FrameWritten, Recorded
  <2> QED BY <1>2, <1>7, <2>1 DEF FrameWritten
<1>8. CASE SenderResumes
  <2>1. Recorded' = Recorded
    BY <1>8 DEF SenderResumes, Recorded, IndInv, TypeOK
  <2> QED BY <1>2, <1>8, <2>1 DEF SenderResumes
<1>9. CASE RunReturns BY <1>9 DEF RunReturns, Running
<1>10. ASSUME NEW a \in answers, Acknowledge(a) PROVE BytesStored'
  <2>1. /\ ChunksApart /\ BytesStored /\ a.ok /\ a.chunk \in Chunks /\ a.chunk \in outstanding
    BY <1>10 DEF Acknowledge, TakeAnswer, Listening, IndInv, TypeOK, ChunksApart
  <2>2. /\ outstanding' = outstanding \ {a.chunk} /\ answers' = answers \ {a}
        /\ acknowledged' = acknowledged + a.chunk.length /\ UNCHANGED <<stored, span, sender>>
    BY <1>10 DEF Acknowledge, TakeAnswer
  <2>3. Recorded' = Recorded BY <2>2 DEF Recorded
  <2>4. (Recorded \ CellsOf(outstanding))' = Answered \cup Cells(a.chunk)
        /\ Answered \cap Cells(a.chunk) = {}
    BY <2>1, <2>2, <2>3, AnsweredGrows
  <2>5. Answered \subseteq stored /\ Cells(a.chunk) \subseteq stored
    BY <2>1 DEF BytesStored, Answered
  <2>6. IsFiniteSet(Answered) BY RecordedCounted DEF Answered, IndInv
  <2>7. Cardinality(Answered \cup Cells(a.chunk)) = Cardinality(Answered) + a.chunk.length
    <3>1. Cardinality(Answered \cap Cells(a.chunk)) = 0 BY <2>4, FS_EmptySet
    <3>2. Cardinality(Answered) \in Nat /\ a.chunk.length \in Nat
      BY <2>1, <2>6, FS_CardinalityType DEF Chunks
    <3>3. IsFiniteSet(Cells(a.chunk)) /\ Cardinality(Cells(a.chunk)) = a.chunk.length
      BY <2>1, CellsCounted
    <3>4. Cardinality(Answered \cup Cells(a.chunk)) =
            Cardinality(Answered) + Cardinality(Cells(a.chunk))
              - Cardinality(Answered \cap Cells(a.chunk))
      BY <2>6, <3>3, FS_Union
    <3> QED BY <3>1, <3>2, <3>3, <3>4
  <2>8. acknowledged = Cardinality(Answered) BY <2>1 DEF BytesStored, Answered
  <2> QED BY <2>1, <2>2, <2>3, <2>4, <2>5, <2>7, <2>8 DEF BytesStored
<1>11. ASSUME NEW a \in answers, Refusal(a) PROVE BytesStored'
  BY <1>11 DEF Refusal, Running
<1>12. CASE IdleTimeout \/ Interrupt BY <1>12 DEF IdleTimeout, Interrupt, Running
<1>13. ASSUME NEW c \in wire, ServerWrites(c) PROVE BytesStored'
  <2>1. ChunksApart /\ BytesStored /\ Recorded' = Recorded
    BY <1>13 DEF ServerWrites, IndInv, Running, Recorded
  <2>2. PICK ok \in BOOLEAN :
          /\ answers' = answers \cup {[chunk |-> c, ok |-> ok]}
          /\ stored' = IF ok THEN stored \cup Cells(c) ELSE stored
    BY <1>13 DEF ServerWrites
  <2>3. Cells(c) \subseteq Recorded /\ stored \subseteq stored'
    BY <2>1, <2>2 DEF ChunksApart
  <2>4. \A a \in answers' : a.ok => Cells(a.chunk) \subseteq stored'
    BY <2>1, <2>2 DEF BytesStored
  <2> QED BY <1>13, <2>1, <2>2, <2>3, <2>4 DEF ServerWrites, BytesStored
<1>14. CASE SourceShifts
  <2>1. Recorded' = Recorded BY <1>14 DEF SourceShifts, Recorded
  <2> QED BY <1>2, <1>14, <2>1 DEF SourceShifts
<1>15. CASE UNCHANGED vars
  <2>1. Recorded' = Recorded /\ UNCHANGED result BY <1>15 DEF vars, Recorded
  <2> QED BY <1>2, <1>15, <2>1 DEF vars, Running
<1> QED
  BY <1>1, <1>3, <1>4, <1>5, <1>6, <1>7, <1>8, <1>9, <1>10, <1>11, <1>12, <1>13, <1>14, <1>15
  DEF Next, SenderSteps, ReceiverSteps, ServerSteps

-------------------------------------------------------------------------------
(* The window. *)

LEMMA NextWindow == IndInv /\ [Next]_vars => WindowBalanced'
<1> SUFFICES ASSUME IndInv, [Next]_vars, Running' PROVE WindowBalanced'
  BY DEF WindowBalanced
<1> USE DEF file, span, sender, receiver, shared
<1>1. ASSUME UNCHANGED <<permits, outstanding>>, Running PROVE WindowBalanced'
  BY <1>1 DEF WindowBalanced, IndInv
<1>2. CASE Acquire
  <2>1. /\ ChunksApart /\ WindowBalanced /\ Running /\ permits > 0
        /\ permits' = permits - 1 /\ outstanding' = outstanding \cup {InHand}
    BY <1>2 DEF Acquire, IndInv
  <2>2. InHand \notin outstanding
    <3>1. Recorded = start .. offset - 1 /\ offset \in Cells(InHand) /\ offset \in Nat
      BY <1>2 DEF Acquire, InHand, Recorded, Cells, IndInv, TypeOK, SenderInSpan
    <3>2. offset \notin Recorded BY <3>1 DEF IndInv, TypeOK
    <3> QED BY <2>1, <3>1, <3>2 DEF ChunksApart
  <2>3. Cardinality(outstanding') = Cardinality(outstanding) + 1 /\ Cardinality(outstanding) \in Nat
    BY <2>1, <2>2, FS_AddElement, FS_CardinalityType DEF ChunksApart
  <2> QED BY <2>1, <2>3, UploadAssumption DEF WindowBalanced, IndInv, TypeOK
<1>3. ASSUME NEW a \in answers, Acknowledge(a) PROVE WindowBalanced'
  <2>1. /\ ChunksApart /\ WindowBalanced /\ Running /\ permits' = permits + 1
        /\ outstanding' = outstanding \ {a.chunk} /\ a.chunk \in outstanding
    BY <1>3 DEF Acknowledge, TakeAnswer, Listening, IndInv, ChunksApart
  <2>2. Cardinality(outstanding') = Cardinality(outstanding) - 1 /\ Cardinality(outstanding) \in Nat
    BY <2>1, FS_RemoveElement, FS_CardinalityType DEF ChunksApart
  <2> QED BY <2>1, <2>2, UploadAssumption DEF WindowBalanced, IndInv, TypeOK
<1>4. CASE \/ NothingLeft \/ RunReturns \/ IdleTimeout \/ Interrupt
           \/ \E a \in answers : Refusal(a)
  BY <1>4 DEF NothingLeft, RunReturns, IdleTimeout, Interrupt, Refusal, Running
<1>5. CASE Begin BY <1>1, <1>5 DEF Begin, IndInv, SenderInSpan
<1>6. CASE ReadSource \/ SentAll \/ FrameWritten \/ SenderResumes \/ SourceShifts
  BY <1>1, <1>6 DEF ReadSource, SentAll, FrameWritten, SenderResumes, SourceShifts
<1>7. ASSUME NEW c \in wire, ServerWrites(c) PROVE WindowBalanced'
  BY <1>1, <1>7 DEF ServerWrites, Running
<1>8. CASE UNCHANGED vars BY <1>1, <1>8 DEF vars, Running
<1> QED
  BY <1>2, <1>3, <1>4, <1>5, <1>6, <1>7, <1>8 DEF Next, SenderSteps, ReceiverSteps, ServerSteps

-------------------------------------------------------------------------------
(* The end of a run. *)

LEMMA NextEnd == IndInv /\ [Next]_vars => EndIsEnd'
<1> SUFFICES ASSUME IndInv, [Next]_vars PROVE EndIsEnd' OBVIOUS
<1> USE DEF IndInv, file, span, sender, receiver, shared, Running, EndIsEnd
<1>1. CASE NothingLeft \/ Begin BY <1>1 DEF NothingLeft, Begin, SenderInSpan, ChunksApart
<1>2. CASE ReadSource \/ FrameWritten \/ SenderResumes
  BY <1>2 DEF ReadSource, FrameWritten, SenderResumes, SenderInSpan
<1>3. CASE SentAll BY <1>3 DEF SentAll, Settled
<1>4. CASE Acquire BY <1>4 DEF Acquire, SenderInSpan
<1>5. CASE RunReturns BY <1>5 DEF RunReturns, ChunksApart
<1>6. ASSUME NEW a \in answers, Acknowledge(a) \/ Refusal(a) PROVE EndIsEnd'
  BY <1>6 DEF Acknowledge, Refusal, TakeAnswer, Settled, Listening
<1>7. CASE IdleTimeout \/ Interrupt BY <1>7 DEF IdleTimeout, Interrupt
<1>8. ASSUME NEW c \in wire, ServerWrites(c) PROVE EndIsEnd'
  BY <1>8 DEF ServerWrites
<1>9. CASE SourceShifts \/ UNCHANGED vars BY <1>9 DEF SourceShifts, vars
<1> QED
  BY <1>1, <1>2, <1>3, <1>4, <1>5, <1>6, <1>7, <1>8, <1>9
  DEF Next, SenderSteps, ReceiverSteps, ServerSteps

\* The run returns with the table empty: what is recorded is what is stored.
LEMMA NextReturned == IndInv /\ [Next]_vars => ReturnedIsStored'
<1> SUFFICES ASSUME IndInv, [Next]_vars, result' = "returned" PROVE ReturnedIsStored'
  BY DEF ReturnedIsStored
<1> USE DEF file, span, sender, receiver, shared
<1>1. ASSUME UNCHANGED <<stored, start, end, acknowledged, least, result>> PROVE ReturnedIsStored'
  BY <1>1 DEF ReturnedIsStored, IndInv
<1>2. CASE NothingLeft
  <2>1. /\ stored = {} /\ offset = start /\ start = end /\ Running /\ BytesStored
    BY <1>2 DEF NothingLeft, IndInv, SenderInSpan, TypeOK
  <2>2. Recorded = {} BY <1>2, <2>1 DEF Recorded, NothingLeft, IndInv, TypeOK
  <2>3. acknowledged = 0 BY <2>1, <2>2, FS_EmptySet DEF BytesStored
  <2> QED BY <1>2, <2>1, <2>3 DEF NothingLeft, ReturnedIsStored, IndInv, TypeOK
<1>3. CASE RunReturns
  <2>1. /\ Running /\ allSent /\ outstanding = {} /\ BytesStored
        /\ Recorded = start .. offset - 1
        /\ offset \in Nat /\ start \in Nat /\ end \in Nat /\ start <= offset
    BY <1>3 DEF RunReturns, IndInv, EndIsEnd, Recorded, SenderInSpan, TypeOK, Running
  <2>2. CellsOf(outstanding) = {} BY <2>1, CellOf
  <2>3. stored = start .. offset - 1 /\ acknowledged = Cardinality(start .. offset - 1)
    BY <2>1, <2>2 DEF BytesStored
  <2>4. acknowledged = offset - start
    <3>1. offset - 1 \in Int /\ start \in Int BY <2>1
    <3>2. CASE start = offset
      BY <2>1, <2>3, <3>2, FS_EmptySet
    <3>3. CASE start < offset
      <4>1. ~(start > offset - 1) /\ (offset - 1) - start + 1 = offset - start BY <2>1, <3>3
      <4> QED BY <2>3, <3>1, <4>1, FS_Interval
    <3> QED BY <2>1, <3>2, <3>3
  <2>5. least >= end => offset = end
    BY <2>1 DEF IndInv, SenderInSpan, TypeOK
  <2>6. start + acknowledged = offset BY <2>1, <2>4
  <2>7. UNCHANGED <<stored, start, end, acknowledged, least>> BY <1>3 DEF RunReturns
  <2>8. stored = start .. start + acknowledged - 1 BY <2>1, <2>3, <2>4
  <2>9. least >= end => start + acknowledged = end BY <2>5, <2>6
  <2> QED BY <2>7, <2>8, <2>9 DEF ReturnedIsStored
<1>4. ASSUME NEW c \in wire, ServerWrites(c) PROVE ReturnedIsStored'
  BY <1>4 DEF ServerWrites, IndInv, EndIsEnd
<1>5. CASE Begin \/ ReadSource \/ SentAll \/ Acquire \/ FrameWritten \/ SenderResumes
  BY <1>1, <1>5 DEF Begin, ReadSource, SentAll, Acquire, FrameWritten, SenderResumes
<1>6. ASSUME NEW a \in answers, Acknowledge(a) \/ Refusal(a) PROVE ReturnedIsStored'
  BY <1>6 DEF Acknowledge, Refusal, TakeAnswer, Listening, Running
<1>7. CASE IdleTimeout \/ Interrupt BY <1>7 DEF IdleTimeout, Interrupt
<1>8. CASE SourceShifts BY <1>8 DEF SourceShifts, Running
<1>9. CASE UNCHANGED vars BY <1>1, <1>9 DEF vars
<1> QED
  BY <1>2, <1>3, <1>4, <1>5, <1>6, <1>7, <1>8, <1>9
  DEF Next, SenderSteps, ReceiverSteps, ServerSteps

-------------------------------------------------------------------------------
(* The invariant, and what follows. *)

LEMMA InitIndInv == Init => IndInv
<1> SUFFICES ASSUME Init PROVE IndInv OBVIOUS
<1>1. TypeOK BY InitType
<1>2. /\ start \in Nat /\ source \in Nat /\ source <= MaxSize /\ start <= source
  BY UploadAssumption DEF Init
<1>3. SenderInSpan BY <1>2, UploadAssumption DEF Init, SenderInSpan, Running
<1>4. ChunksApart BY FS_EmptySet DEF Init, ChunksApart
<1>5. Recorded = {} BY <1>2 DEF Init, Recorded
<1>6. BytesStored BY <1>5, FS_EmptySet DEF Init, BytesStored
<1>7. WindowBalanced BY FS_EmptySet, UploadAssumption DEF Init, WindowBalanced
<1>8. EndIsEnd /\ ReturnedIsStored BY DEF Init, EndIsEnd, ReturnedIsStored
<1> QED BY <1>1, <1>3, <1>4, <1>6, <1>7, <1>8 DEF IndInv

LEMMA Inductive == Spec => []IndInv
<1>1. IndInv /\ [Next]_vars => IndInv'
  <2> SUFFICES ASSUME IndInv, [Next]_vars PROVE IndInv' OBVIOUS
  <2> QED
    BY NextType, NextSpan, NextApart, NextStored, NextWindow, NextEnd, NextReturned
    DEF IndInv
<1> QED BY InitIndInv, <1>1, PTL DEF Spec

\* The table, the semaphore and the answers agree: an answer always finds its WRITE, however
\* early it comes, and the window neither overruns nor shrinks (_acknowledge, _window).
THEOREM RepliesExpected == Spec => []RepliesAreExpected
<1>1. IndInv => RepliesAreExpected
  BY DEF IndInv, RepliesAreExpected, ChunksApart, WindowBalanced
<1> QED BY Inductive, <1>1, PTL

\* What is counted is what the server stores, at every moment, and a run that returns has
\* stored its span without a hole (_acknowledged, run).
THEOREM AcknowledgedStored == Spec => []AcknowledgedIsStored
<1>1. IndInv => AcknowledgedIsStored
  <2> SUFFICES ASSUME IndInv PROVE AcknowledgedIsStored OBVIOUS
  <2>1. Recorded \subseteq start .. end - 1
    BY DEF Recorded, IndInv, SenderInSpan, TypeOK
  <2> QED BY <2>1 DEF IndInv, BytesStored, AcknowledgedIsStored
<1> QED BY Inductive, <1>1, PTL

-------------------------------------------------------------------------------
(* The promise. *)

\* Every step of an upload is one of the abstract transfer, or invisible to it.
LEMMA StepKeepsPromise ==
    ASSUME IndInv, IndInv', [Next]_vars
    PROVE  [Promise!Next]_<<Report, Promised, Delivered>>
<1> USE UploadAssumption DEF file, span, sender, receiver, shared
<1>1. CASE NothingLeft
  <2>1. Report = "idle" /\ Report' = "whole"
    BY <1>1 DEF NothingLeft, Report, IndInv, SenderInSpan, Running
  <2>2. Promised' = {} /\ Delivered' = {}
    BY <1>1 DEF NothingLeft, Promised, Wanted, Delivered, IndInv, SenderInSpan, TypeOK
  <2> QED BY <2>1, <2>2 DEF Promise!Next, Promise!NothingToMove
<1>2. CASE Begin
  <2>1. Report = "idle" /\ Report' = "moving"
    BY <1>2 DEF Begin, Report, IndInv, SenderInSpan, Running
  <2>2. Promised' \in SUBSET Promise!Offsets /\ Delivered' = {}
    <3>1. ~allSent' /\ Delivered' = {} /\ Promised' = Wanted'
      BY <1>2 DEF Begin, Promised, Delivered, IndInv, SenderInSpan, Running, TypeOK
    <3>2. Wanted' = start .. end - 1 BY <1>2, <3>1 DEF Begin, Wanted
    <3>3. start \in Nat /\ end \in Nat /\ end <= MaxSize BY DEF IndInv, SenderInSpan, TypeOK
    <3> QED BY <3>1, <3>2, <3>3 DEF Promise!Offsets
  <2> QED BY <2>1, <2>2 DEF Promise!Next, Promise!Begin
<1>3. ASSUME UNCHANGED <<stored, start, end, offset, allSent, result>>, snd # "new", snd' # "new",
             (allSent => least < end <=> least' < end)
      PROVE  UNCHANGED <<Report, Promised, Delivered>>
  BY <1>3 DEF Report, Promised, Delivered, Wanted, Running
<1>4. CASE ReadSource \/ Acquire \/ FrameWritten
  BY <1>3, <1>4 DEF ReadSource, Acquire, FrameWritten
<1>5. CASE SenderResumes
  <2>1. ~allSent BY <1>5 DEF SenderResumes, IndInv, SenderInSpan, Running
  <2> QED BY <1>5, <2>1 DEF SenderResumes, Report, Promised, Delivered, Wanted, Running
<1>6. CASE SentAll
  <2>1. Report = "moving" /\ Report' = "moving" /\ UNCHANGED Delivered
    BY <1>6 DEF SentAll, Report, Delivered, Running
  <2>2. Promised = Wanted /\ Promised' = Wanted' /\ Delivered = stored /\ stored \subseteq Recorded
        /\ Recorded = start .. offset - 1
    BY <1>6 DEF SentAll, Promised, Delivered, Running, IndInv, BytesStored, Recorded, TypeOK
  <2>3. /\ Wanted = start .. end - 1
        /\ Wanted' = start .. offset - 1 \/ Wanted' = start .. end - 1
        /\ offset <= end /\ offset \in Nat /\ end \in Nat /\ start \in Nat
    BY <1>6 DEF SentAll, Wanted, IndInv, SenderInSpan, Running, TypeOK
  <2>4. Delivered \subseteq Promised' /\ Promised' \subseteq Promised
    <3>1. start .. offset - 1 \subseteq start .. end - 1 BY <2>3
    <3> QED BY <2>2, <2>3, <3>1
  <2> QED BY <2>1, <2>4 DEF Promise!Next, Promise!Narrow
<1>7. CASE RunReturns
  <2>1. Report = "moving" /\ Report' = "whole" /\ UNCHANGED <<Promised, Delivered>>
    BY <1>7 DEF RunReturns, Report, Promised, Delivered, Wanted, Running
  <2>2. Running /\ allSent /\ outstanding = {} /\ Delivered = stored /\ Promised = Wanted
    BY <1>7 DEF RunReturns, IndInv, EndIsEnd, Delivered, Promised, Running
  <2>3. CellsOf(outstanding) = {} BY <2>2, CellOf
  <2>4. stored = start .. offset - 1
    <3>1. BytesStored BY <2>2 DEF IndInv
    <3>2. Recorded = start .. offset - 1 BY <1>7 DEF RunReturns, Recorded, IndInv, TypeOK
    <3> QED BY <2>3, <3>1, <3>2 DEF BytesStored
  <2>5. Wanted = start .. offset - 1
    BY <2>2 DEF Wanted, IndInv, SenderInSpan, TypeOK
  <2> QED BY <2>1, <2>2, <2>4, <2>5 DEF Promise!Next, Promise!Complete
<1>8. ASSUME NEW a \in answers, Acknowledge(a) PROVE UNCHANGED <<Report, Promised, Delivered>>
  BY <1>3, <1>8 DEF Acknowledge, TakeAnswer, Listening
<1>9. ASSUME Running, snd # "new", result' = "raised", snd' = "over"
      PROVE  Promise!Next
  BY <1>9 DEF Report, Promised, Delivered, Running, Promise!Next, Promise!Fail
<1>10. ASSUME NEW a \in answers, Refusal(a) PROVE Promise!Next
  BY <1>9, <1>10 DEF Refusal, TakeAnswer, Listening
<1>11. CASE IdleTimeout \/ Interrupt
  BY <1>9, <1>11 DEF IdleTimeout, Interrupt, Listening
<1>12. ASSUME NEW c \in wire, ServerWrites(c) PROVE [Promise!Next]_<<Report, Promised, Delivered>>
  <2>1. CASE result = "raised"
    BY <1>12, <2>1 DEF ServerWrites, Report, Promised, Delivered, Running
  <2>2. CASE result # "raised"
    <3>1. Running /\ snd # "new"
      BY <1>12, <2>2 DEF IndInv, EndIsEnd, SenderInSpan, Running, TypeOK
    <3>2. Report = "moving" /\ UNCHANGED <<Report, Promised>> /\ Delivered = stored
          /\ Delivered' = stored' /\ Promised = Wanted
      BY <1>12, <3>1 DEF ServerWrites, Report, Promised, Delivered, Wanted, Running
    <3>3. stored \subseteq stored' BY <1>12 DEF ServerWrites
    <3>4. stored' \subseteq Recorded' /\ Recorded' = Recorded
      BY <1>12, <3>1 DEF ServerWrites, IndInv, BytesStored, Recorded, Running
    <3>5. Recorded \subseteq Wanted
      BY <3>1 DEF Recorded, Wanted, IndInv, SenderInSpan, Running, TypeOK
    <3> QED BY <3>2, <3>3, <3>4, <3>5 DEF Promise!Next, Promise!Move
  <2> QED BY <2>1, <2>2
<1>13. CASE SourceShifts
  <2>1. allSent /\ offset # end => least < end /\ least' < end
    BY <1>13 DEF SourceShifts, Lesser, IndInv, SenderInSpan, TypeOK
  <2> QED BY <1>13, <2>1 DEF SourceShifts, Report, Promised, Delivered, Wanted, Running
<1>14. CASE UNCHANGED vars
  BY <1>14 DEF vars, Report, Promised, Delivered, Wanted, Running
<1> QED
  BY <1>1, <1>2, <1>4, <1>5, <1>6, <1>7, <1>8, <1>10, <1>11, <1>12, <1>13, <1>14
  DEF Next, SenderSteps, ReceiverSteps, ServerSteps

\* An upload implements the abstract transfer: it fixes its span, moves bytes and takes none
\* back, gives up what a shrunken source no longer has, and reports success only with all of
\* the rest on the server (PipelinedUpload.run).
THEOREM UploadKeepsPromise == Spec => KeepsPromise
<1>1. Init => Promise!Init
  BY DEF Init, Promise!Init, Report, Promised, Delivered, Running
<1>2. IndInv /\ IndInv' /\ [Next]_vars => [Promise!Next]_<<Report, Promised, Delivered>>
  BY StepKeepsPromise
<1> QED BY Inductive, <1>1, <1>2, PTL DEF Spec, KeepsPromise, Promise!Spec
===============================================================================
