----------------------------- MODULE SessionProofs -----------------------------
(***************************************************************************)
(* Proofs about what is built on a session's requests, in the order of     *)
(* MCSession: Operations, Filesystem, Probes and Facade, each a            *)
(* specification and an invariant of its own.                              *)
(*                                                                         *)
(* Operations: tasks meet only in the working directory and in what the    *)
(* server has.  So the invariant is one statement about each task by       *)
(* itself, Sound, which speaks of no variable but the task's own record:   *)
(* what its request is about, and what its answer and its history have to  *)
(* do with each other.  It survives what the others do because a path is   *)
(* resolved when the call is made, and a place a task means is watched     *)
(* from then on.                                                           *)
(*                                                                         *)
(* Filesystem: files and the server's table of handles name each other     *)
(* while the connection lives (Ledger), and what a writer has sent and     *)
(* what it keeps are together what its caller wrote (Buffering).           *)
(*                                                                         *)
(* Probes: what is in the directory is still claimed or has been reported  *)
(* (Accounted), what a probe knows by its step is what the server is       *)
(* (PosixKnown), and each fact before the one being asked has a finding    *)
(* (Passed).                                                               *)
(*                                                                         *)
(* Facade: an object is entered once, so what is opened for one is never   *)
(* opened for another (Unborn, Held), and what its calls have given and    *)
(* what it keeps are together what the server has answered (Streams).      *)
(***************************************************************************)
EXTENDS Operations, Filesystem, Probes, Facade,
        FiniteSetTheorems, WellFoundedInduction, SequenceTheorems, TLAPS

-------------------------------------------------------------------------------
(* The operations of a session *)

Results == {"none", "true", "false", "raised", "protocol", "incapable", "timeout"}
Requests == {"none", "STAT", "LSTAT", "MKDIR", "ROOT", "REALPATH"}
            \cup {Extension[op] : op \in DOMAIN Extension}
AnyAnswer == {"none", "failure", "junk", "absent", "vague", "done", "unsupported"}
             \cup Kinds \cup Place \cup {Foreign}
Task == [call : Asked \cup {Resting.call}, means : Place \cup {NoPath}, bound : BOOLEAN,
         todo : Seq(Place), again : BOOLEAN, asks : Requests,
         of : Place \cup {Relative, NoPath}, answer : AnyAnswer, result : Results,
         was : SUBSET Kinds, performed : BOOLEAN, went : SUBSET Place]

OpsTypeOK ==
    /\ there \in [Place -> Kinds]
    /\ cwd \in Place \cup {NoPath} /\ probed \in Place \cup {Foreign, NoPath}
    /\ unsupported \cap offer = {}
    /\ task \in [Caller -> Task]

\* Where the requests of a call that is tied to a place may go.
Allowed(k) == IF k.call.op = "makedirs" THEN Ancestors(k.means) ELSE {k.means}

\* Which requests belong to which calls.
Asking(k) ==
    /\ k.call.op \in {"exists", "isdir"} => k.asks = "STAT"
    /\ k.call.op = "lexists" => k.asks = "LSTAT"
    /\ k.call.op \in {"mkdir", "makedirs"} => k.asks \in {"MKDIR", "LSTAT"}
    /\ k.call.op = "chdir" => k.asks \in {"ROOT", "REALPATH", "STAT"}
    /\ k.call.op = "getcwd" => k.asks = "ROOT"
    /\ k.call.op \in DOMAIN Extension => k.asks = Extension[k.call.op]
    /\ k.asks \in {"STAT", "LSTAT", "MKDIR", "REALPATH"} => k.of # NoPath

\* The request is about the place the caller meant.
AtPlace(k) == Meant(k.of) = k.means

\* What the request of each call is about: the place that was meant, or for makedirs one
\* above it, behind which the place that was meant is still to be made.
Aiming(k) ==
    /\ k.call.op \in {"exists", "isdir", "lexists", "chdir"} => AtPlace(k)
    /\ k.call.op = "chdir" /\ k.asks = "STAT" => k.of = k.means
    /\ k.call.op \in {"mkdir", "makedirs"} =>
          /\ k.todo = <<>> => (k.bound \/ k.asks = "MKDIR" => AtPlace(k))
          /\ k.todo # <<>> => k.bound /\ k.call.op = "makedirs" /\ k.todo[Len(k.todo)] = k.means
    /\ k.bound =>
          /\ k.of # Relative /\ k.went \subseteq Allowed(k)
          /\ k.call.op \in {"mkdir", "makedirs"} =>
                k.of \in Allowed(k) /\ \A i \in DOMAIN k.todo : k.todo[i] \in Allowed(k)

\* What an answer says was so since the call began.
Hearing(k) ==
    /\ AtPlace(k) =>
          /\ k.asks \in {"STAT", "LSTAT"} /\ k.answer = "absent" => "absent" \in k.was
          /\ k.asks \in {"STAT", "LSTAT"} /\ k.answer \in {"vague", "dir", "file", "link"} =>
                \E w \in k.was \ {"absent"} :
                    k.answer # "vague" =>
                        k.answer = IF k.asks = "STAT" THEN Followed(w) ELSE w
          /\ k.asks = "MKDIR" /\ k.answer = "done" => "dir" \in k.was
    /\ k.asks \in {"STAT", "LSTAT"} =>
          k.answer \in {"none", "failure", "junk", "absent", "vague", "dir", "file", "link"}
    /\ k.asks = "MKDIR" => k.answer \in {"none", "failure", "junk", "done"}
    /\ k.asks = "REALPATH" /\ k.answer \in Place => k.answer = Meant(k.of)
    /\ k.call.op \in {"mkdir", "makedirs"} /\ ~k.bound /\ k.performed => "dir" \in k.was
    /\ k.call.op \in DOMAIN Extension => k.performed = (k.answer = "done")

Sound(k) ==
    /\ k \in Task
    /\ k.asks = "none" => ~k.bound
    /\ k.asks # "none" =>
          /\ k.call \in Asked /\ k.means \in Place /\ k.result = "none"
          /\ Asking(k) /\ Aiming(k) /\ Hearing(k)

IndInv == OpsTypeOK /\ \A t \in Caller : Sound(task[t])

-------------------------------------------------------------------------------
(* Paths *)

LEMMA UpTyped == \A p \in Place : Up[p] \in Place /\ Under[p] \in Place
BY OperationsAssumption

LEMMA AncestorsClosed ==
    ASSUME NEW p \in Place
    PROVE  /\ Ancestors(p) \subseteq Place /\ p \in Ancestors(p)
           /\ \A q \in Ancestors(p) : Up[q] \in Ancestors(p)
<1>1. \A q \in Place : Up[q] \in Place BY UpTyped
<1>2. ASSUME NEW q \in Ancestors(p) PROVE Up[q] \in Ancestors(p)
  <2>1. q \in Place BY DEF Ancestors
  <2>2. ASSUME NEW S \in SUBSET Place, p \in S, Closed(S) PROVE Up[q] \in S
    <3>1. q \in S BY <2>2 DEF Ancestors
    <3> QED BY <3>1, <2>2 DEF Closed
  <2> QED BY <1>1, <2>1, <2>2 DEF Ancestors
<1> QED BY <1>2 DEF Ancestors

\* A path is resolved to what the caller means, and only once.
LEMMA Resolving ==
    ASSUME OpsTypeOK, NEW path \in Place \cup {Relative}
    PROVE  /\ Intended(path) \in Place
           /\ Resolve(path) \in Place \cup {Relative} /\ Meant(Resolve(path)) = Intended(path)
           /\ Resolve(Resolve(path)) = Resolve(path)
           /\ path # Relative \/ cwd # NoPath => Resolve(path) \in Place
           /\ path # Relative => Resolve(path) = path
BY OperationsAssumption, UpTyped DEF OpsTypeOK, Intended, Resolve, Meant

LEMMA MeantTyped ==
    /\ \A path \in Place \cup {Relative} : Meant(path) \in Place
    /\ \A path \in Place : Meant(path) = path
    /\ Meant(NoPath) = NoPath
BY OperationsAssumption, UpTyped DEF Meant

-------------------------------------------------------------------------------
(* What happens to one task's record *)

LEMMA RestingTyped == Resting \in Task
BY DEF Resting, Task, Requests, AnyAnswer, Results

LEMMA RestingSound ==
    ASSUME NEW r \in Results, NEW k
    PROVE  Sound(Returns(k, r)) /\ Returns(k, r).result = r
<1>1. Resting.asks = "none" /\ ~Resting.bound
  BY DEF Resting
<1> QED BY <1>1, RestingTyped DEF Returns, Sound, Task, Resting

\* A task that watches its place misses nothing, and forgets nothing.
LEMMA SeenSound ==
    ASSUME NEW k, Sound(k), NEW now \in [Place -> Kinds]
    PROVE  /\ Sound(Seen(k, now)) /\ Seen(k, now).asks = k.asks
           /\ Seen(k, now).result = k.result
<1>1. CASE k.asks = "none" BY <1>1 DEF Seen
<1>2. CASE k.asks # "none"
  <2> DEFINE s == Seen(k, now)
  <2>1. /\ s \in Task /\ k.was \subseteq s.was
        /\ s.call = k.call /\ s.means = k.means /\ s.bound = k.bound /\ s.todo = k.todo
        /\ s.asks = k.asks /\ s.of = k.of /\ s.answer = k.answer /\ s.result = k.result
        /\ s.performed = k.performed /\ s.went = k.went
    BY <1>2 DEF Seen, Sound, Task
  <2> HIDE DEF s
  <2>2. Asking(s) BY <1>2, <2>1 DEF Sound, Asking
  <2>3. Aiming(s) BY <1>2, <2>1 DEF Sound, Aiming, AtPlace, Allowed
  <2>4. Hearing(s) BY <1>2, <2>1 DEF Sound, Hearing, AtPlace
  <2> QED BY <1>2, <2>1, <2>2, <2>3, <2>4 DEF Sound, s
<1> QED BY <1>1, <1>2

-------------------------------------------------------------------------------
(* The calls *)

\* A call begins with its path resolved to what its caller means.
LEMMA BeginSound ==
    ASSUME OpsTypeOK, NEW t \in Caller, NEW c \in Asked, Begin(t, c)
    PROVE  Sound(task'[t]) /\ \A u \in Caller \ {t} : task'[u] = task[u]
<1> DEFINE k == [Resting EXCEPT !.call = c, !.means = Intended(c.path),
                                !.bound = c.path # Relative \/ cwd # NoPath,
                                !.was = {there[Intended(c.path)]}]
           path == Resolve(c.path)
<1>1. /\ c.op \in Ops /\ c.path \in Place \cup {Relative}
      /\ DOMAIN Extension \subseteq Ops
  BY OperationsAssumption DEF Ops
<1>2. /\ Intended(c.path) \in Place
      /\ path \in Place \cup {Relative} /\ Meant(path) = Intended(c.path)
      /\ Resolve(path) = path /\ (k.bound => path \in Place)
  BY <1>1, Resolving DEF Resting
<1>3. /\ k \in Task /\ k.call = c /\ k.means = Intended(c.path) /\ k.todo = <<>>
      /\ k.answer = "none" /\ k.result = "none" /\ ~k.performed /\ k.went = {}
      /\ k.bound \in BOOLEAN
  <2>1. Resting \in Task BY RestingTyped
  <2>2. there[Intended(c.path)] \in Kinds BY <1>2 DEF OpsTypeOK
  <2>3. /\ Resting.todo = <<>> /\ Resting.answer = "none" /\ Resting.result = "none"
        /\ Resting.performed = FALSE /\ Resting.went = {}
    BY DEF Resting
  <2> HIDE DEF Resting
  <2> QED BY <1>2, <2>1, <2>2, <2>3 DEF Task
<1>4. task[t] \in Task /\ \A u \in Caller \ {t} : task'[u] = task[u]
  BY DEF Begin, OpsTypeOK
<1> DEFINE first == task'[t]
<1> HIDE DEF k
<1>6. /\ c.op \in {"exists", "isdir"} => first = Asks(k, "STAT", path)
      /\ c.op = "lexists" => first = Asks(k, "LSTAT", path)
      /\ c.op \in {"mkdir", "makedirs"} => first = Asks(k, "MKDIR", path)
      /\ c.op = "chdir" => first = EntersRooted([k EXCEPT !.of = path])
      /\ c.op = "getcwd" => first = IF cwd # NoPath \/ probed # NoPath
                                            THEN Returns(k, "true") ELSE AsksFor(k, "ROOT")
      /\ c.op \in DOMAIN Extension => first = TriesExtension(k)
  BY <1>1 DEF Begin, OpsTypeOK, k, Extension
<1> HIDE DEF first, path
<1>7. CASE c.op \in {"exists", "isdir", "lexists", "mkdir", "makedirs"}
  <2>1. PICK request \in {"STAT", "LSTAT", "MKDIR"} :
           /\ first = Asks(k, request, path)
           /\ c.op \in {"exists", "isdir"} => request = "STAT"
           /\ c.op = "lexists" => request = "LSTAT"
           /\ c.op \in {"mkdir", "makedirs"} => request = "MKDIR"
    BY <1>6, <1>7
  <2>2. /\ first \in Task /\ first.call = c /\ first.means = k.means /\ first.bound = k.bound
        /\ first.todo = <<>> /\ first.asks = request /\ first.of = path
        /\ first.answer = "none" /\ first.result = "none" /\ ~first.performed
        /\ first.went = {Meant(path)}
    <3>1. first = [k EXCEPT !.asks = request, !.of = path, !.answer = "none",
                            !.went = @ \cup {Meant(path)}]
      BY <2>1, <1>2 DEF Asks, AsksRaw
    <3>2. Meant(path) \in Place BY <1>2
    <3>3. request \in Requests /\ "none" \in AnyAnswer BY DEF Requests, AnyAnswer
    <3> QED BY <3>1, <3>2, <3>3, <1>2, <1>3 DEF Task
  <2>3. AtPlace(first) BY <2>2, <1>2, <1>3 DEF AtPlace
  <2>4. Asking(first) BY <2>1, <2>2, <1>2, <1>7, OperationsAssumption DEF Asking, Extension
  <2>5. Aiming(first)
    <3>1. first.bound => Meant(path) = path /\ path \in Place /\ path # Relative
      BY <2>2, <1>2, MeantTyped, OperationsAssumption
    <3>2. first.means \in Place /\ first.means \in Allowed(first)
      BY <2>2, <1>2, <1>3, AncestorsClosed DEF Allowed
    <3> QED BY <2>1, <2>2, <2>3, <3>1, <3>2, <1>2, <1>3, <1>7 DEF Aiming, Extension
  <2>6. Hearing(first) BY <2>1, <2>2, <1>7 DEF Hearing, Extension
  <2> QED BY <2>1, <2>2, <2>4, <2>5, <2>6, <1>2, <1>3, <1>4 DEF Sound, first
<1>8. CASE c.op = "chdir"
  <2> DEFINE m == [k EXCEPT !.of = path]
  <2>1. /\ m \in Task /\ m.call = c /\ m.means = k.means /\ m.bound = k.bound
        /\ m.todo = <<>> /\ m.of = path /\ m.answer = "none" /\ m.result = "none"
        /\ ~m.performed /\ m.went = {} /\ m \in Task
    BY <1>2, <1>3 DEF Task
  <2>2. first = EntersRooted(m) BY <1>6, <1>8
  <2> HIDE DEF m
  <2>3. CASE first \in {Returns(m, "incapable")}
    BY <2>3, <1>4, RestingSound DEF Results, first
  <2>4. CASE first = [m EXCEPT !.asks = "ROOT"] \/ first = AsksRaw(m, "REALPATH", m.of)
    <3>1. /\ first \in Task /\ first.call = c /\ first.means = k.means /\ first.bound = k.bound
          /\ first.todo = <<>> /\ first.of = path
          /\ first.answer = "none" /\ first.result = "none" /\ ~first.performed
          /\ first.went \subseteq {Meant(path)} /\ first.asks \in {"ROOT", "REALPATH"}
      <4>1. CASE first = [m EXCEPT !.asks = "ROOT"]
        BY <2>1, <4>1, <1>3 DEF Task, Requests
      <4>2. CASE first = AsksRaw(m, "REALPATH", m.of)
        <5>1. first = [m EXCEPT !.asks = "REALPATH", !.of = path, !.answer = "none",
                                !.went = @ \cup {Meant(path)}]
          BY <2>1, <4>2 DEF AsksRaw
        <5>2. Meant(path) \in Place BY <1>2
        <5>3. "REALPATH" \in Requests /\ "none" \in AnyAnswer BY DEF Requests, AnyAnswer
        <5> QED BY <2>1, <5>1, <5>2, <5>3, <1>2, <1>3 DEF Task
      <4> QED BY <2>4, <4>1, <4>2
    <3>2. AtPlace(first) BY <3>1, <1>2, <1>3 DEF AtPlace
    <3>3. Asking(first) BY <3>1, <1>2, <1>8, OperationsAssumption DEF Asking, Extension
    <3>4. Aiming(first)
      BY <3>1, <3>2, <1>2, <1>3, <1>8, OperationsAssumption DEF Aiming, Allowed
    <3>5. Hearing(first)
      BY <3>1, <1>8, OperationsAssumption, <1>2, MeantTyped DEF Hearing, Extension
    <3> QED BY <3>1, <3>3, <3>4, <3>5, <1>2, <1>3, <1>4 DEF Sound, first
  <2> QED BY <2>2, <2>3, <2>4 DEF EntersRooted, Canonicalises
<1>9. CASE c.op = "getcwd" \/ c.op \in DOMAIN Extension
  <2>1. CASE \E r \in Results : first = Returns(k, r)
    BY <2>1, <1>4, RestingSound DEF first
  <2>2. CASE first = AsksFor(k, IF c.op = "getcwd" THEN "ROOT" ELSE Extension[c.op])
    <3>1. (IF c.op = "getcwd" THEN "ROOT" ELSE Extension[c.op]) \in Requests \ {"none"}
      BY <1>9 DEF Requests, Extension
    <3>2. /\ first \in Task /\ first.call = c /\ first.means = k.means /\ first.bound = k.bound
          /\ first.todo = <<>> /\ first.of = NoPath
          /\ first.answer = "none" /\ first.result = "none" /\ ~first.performed
          /\ first.went = {}
          /\ first.asks = IF c.op = "getcwd" THEN "ROOT" ELSE Extension[c.op]
      BY <2>2, <3>1, <1>3 DEF AsksFor, Task, AnyAnswer
    <3>3. Asking(first) BY <3>2, <1>9 DEF Asking, Extension
    <3>4. Aiming(first) BY <3>2, <1>9, OperationsAssumption DEF Aiming, Extension
    <3>5. ~AtPlace(first)
      BY <3>2, <1>2, <1>3, MeantTyped, OperationsAssumption DEF AtPlace
    <3>6. first.asks \notin {"STAT", "LSTAT", "MKDIR", "REALPATH"}
      BY <3>2, <1>9 DEF Extension
    <3>7. first.performed = FALSE /\ first.answer # "done" BY <3>2 DEF Task
    <3>8. c.op \notin {"mkdir", "makedirs"} BY <1>9 DEF Extension
    <3>9. Hearing(first) BY <3>2, <3>5, <3>6, <3>7, <3>8 DEF Hearing
    <3> QED BY <3>1, <3>2, <3>3, <3>4, <3>9, <1>2, <1>3, <1>4 DEF Sound, first
  <2>3. c.op = "getcwd" => (\E r \in Results : first = Returns(k, r)) \/ first = AsksFor(k, "ROOT")
    BY <1>6 DEF Results
  <2>4. ASSUME c.op \in DOMAIN Extension
        PROVE (\E r \in Results : first = Returns(k, r)) \/ first = AsksFor(k, Extension[c.op])
    BY <2>4, <1>3, <1>6 DEF Results, TriesExtension
  <2>5. c.op \in DOMAIN Extension => c.op # "getcwd" BY DEF Extension
  <2> QED BY <1>9, <2>1, <2>2, <2>3, <2>4, <2>5
<1> QED BY <1>1, <1>4, <1>7, <1>8, <1>9 DEF Ops, first

-------------------------------------------------------------------------------
(* The server *)

LEMMA AnswersTyped ==
    ASSUME NEW k, Sound(k), k.asks # "none", OpsTypeOK, NEW answer \in Answers(k.asks, k.of)
    PROVE  /\ answer \in AnyAnswer \ {"none"}
           /\ k.asks \in {"STAT", "LSTAT"} =>
                 answer \in {"failure", "junk", "absent", "vague", "dir", "file", "link"}
           /\ k.asks = "MKDIR" => answer \in {"failure", "junk", "done"}
           /\ k.asks = "REALPATH" /\ answer \in Place => answer = Meant(k.of)
<1>1. \A path \in Place \cup {Relative} : there[Meant(path)] \in Kinds
  BY MeantTyped DEF OpsTypeOK
<1>2. k \in Task BY DEF Sound
<1>3. CASE k.asks \in {"STAT", "LSTAT"}
  <2>1. k.of \in Place \cup {Relative} BY <1>2, <1>3 DEF Sound, Asking, Task
  <2>2. there[Meant(k.of)] \in Kinds BY <1>1, <2>1
  <2> QED BY <1>3, <2>2 DEF Answers, AnyAnswer, Kinds, Followed
<1>4. CASE k.asks = "MKDIR" BY <1>4 DEF Answers, AnyAnswer
<1>5. CASE k.asks = "ROOT" BY <1>5, OperationsAssumption DEF Answers, AnyAnswer
<1>6. CASE k.asks = "REALPATH" 
  <2>1. k.of \in Place \cup {Relative} BY <1>2, <1>6 DEF Sound, Asking, Task
  <2> QED BY <1>6, <2>1, MeantTyped, OperationsAssumption DEF Answers, AnyAnswer
<1>7. CASE k.asks \notin {"STAT", "LSTAT", "MKDIR", "ROOT", "REALPATH"}
  BY <1>7 DEF Answers, AnyAnswer
<1> QED BY <1>3, <1>4, <1>5, <1>6, <1>7

\* An answer says what was the case when it was given, and the task was watching then.
LEMMA ServeSound ==
    ASSUME OpsTypeOK, \A u \in Caller : Sound(task[u]), NEW t \in Caller,
           NEW answer \in Answers(task[t].asks, task[t].of), Serve(t, answer)
    PROVE  /\ there' \in [Place -> Kinds]
           /\ \A u \in Caller : Sound(task'[u])
                                /\ (task[u].asks # "none" => task'[u].result = "none")
<1> DEFINE k == task[t]
           now == IF k.asks = "MKDIR" /\ answer = "done"
                  THEN [there EXCEPT ![Meant(k.of)] = "dir"] ELSE there
           s == Seen(k, now)
           new == [s EXCEPT !.answer = answer, !.performed = @ \/ answer = "done"]
<1>1. /\ k.asks # "none" /\ k.answer = "none" /\ there' = now
      /\ \A u \in Caller : task'[u] = IF u # t THEN Seen(task[u], now) ELSE new
  BY DEF Serve
<1>2. Sound(k) /\ k \in Task BY DEF Sound
<1>3. now \in [Place -> Kinds] BY DEF OpsTypeOK, Kinds
<1>4. Sound(s) /\ s.asks = k.asks /\ s.result = "none"
  BY <1>1, <1>2, <1>3, SeenSound DEF Sound
<1>5. s = [k EXCEPT !.was = @ \cup {now[k.means]}] BY <1>1 DEF Seen
<1>6. /\ answer \in AnyAnswer \ {"none"}
      /\ k.asks \in {"STAT", "LSTAT"} =>
            answer \in {"failure", "junk", "absent", "vague", "dir", "file", "link"}
      /\ k.asks = "MKDIR" => answer \in {"failure", "junk", "done"}
      /\ k.asks = "REALPATH" /\ answer \in Place => answer = Meant(k.of)
  BY <1>1, <1>2, AnswersTyped
<1>7. /\ new \in Task /\ new.call = k.call /\ new.means = k.means /\ new.bound = k.bound
      /\ new.todo = k.todo /\ new.asks = k.asks /\ new.of = k.of /\ new.went = k.went
      /\ new.result = "none" /\ new.answer = answer /\ now[k.means] \in new.was
      /\ k.was \subseteq new.was /\ new.performed = (k.performed \/ answer = "done")
  <2>1. /\ s \in Task /\ s.call = k.call /\ s.means = k.means /\ s.bound = k.bound
        /\ s.todo = k.todo /\ s.asks = k.asks /\ s.of = k.of /\ s.went = k.went
        /\ s.was = k.was \cup {now[k.means]} /\ s.performed = k.performed
    BY <1>2, <1>4, <1>5 DEF Sound, Task
  <2>2. (k.performed \/ answer = "done") \in BOOLEAN OBVIOUS
  <2> HIDE DEF s, now
  <2> QED BY <2>1, <2>2, <1>4, <1>6 DEF Task
<1>8. k.means \in Place /\ k.call \in Asked /\ Asking(k) /\ Aiming(k) /\ Hearing(k)
  BY <1>1, <1>2 DEF Sound
<1>9. ASSUME AtPlace(k), k.asks \in {"STAT", "LSTAT"}
      PROVE  /\ answer = "absent" => there[k.means] = "absent"
             /\ answer \in {"vague", "dir", "file", "link"} =>
                   /\ there[k.means] # "absent"
                   /\ answer # "vague" =>
                        answer = IF k.asks = "STAT" THEN Followed(there[k.means])
                                 ELSE there[k.means]
  <2>1. there[Meant(k.of)] = there[k.means] /\ there[k.means] \in Kinds
    BY <1>8, <1>9 DEF AtPlace, OpsTypeOK
  <2> QED BY <2>1, <1>9 DEF Answers, Kinds, Followed
<1>10. AtPlace(k) /\ k.asks = "MKDIR" /\ answer = "done" => now[k.means] = "dir"
  BY <1>8 DEF AtPlace, OpsTypeOK
<1>11. k.asks \in {"STAT", "LSTAT"} => now = there OBVIOUS
<1> HIDE DEF new, now, s
<1>12. Asking(new) BY <1>7, <1>8 DEF Asking
<1>13. Aiming(new) BY <1>7, <1>8 DEF Aiming, AtPlace, Allowed
<1>14. Hearing(new)
  <2>1. AtPlace(new) = AtPlace(k) BY <1>7 DEF AtPlace
  <2>2. ASSUME AtPlace(new)
        PROVE  /\ new.asks \in {"STAT", "LSTAT"} /\ new.answer = "absent" => "absent" \in new.was
               /\ new.asks \in {"STAT", "LSTAT"} /\ new.answer \in {"vague", "dir", "file", "link"} =>
                     \E w \in new.was \ {"absent"} :
                        new.answer # "vague" =>
                            new.answer = IF new.asks = "STAT" THEN Followed(w) ELSE w
               /\ new.asks = "MKDIR" /\ new.answer = "done" => "dir" \in new.was
    BY <2>1, <2>2, <1>7, <1>9, <1>10, <1>11
  <2>3. k.call.op \in {"mkdir", "makedirs"} /\ ~k.bound /\ new.performed => "dir" \in new.was
    <3>1. CASE k.performed BY <3>1, <1>7, <1>8 DEF Hearing
    <3>2. CASE answer = "done" /\ k.call.op \in {"mkdir", "makedirs"} /\ ~k.bound
      <4>1. k.asks = "MKDIR" BY <3>2, <1>6, <1>8 DEF Asking
      <4>2. AtPlace(k) BY <4>1, <3>2, <1>8 DEF Aiming
      <4> QED BY <4>1, <4>2, <3>2, <1>7, <1>10
    <3> QED BY <3>1, <3>2, <1>7
  <2>4. k.call.op \in DOMAIN Extension => new.performed = (new.answer = "done")
    <3>1. k.call.op \in DOMAIN Extension => k.performed = FALSE
      BY <1>1, <1>8 DEF Hearing
    <3> QED BY <3>1, <1>7
  <2> QED BY <2>2, <2>3, <2>4, <1>6, <1>7 DEF Hearing
<1>15. Sound(new) BY <1>1, <1>7, <1>8, <1>12, <1>13, <1>14 DEF Sound
<1>16. \A u \in Caller \ {t} : Sound(Seen(task[u], now)) /\ Seen(task[u], now).result = task[u].result
  BY <1>3, SeenSound
<1> QED BY <1>1, <1>3, <1>7, <1>15, <1>16 DEF Sound

LEMMA AlterSound ==
    ASSUME OpsTypeOK, \A u \in Caller : Sound(task[u]), NEW p, NEW k \in Kinds, Alter(p, k)
    PROVE  /\ there' \in [Place -> Kinds]
           /\ \A u \in Caller : Sound(task'[u])
                                /\ (task[u].asks # "none" => task'[u].result = "none")
<1>1. there' \in [Place -> Kinds] BY DEF Alter, OpsTypeOK
<1>2. \A u \in Caller : task'[u] = Seen(task[u], there') BY DEF Alter
<1> QED BY <1>1, <1>2, SeenSound DEF Sound

-------------------------------------------------------------------------------
(* What a task makes of an answer *)

\* A step of a task leaves it sound, tells the truth if it ends the call, and is its own.
Turned(t) == /\ Sound(task'[t]) /\ Truthful(task[t], task'[t].result)
            /\ \A u \in Caller \ {t} : task'[u] = task[u]

LEMMA SilenceIsTruthful ==
    ASSUME NEW k, NEW r \in Results \ {"true", "false"} PROVE Truthful(k, r)
BY DEF Truthful, IfSupported

LEMMA TruthOf ==
    ASSUME NEW k, NEW w \in k.was
    PROVE  /\ k.call.op \in {"exists", "lexists"} /\ w = "absent" => Truthful(k, "false")
           /\ k.call.op = "exists" /\ Followed(w) # "absent" => Truthful(k, "true")
           /\ k.call.op = "lexists" /\ w # "absent" => Truthful(k, "true")
           /\ k.call.op = "isdir" /\ Followed(w) # "dir" => Truthful(k, "false")
           /\ k.call.op \in {"isdir", "chdir"} /\ Followed(w) = "dir" => Truthful(k, "true")
           /\ k.call.op \in {"mkdir", "makedirs"} /\ w = "dir" => Truthful(k, "true")
<1> DEFINE kinds == {Followed(v) : v \in k.was}
<1>1. Followed(w) \in kinds OBVIOUS
<1>2. w = "absent" => Followed(w) = "absent" BY DEF Followed
<1>3. w = "dir" => Followed(w) = "dir" BY DEF Followed
<1> HIDE DEF kinds
<1>4. k.call.op \in {"exists", "lexists"} /\ w = "absent" => Truthful(k, "false")
  BY <1>1, <1>2 DEF Truthful, IfSupported, kinds
<1>5. k.call.op = "exists" /\ Followed(w) # "absent" => Truthful(k, "true")
  BY <1>1 DEF Truthful, IfSupported, kinds
<1>6. k.call.op = "lexists" /\ w # "absent" => Truthful(k, "true")
  BY DEF Truthful, IfSupported
<1>7. k.call.op = "isdir" /\ Followed(w) # "dir" => Truthful(k, "false")
  BY <1>1 DEF Truthful, IfSupported, kinds
<1>8. k.call.op \in {"isdir", "chdir"} /\ Followed(w) = "dir" => Truthful(k, "true")
  BY <1>1 DEF Truthful, IfSupported, kinds
<1>9. k.call.op \in {"mkdir", "makedirs"} /\ w = "dir" => Truthful(k, "true")
  BY <1>1, <1>3 DEF Truthful, IfSupported, kinds
<1> QED BY <1>4, <1>5, <1>6, <1>7, <1>8, <1>9

LEMMA ReturnsMoved ==
    ASSUME OpsTypeOK, NEW t \in Caller, NEW r \in Results, task' = [task EXCEPT ![t] = Returns(task[t], r)],
           Truthful(task[t], r)
    PROVE  Turned(t)
<1>1. Returns(task[t], r).result = r /\ Sound(Returns(task[t], r)) BY RestingSound
<1> QED BY <1>1 DEF Turned, Moves, OpsTypeOK

LEMMA RaisesMoved ==
    ASSUME OpsTypeOK, NEW t \in Caller, task' = [task EXCEPT ![t] = Raises(task[t])]
    PROVE  Turned(t)
<1>1. PICK r \in {"protocol", "raised"} : Raises(task[t]) = Returns(task[t], r) BY DEF Raises
<1>2. r \in Results \ {"true", "false"} BY DEF Results
<1> QED BY <1>1, <1>2, SilenceIsTruthful, ReturnsMoved

LEMMA AttributesMoved ==
    ASSUME OpsTypeOK, NEW t \in Caller, Sound(task[t]), Attributes(t)
    PROVE  Turned(t)
<1> DEFINE k == task[t]
<1>1. /\ k.asks \in {"STAT", "LSTAT"} /\ k.answer # "none"
      /\ k.call.op \in {"exists", "isdir", "lexists"}
      /\ k.asks = "LSTAT" <=> k.call.op = "lexists"
  BY DEF Attributes, Waits
<1>2. /\ AtPlace(k) /\ Hearing(k) BY <1>1 DEF Sound, Aiming
<1>3. k.answer \in {"failure", "junk", "absent", "vague", "dir", "file", "link"}
  BY <1>1, <1>2 DEF Hearing
<1>4. CASE k.answer = "absent"
  <2>1. task' = [task EXCEPT ![t] = Returns(k, "false")] BY <1>4 DEF Attributes, Moves, Absent
  <2>2. "absent" \in k.was BY <1>1, <1>2, <1>4 DEF Hearing
  <2>3. Followed("absent") # "dir" BY DEF Followed
  <2>4. Truthful(k, "false") BY <1>1, <2>2, <2>3, TruthOf
  <2> QED BY <2>1, <2>4, ReturnsMoved DEF Results
<1>5. CASE k.answer \in {"failure", "junk"}
  <2>1. task' = [task EXCEPT ![t] = Raises(k)] BY <1>5 DEF Attributes, Moves, Absent, ServerError
  <2> QED BY <2>1, RaisesMoved
<1>6. CASE k.answer \in {"vague", "dir", "file", "link"}
  <2>1. PICK w \in k.was \ {"absent"} :
           k.answer # "vague" => k.answer = IF k.asks = "STAT" THEN Followed(w) ELSE w
    BY <1>1, <1>2, <1>6 DEF Hearing
  <2>2. w \in k.was /\ Followed(w) # "absent"
    BY <2>1 DEF Followed
  <2>3. CASE k.call.op # "isdir" \/ k.answer = "dir"
    <3>1. task' = [task EXCEPT ![t] = Returns(k, "true")]
      BY <1>6, <2>3 DEF Attributes, Moves, Absent, ServerError
    <3>2. Truthful(k, "true") BY <1>1, <2>1, <2>2, <2>3, TruthOf
    <3> QED BY <3>1, <3>2, ReturnsMoved DEF Results
  <2>4. CASE k.call.op = "isdir" /\ k.answer = "vague"
    <3>1. task' = [task EXCEPT ![t] = Returns(k, "incapable")]
      BY <2>4 DEF Attributes, Moves, Absent, ServerError
    <3> QED BY <3>1, SilenceIsTruthful, ReturnsMoved DEF Results
  <2>5. CASE k.call.op = "isdir" /\ k.answer \in {"file", "link"}
    <3>1. task' = [task EXCEPT ![t] = Returns(k, "false")]
      BY <2>5 DEF Attributes, Moves, Absent, ServerError
    <3>2. Truthful(k, "false") BY <1>1, <2>1, <2>2, <2>5, TruthOf
    <3> QED BY <3>1, <3>2, ReturnsMoved DEF Results
  <2> QED BY <1>6, <2>3, <2>4, <2>5
<1> QED BY <1>3, <1>4, <1>5, <1>6

\* A further request of a mkdir, about a path that was resolved: for a call that is tied to a
\* place it is about that path still, whatever the working directory is by now.
LEMMA AskingAgain ==
    ASSUME OpsTypeOK, NEW k, k \in Task, k.call \in Asked, k.means \in Place, k.result = "none",
           k.call.op \in {"mkdir", "makedirs"}, NEW request \in {"MKDIR", "LSTAT"},
           NEW path \in Place \cup {Relative},
           k.bound => /\ path # Relative /\ path \in Allowed(k) /\ k.went \subseteq Allowed(k)
                      /\ \A i \in DOMAIN k.todo : k.todo[i] \in Allowed(k)
                      /\ k.todo = <<>> => path = k.means,
           k.todo # <<>> => k.bound /\ k.call.op = "makedirs" /\ k.todo[Len(k.todo)] = k.means,
           request = "MKDIR" => k.bound,
           ~k.bound /\ k.performed => "dir" \in k.was
    PROVE  Sound(Asks(k, request, path)) /\ Asks(k, request, path).result = "none"
<1> DEFINE n == Asks(k, request, path)
           to == Resolve(path)
<1>1. to \in Place \cup {Relative} /\ Meant(to) \in Place /\ (path # Relative => to = path /\ Meant(to) = to)
  BY Resolving, MeantTyped
<1>2. n = [k EXCEPT !.asks = request, !.of = to, !.answer = "none", !.went = @ \cup {Meant(to)}]
  BY DEF Asks, AsksRaw
<1>3. request \in Requests \ {"none"} /\ "none" \in AnyAnswer BY DEF Requests, AnyAnswer
<1> HIDE DEF n, to
<1>4. /\ n \in Task /\ n.call = k.call /\ n.means = k.means /\ n.bound = k.bound
      /\ n.todo = k.todo /\ n.asks = request /\ n.of = to /\ n.went = k.went \cup {Meant(to)}
      /\ n.result = "none" /\ n.answer = "none" /\ n.was = k.was /\ n.performed = k.performed
  BY <1>1, <1>2, <1>3 DEF Task
<1>5. Asking(n) BY <1>1, <1>4, OperationsAssumption DEF Asking, Extension
<1>6. Aiming(n) BY <1>1, <1>4 DEF Aiming, AtPlace, Allowed
<1>7. Hearing(n)
  BY <1>1, <1>4, OperationsAssumption DEF Hearing, Extension
<1> QED BY <1>3, <1>4, <1>5, <1>6, <1>7 DEF Sound, n

\* What both answers to a mkdir leave behind: the directory is there, or it is not.
Making(k) == /\ Sound(k) /\ k.call.op \in {"mkdir", "makedirs"} /\ k.asks \in {"MKDIR", "LSTAT"}
             /\ k.answer \notin {"none", "junk"}

LEMMA MadeOneSound ==
    ASSUME OpsTypeOK, NEW k, Making(k),
           k.todo = <<>> /\ (k.bound \/ k.performed) => "dir" \in k.was
    PROVE  Sound(MadeOne(k)) /\ Truthful(k, MadeOne(k).result)
<1>1. /\ k \in Task /\ k.call \in Asked /\ k.means \in Place /\ k.result = "none"
      /\ Aiming(k) /\ Hearing(k)
  BY DEF Making, Sound
<1>2. CASE k.todo = <<>>
  <2>1. MadeOne(k) = Returns(k, "true") BY <1>2 DEF MadeOne
  <2>2. Truthful(k, "true")
    <3>1. CASE k.bound \/ k.performed BY <1>2, <3>1, TruthOf DEF Making
    <3>2. CASE ~(k.bound \/ k.performed) BY <3>2 DEF Truthful, Making, IfSupported
    <3> QED BY <3>1, <3>2
  <2> QED BY <2>1, <2>2, RestingSound DEF Results
<1>3. CASE k.todo # <<>>
  <2> DEFINE m == [k EXCEPT !.todo = Tail(@), !.again = TRUE]
             next == Head(k.todo)
  <2>1. k.bound /\ k.call.op = "makedirs" /\ k.todo[Len(k.todo)] = k.means
    BY <1>1, <1>3 DEF Aiming, Making
  <2>2. /\ k.todo \in Seq(Place) /\ Len(k.todo) \in Nat \ {0} /\ next = k.todo[1] /\ next \in Place
        /\ Tail(k.todo) \in Seq(Place) /\ Len(Tail(k.todo)) = Len(k.todo) - 1
        /\ \A i \in DOMAIN Tail(k.todo) : i + 1 \in DOMAIN k.todo /\ Tail(k.todo)[i] = k.todo[i + 1]
    BY <1>1, <1>3, HeadTailProperties DEF Task
  <2>3. /\ m \in Task /\ m.call = k.call /\ m.means = k.means /\ m.bound = k.bound
        /\ m.todo = Tail(k.todo) /\ m.went = k.went /\ m.result = "none" /\ m.was = k.was
        /\ m.performed = k.performed
    BY <1>1, <2>2 DEF Task
  <2>4. MadeOne(k) = Asks(m, "MKDIR", next) BY <1>3 DEF MadeOne
  <2> HIDE DEF m, next
  <2>5. Allowed(m) = Allowed(k) BY <2>3 DEF Allowed
  <2>6. /\ next # Relative /\ next \in Place /\ next \in Allowed(k) /\ k.went \subseteq Allowed(k)
        /\ \A i \in DOMAIN m.todo : m.todo[i] \in Allowed(k)
    BY <1>1, <2>1, <2>2, <2>3, OperationsAssumption DEF Aiming
  <2>7. m.todo = <<>> => next = k.means
    <3>1. m.todo = <<>> => Len(k.todo) = 1
      <4>1. Len(<<>>) = 0 OBVIOUS
      <4>2. m.todo = <<>> => Len(Tail(k.todo)) = 0 BY <4>1, <2>3
      <4> QED BY <4>2, <2>2
    <3> QED BY <3>1, <2>1, <2>2
  <2>8. m.todo # <<>> => m.todo[Len(m.todo)] = k.means
    <3>1. m.todo # <<>> => Len(m.todo) > 0 BY <2>2, <2>3, EmptySeq
    <3>2. m.todo # <<>> => Len(m.todo) \in DOMAIN m.todo BY <3>1, <2>2, <2>3
    <3> QED BY <3>2, <2>1, <2>2, <2>3
  <2>9. Sound(Asks(m, "MKDIR", next)) /\ Asks(m, "MKDIR", next).result = "none"
    <3>1. /\ OpsTypeOK /\ m \in Task /\ m.call \in Asked /\ m.means \in Place /\ m.result = "none"
          /\ m.bound /\ m.call.op = "makedirs"
      BY <1>1, <2>1, <2>3
    <3>2. /\ next # Relative /\ next \in Place /\ next \in Allowed(m) /\ m.went \subseteq Allowed(m)
          /\ \A i \in DOMAIN m.todo : m.todo[i] \in Allowed(m)
      BY <2>3, <2>5, <2>6
    <3>3. /\ m.todo = <<>> => next = m.means
          /\ m.todo # <<>> => m.todo[Len(m.todo)] = m.means
      BY <2>3, <2>7, <2>8
    <3>4. "MKDIR" \in {"MKDIR", "LSTAT"} /\ next \in Place \cup {Relative} BY <3>2
    <3> QED BY <3>1, <3>2, <3>3, <3>4, AskingAgain
  <2> QED BY <2>4, <2>9, SilenceIsTruthful DEF Results
<1> QED BY <1>2, <1>3

LEMMA NotMadeSound ==
    ASSUME OpsTypeOK, NEW k, Making(k)
    PROVE  Sound(NotMade(k)) /\ Truthful(k, NotMade(k).result)
<1>1. /\ k \in Task /\ k.call \in Asked /\ k.means \in Place /\ k.result = "none"
      /\ Aiming(k) /\ Hearing(k) /\ Asking(k)
  BY DEF Making, Sound
<1> DEFINE stops == k.call.op = "mkdir" \/ k.again \/ ~k.bound \/ Up[Up[k.of]] = Up[k.of]
<1>2. CASE stops
  <2>1. NotMade(k) = Returns(k, "raised") BY <1>2 DEF NotMade
  <2> QED BY <2>1, RestingSound, SilenceIsTruthful DEF Results
<1>3. CASE ~stops
  <2> DEFINE m == [k EXCEPT !.todo = <<k.of>> \o @]
             next == Up[k.of]
  <2>1. k.bound /\ k.call.op = "makedirs" BY <1>3 DEF Making
  <2>2. /\ k.of \in Allowed(k) /\ Allowed(k) = Ancestors(k.means) /\ Allowed(k) \subseteq Place
        /\ next \in Allowed(k) /\ k.went \subseteq Allowed(k)
        /\ \A i \in DOMAIN k.todo : k.todo[i] \in Allowed(k)
    BY <1>1, <2>1, AncestorsClosed DEF Aiming, Allowed, Making
  <2>3. next # Relative /\ next \in Place /\ k.of \in Place BY <2>2, OperationsAssumption
  <2>4. /\ k.todo \in Seq(Place) /\ Len(k.todo) \in Nat
        /\ <<k.of>> \o k.todo \in Seq(Place) /\ Len(<<k.of>> \o k.todo) = Len(k.todo) + 1
        /\ (<<k.of>> \o k.todo)[1] = k.of
        /\ \A i \in 1 .. Len(k.todo) : (<<k.of>> \o k.todo)[i + 1] = k.todo[i]
    BY <1>1, <2>3 DEF Task
  <2>5. /\ m \in Task /\ m.call = k.call /\ m.means = k.means /\ m.bound = k.bound
        /\ m.todo = <<k.of>> \o k.todo /\ m.went = k.went /\ m.result = "none" /\ m.was = k.was
        /\ m.performed = k.performed
    BY <1>1, <2>4 DEF Task
  <2>6. NotMade(k) = Asks(m, "MKDIR", next) BY <1>3 DEF NotMade
  <2>7. ASSUME NEW i \in DOMAIN m.todo PROVE m.todo[i] \in Allowed(k)
    <3>1. i \in 1 .. Len(k.todo) + 1 BY <2>4, <2>5, <2>7
    <3>2. CASE i = 1 BY <3>2, <2>2, <2>4, <2>5
    <3>3. CASE i # 1
      <4>1. i - 1 \in 1 .. Len(k.todo) /\ (i - 1) + 1 = i BY <3>1, <3>3, <2>4
      <4>2. m.todo[i] = k.todo[i - 1] BY <4>1, <2>4, <2>5
      <4> QED BY <4>1, <4>2, <2>2, <2>4
    <3> QED BY <3>2, <3>3
  <2>8. m.todo # <<>> /\ m.todo[Len(m.todo)] = k.means
    <3>1. CASE k.todo = <<>>
      <4>1. k.of = k.means BY <1>1, <2>1, <2>3, <3>1, MeantTyped DEF Aiming, AtPlace, Making
      <4>2. Len(k.todo) = 0 BY <3>1
      <4> QED BY <4>1, <4>2, <2>4, <2>5
    <3>2. CASE k.todo # <<>>
      <4>1. k.todo[Len(k.todo)] = k.means BY <1>1, <3>2 DEF Aiming, Making
      <4>2. Len(k.todo) \in 1 .. Len(k.todo) BY <3>2, <2>4, EmptySeq
      <4> QED BY <4>1, <4>2, <2>4, <2>5
    <3> QED BY <3>1, <3>2
  <2> HIDE DEF m, next
  <2>9. Allowed(m) = Allowed(k) BY <2>5 DEF Allowed
  <2>10. Sound(Asks(m, "MKDIR", next)) /\ Asks(m, "MKDIR", next).result = "none"
    BY <1>1, <2>1, <2>2, <2>3, <2>5, <2>7, <2>8, <2>9, AskingAgain
  <2> QED BY <2>6, <2>10, SilenceIsTruthful DEF Results
<1> QED BY <1>2, <1>3

\* A step that gives a task a sound record is a step of that task alone.
LEMMA GivesMoved ==
    ASSUME OpsTypeOK, NEW t \in Caller, NEW k, task' = [task EXCEPT ![t] = k], Sound(k),
           Truthful(task[t], k.result)
    PROVE  Turned(t)
BY DEF Turned, OpsTypeOK

LEMMA MkdirMoved ==
    ASSUME OpsTypeOK, NEW t \in Caller, Sound(task[t]), Mkdir(t)
    PROVE  Turned(t)
<1> DEFINE k == task[t]
<1>1. /\ k.asks = "MKDIR" /\ k.answer # "none" /\ k.call.op \in {"mkdir", "makedirs"}
  BY DEF Mkdir, Waits
<1>2. /\ k \in Task /\ k.call \in Asked /\ k.means \in Place /\ k.result = "none"
      /\ Aiming(k) /\ Hearing(k) /\ Asking(k)
  BY <1>1 DEF Sound
<1>3. k.answer \in {"failure", "junk", "done"} BY <1>1, <1>2 DEF Hearing
<1>4. CASE k.answer = "done"
  <2>1. task' = [task EXCEPT ![t] = MadeOne(k)] BY <1>4 DEF Mkdir, Moves
  <2>2. k.todo = <<>> => "dir" \in k.was BY <1>1, <1>2, <1>4 DEF Hearing, Aiming
  <2>3. Sound(MadeOne(k)) /\ Truthful(k, MadeOne(k).result)
    BY <1>1, <1>4, <2>2, MadeOneSound DEF Making
  <2> QED BY <2>1, <2>3, GivesMoved
<1>5. CASE k.answer = "junk"
  <2>1. task' = [task EXCEPT ![t] = Raises(k)] BY <1>5 DEF Mkdir, Moves
  <2> QED BY <2>1, RaisesMoved
<1>6. CASE k.answer = "failure" /\ (k.call.ok \/ k.todo # <<>>)
  <2>1. task' = [task EXCEPT ![t] = Asks(k, "LSTAT", k.of)] BY <1>6 DEF Mkdir, Moves
  <2>2. k.of \in Place \cup {Relative} BY <1>1, <1>2 DEF Asking, Task
  <2>3. k.bound => /\ k.of # Relative /\ k.of \in Allowed(k) /\ k.went \subseteq Allowed(k)
                   /\ \A i \in DOMAIN k.todo : k.todo[i] \in Allowed(k)
                   /\ k.todo = <<>> => k.of = k.means
    BY <1>1, <1>2, <2>2, MeantTyped DEF Aiming, AtPlace
  <2>4. k.todo # <<>> => k.bound /\ k.call.op = "makedirs" /\ k.todo[Len(k.todo)] = k.means
    BY <1>1, <1>2 DEF Aiming
  <2>5. ~k.bound /\ k.performed => "dir" \in k.was BY <1>1, <1>2 DEF Hearing
  <2>6. Sound(Asks(k, "LSTAT", k.of)) /\ Asks(k, "LSTAT", k.of).result = "none"
    BY <1>1, <1>2, <2>2, <2>3, <2>4, <2>5, AskingAgain
  <2> QED BY <2>1, <2>6, SilenceIsTruthful, GivesMoved DEF Results
<1>7. CASE k.answer = "failure" /\ ~(k.call.ok \/ k.todo # <<>>)
  <2>1. task' = [task EXCEPT ![t] = NotMade(k)] BY <1>7 DEF Mkdir, Moves
  <2>2. Sound(NotMade(k)) /\ Truthful(k, NotMade(k).result)
    BY <1>1, <1>7, NotMadeSound DEF Making
  <2> QED BY <2>1, <2>2, GivesMoved
<1> QED BY <1>3, <1>4, <1>5, <1>6, <1>7

LEMMA IsDirectoryMoved ==
    ASSUME OpsTypeOK, NEW t \in Caller, Sound(task[t]), IsDirectory(t)
    PROVE  Turned(t)
<1> DEFINE k == task[t]
<1>1. /\ k.asks = "LSTAT" /\ k.answer # "none" /\ k.call.op \in {"mkdir", "makedirs"}
  BY DEF IsDirectory, Waits
<1>2. Aiming(k) /\ Hearing(k) BY <1>1 DEF Sound
<1>3. CASE k.answer = "junk"
  <2>1. task' = [task EXCEPT ![t] = Raises(k)] BY <1>3 DEF IsDirectory, Moves
  <2> QED BY <2>1, RaisesMoved
<1>4. CASE k.answer = "dir"
  <2>1. task' = [task EXCEPT ![t] = MadeOne(k)] BY <1>4 DEF IsDirectory, Moves
  <2>2. k.todo = <<>> /\ k.bound => "dir" \in k.was
    BY <1>1, <1>2, <1>4 DEF Hearing, Aiming
  <2>3. ~k.bound /\ k.performed => "dir" \in k.was BY <1>1, <1>2 DEF Hearing
  <2>4. Sound(MadeOne(k)) /\ Truthful(k, MadeOne(k).result)
    BY <1>1, <1>4, <2>2, <2>3, MadeOneSound DEF Making
  <2> QED BY <2>1, <2>4, GivesMoved
<1>5. CASE k.answer \notin {"junk", "dir"}
  <2>1. task' = [task EXCEPT ![t] = NotMade(k)] BY <1>5 DEF IsDirectory, Moves
  <2>2. Sound(NotMade(k)) /\ Truthful(k, NotMade(k).result)
    BY <1>1, <1>5, NotMadeSound DEF Making
  <2> QED BY <2>1, <2>2, GivesMoved
<1> QED BY <1>3, <1>4, <1>5

\* REALPATH, or the refusal of it where paths are not rooted.
LEMMA CanonicalisesSound ==
    ASSUME NEW k, k \in Task, Sound(k), k.asks # "none", k.call.op = "chdir", NEW root
    PROVE  /\ Sound(Canonicalises(k, root))
           /\ Canonicalises(k, root).result \in {"none", "incapable"}
<1>1. /\ k.call \in Asked /\ k.means \in Place /\ k.result = "none" /\ Aiming(k) /\ Hearing(k)
  BY DEF Sound
<1>2. CASE Canonicalises(k, root) = Returns(k, "incapable")
  BY <1>2, RestingSound DEF Results
<1>3. CASE Canonicalises(k, root) = AsksRaw(k, "REALPATH", k.of)
  <2> DEFINE n == AsksRaw(k, "REALPATH", k.of)
  <2>1. AtPlace(k) /\ k.of \in Place \cup {Relative}
    BY <1>1, MeantTyped, OperationsAssumption DEF Aiming, AtPlace, Task
  <2>2. n = [k EXCEPT !.asks = "REALPATH", !.of = k.of, !.answer = "none",
                      !.went = @ \cup {k.means}]
    BY <2>1 DEF AsksRaw, AtPlace
  <2>3. "REALPATH" \in Requests /\ "none" \in AnyAnswer BY DEF Requests, AnyAnswer
  <2> HIDE DEF n
  <2>4. /\ n \in Task /\ n.call = k.call /\ n.means = k.means /\ n.bound = k.bound
        /\ n.todo = k.todo /\ n.asks = "REALPATH" /\ n.of = k.of /\ n.went = k.went \cup {k.means}
        /\ n.result = "none" /\ n.answer = "none" /\ n.was = k.was
    BY <1>1, <2>2, <2>3 DEF Task
  <2>5. Asking(n) BY <2>1, <2>4, OperationsAssumption DEF Asking, Extension
  <2>6. Aiming(n) BY <1>1, <2>1, <2>4 DEF Aiming, AtPlace, Allowed
  <2>7. Hearing(n) BY <2>4, OperationsAssumption DEF Hearing, Extension
  <2> QED BY <1>1, <1>3, <2>4, <2>5, <2>6, <2>7 DEF Sound, n
<1> QED BY <1>2, <1>3 DEF Canonicalises

LEMMA ProbeMoved ==
    ASSUME OpsTypeOK, NEW t \in Caller, Sound(task[t]), Probe(t)
    PROVE  Turned(t) /\ probed' \in Place \cup {Foreign, NoPath}
<1> DEFINE k == task[t]
           told == k.answer \in Place \cup {Foreign}
<1>1. k.asks = "ROOT" /\ k.call.op \in {"chdir", "getcwd"} /\ k \in Task /\ k.result = "none"
  BY DEF Probe, Waits, Sound
<1>2. probed' \in Place \cup {Foreign, NoPath} BY DEF Probe, OpsTypeOK
<1>3. CASE ~told
  <2>1. task' = [task EXCEPT ![t] = Raises(k)] BY <1>3 DEF Probe, Moves
  <2> QED BY <1>2, <2>1, RaisesMoved
<1>4. CASE told /\ k.call.op = "getcwd"
  <2>1. task' = [task EXCEPT ![t] = Returns(k, "true")] BY <1>4 DEF Probe, Moves
  <2>2. Truthful(k, "true") BY <1>4 DEF Truthful, IfSupported
  <2> QED BY <1>2, <2>1, <2>2, ReturnsMoved DEF Results
<1>5. CASE told /\ k.call.op = "chdir"
  <2>1. task' = [task EXCEPT ![t] = Canonicalises(k, k.answer)] BY <1>5 DEF Probe, Moves
  <2>2. /\ Sound(Canonicalises(k, k.answer))
        /\ Canonicalises(k, k.answer).result \in {"none", "incapable"}
    BY <1>1, <1>5, CanonicalisesSound
  <2> QED BY <1>2, <2>1, <2>2, SilenceIsTruthful, GivesMoved DEF Results
<1> QED BY <1>1, <1>3, <1>4, <1>5

LEMMA CanonicalMoved ==
    ASSUME OpsTypeOK, NEW t \in Caller, Sound(task[t]), Canonical(t)
    PROVE  Turned(t)
<1> DEFINE k == task[t]
<1>1. k.asks = "REALPATH" /\ k.answer # "none" /\ k.call.op = "chdir"
  BY DEF Canonical, Waits
<1>2. /\ k \in Task /\ k.call \in Asked /\ k.means \in Place /\ k.result = "none"
      /\ Aiming(k) /\ Hearing(k) /\ AtPlace(k)
  BY <1>1 DEF Sound, Aiming
<1>3. CASE k.answer \notin Place
  <2>1. task' = [task EXCEPT ![t] = Raises(k)] BY <1>3 DEF Canonical, Moves
  <2> QED BY <2>1, RaisesMoved
<1>4. CASE k.answer \in Place
  <2> DEFINE n == Asks(k, "STAT", k.answer)
  <2>1. task' = [task EXCEPT ![t] = n] BY <1>4 DEF Canonical, Moves
  <2>2. k.answer = k.means BY <1>1, <1>2, <1>4 DEF Hearing, AtPlace
  <2>3. Resolve(k.means) = k.means /\ Meant(k.means) = k.means /\ k.means # Relative
    BY <1>2, Resolving, MeantTyped, OperationsAssumption
  <2>4. n = [k EXCEPT !.asks = "STAT", !.of = k.means, !.answer = "none",
                      !.went = @ \cup {k.means}]
    BY <2>2, <2>3 DEF Asks, AsksRaw
  <2>5. "STAT" \in Requests /\ "none" \in AnyAnswer BY DEF Requests, AnyAnswer
  <2> HIDE DEF n
  <2>6. /\ n \in Task /\ n.call = k.call /\ n.means = k.means /\ n.bound = k.bound
        /\ n.todo = k.todo /\ n.asks = "STAT" /\ n.of = k.means /\ n.went = k.went \cup {k.means}
        /\ n.result = "none" /\ n.answer = "none" /\ n.was = k.was
    BY <1>2, <2>4, <2>5 DEF Task
  <2>7. Asking(n) BY <1>1, <1>2, <2>6, OperationsAssumption DEF Asking, Extension
  <2>8. Aiming(n) BY <1>1, <1>2, <2>3, <2>6 DEF Aiming, AtPlace, Allowed
  <2>9. Hearing(n) BY <1>1, <2>6 DEF Hearing, Extension
  <2>10. Sound(n) BY <1>2, <2>6, <2>7, <2>8, <2>9 DEF Sound
  <2> QED BY <2>1, <2>6, <2>10, SilenceIsTruthful, GivesMoved DEF Results
<1> QED BY <1>3, <1>4

LEMMA EnterMoved ==
    ASSUME OpsTypeOK, NEW t \in Caller, Sound(task[t]), Enter(t)
    PROVE  Turned(t) /\ cwd' \in Place \cup {NoPath}
<1> DEFINE k == task[t]
<1>1. k.asks = "STAT" /\ k.answer # "none" /\ k.call.op = "chdir" BY DEF Enter, Waits
<1>2. k \in Task /\ k.means \in Place /\ Aiming(k) /\ AtPlace(k) /\ Hearing(k) /\ Asking(k)
  BY <1>1 DEF Sound, Aiming
<1>3. CASE k.answer = "dir"
  <2>1. task' = [task EXCEPT ![t] = Returns(k, "true")] /\ cwd' = k.of
    BY <1>3 DEF Enter, Moves
  <2>2. PICK w \in k.was : Followed(w) = "dir" BY <1>1, <1>2, <1>3 DEF Hearing
  <2>3. Truthful(k, "true") BY <1>1, <2>2, TruthOf
  <2>4. k.of \in Place \cup {NoPath} BY <1>1, <1>2 DEF Aiming
  <2> QED BY <2>1, <2>3, <2>4, ReturnsMoved DEF Results
<1>4. CASE k.answer = "vague"
  <2>1. task' = [task EXCEPT ![t] = Returns(k, "incapable")] /\ cwd' = cwd
    BY <1>4 DEF Enter, Moves
  <2> QED BY <2>1, SilenceIsTruthful, ReturnsMoved DEF Results, OpsTypeOK
<1>5. CASE k.answer \notin {"dir", "vague"}
  <2>1. task' = [task EXCEPT ![t] = Raises(k)] /\ cwd' = cwd BY <1>5 DEF Enter, Moves
  <2> QED BY <2>1, RaisesMoved DEF OpsTypeOK
<1> QED BY <1>3, <1>4, <1>5

\* The server performed what it says it did, and nothing is learned of what it offers.
LEMMA AttemptedMoved ==
    ASSUME OpsTypeOK, NEW t \in Caller, Sound(task[t]), NEW op, Attempted(t, op)
    PROVE  Turned(t) /\ unsupported' \cap offer = {}
<1> DEFINE k == task[t]
           advertised == Extension[op] \in offer
           no == IF op \in IfSupported THEN "false" ELSE "incapable"
           raised == \/ k.answer = "junk" \/ op = "check_file"
                     \/ advertised /\ ~(k.answer = "unsupported" /\ op \in IfSupported)
<1>1. /\ op \in DOMAIN Extension /\ k.asks = Extension[op] /\ k.call.op = op
      /\ Extension[op] # "none"
  BY DEF Attempted, Waits, Extension
<1>2. k.performed = (k.answer = "done") /\ k \in Task BY <1>1 DEF Sound, Hearing
<1>3. unsupported' \cap offer = {} BY DEF Attempted, Learns, OpsTypeOK
<1>4. task' = [task EXCEPT ![t] = IF k.answer = "done" THEN Returns(k, "true")
                                  ELSE IF raised THEN Raises(k) ELSE Returns(k, no)]
  BY DEF Attempted, Moves
<1> HIDE DEF raised
<1>5. CASE k.answer = "done"
  <2>1. task' = [task EXCEPT ![t] = Returns(k, "true")] BY <1>4, <1>5
  <2>2. Truthful(k, "true") BY <1>1, <1>2, <1>5 DEF Truthful, Extension
  <2> QED BY <1>3, <2>1, <2>2, ReturnsMoved DEF Results
<1>6. CASE k.answer # "done" /\ raised
  <2>1. task' = [task EXCEPT ![t] = Raises(k)] BY <1>4, <1>6
  <2> QED BY <1>3, <2>1, RaisesMoved
<1>7. CASE k.answer # "done" /\ ~raised
  <2>1. task' = [task EXCEPT ![t] = Returns(k, no)] BY <1>4, <1>7
  <2>2. Truthful(k, no) BY <1>1, <1>2, <1>7 DEF Truthful, Extension
  <2>3. no \in Results BY DEF Results
  <2> QED BY <1>3, <2>1, <2>2, <2>3, ReturnsMoved
<1> QED BY <1>5, <1>6, <1>7

LEMMA TimedOutMoved ==
    ASSUME OpsTypeOK, NEW t \in Caller, TimedOut(t) PROVE Turned(t)
<1>1. task' = [task EXCEPT ![t] = Returns(task[t], "timeout")] BY DEF TimedOut, Moves
<1> QED BY <1>1, SilenceIsTruthful, ReturnsMoved DEF Results

-------------------------------------------------------------------------------
(* The invariant *)

LEMMA InitInv == OpsInit => IndInv
<1> SUFFICES ASSUME OpsInit PROVE IndInv OBVIOUS
<1>1. there \in [Place -> Kinds] BY OperationsAssumption DEF OpsInit
<1>2. \A t \in Caller : task[t] = Resting BY DEF OpsInit
<1>3. OpsTypeOK BY <1>1, RestingTyped DEF OpsInit, OpsTypeOK
<1>4. Sound(Resting) BY RestingTyped DEF Sound, Resting
<1> QED BY <1>2, <1>3, <1>4 DEF IndInv

\* What any step does: it keeps the invariant, it ends a call with nothing but the truth, and
\* leaves the working directory a place and what the server offers known.
Kept == /\ IndInv'
        /\ \A t \in Caller : task[t].asks # "none" /\ task'[t].result # "none" =>
               Truthful(task[t], task'[t].result)
        /\ unsupported' \cap offer = {}
        /\ cwd' \in Place \cup {NoPath}

\* A step of one task.
LEMMA MovedKeeps ==
    ASSUME IndInv, NEW t \in Caller, Turned(t), task' = [task EXCEPT ![t] = task'[t]],
           there' = there, offer' = offer, cwd' \in Place \cup {NoPath},
           probed' \in Place \cup {Foreign, NoPath}, unsupported' \cap offer = {}
    PROVE  Kept
<1>1. \A u \in Caller : Sound(task'[u]) BY DEF IndInv, Turned
<1>2. task' \in [Caller -> Task]
  <2>1. task'[t] \in Task BY <1>1 DEF Sound
  <2> QED BY <2>1 DEF IndInv, OpsTypeOK
<1>3. OpsTypeOK' BY <1>2 DEF IndInv, OpsTypeOK
<1>4. IndInv' BY <1>1, <1>3 DEF IndInv
<1>5. ASSUME NEW u \in Caller, task[u].asks # "none", task'[u].result # "none"
      PROVE  Truthful(task[u], task'[u].result)
  BY <1>5 DEF Turned, IndInv, Sound
<1> QED BY <1>4, <1>5 DEF Kept

LEMMA NextKeeps == ASSUME IndInv, OpsNext PROVE Kept
<1>0. OpsTypeOK /\ \A t \in Caller : Sound(task[t]) BY DEF IndInv
<1>1. ASSUME NEW p \in Altered, NEW k \in Kinds, Alter(p, k) PROVE Kept
  <2>1. /\ there' \in [Place -> Kinds]
        /\ \A u \in Caller : Sound(task'[u])
                             /\ (task[u].asks # "none" => task'[u].result = "none")
    BY <1>0, <1>1, AlterSound
  <2>2. UNCHANGED <<offer, cwd, probed, unsupported>> /\ DOMAIN task' = Caller
        /\ task' = [u \in Caller |-> task'[u]]
    BY <1>1 DEF Alter, sessionVars
  <2>3. \A u \in Caller : task'[u] \in Task BY <2>1 DEF Sound
  <2>4. task' \in [Caller -> Task] BY <2>2, <2>3
  <2> QED BY <1>0, <2>1, <2>2, <2>4 DEF Kept, IndInv, OpsTypeOK
<1>2. ASSUME NEW t \in Caller, NEW answer \in Answers(task[t].asks, task[t].of), Serve(t, answer)
      PROVE  Kept
  <2>1. /\ there' \in [Place -> Kinds]
        /\ \A u \in Caller : Sound(task'[u])
                             /\ (task[u].asks # "none" => task'[u].result = "none")
    BY <1>0, <1>2, ServeSound
  <2>2. UNCHANGED <<offer, cwd, probed, unsupported>> /\ DOMAIN task' = Caller
        /\ task' = [u \in Caller |-> task'[u]]
    BY <1>2 DEF Serve, sessionVars
  <2>3. \A u \in Caller : task'[u] \in Task BY <2>1 DEF Sound
  <2>4. task' \in [Caller -> Task] BY <2>2, <2>3
  <2> QED BY <1>0, <2>1, <2>2, <2>4 DEF Kept, IndInv, OpsTypeOK
<1>3. ASSUME NEW t \in Caller, NEW c \in Asked, Begin(t, c) PROVE Kept
  <2>1. Sound(task'[t]) /\ \A u \in Caller \ {t} : task'[u] = task[u]
    BY <1>0, <1>3, BeginSound
  <2>2. task[t].asks = "none" /\ UNCHANGED <<there, offer, cwd, probed, unsupported>>
        /\ task' = [task EXCEPT ![t] = task'[t]]
    <3>1. \E r : task' = [task EXCEPT ![t] = r] BY <1>3 DEF Begin
    <3>2. task[t].asks = "none" /\ UNCHANGED <<serverVars, sessionVars>> BY <1>3 DEF Begin
    <3> QED BY <1>0, <3>1, <3>2 DEF serverVars, sessionVars, OpsTypeOK
  <2>3. \A u \in Caller : Sound(task'[u]) BY <1>0, <2>1
  <2>4. task'[t] \in Task BY <2>1 DEF Sound
  <2>5. task' \in [Caller -> Task] BY <1>0, <2>2, <2>4 DEF OpsTypeOK
  <2>6. ASSUME NEW u \in Caller, task[u].asks # "none", task'[u].result # "none"
        PROVE  Truthful(task[u], task'[u].result)
    BY <1>0, <2>1, <2>2, <2>6 DEF Sound
  <2> QED BY <1>0, <2>2, <2>3, <2>5, <2>6 DEF Kept, IndInv, OpsTypeOK
<1>4. ASSUME NEW t \in Caller, NEW k, Moves(t, k)
      PROVE  /\ UNCHANGED <<there, offer>> /\ task' = [task EXCEPT ![t] = task'[t]]
             /\ UNCHANGED <<cwd, probed, unsupported>> =>
                   /\ cwd' \in Place \cup {NoPath} /\ probed' \in Place \cup {Foreign, NoPath}
                   /\ unsupported' \cap offer = {}
  BY <1>0, <1>4 DEF Moves, serverVars, OpsTypeOK
<1> DEFINE Stepped(t) ==
        /\ UNCHANGED <<there, offer>> /\ task' = [task EXCEPT ![t] = task'[t]]
        /\ cwd' \in Place \cup {NoPath} /\ probed' \in Place \cup {Foreign, NoPath}
        /\ unsupported' \cap offer = {}
<1>5. ASSUME NEW t \in Caller, Attributes(t) PROVE Kept
  <2>1. Turned(t) BY <1>0, <1>5, AttributesMoved
  <2>2. Stepped(t)
    <3>1. PICK k : Moves(t, k) BY <1>5 DEF Attributes
    <3> QED BY <1>4, <1>5, <3>1 DEF Attributes, sessionVars
  <2> QED BY <2>1, <2>2, MovedKeeps
<1>6. ASSUME NEW t \in Caller, Mkdir(t) PROVE Kept
  <2>1. Turned(t) BY <1>0, <1>6, MkdirMoved
  <2>2. Stepped(t)
    <3>1. PICK k : Moves(t, k) BY <1>6 DEF Mkdir
    <3> QED BY <1>4, <1>6, <3>1 DEF Mkdir, sessionVars
  <2> QED BY <2>1, <2>2, MovedKeeps
<1>7. ASSUME NEW t \in Caller, IsDirectory(t) PROVE Kept
  <2>1. Turned(t) BY <1>0, <1>7, IsDirectoryMoved
  <2>2. Stepped(t)
    <3>1. PICK k : Moves(t, k) BY <1>7 DEF IsDirectory
    <3> QED BY <1>4, <1>7, <3>1 DEF IsDirectory, sessionVars
  <2> QED BY <2>1, <2>2, MovedKeeps
<1>8. ASSUME NEW t \in Caller, Probe(t) PROVE Kept
  <2>1. Turned(t) /\ probed' \in Place \cup {Foreign, NoPath} BY <1>0, <1>8, ProbeMoved
  <2>2. Stepped(t)
    <3>1. PICK k : Moves(t, k) BY <1>8 DEF Probe
    <3> QED BY <1>0, <1>4, <1>8, <2>1, <3>1 DEF Probe, OpsTypeOK
  <2> QED BY <2>1, <2>2, MovedKeeps
<1>9. ASSUME NEW t \in Caller, Canonical(t) PROVE Kept
  <2>1. Turned(t) BY <1>0, <1>9, CanonicalMoved
  <2>2. Stepped(t)
    <3>1. PICK k : Moves(t, k) BY <1>9 DEF Canonical
    <3> QED BY <1>4, <1>9, <3>1 DEF Canonical, sessionVars
  <2> QED BY <2>1, <2>2, MovedKeeps
<1>10. ASSUME NEW t \in Caller, Enter(t) PROVE Kept
  <2>1. Turned(t) /\ cwd' \in Place \cup {NoPath} BY <1>0, <1>10, EnterMoved
  <2>2. Stepped(t)
    <3>1. PICK k : Moves(t, k) BY <1>10 DEF Enter
    <3> QED BY <1>0, <1>4, <1>10, <2>1, <3>1 DEF Enter, OpsTypeOK
  <2> QED BY <2>1, <2>2, MovedKeeps
<1>11. ASSUME NEW t \in Caller, NEW op \in DOMAIN Extension, Attempted(t, op) PROVE Kept
  <2>1. Turned(t) /\ unsupported' \cap offer = {} BY <1>0, <1>11, AttemptedMoved
  <2>2. Stepped(t)
    <3>1. PICK k : Moves(t, k) BY <1>11 DEF Attempted
    <3> QED BY <1>0, <1>4, <1>11, <2>1, <3>1 DEF Attempted, OpsTypeOK
  <2> QED BY <2>1, <2>2, MovedKeeps
<1>12. ASSUME NEW t \in Caller, TimedOut(t) PROVE Kept
  <2>1. Turned(t) BY <1>0, <1>12, TimedOutMoved
  <2>2. Stepped(t)
    <3>1. PICK k : Moves(t, k) BY <1>12 DEF TimedOut
    <3> QED BY <1>4, <1>12, <3>1 DEF TimedOut, sessionVars
  <2> QED BY <2>1, <2>2, MovedKeeps
<1> QED BY <1>1, <1>2, <1>3, <1>5, <1>6, <1>7, <1>8, <1>9, <1>10, <1>11, <1>12 DEF OpsNext

LEMMA SpecInv == OpsSpec => []IndInv
<1>1. IndInv /\ UNCHANGED opVars => IndInv'
  BY DEF IndInv, OpsTypeOK, opVars
<1>2. IndInv /\ [OpsNext]_opVars => IndInv' BY <1>1, NextKeeps DEF Kept
<1> QED BY InitInv, <1>2, PTL DEF OpsSpec

-------------------------------------------------------------------------------
(* Theorems *)

\* All requests of a call go to the place its path meant when it was called, or to one above
\* it where makedirs makes those, whatever chdir the other tasks do meanwhile (_resolve).
THEOREM PathsHold == OpsSpec => []OnePathPerCall
<1>1. ASSUME IndInv PROVE OnePathPerCall
  <2> SUFFICES ASSUME NEW t \in Caller, task[t].bound
               PROVE  task[t].went \subseteq Allowed(task[t])
    BY DEF OnePathPerCall, Allowed
  <2> QED BY <1>1 DEF IndInv, Sound, Aiming
<1> QED BY SpecInv, <1>1, PTL

\* What a call answers was the case while it ran, nothing the server offered is given up, and
\* the session's working directory is a place (_attrs_or_absent, _classify, mkdir,
\* _mkdir_parents, chdir, _attempt_extension).
THEOREM AnswersHold == OpsSpec => AnswersAreTrue
<1> DEFINE Telling == /\ \A t \in Caller : task[t].asks # "none" /\ task'[t].result # "none" =>
                              Truthful(task[t], task'[t].result)
                      /\ unsupported' \cap offer = {}
                      /\ cwd' \in Place \cup {NoPath}
<1>1. IndInv /\ [OpsNext]_opVars => [Telling]_opVars BY NextKeeps DEF Kept
<1> QED BY SpecInv, <1>1, PTL DEF OpsSpec, AnswersAreTrue

-------------------------------------------------------------------------------
(* The fsspec filesystem *)

Block == Object \X Nat
Cell == Block \cup Path \cup {"hole"}
FileState == [is : {"new", "open", "closed"}, handle : Nat \cup {None}, written : Nat,
              buffer : Seq(Block), started : BOOLEAN]

FsTypeOK ==
    /\ connections \in Nat /\ broken \in Nat /\ broken <= connections
    /\ connection \in {None, connections}
    /\ DOMAIN table \subseteq Nat
    /\ \A h \in DOMAIN table :
         table[h] \in [of : Object, path : Path, for : {"read", "write"}]
    /\ content \in [Path -> Seq(Cell)]
    /\ file \in [Object -> FileState]
    /\ mark \in [Object -> [wrote : Seq(Block), raised : BOOLEAN]]
    /\ fetched # None => fetched.path = Target[fetched.of]

Grant(o) == [of |-> o, path |-> Target[o], for |-> IF Mode[o] = "wb" THEN "write" ELSE "read"]

\* Files and the server's table name each other, on a connection that lives.
Ledger ==
    /\ connection = None \/ Dead => DOMAIN table = {}
    /\ \A o \in Object :
         /\ file[o].is # "open" => file[o].handle = None
         /\ file[o].handle # None =>
              /\ connection # None
              /\ ~Dead => file[o].handle \in DOMAIN table /\ table[file[o].handle] = Grant(o)
    /\ \A h \in DOMAIN table : file[table[h].of].handle = h

\* What a writer has sent and what it keeps are together what its caller wrote; the server's
\* file goes at least as far as what was sent, and no further than what was written.
Halves(f, wrote) ==
    /\ f.written + Len(f.buffer) = Len(wrote)
    /\ \A i \in 1..Len(f.buffer) : f.buffer[i] = wrote[f.written + i]
Lands(f, wrote, blocks) ==
    /\ f.written <= Len(blocks) /\ Len(blocks) <= Len(wrote)
    /\ \A i \in 1..f.written : blocks[i] = wrote[i]
Writes(f, m, blocks) ==
    /\ f.is = "new" => ~f.started
    /\ ~f.started => f.handle = None /\ f.written = 0
    /\ f.is # "closed" => Halves(f, m.wrote)
    /\ f.started /\ f.is = "open" => Lands(f, m.wrote, blocks)
    /\ f.is = "closed" /\ ~m.raised => blocks = m.wrote
Buffering ==
    \A o \in Object :
        IF Mode[o] = "wb" THEN Writes(file[o], mark[o], content[Target[o]])
        ELSE file[o].buffer = <<>> /\ ~file[o].started

FsInv == FsTypeOK /\ Ledger /\ Buffering

LEMMA FsInitInv == FsInit => FsInv
<1> SUFFICES ASSUME FsInit PROVE FsInv OBVIOUS
<1>1. FsTypeOK
  <2>1. file \in [Object -> FileState] BY DEF FsInit, FileState
  <2>2. content \in [Path -> Seq(Cell)] BY DEF FsInit, Cell
  <2>3. mark \in [Object -> [wrote : Seq(Block), raised : BOOLEAN]] BY DEF FsInit
  <2>4. DOMAIN table = {} BY DEF FsInit
  <2>6. \A h \in DOMAIN table : table[h] \in [of : Object, path : Path, for : {"read", "write"}]
    BY <2>4
  <2>5. /\ connections = 0 /\ broken = 0 /\ connection = None
        /\ closedUnder = FALSE /\ fetched = None
    BY DEF FsInit
  <2>7. connections \in Nat /\ broken \in Nat /\ broken <= connections BY <2>5
  <2>8. connection \in {None, connections} BY <2>5
  <2>10. fetched # None => fetched.path = Target[fetched.of] BY <2>5
  <2> QED BY <2>1, <2>2, <2>3, <2>4, <2>6, <2>7, <2>8, <2>10 DEF FsTypeOK
<1>2. Ledger BY DEF FsInit, Ledger
<1>3. Buffering
  <2> SUFFICES ASSUME NEW o \in Object
               PROVE  /\ Mode[o] = "wb" => Writes(file[o], mark[o], content[Target[o]])
                      /\ Mode[o] # "wb" => file[o].buffer = <<>> /\ ~file[o].started
    BY DEF Buffering
  <2>1. /\ file[o].is = "new" /\ file[o].handle = None /\ file[o].written = 0
        /\ file[o].buffer = <<>> /\ ~file[o].started /\ mark[o].wrote = <<>>
    BY DEF FsInit
  <2> QED BY <2>1 DEF Writes, Halves
<1> QED BY <1>1, <1>2, <1>3 DEF FsInv

-------------------------------------------------------------------------------
(* What a step on one object keeps *)

Linked ==
    /\ broken' = broken
    /\ \/ connection' = connection /\ connections' = connections
       \/ connection = None /\ connection' = connections + 1 /\ connections' = connections + 1
Puts(o, f, m) == file' = [file EXCEPT ![o] = f] /\ mark' = [mark EXCEPT ![o] = m]

LEMMA CurrentIsTable ==
    ASSUME FsInv
      PROVE DOMAIN Current = DOMAIN table /\ \A h \in DOMAIN table : Current[h] = table[h]
<1>1. CASE connection = None BY <1>1 DEF FsInv, Ledger, Current
<1>2. CASE connection # None BY <1>2 DEF Current
<1> QED BY <1>1, <1>2

LEMMA ConnectedLinks == ASSUME Connected, UNCHANGED broken PROVE Linked
BY DEF Connected, Linked

\* The connection a step finds or makes is there after it, and lives if this one did.
LEMMA LinkedKeeps ==
    ASSUME FsInv, Linked
    PROVE  /\ connections' \in Nat /\ broken' \in Nat /\ broken' <= connections'
           /\ connection' \in {None, connections'}
           /\ connection # None => connection' # None /\ Dead' = Dead
           /\ connection = None => ~Dead'
<1> USE FilesystemAssumption DEF FsInv, FsTypeOK
<1>1. CASE connection' = connection /\ connections' = connections
  BY <1>1 DEF Linked, Dead
<1>2. CASE connection = None /\ connection' = connections + 1 /\ connections' = connections + 1
  BY <1>2 DEF Linked, Dead
<1> QED BY <1>1, <1>2 DEF Linked

\* Among so many handles one is free, for each that is not belongs to an object of its own.
LEMMA FreeHandleIsFree == ASSUME FsInv PROVE FreeHandle \in Nat /\ FreeHandle \notin DOMAIN Current
<1> DEFINE N == Cardinality(Object)
           H == 0..N
<1>1. N \in Nat BY FilesystemAssumption, FS_CardinalityType
<1>2. IsFiniteSet(H) /\ Cardinality(H) = N + 1 BY <1>1, FS_Interval
<1>3. \E h \in H : h \notin DOMAIN Current
  <2> SUFFICES ASSUME \A h \in H : h \in DOMAIN table PROVE FALSE BY CurrentIsTable
  <2> DEFINE owner == [h \in H |-> table[h].of]
  <2>1. owner \in [H -> Object] BY DEF FsInv, FsTypeOK
  <2>2. IsFiniteSet(Object) BY FilesystemAssumption
  <2>3. N < N + 1 BY <1>1
  <2>4. \E g, h \in H : g # h /\ owner[g] = owner[h]
    <3> HIDE DEF owner, H
    <3> QED BY <1>2, <2>1, <2>2, <2>3, FS_PigeonHole
  <2>5. \A h \in H : file[owner[h]].handle = h BY DEF FsInv, Ledger
  <2> QED BY <2>4, <2>5
<1>4. FreeHandle \in H /\ FreeHandle \notin DOMAIN Current BY <1>3 DEF FreeHandle
<1> QED BY <1>1, <1>4

LEMMA BufferingKept ==
    ASSUME FsInv, NEW o \in Object, NEW f, NEW m, Puts(o, f, m),
           \A p \in Path : p # Target[o] \/ Mode[o] # "wb" => content'[p] = content[p],
           IF Mode[o] = "wb" THEN Writes(f, m, content'[Target[o]])
           ELSE f.buffer = <<>> /\ ~f.started
    PROVE  Buffering'
<1> SUFFICES ASSUME NEW q \in Object
             PROVE  IF Mode[q] = "wb" THEN Writes(file'[q], mark'[q], content'[Target[q]])
                    ELSE file'[q].buffer = <<>> /\ ~file'[q].started
  BY DEF Buffering, Writes, Halves, Lands
<1>0. file'[o] = f /\ mark'[o] = m BY DEF FsInv, FsTypeOK, Puts
<1>1. CASE q = o BY <1>0, <1>1
<1>2. CASE q # o
  <2>1. file'[q] = file[q] /\ mark'[q] = mark[q] BY <1>2 DEF Puts, FsInv, FsTypeOK
  <2>2. Target[q] \in Path BY FilesystemAssumption
  <2>3. Mode[q] = "wb" => content'[Target[q]] = content[Target[q]]
    BY <1>2, <2>2, FilesystemAssumption
  <2> QED BY <2>1, <2>3 DEF FsInv, Buffering
<1> QED BY <1>1, <1>2

LEMMA LedgerKept ==
    ASSUME FsInv, NEW o \in Object, NEW f, NEW m, Puts(o, f, m), Linked,
           f.handle = file[o].handle, f.is # "open" => f.handle = None,
           DOMAIN table' = DOMAIN table, \A h \in DOMAIN table : table'[h] = table[h]
    PROVE  Ledger'
<1> USE DEF FsInv, FsTypeOK
<1>1. /\ connection # None => connection' # None /\ Dead' = Dead
      /\ connection = None => ~Dead'
  BY LinkedKeeps
<1>2. connection' = None \/ Dead' => DOMAIN table' = {} BY <1>1 DEF Ledger, Linked
<1>3. \A q \in Object : /\ file'[q].handle = file[q].handle
                        /\ file'[q].is # "open" => file'[q].handle = None
  BY DEF Puts, Ledger
<1>4. ASSUME NEW q \in Object, file'[q].handle # None
      PROVE  /\ connection' # None
             /\ ~Dead' => file'[q].handle \in DOMAIN table' /\ table'[file'[q].handle] = Grant(q)
  BY <1>1, <1>3, <1>4 DEF Ledger
<1>5. \A h \in DOMAIN table' : file'[table'[h].of].handle = h BY <1>3 DEF Ledger
<1> QED BY <1>2, <1>3, <1>4, <1>5 DEF Ledger, Grant

LEMMA LedgerGrants ==
    ASSUME FsInv, NEW o \in Object, NEW f, NEW m, Puts(o, f, m), Linked, connection' # None,
           ~Dead, file[o].handle = None, f.is = "open", f.handle = FreeHandle,
           DOMAIN table' = DOMAIN table \cup {FreeHandle}, table'[FreeHandle] = Grant(o),
           \A h \in DOMAIN table : table'[h] = table[h]
    PROVE  Ledger'
<1> USE DEF FsInv, FsTypeOK
<1>0. FreeHandle \in Nat /\ FreeHandle \notin DOMAIN table BY FreeHandleIsFree, CurrentIsTable
<1>1. ~Dead' BY LinkedKeeps
<1>3. file'[o] = f /\ \A q \in Object : q # o => file'[q] = file[q] BY DEF Puts
<1>4. ASSUME NEW q \in Object, file'[q].handle # None
      PROVE  file'[q].handle \in DOMAIN table' /\ table'[file'[q].handle] = Grant(q)
  <2>1. CASE q = o BY <1>3, <2>1
  <2>2. CASE q # o BY <1>3, <1>4, <2>2 DEF Ledger
  <2> QED BY <2>1, <2>2
<1>5. ASSUME NEW h \in DOMAIN table' PROVE file'[table'[h].of].handle = h
  <2>1. CASE h = FreeHandle BY <1>3, <2>1 DEF Grant
  <2>2. CASE h # FreeHandle
    <3>1. h \in DOMAIN table /\ table'[h] = table[h] BY <1>5, <2>2
    <3>2. file[table[h].of].handle = h /\ table[h].of \in Object BY <3>1 DEF Ledger
    <3>3. table[h].of # o BY <3>1, <3>2, FilesystemAssumption
    <3> QED BY <1>3, <3>1, <3>2, <3>3
  <2> QED BY <2>1, <2>2
<1>6. \A q \in Object : file'[q].is # "open" => file'[q].handle = None BY <1>3 DEF Ledger
<1> QED BY <1>1, <1>4, <1>5, <1>6 DEF Ledger, Grant

LEMMA LedgerReleases ==
    ASSUME FsInv, NEW o \in Object, NEW f, NEW m, Puts(o, f, m), Linked, f.handle = None,
           DOMAIN table' = DOMAIN table \ {file[o].handle},
           \A h \in DOMAIN table' : table'[h] = table[h]
    PROVE  Ledger'
<1> USE DEF FsInv, FsTypeOK
<1>1. /\ connection # None => connection' # None /\ Dead' = Dead
      /\ connection = None => ~Dead'
  BY LinkedKeeps
<1>2. connection' = None \/ Dead' => DOMAIN table' = {} BY <1>1 DEF Ledger, Linked
<1>3. file'[o] = f /\ \A q \in Object : q # o => file'[q] = file[q] BY DEF Puts
<1>4. ASSUME NEW q \in Object, file'[q].handle # None
      PROVE  /\ connection' # None
             /\ ~Dead' => file'[q].handle \in DOMAIN table' /\ table'[file'[q].handle] = Grant(q)
  <2>1. q # o /\ file'[q] = file[q] BY <1>3, <1>4
  <2>2. connection' # None /\ Dead' = Dead BY <1>1, <1>4, <2>1 DEF Ledger
  <2>3. ASSUME ~Dead PROVE file[q].handle \in DOMAIN table' /\ table'[file[q].handle] = Grant(q)
    <3>1. file[q].handle \in DOMAIN table /\ table[file[q].handle] = Grant(q)
      BY <1>4, <2>1, <2>3 DEF Ledger
    <3>2. file[q].handle # file[o].handle
      <4>1. file[o].handle # None => table[file[o].handle] = Grant(o) BY <2>3 DEF Ledger
      <4> QED BY <1>4, <2>1, <3>1, <4>1 DEF Grant
    <3> QED BY <3>1, <3>2
  <2> QED BY <2>1, <2>2, <2>3
<1>5. ASSUME NEW h \in DOMAIN table' PROVE file'[table'[h].of].handle = h
  <2>1. h \in DOMAIN table /\ table'[h] = table[h] /\ h # file[o].handle BY <1>5
  <2>2. file[table[h].of].handle = h /\ table[h].of \in Object BY <2>1 DEF Ledger
  <2> QED BY <1>3, <2>1, <2>2
<1>6. \A q \in Object : file'[q].is # "open" => file'[q].handle = None BY <1>3 DEF Ledger
<1> QED BY <1>2, <1>4, <1>5, <1>6 DEF Ledger, Grant

LEMMA FsTypeKept ==
    ASSUME FsInv, NEW o \in Object, NEW f \in FileState,
           NEW m \in [wrote : Seq(Block), raised : BOOLEAN], Puts(o, f, m), Linked,
           content' \in [Path -> Seq(Cell)],
           \A h \in DOMAIN table' : \/ h \in DOMAIN table /\ table'[h] = table[h]
                                    \/ h = FreeHandle /\ table'[h] = Grant(o),
           fetched' # None => fetched'.path = Target[fetched'.of]
    PROVE  FsTypeOK'
<1> USE DEF FsInv, FsTypeOK
<1>1. \A h \in DOMAIN table' :
        h \in Nat /\ table'[h] \in [of : Object, path : Path, for : {"read", "write"}]
  BY FreeHandleIsFree, FilesystemAssumption DEF Grant
<1>2. file' \in [Object -> FileState] BY DEF Puts
<1>3. mark' \in [Object -> [wrote : Seq(Block), raised : BOOLEAN]] BY DEF Puts
<1>4. /\ connections' \in Nat /\ broken' \in Nat /\ broken' <= connections'
      /\ connection' \in {None, connections'}
  BY LinkedKeeps
<1> QED BY <1>1, <1>2, <1>3, <1>4

\* A step that leaves the server's table as it is.
LEMMA QuietKeeps ==
    ASSUME FsInv, NEW o \in Object, NEW f \in FileState,
           NEW m \in [wrote : Seq(Block), raised : BOOLEAN], Puts(o, f, m), Linked,
           f.handle = file[o].handle, f.is # "open" => f.handle = None,
           DOMAIN table' = DOMAIN table, \A h \in DOMAIN table : table'[h] = table[h],
           content' \in [Path -> Seq(Cell)],
           fetched' # None => fetched'.path = Target[fetched'.of],
           \A p \in Path : p # Target[o] \/ Mode[o] # "wb" => content'[p] = content[p],
           IF Mode[o] = "wb" THEN Writes(f, m, content'[Target[o]])
           ELSE f.buffer = <<>> /\ ~f.started
    PROVE  FsInv'
<1>2. FsTypeOK' BY FsTypeKept
<1>3. Ledger' BY LedgerKept
<1>4. Buffering' BY BufferingKept
<1> QED BY <1>2, <1>3, <1>4 DEF FsInv

\* A step that takes a handle.
LEMMA GrantKeeps ==
    ASSUME FsInv, NEW o \in Object, NEW f \in FileState, Puts(o, f, mark[o]), Linked,
           connection' # None, ~Dead, file[o].handle = None, f.is = "open",
           f.handle = FreeHandle, OpenHandle(o, IF Mode[o] = "wb" THEN "write" ELSE "read"),
           UNCHANGED fetched,
           IF Mode[o] = "wb" THEN Writes(f, mark[o], <<>>) ELSE f.buffer = <<>> /\ ~f.started
    PROVE  FsInv'
<1>1. /\ DOMAIN table' = DOMAIN table \cup {FreeHandle} /\ table'[FreeHandle] = Grant(o)
      /\ \A h \in DOMAIN table : table'[h] = table[h]
  BY CurrentIsTable, FreeHandleIsFree DEF OpenHandle, Grant
<1>2. /\ content' \in [Path -> Seq(Cell)]
      /\ \A p \in Path : p # Target[o] \/ Mode[o] # "wb" => content'[p] = content[p]
      /\ Mode[o] = "wb" => content'[Target[o]] = <<>>
  BY FilesystemAssumption DEF OpenHandle, FsInv, FsTypeOK
<1>3. mark[o] \in [wrote : Seq(Block), raised : BOOLEAN] BY DEF FsInv, FsTypeOK
<1>4. fetched' # None => fetched'.path = Target[fetched'.of] BY DEF FsInv, FsTypeOK
<1>5. FsTypeOK'
  <2>1. \A h \in DOMAIN table' : \/ h \in DOMAIN table /\ table'[h] = table[h]
                                 \/ h = FreeHandle /\ table'[h] = Grant(o)
    BY <1>1
  <2> QED BY <1>2, <1>3, <1>4, <2>1, FsTypeKept
<1>6. Ledger' BY <1>1, LedgerGrants
<1>7. Buffering' BY <1>2, BufferingKept
<1> QED BY <1>5, <1>6, <1>7 DEF FsInv

-------------------------------------------------------------------------------
(* The steps *)

LEMMA OpenFileKeeps == ASSUME FsInv, NEW o \in Object, OpenFile(o) PROVE FsInv'
<1> DEFINE f == [file[o] EXCEPT !.is = "open"]
<1> USE DEF OpenFile
<1>1. f \in FileState /\ mark[o] \in [wrote : Seq(Block), raised : BOOLEAN]
  BY DEF FsInv, FsTypeOK, FileState
<1>2. Puts(o, f, mark[o]) BY DEF FsInv, FsTypeOK, Puts, FileState
<1>3. Linked BY ConnectedLinks DEF Linked
<1>4. /\ f.is = "open" /\ f.handle = file[o].handle /\ f.buffer = file[o].buffer
      /\ f.written = file[o].written /\ f.started = file[o].started
  BY DEF FsInv, FsTypeOK, FileState
<1>5. IF Mode[o] = "wb" THEN Writes(f, mark[o], content'[Target[o]])
      ELSE f.buffer = <<>> /\ ~f.started
  <2>1. file[o].handle = None BY DEF FsInv, Ledger
  <2>2. IF Mode[o] = "wb" THEN Writes(file[o], mark[o], content[Target[o]])
        ELSE file[o].buffer = <<>> /\ ~file[o].started
    BY DEF FsInv, Buffering
  <2> QED BY <1>4, <2>1, <2>2 DEF Writes, Halves, Lands
<1> HIDE DEF f
<1>6. /\ content' \in [Path -> Seq(Cell)] /\ content' = content
      /\ fetched' # None => fetched'.path = Target[fetched'.of]
      /\ f.is # "open" => f.handle = None
  BY <1>4 DEF FsInv, FsTypeOK
<1>7. DOMAIN table' = DOMAIN table /\ \A h \in DOMAIN table : table'[h] = table[h]
  BY CurrentIsTable
<1> QED BY <1>1, <1>2, <1>3, <1>4, <1>5, <1>6, <1>7, QuietKeeps

LEMMA CatOpenKeeps == ASSUME FsInv, NEW o \in Object, CatOpen(o) PROVE FsInv'
<1> DEFINE f == [file[o] EXCEPT !.is = "open", !.handle = FreeHandle]
<1> USE DEF CatOpen
<1>0. FreeHandle \in Nat BY FreeHandleIsFree
<1>1. f \in FileState
  <2>1. file[o] \in FileState BY DEF FsInv, FsTypeOK
  <2> QED BY <1>0, <2>1 DEF FileState
<1>2. Puts(o, f, mark[o])
  BY DEF FsInv, FsTypeOK, Puts, FileState
<1>3. Linked /\ connection' # None
  <2>1. Linked BY ConnectedLinks
  <2> QED BY <2>1, FilesystemAssumption DEF Connected, FsInv, FsTypeOK
<1>4. f.is = "open" /\ f.handle = FreeHandle /\ f.buffer = file[o].buffer /\ f.started = file[o].started
  BY DEF FsInv, FsTypeOK, FileState
<1>5. file[o].handle = None /\ file[o].buffer = <<>> /\ ~file[o].started
  BY DEF FsInv, Ledger, Buffering
<1> HIDE DEF f
<1> QED BY <1>1, <1>2, <1>3, <1>4, <1>5, GrantKeeps

LEMMA TakeHandleKeeps == ASSUME FsInv, NEW o \in Object, TakeHandle(o) PROVE FsInv'
<1> DEFINE f == [file[o] EXCEPT !.handle = FreeHandle]
<1> USE DEF TakeHandle
<1>0. FreeHandle \in Nat BY FreeHandleIsFree
<1>1. f \in FileState
  <2>1. file[o] \in FileState BY DEF FsInv, FsTypeOK
  <2> QED BY <1>0, <2>1 DEF FileState
<1>2. Puts(o, f, mark[o])
  BY DEF FsInv, FsTypeOK, Puts, FileState
<1>3. Linked /\ connection' # None
  <2>1. Linked BY ConnectedLinks
  <2> QED BY <2>1, FilesystemAssumption DEF Connected, FsInv, FsTypeOK
<1>4. f.is = "open" /\ f.handle = FreeHandle /\ f.buffer = file[o].buffer /\ f.started = file[o].started
  BY DEF FsInv, FsTypeOK, FileState
<1>5. file[o].buffer = <<>> /\ ~file[o].started BY DEF FsInv, Buffering
<1> HIDE DEF f
<1> QED BY <1>1, <1>2, <1>3, <1>4, <1>5, GrantKeeps

LEMMA FetchKeeps == ASSUME FsInv, NEW o \in Object, Fetch(o) PROVE FsInv'
<1> USE DEF Fetch
<1>1. file[o] \in FileState /\ mark[o] \in [wrote : Seq(Block), raised : BOOLEAN]
  BY DEF FsInv, FsTypeOK
<1>2. Puts(o, file[o], mark[o]) BY DEF FsInv, FsTypeOK, Puts
<1>3. Linked BY ConnectedLinks
<1>4. fetched' # None => fetched'.path = Target[fetched'.of]
  <2> SUFFICES ASSUME Known(file[o].handle, "read")
               PROVE  Current[file[o].handle].path = Target[o]
    OBVIOUS
  <2>1. ~Dead /\ file[o].handle # None BY DEF Known
  <2>2. file[o].handle \in DOMAIN table /\ table[file[o].handle] = Grant(o)
    BY <2>1 DEF FsInv, Ledger
  <2>3. Current[file[o].handle] = Grant(o) BY <2>2, CurrentIsTable
  <2> QED BY <2>3 DEF Grant
<1>5. file[o].is # "open" => file[o].handle = None BY DEF FsInv, Ledger
<1>6. content' \in [Path -> Seq(Cell)] /\ content' = content BY DEF FsInv, FsTypeOK
<1>7. IF Mode[o] = "wb" THEN Writes(file[o], mark[o], content'[Target[o]])
      ELSE file[o].buffer = <<>> /\ ~file[o].started
  BY <1>6 DEF FsInv, Buffering
<1>8. DOMAIN table' = DOMAIN table /\ \A h \in DOMAIN table : table'[h] = table[h]
  BY CurrentIsTable
<1> QED BY <1>1, <1>2, <1>3, <1>4, <1>5, <1>6, <1>7, <1>8, QuietKeeps

LEMMA Appended ==
    ASSUME NEW S, NEW seq \in Seq(S), NEW x \in S
    PROVE  /\ Len(Append(seq, x)) = Len(seq) + 1
           /\ \A i \in 1..Len(Append(seq, x)) :
                Append(seq, x)[i] = IF i <= Len(seq) THEN seq[i] ELSE x
<1>1. Len(seq) \in Nat BY LenProperties
<1> QED BY <1>1, AppendProperties

LEMMA WriteKeeps == ASSUME FsInv, NEW o \in Object, Write(o) PROVE FsInv'
<1> USE DEF Write
<1> DEFINE block == <<o, Len(mark[o].wrote)>>
           f == [file[o] EXCEPT !.buffer = Append(@, block)]
           m == [mark[o] EXCEPT !.wrote = Append(@, block)]
<1>1. /\ file[o] \in FileState /\ mark[o] \in [wrote : Seq(Block), raised : BOOLEAN]
      /\ block \in Block
  BY DEF FsInv, FsTypeOK, FileState, Block
<1>2. f \in FileState /\ m \in [wrote : Seq(Block), raised : BOOLEAN]
  <2>1. Append(file[o].buffer, block) \in Seq(Block) /\ Append(mark[o].wrote, block) \in Seq(Block)
    BY <1>1, AppendProperties DEF FileState
  <2> QED BY <1>1, <2>1 DEF FileState
<1>3. Puts(o, f, m) BY DEF FsInv, FsTypeOK, Puts, FileState
<1>4. Linked BY DEF Linked
<1>5. /\ f.is = file[o].is /\ f.handle = file[o].handle /\ f.written = file[o].written
      /\ f.started = file[o].started /\ f.buffer = Append(file[o].buffer, block)
      /\ m.wrote = Append(mark[o].wrote, block) /\ m.raised = mark[o].raised
  BY <1>1 DEF FileState
<1>6. /\ content' \in [Path -> Seq(Cell)] /\ content' = content
      /\ fetched' # None => fetched'.path = Target[fetched'.of]
      /\ f.is # "open" => f.handle = None
  BY <1>5 DEF FsInv, FsTypeOK
<1>7. Writes(f, m, content'[Target[o]])
  <2>1. Writes(file[o], mark[o], content[Target[o]]) BY DEF FsInv, Buffering
  <2>2. /\ Len(f.buffer) = Len(file[o].buffer) + 1 /\ Len(m.wrote) = Len(mark[o].wrote) + 1
    <3>1. file[o].buffer \in Seq(Block) /\ mark[o].wrote \in Seq(Block) BY <1>1 DEF FileState
    <3>2. /\ Len(Append(file[o].buffer, block)) = Len(file[o].buffer) + 1
          /\ Len(Append(mark[o].wrote, block)) = Len(mark[o].wrote) + 1
      BY <1>1, <3>1, Appended
    <3> HIDE DEF f, m, block
    <3> QED BY <1>5, <3>2
  <2>7. /\ \A i \in 1..Len(f.buffer) :
             f.buffer[i] = IF i <= Len(file[o].buffer) THEN file[o].buffer[i] ELSE block
        /\ \A i \in 1..Len(m.wrote) :
             m.wrote[i] = IF i <= Len(mark[o].wrote) THEN mark[o].wrote[i] ELSE block
    <3>1. file[o].buffer \in Seq(Block) /\ mark[o].wrote \in Seq(Block) BY <1>1 DEF FileState
    <3>2. /\ \A i \in 1..Len(Append(file[o].buffer, block)) :
               Append(file[o].buffer, block)[i] =
                 IF i <= Len(file[o].buffer) THEN file[o].buffer[i] ELSE block
          /\ \A i \in 1..Len(Append(mark[o].wrote, block)) :
               Append(mark[o].wrote, block)[i] =
                 IF i <= Len(mark[o].wrote) THEN mark[o].wrote[i] ELSE block
      BY <1>1, <3>1, Appended
    <3> HIDE DEF f, m, block
    <3> QED BY <1>5, <3>2
  <2>3. /\ file[o].written \in Nat /\ Len(file[o].buffer) \in Nat /\ Len(mark[o].wrote) \in Nat
        /\ content[Target[o]] \in Seq(Cell)
    BY <1>1, FilesystemAssumption, LenProperties DEF FileState, FsInv, FsTypeOK
  <2>4. Halves(file[o], mark[o].wrote) BY <2>1 DEF Writes
  <2>8. file[o].is = "open" OBVIOUS
  <2> HIDE DEF f, m, block, Write
  <2>5. Halves(f, m.wrote)
    <3>1. f.written + Len(f.buffer) = Len(m.wrote)
      <4>1. f.written = file[o].written BY <1>5
      <4>2. file[o].written + Len(file[o].buffer) = Len(mark[o].wrote) BY <2>4 DEF Halves
      <4>3. Len(f.buffer) = Len(file[o].buffer) + 1 BY <2>2
      <4>4. Len(m.wrote) = Len(mark[o].wrote) + 1 BY <2>2
      <4>6. PICK a, b, c : /\ a = file[o].written /\ b = Len(file[o].buffer)
                           /\ c = Len(mark[o].wrote)
        OBVIOUS
      <4>7. a \in Nat /\ b \in Nat /\ c \in Nat BY <2>3, <4>6
      <4>8. a + b = c BY <4>2, <4>6
      <4>9. a + (b + 1) = c + 1 BY <4>7, <4>8
      <4> QED BY <4>1, <4>3, <4>4, <4>6, <4>9
    <3>2. ASSUME NEW i \in 1..Len(f.buffer) PROVE f.buffer[i] = m.wrote[f.written + i]
      <4>1. f.written + i \in 1..Len(m.wrote) BY <1>5, <2>2, <2>3, <3>1
      <4>2. CASE i <= Len(file[o].buffer)
        <5>1. f.written + i <= Len(mark[o].wrote) BY <1>5, <2>2, <2>3, <2>4, <4>2 DEF Halves
        <5> QED BY <1>5, <2>3, <2>4, <2>7, <4>1, <4>2, <5>1 DEF Halves
      <4>3. CASE ~(i <= Len(file[o].buffer))
        <5>1. ~(f.written + i <= Len(mark[o].wrote)) BY <1>5, <2>2, <2>3, <2>4, <4>3 DEF Halves
        <5> QED BY <2>7, <4>1, <4>3, <5>1
      <4> QED BY <4>2, <4>3
    <3> QED BY <3>1, <3>2 DEF Halves
  <2>6. f.started => Lands(f, m.wrote, content'[Target[o]])
    <3>1. f.started => Lands(file[o], mark[o].wrote, content[Target[o]])
      BY <1>5, <2>1, <2>8 DEF Writes
    <3>2. Len(content[Target[o]]) \in Nat BY <2>3, LenProperties
    <3>3. ASSUME f.started
          PROVE  /\ f.written <= Len(content[Target[o]]) /\ Len(content[Target[o]]) <= Len(m.wrote)
                 /\ f.written <= Len(mark[o].wrote) /\ Len(mark[o].wrote) <= Len(m.wrote)
      <4>1. /\ file[o].written <= Len(content[Target[o]])
            /\ Len(content[Target[o]]) <= Len(mark[o].wrote)
        BY <3>1, <3>3 DEF Lands
      <4>2. f.written = file[o].written /\ Len(m.wrote) = Len(mark[o].wrote) + 1 BY <1>5, <2>2
      <4>3. PICK a, b, c : /\ a = file[o].written /\ b = Len(content[Target[o]])
                           /\ c = Len(mark[o].wrote)
        OBVIOUS
      <4>4. a \in Nat /\ b \in Nat /\ c \in Nat BY <2>3, <3>2, <4>3
      <4>5. a <= b /\ b <= c BY <4>1, <4>3
      <4>6. a <= c /\ b <= c + 1 /\ c <= c + 1 BY <4>4, <4>5
      <4> QED BY <4>2, <4>3, <4>5, <4>6
    <3>4. ASSUME f.started, NEW i \in 1..f.written PROVE content[Target[o]][i] = m.wrote[i]
      <4>1. f.written = file[o].written BY <1>5
      <4>2. content[Target[o]][i] = mark[o].wrote[i] BY <3>1, <3>4, <4>1 DEF Lands
      <4>3. i \in 1..Len(m.wrote) /\ i <= Len(mark[o].wrote) BY <2>2, <2>3, <3>3, <3>4, <4>1
      <4> QED BY <2>7, <4>2, <4>3
    <3>5. content' = content BY <1>6
    <3> QED BY <3>3, <3>4, <3>5 DEF Lands
  <2> QED BY <1>5, <2>1, <2>5, <2>6, <2>8 DEF Writes
<1>8. DOMAIN table' = DOMAIN table /\ \A h \in DOMAIN table : table'[h] = table[h]
  OBVIOUS
<1> HIDE DEF f, m
<1> QED BY <1>2, <1>3, <1>4, <1>5, <1>6, <1>7, <1>8, QuietKeeps

LEMMA SplicedTypes ==
    ASSUME NEW blocks \in Seq(Cell), NEW from \in Nat, NEW more \in Seq(Block)
    PROVE  /\ Spliced(blocks, from, more) \in Seq(Cell)
           /\ Len(Spliced(blocks, from, more)) =
                IF Len(blocks) > from + Len(more) THEN Len(blocks) ELSE from + Len(more)
           /\ \A i \in 1..Len(Spliced(blocks, from, more)) :
                Spliced(blocks, from, more)[i] = IF i > from /\ i <= from + Len(more) THEN more[i - from]
                    ELSE IF i <= Len(blocks) THEN blocks[i] ELSE "hole"
<1> DEFINE n == IF Len(blocks) > from + Len(more) THEN Len(blocks) ELSE from + Len(more)
           At(i) == IF i > from /\ i <= from + Len(more) THEN more[i - from]
                    ELSE IF i <= Len(blocks) THEN blocks[i] ELSE "hole"
<1>1. Len(blocks) \in Nat /\ Len(more) \in Nat BY LenProperties
<1>2. n \in Nat BY <1>1
<1>3. ASSUME NEW i \in 1..n PROVE At(i) \in Cell
  <2>1. CASE i > from /\ i <= from + Len(more)
    <3>1. i - from \in 1..Len(more) BY <1>1, <1>2, <2>1
    <3>2. more[i - from] \in Block BY <3>1, ElementOfSeq
    <3> QED BY <2>1, <3>2 DEF Cell
  <2>2. CASE ~(i > from /\ i <= from + Len(more)) /\ i <= Len(blocks)
    <3>1. blocks[i] \in Cell BY <1>1, <1>2, <2>2, ElementOfSeq
    <3> QED BY <2>2, <3>1
  <2>3. CASE ~(i > from /\ i <= from + Len(more)) /\ ~(i <= Len(blocks)) BY <2>3 DEF Cell
  <2> QED BY <2>1, <2>2, <2>3
<1>4. Spliced(blocks, from, more) = [i \in 1..n |-> At(i)] BY DEF Spliced
<1> HIDE DEF n, At
<1>5. [i \in 1..n |-> At(i)] \in Seq(Cell) /\ Len([i \in 1..n |-> At(i)]) = n
  BY <1>2, <1>3, SeqDef, IsASeq, LenProperties
<1> QED BY <1>4, <1>5 DEF n, At

\* All of what is left lands: the file is what was written.
LEMMA SplicedWhole ==
    ASSUME NEW blocks \in Seq(Cell), NEW f \in FileState, NEW wrote \in Seq(Block),
           Halves(f, wrote), Lands(f, wrote, blocks)
    PROVE  Spliced(blocks, f.written, f.buffer) = wrote
<1> DEFINE s == Spliced(blocks, f.written, f.buffer)
<1>1. /\ f.written \in Nat /\ f.buffer \in Seq(Block) /\ Len(f.buffer) \in Nat
      /\ Len(blocks) \in Nat /\ Len(wrote) \in Nat
  BY LenProperties DEF FileState
<1>2. /\ s \in Seq(Cell)
      /\ Len(s) = IF Len(blocks) > f.written + Len(f.buffer) THEN Len(blocks)
                  ELSE f.written + Len(f.buffer)
      /\ \A i \in 1..Len(s) :
           s[i] = IF i > f.written /\ i <= f.written + Len(f.buffer) THEN f.buffer[i - f.written]
                  ELSE IF i <= Len(blocks) THEN blocks[i] ELSE "hole"
  BY <1>1, SplicedTypes
<1> HIDE DEF s
<1>3. f.written + Len(f.buffer) = Len(wrote) BY DEF Halves
<1>4. Len(s) = Len(wrote) BY <1>1, <1>2, <1>3 DEF Lands
<1>5. ASSUME NEW i \in 1..Len(wrote) PROVE s[i] = wrote[i]
  <2>1. CASE i > f.written
    <3>1. i - f.written \in 1..Len(f.buffer) /\ f.written + (i - f.written) = i
      BY <1>1, <1>3, <2>1
    <3>2. f.buffer[i - f.written] = wrote[i] BY <3>1 DEF Halves
    <3> QED BY <1>2, <1>3, <1>4, <2>1, <3>2
  <2>2. CASE ~(i > f.written)
    <3>1. i \in 1..f.written /\ i <= Len(blocks) BY <1>1, <2>2 DEF Lands
    <3>2. blocks[i] = wrote[i] BY <3>1 DEF Lands
    <3> QED BY <1>2, <1>4, <2>2, <3>1, <3>2
  <2> QED BY <2>1, <2>2
<1>6. s \in Seq(Cell \cup Block) /\ wrote \in Seq(Cell \cup Block) BY <1>2
<1>7. s = wrote BY <1>4, <1>5, <1>6, SeqEqual
<1> QED BY <1>7 DEF s

\* Some of it lands: no further than what was written, and what had landed stays.
LEMMA SplicedPart ==
    ASSUME NEW blocks \in Seq(Cell), NEW f \in FileState, NEW wrote \in Seq(Block),
           Halves(f, wrote), Lands(f, wrote, blocks), NEW k \in 0..1, f.buffer # <<>>
    PROVE  /\ Spliced(blocks, f.written, SubSeq(f.buffer, 1, k)) \in Seq(Cell)
           /\ Lands(f, wrote, Spliced(blocks, f.written, SubSeq(f.buffer, 1, k)))
<1> DEFINE more == SubSeq(f.buffer, 1, k)
           s == Spliced(blocks, f.written, more)
<1>1. /\ f.written \in Nat /\ f.buffer \in Seq(Block) /\ Len(f.buffer) \in Nat
      /\ Len(blocks) \in Nat /\ Len(wrote) \in Nat
  BY LenProperties DEF FileState
<1>2. Len(f.buffer) >= 1 BY <1>1, EmptySeq
<1>3. more \in Seq(Block) /\ Len(more) = k BY <1>1, <1>2, SubSeqProperties
<1>4. /\ s \in Seq(Cell)
      /\ Len(s) = IF Len(blocks) > f.written + Len(more) THEN Len(blocks)
                  ELSE f.written + Len(more)
      /\ \A i \in 1..Len(s) :
           s[i] = IF i > f.written /\ i <= f.written + Len(more) THEN more[i - f.written]
                  ELSE IF i <= Len(blocks) THEN blocks[i] ELSE "hole"
  BY <1>1, <1>3, SplicedTypes
<1> HIDE DEF s, more
<1>5. f.written + Len(f.buffer) = Len(wrote) BY DEF Halves
<1>6. f.written <= Len(s) /\ Len(s) <= Len(wrote) BY <1>1, <1>2, <1>3, <1>4, <1>5 DEF Lands
<1>7. ASSUME NEW i \in 1..f.written PROVE s[i] = wrote[i]
  <2>1. i \in 1..Len(s) /\ i <= Len(blocks) /\ ~(i > f.written) BY <1>1, <1>4, <1>6 DEF Lands
  <2>2. blocks[i] = wrote[i] BY DEF Lands
  <2> QED BY <1>4, <2>1, <2>2
<1>8. Lands(f, wrote, s) BY <1>6, <1>7 DEF Lands
<1> QED BY <1>4, <1>8 DEF s, more

LEMMA InitiateKeeps == ASSUME FsInv, NEW o \in Object, Initiate(o) PROVE FsInv'
<1>0. /\ file[o].is = "open" /\ Mode[o] = "wb" /\ ~file[o].started /\ Connected
      /\ broken' = broken /\ fetched' = fetched /\ closedUnder' = closedUnder
  BY DEF Initiate
<1>1. file[o] \in FileState /\ mark[o] \in [wrote : Seq(Block), raised : BOOLEAN]
  BY DEF FsInv, FsTypeOK
<1>2. Linked /\ connection' # None
  <2>1. Linked BY <1>0, ConnectedLinks
  <2> QED BY <1>0, <2>1, FilesystemAssumption DEF Connected, FsInv, FsTypeOK
<1>3. Writes(file[o], mark[o], content[Target[o]]) BY <1>0 DEF FsInv, Buffering
<1>4. file[o].handle = None /\ file[o].written = 0 /\ Halves(file[o], mark[o].wrote)
  BY <1>0, <1>3 DEF Writes
<1>5. fetched' # None => fetched'.path = Target[fetched'.of] BY <1>0 DEF FsInv, FsTypeOK
<1>6. CASE /\ file' = [file EXCEPT ![o].is = "closed"]
           /\ mark' = [mark EXCEPT ![o].raised = TRUE]
           /\ table' = Current /\ UNCHANGED content
  <2> DEFINE f == [file[o] EXCEPT !.is = "closed"]
             m == [mark[o] EXCEPT !.raised = TRUE]
  <2>1. f \in FileState /\ m \in [wrote : Seq(Block), raised : BOOLEAN] BY <1>1 DEF FileState
  <2>2. Puts(o, f, m) BY <1>6 DEF FsInv, FsTypeOK, Puts, FileState
  <2>3. /\ f.is = "closed" /\ f.handle = file[o].handle /\ f.written = 0 /\ ~f.started
        /\ m.raised = TRUE
    BY <1>0, <1>1, <1>4 DEF FileState
  <2> HIDE DEF f, m
  <2>4. Writes(f, m, content'[Target[o]]) BY <1>4, <2>3 DEF Writes
  <2>5. DOMAIN table' = DOMAIN table /\ \A h \in DOMAIN table : table'[h] = table[h]
    BY <1>6, CurrentIsTable
  <2>6. content' \in [Path -> Seq(Cell)] /\ content' = content BY <1>6 DEF FsInv, FsTypeOK
  <2> QED BY <1>0, <1>2, <1>4, <1>5, <2>1, <2>2, <2>3, <2>4, <2>5, <2>6, QuietKeeps
<1>7. CASE /\ ~Dead /\ OpenHandle(o, "write")
           /\ file' = [file EXCEPT ![o].handle = FreeHandle, ![o].written = 0, ![o].started = TRUE]
           /\ UNCHANGED mark
  <2> DEFINE f == [file[o] EXCEPT !.handle = FreeHandle, !.written = 0, !.started = TRUE]
  <2>0. FreeHandle \in Nat BY FreeHandleIsFree
  <2>1. f \in FileState BY <1>1, <2>0 DEF FileState
  <2>2. Puts(o, f, mark[o]) BY <1>7 DEF FsInv, FsTypeOK, Puts, FileState
  <2>3. /\ f.is = "open" /\ f.handle = FreeHandle /\ f.written = 0 /\ f.started
        /\ f.buffer = file[o].buffer
    BY <1>0, <1>1 DEF FileState
  <2> HIDE DEF f
  <2>4. Writes(f, mark[o], <<>>)
    <3>1. Len(mark[o].wrote) \in Nat BY <1>1, LenProperties
    <3>2. Lands(f, mark[o].wrote, <<>>) BY <2>3, <3>1 DEF Lands
    <3>3. Halves(f, mark[o].wrote) BY <1>4, <2>3 DEF Halves
    <3> QED BY <2>3, <3>2, <3>3 DEF Writes
  <2> QED BY <1>0, <1>2, <1>4, <1>7, <2>1, <2>2, <2>3, <2>4, GrantKeeps
<1> QED BY <1>0, <1>6, <1>7 DEF Initiate

\* What an upload of the buffer makes of the server's files.
LEMMA UploadedIs ==
    ASSUME FsInv, NEW o \in Object, Mode[o] = "wb", file[o].is = "open", file[o].started,
           file[o].buffer # <<>>, NEW granted \in BOOLEAN, NEW landed \in 0..1,
           granted => Known(file[o].handle, "write")
    PROVE  /\ Uploaded(o, granted, landed) \in [Path -> Seq(Cell)]
           /\ \A p \in Path : p # Target[o] => Uploaded(o, granted, landed)[p] = content[p]
           /\ granted => Uploaded(o, granted, landed)[Target[o]] = mark[o].wrote
           /\ Lands(file[o], mark[o].wrote, Uploaded(o, granted, landed)[Target[o]])
<1> DEFINE f == file[o]
           wrote == mark[o].wrote
           blocks == content[Target[o]]
           new == Spliced(blocks, f.written, IF granted THEN f.buffer ELSE SubSeq(f.buffer, 1, landed))
<1>1. /\ f \in FileState /\ wrote \in Seq(Block) /\ blocks \in Seq(Cell)
      /\ content \in [Path -> Seq(Cell)] /\ Target[o] \in Path
  BY FilesystemAssumption DEF FsInv, FsTypeOK
<1>2. Halves(f, wrote) /\ Lands(f, wrote, blocks) BY DEF FsInv, Buffering, Writes
<1>3. CASE ~Known(file[o].handle, "write")
  <2>1. Uploaded(o, granted, landed) = content BY <1>3 DEF Uploaded
  <2> QED BY <1>1, <1>2, <1>3, <2>1
<1>4. CASE Known(file[o].handle, "write")
  <2>1. Current[file[o].handle].path = Target[o]
    <3>1. file[o].handle \in DOMAIN table /\ ~Dead BY <1>4, CurrentIsTable DEF Known
    <3>2. file[o].handle # None BY <3>1, FilesystemAssumption DEF FsInv, FsTypeOK
    <3>3. table[file[o].handle] = Grant(o) BY <3>1, <3>2 DEF FsInv, Ledger
    <3> QED BY <3>1, <3>3, CurrentIsTable DEF Grant
  <2>2. Uploaded(o, granted, landed) = [content EXCEPT ![Target[o]] = new]
    BY <1>4, <2>1 DEF Uploaded
  <2>3. new \in Seq(Cell) /\ Lands(f, wrote, new) /\ (granted => new = wrote)
    <3>1. CASE granted
      <4>1. new = wrote BY <1>1, <1>2, <3>1, SplicedWhole
      <4>2. Lands(f, wrote, wrote)
        <5>1. f.written \in Nat /\ Len(f.buffer) \in Nat /\ Len(wrote) \in Nat
          BY <1>1, LenProperties DEF FileState
        <5> QED BY <1>2, <5>1 DEF Halves, Lands
      <4>3. wrote \in Seq(Cell) BY <1>1 DEF Cell
      <4> QED BY <4>1, <4>2, <4>3
    <3>2. CASE ~granted BY <1>1, <1>2, <3>2, SplicedPart
    <3> QED BY <3>1, <3>2
  <2> HIDE DEF f, wrote, blocks, new
  <2>4. content \in [Path -> Seq(Cell)] /\ Target[o] \in Path /\ new \in Seq(Cell) BY <1>1, <2>3
  <2>5. /\ Uploaded(o, granted, landed) \in [Path -> Seq(Cell)]
        /\ Uploaded(o, granted, landed)[Target[o]] = new
        /\ \A p \in Path : p # Target[o] => Uploaded(o, granted, landed)[p] = content[p]
    BY <2>2, <2>4
  <2> QED BY <2>3, <2>5 DEF f, wrote
<1> QED BY <1>3, <1>4

LEMMA FlushKeeps == ASSUME FsInv, NEW o \in Object, Flush(o) PROVE FsInv'
<1>0. /\ file[o].is = "open" /\ file[o].started /\ file[o].buffer # <<>> /\ Connected
      /\ table' = Current /\ broken' = broken /\ mark' = mark /\ fetched' = fetched
      /\ closedUnder' = closedUnder
  BY DEF Flush
<1>1. PICK granted \in BOOLEAN, landed \in 0..1 :
        /\ granted => Known(file[o].handle, "write")
        /\ content' = Uploaded(o, granted, landed)
        /\ file' = [file EXCEPT ![o].written = Advances(o, granted),
                                ![o].buffer = IF granted THEN <<>> ELSE @]
  BY DEF Flush
<1>2. Mode[o] = "wb" BY <1>0 DEF FsInv, Buffering
<1>3. /\ file[o] \in FileState /\ mark[o] \in [wrote : Seq(Block), raised : BOOLEAN]
      /\ file[o].written \in Nat /\ Len(file[o].buffer) \in Nat /\ Len(mark[o].wrote) \in Nat
  BY LenProperties DEF FsInv, FsTypeOK, FileState
<1>4. Halves(file[o], mark[o].wrote) /\ Lands(file[o], mark[o].wrote, content[Target[o]])
  BY <1>0, <1>2 DEF FsInv, Buffering, Writes
<1>5. /\ content' \in [Path -> Seq(Cell)]
      /\ \A p \in Path : p # Target[o] => content'[p] = content[p]
      /\ granted => content'[Target[o]] = mark[o].wrote
      /\ Lands(file[o], mark[o].wrote, content'[Target[o]])
  BY <1>0, <1>1, <1>2, UploadedIs
<1> DEFINE f == [file[o] EXCEPT !.written = Advances(o, granted),
                                !.buffer = IF granted THEN <<>> ELSE @]
<1>6. Advances(o, granted) \in Nat BY <1>3 DEF Advances
<1>7. f \in FileState
  <2>1. (IF granted THEN <<>> ELSE file[o].buffer) \in Seq(Block) BY <1>3 DEF FileState
  <2> QED BY <1>3, <1>6, <2>1 DEF FileState
<1>8. Puts(o, f, mark[o]) BY <1>0, <1>1 DEF FsInv, FsTypeOK, Puts, FileState
<1>9. /\ f.is = "open" /\ f.started /\ f.handle = file[o].handle
      /\ f.written = Advances(o, granted) /\ f.buffer = IF granted THEN <<>> ELSE file[o].buffer
  BY <1>0, <1>3 DEF FileState
<1> HIDE DEF f
<1>10. Halves(f, mark[o].wrote) /\ Lands(f, mark[o].wrote, content'[Target[o]])
  <2>1. CASE granted
    <3>1. f.written = Len(mark[o].wrote) /\ f.buffer = <<>>
      BY <1>3, <1>4, <1>9, <2>1 DEF Advances, Halves
    <3>2. content'[Target[o]] = mark[o].wrote BY <1>5, <2>1
    <3> QED BY <1>3, <3>1, <3>2 DEF Halves, Lands
  <2>2. CASE ~granted
    <3>1. f.written = file[o].written /\ f.buffer = file[o].buffer BY <1>3, <1>9, <2>2 DEF Advances
    <3> QED BY <1>4, <1>5, <3>1 DEF Halves, Lands
  <2> QED BY <2>1, <2>2
<1>11. Writes(f, mark[o], content'[Target[o]]) BY <1>9, <1>10 DEF Writes
<1>12. DOMAIN table' = DOMAIN table /\ \A h \in DOMAIN table : table'[h] = table[h]
  BY <1>0, CurrentIsTable
<1>13. fetched' # None => fetched'.path = Target[fetched'.of] BY <1>0 DEF FsInv, FsTypeOK
<1>14. Linked BY <1>0, ConnectedLinks
<1> QED BY <1>0, <1>2, <1>3, <1>5, <1>7, <1>8, <1>9, <1>11, <1>12, <1>13, <1>14, QuietKeeps

\* The handle goes back, and what was left of the buffer goes out or the caller is told.
LEMMA CloseFileKeeps == ASSUME FsInv, NEW o \in Object, CloseFile(o) PROVE FsInv'
<1>0. /\ file[o].is = "open" /\ (Mode[o] = "wb" => file[o].started)
      /\ file' = [file EXCEPT ![o].is = "closed", ![o].handle = None, ![o].buffer = <<>>]
      /\ table' = [h \in DOMAIN Current \ {file[o].handle} |-> Current[h]]
      /\ broken' = broken /\ fetched' = fetched /\ closedUnder' = closedUnder
  BY DEF CloseFile
<1>1. PICK granted \in BOOLEAN, landed \in 0..1 :
        /\ IF file[o].buffer # <<>> THEN granted => Known(file[o].handle, "write") ELSE granted
        /\ content' = IF file[o].buffer # <<>> THEN Uploaded(o, granted, landed) ELSE content
        /\ mark' = [mark EXCEPT ![o].raised = ~granted]
  BY DEF CloseFile
<1>2. Linked BY <1>0, ConnectedLinks DEF Linked, CloseFile
<1>3. /\ file[o] \in FileState /\ mark[o] \in [wrote : Seq(Block), raised : BOOLEAN]
      /\ file[o].written \in Nat /\ Len(file[o].buffer) \in Nat /\ Len(mark[o].wrote) \in Nat
  BY LenProperties DEF FsInv, FsTypeOK, FileState
<1> DEFINE f == [file[o] EXCEPT !.is = "closed", !.handle = None, !.buffer = <<>>]
           m == [mark[o] EXCEPT !.raised = ~granted]
<1>4. f \in FileState /\ m \in [wrote : Seq(Block), raised : BOOLEAN]
  BY <1>3, EmptySeq DEF FileState
<1>5. Puts(o, f, m) BY <1>0, <1>1 DEF FsInv, FsTypeOK, Puts, FileState
<1>6. /\ f.is = "closed" /\ f.handle = None /\ f.buffer = <<>> /\ f.started = file[o].started
      /\ f.written = file[o].written /\ m.wrote = mark[o].wrote /\ m.raised = ~granted
  BY <1>3 DEF FileState
<1> HIDE DEF f, m
<1>7. /\ content' \in [Path -> Seq(Cell)]
      /\ \A p \in Path : p # Target[o] \/ Mode[o] # "wb" => content'[p] = content[p]
      /\ Mode[o] = "wb" /\ granted => content'[Target[o]] = mark[o].wrote
  <2>1. CASE file[o].buffer # <<>>
    <3>1. Mode[o] = "wb" /\ file[o].started BY <1>0, <2>1 DEF FsInv, Buffering
    <3> QED BY <1>0, <1>1, <2>1, <3>1, UploadedIs
  <2>2. CASE file[o].buffer = <<>>
    <3>1. content' = content /\ content \in [Path -> Seq(Cell)] BY <1>1, <2>2 DEF FsInv, FsTypeOK
    <3>2. ASSUME Mode[o] = "wb" PROVE content[Target[o]] = mark[o].wrote
      <4>1. /\ Halves(file[o], mark[o].wrote)
            /\ Lands(file[o], mark[o].wrote, content[Target[o]])
        BY <1>0, <3>2 DEF FsInv, Buffering, Writes
      <4>2. content[Target[o]] \in Seq(Cell) BY <3>1, FilesystemAssumption
      <4>3. file[o].written = Len(mark[o].wrote) BY <1>3, <2>2, <4>1 DEF Halves
      <4>4. Len(content[Target[o]]) \in Nat BY <4>2, LenProperties
      <4>5. Len(content[Target[o]]) = Len(mark[o].wrote) BY <1>3, <4>1, <4>3, <4>4 DEF Lands
      <4>6. \A i \in 1..Len(content[Target[o]]) : content[Target[o]][i] = mark[o].wrote[i]
        BY <4>1, <4>3, <4>5 DEF Lands
      <4>7. mark[o].wrote \in Seq(Cell) BY <1>3 DEF Cell
      <4> QED BY <4>2, <4>5, <4>6, <4>7, SeqEqual
    <3> QED BY <3>1, <3>2
  <2> QED BY <2>1, <2>2
<1>8. IF Mode[o] = "wb" THEN Writes(f, m, content'[Target[o]]) ELSE f.buffer = <<>> /\ ~f.started
  <2>1. CASE Mode[o] = "wb" BY <1>0, <1>6, <1>7, <2>1 DEF Writes
  <2>2. CASE Mode[o] # "wb" BY <1>6, <2>2 DEF FsInv, Buffering
  <2> QED BY <2>1, <2>2
<1>9. /\ DOMAIN table' = DOMAIN table \ {file[o].handle}
      /\ \A h \in DOMAIN table' : h \in DOMAIN table /\ table'[h] = table[h]
  BY <1>0, CurrentIsTable
<1>10. fetched' # None => fetched'.path = Target[fetched'.of] BY <1>0 DEF FsInv, FsTypeOK
<1>11. FsTypeOK' BY <1>0, <1>2, <1>4, <1>5, <1>7, <1>9, <1>10, FsTypeKept
<1>12. Ledger' BY <1>2, <1>5, <1>6, <1>9, LedgerReleases
<1>13. Buffering' BY <1>5, <1>7, <1>8, BufferingKept
<1> QED BY <1>11, <1>12, <1>13 DEF FsInv

LEMMA BreakKeeps == ASSUME FsInv, Break PROVE FsInv'
<1>1. /\ connection # None /\ broken' = connections /\ DOMAIN table' = {}
      /\ connection' = connection /\ connections' = connections /\ content' = content
      /\ file' = file /\ mark' = mark /\ fetched' = fetched /\ closedUnder' = closedUnder
  BY DEF Break
<1>2. FsTypeOK' BY <1>1 DEF FsInv, FsTypeOK
<1>3. Dead' BY <1>1 DEF Dead
<1>4. Ledger' BY <1>1, <1>3 DEF FsInv, Ledger
<1>5. Buffering' BY <1>1 DEF FsInv, Buffering
<1> QED BY <1>2, <1>4, <1>5 DEF FsInv

\* closed with no file open: no handle is left behind.
LEMMA CloseFilesystemKeeps ==
    ASSUME FsInv, CloseFilesystem, ~closedUnder' PROVE FsInv'
<1>0. \A o \in Object : file[o].is # "open" BY DEF CloseFilesystem
<1>1. /\ connection' = None /\ DOMAIN table' = {} /\ connections' = connections /\ broken' = broken
      /\ content' = content /\ file' = file /\ mark' = mark /\ fetched' = fetched
  BY DEF CloseFilesystem
<1>2. FsTypeOK' BY <1>1 DEF FsInv, FsTypeOK
<1>3. \A o \in Object : file[o].handle = None BY <1>0 DEF FsInv, Ledger
<1>4. Ledger' BY <1>1, <1>3 DEF FsInv, Ledger
<1>5. Buffering' BY <1>1 DEF FsInv, Buffering
<1> QED BY <1>2, <1>4, <1>5 DEF FsInv

LEMMA FsNextKeeps ==
    ASSUME closedUnder \/ FsInv, [FsNext]_fsVars PROVE closedUnder' \/ FsInv'
<1>1. CASE UNCHANGED fsVars
  <2>1. FsInv => FsInv'
    BY <1>1 DEF fsVars, FsInv, FsTypeOK, Ledger, Dead, Buffering
  <2> QED BY <1>1, <2>1 DEF fsVars
<1>2. CASE FsNext /\ closedUnder
  BY <1>2 DEF FsNext, OpenFile, CatOpen, TakeHandle, Fetch, Write, Initiate, Flush, CloseFile,
     CloseFilesystem, Break
<1>3. CASE FsNext /\ FsInv
  BY <1>3, OpenFileKeeps, CatOpenKeeps, TakeHandleKeeps, FetchKeeps, WriteKeeps, InitiateKeeps,
     FlushKeeps, CloseFileKeeps, CloseFilesystemKeeps, BreakKeeps DEF FsNext
<1> QED BY <1>1, <1>2, <1>3

-------------------------------------------------------------------------------

\* A file closed without an exception holds what its caller wrote, every handle the server
\* holds is an open file's, and ranges come home: for files, modes and breaks without bound,
\* as long as the filesystem is not closed under its files (_upload_chunk, close, _fetch_range).
THEOREM FilesHold == FsSpec => []FilesAreWhole
<1>1. FsInit => closedUnder \/ FsInv BY FsInitInv
<1>2. (closedUnder \/ FsInv) /\ [FsNext]_fsVars => (closedUnder \/ FsInv)' BY FsNextKeeps
<1>3. closedUnder \/ FsInv => FilesAreWhole
  <2> SUFFICES ASSUME FsInv PROVE FilesAreWhole BY DEF FilesAreWhole
  <2>1. ASSUME NEW o \in Object, Mode[o] = "wb", file[o].is = "closed", ~mark[o].raised
        PROVE  content[Target[o]] = mark[o].wrote
    BY <2>1 DEF FsInv, Buffering, Writes
  <2>2. ASSUME NEW h \in DOMAIN table
        PROVE  file[table[h].of].is = "open" /\ file[table[h].of].handle = h
    <3>1. h \in Nat /\ table[h].of \in Object /\ file[table[h].of].handle = h
      BY DEF FsInv, FsTypeOK, Ledger
    <3> QED BY <3>1, FilesystemAssumption DEF FsInv, Ledger
  <2> QED BY <2>1, <2>2 DEF FilesAreWhole, FsInv, FsTypeOK
<1> QED BY <1>1, <1>2, <1>3, PTL DEF FsSpec

-------------------------------------------------------------------------------
(* The doctor's probes *)

Facts == {"start", "realpath", "root", "messages", "limits", "folds", "rename", "times", "posix",
          "fsync", "lsetstat", "hash", "largest"}
Names == {"case", "source", "target", "times", "from", "to", "fsync", "file", "link", "hash", "largest"}
Verdict3 == {"yes", "no", "undetermined"}

Below == {ss \in Nat \X Nat : ss[1] < ss[2]}
LEMMA BelowIs == OpToRel(<, Nat) = Below
BY Zenon DEF OpToRel, Below
LEMMA LeastNat ==
    ASSUME NEW T, T \subseteq Nat, T # {}
    PROVE  \E x \in T : \A y \in T : x <= y
<1>1. IsWellFoundedOn(Below, Nat) BY Zenon, BelowIs, NatLessThanWellFounded
<1>2. PICK x \in T : \A y \in T : ~(<<y, x>> \in Below) BY <1>1, WFMin
<1>3. ASSUME NEW y \in T PROVE x <= y
  <2>1. x \in Nat /\ y \in Nat /\ ~(<<y, x>> \in Below) BY <1>2, <1>3
  <2>2. <<y, x>> \in Nat \X Nat BY <2>1
  <2>3. ~(y < x) BY <2>1, <2>2 DEF Below
  <2> QED BY <2>1, <2>3
<1> QED BY <1>3

LEMMA BatteryIs ==
    /\ DOMAIN Battery = 1..13
    /\ Battery[1] = "start" /\ Battery[2] = "realpath" /\ Battery[3] = "root"
    /\ Battery[4] = "messages" /\ Battery[5] = "limits" /\ Battery[6] = "folds"
    /\ Battery[7] = "rename" /\ Battery[8] = "times" /\ Battery[9] = "posix"
    /\ Battery[10] = "fsync" /\ Battery[11] = "lsetstat" /\ Battery[12] = "hash"
    /\ Battery[13] = "largest"
BY DEF Battery

LEMMA BatteryHas == \A k \in 1..13 : Battery[k] \in Facts
<1> SUFFICES ASSUME NEW k \in 1..13 PROVE Battery[k] \in Facts OBVIOUS
<1>1. k \in {1, 2, 3, 4, 5, 6, 7, 8, 9, 10, 11, 12, 13} OBVIOUS
<1> QED BY <1>1, BatteryIs DEF Facts

\* The probes, each with what it asks.
LEMMA StepIs ==
    /\ Fact = "start" => /\ Len(Script[Fact]) = 1
                         /\ at.step = 1 => Step.ask = "start"
    /\ Fact = "realpath" => /\ Len(Script[Fact]) = 1
                            /\ at.step = 1 => Step.ask = "realpath"
    /\ Fact = "root" => /\ Len(Script[Fact]) = 1
                        /\ at.step = 1 => Step.ask = "root"
    /\ Fact = "messages" => /\ Len(Script[Fact]) = 2
                            /\ at.step = 1 => Step.ask = "stat"
                            /\ at.step = 2 => Step.ask = "readlink"
    /\ Fact = "limits" => /\ Len(Script[Fact]) = 1
                          /\ at.step = 1 => Step.ask = "limits"
    /\ Fact = "folds" => /\ Len(Script[Fact]) = 2
                         /\ at.step = 1 => Step.ask = "create" /\ Step.name = "case"
                         /\ at.step = 2 => Step.ask = "folds"
    /\ Fact = "rename" => /\ Len(Script[Fact]) = 3
                          /\ at.step = 1 => Step.ask = "create" /\ Step.name = "source"
                          /\ at.step = 2 => Step.ask = "create" /\ Step.name = "target"
                          /\ at.step = 3 => Step.ask = "rename" /\ Step.name = "source"
    /\ Fact = "times" => /\ Len(Script[Fact]) = 3
                         /\ at.step = 1 => Step.ask = "create" /\ Step.name = "times"
                         /\ at.step = 2 => Step.ask = "utime"
                         /\ at.step = 3 => Step.ask = "times"
    /\ Fact = "posix" => /\ Len(Script[Fact]) = 4
                         /\ at.step = 1 => Step.ask = "create" /\ Step.name = "from"
                         /\ at.step = 2 => Step.ask = "create" /\ Step.name = "to"
                         /\ at.step = 3 => Step.ask = "posix" /\ Step.name = "from"
                         /\ at.step = 4 => Step.ask = "exists" /\ Step.name = "from"
    /\ Fact = "fsync" => /\ Len(Script[Fact]) = 3
                         /\ at.step = 1 => Step.ask = "create" /\ Step.name = "fsync"
                         /\ at.step = 2 => Step.ask = "write"
                         /\ at.step = 3 => Step.ask = "fsync"
    /\ Fact = "lsetstat" => /\ Len(Script[Fact]) = 4
                            /\ at.step = 1 => Step.ask = "create" /\ Step.name = "file"
                            /\ at.step = 2 => Step.ask = "create" /\ Step.name = "link"
                            /\ at.step = 3 => Step.ask = "lsetstat"
                            /\ at.step = 4 => Step.ask = "modes"
    /\ Fact = "hash" => /\ Len(Script[Fact]) = 3
                        /\ at.step = 1 => Step.ask = "create" /\ Step.name = "hash"
                        /\ at.step = 2 => Step.ask = "open"
                        /\ at.step = 3 => Step.ask = "hash"
    /\ Fact = "largest" => /\ Len(Script[Fact]) = 2
                           /\ at.step = 1 => Step.ask = "create" /\ Step.name = "largest"
                           /\ at.step = 2 => Step.ask = "largest"
<1>1. ASSUME Fact = "start"
      PROVE  /\ Len(Script[Fact]) = 1
             /\ at.step = 1 => Step.ask = "start"
  BY <1>1 DEF Script, Step, Ask
<1>2. ASSUME Fact = "realpath"
      PROVE  /\ Len(Script[Fact]) = 1
             /\ at.step = 1 => Step.ask = "realpath"
  BY <1>2 DEF Script, Step, Ask, realpath_of_a_missing_path
<1>3. ASSUME Fact = "root"
      PROVE  /\ Len(Script[Fact]) = 1
             /\ at.step = 1 => Step.ask = "root"
  BY <1>3 DEF Script, Step, Ask, root_shape
<1>4. ASSUME Fact = "messages"
      PROVE  /\ Len(Script[Fact]) = 2
             /\ at.step = 1 => Step.ask = "stat"
             /\ at.step = 2 => Step.ask = "readlink"
  BY <1>4 DEF Script, Step, Ask, message_quality
<1>5. ASSUME Fact = "limits"
      PROVE  /\ Len(Script[Fact]) = 1
             /\ at.step = 1 => Step.ask = "limits"
  BY <1>5 DEF Script, Step, Ask, limits
<1>6. ASSUME Fact = "folds"
      PROVE  /\ Len(Script[Fact]) = 2
             /\ at.step = 1 => Step.ask = "create" /\ Step.name = "case"
             /\ at.step = 2 => Step.ask = "folds"
  BY <1>6 DEF Script, Step, Ask, case_folding
<1>7. ASSUME Fact = "rename"
      PROVE  /\ Len(Script[Fact]) = 3
             /\ at.step = 1 => Step.ask = "create" /\ Step.name = "source"
             /\ at.step = 2 => Step.ask = "create" /\ Step.name = "target"
             /\ at.step = 3 => Step.ask = "rename" /\ Step.name = "source"
  BY <1>7 DEF Script, Step, Ask, rename_replaces
<1>8. ASSUME Fact = "times"
      PROVE  /\ Len(Script[Fact]) = 3
             /\ at.step = 1 => Step.ask = "create" /\ Step.name = "times"
             /\ at.step = 2 => Step.ask = "utime"
             /\ at.step = 3 => Step.ask = "times"
  BY <1>8 DEF Script, Step, Ask, timestamps
<1>9. ASSUME Fact = "posix"
      PROVE  /\ Len(Script[Fact]) = 4
             /\ at.step = 1 => Step.ask = "create" /\ Step.name = "from"
             /\ at.step = 2 => Step.ask = "create" /\ Step.name = "to"
             /\ at.step = 3 => Step.ask = "posix" /\ Step.name = "from"
             /\ at.step = 4 => Step.ask = "exists" /\ Step.name = "from"
  BY <1>9 DEF Script, Step, Ask, posix_rename
<1>10. ASSUME Fact = "fsync"
      PROVE  /\ Len(Script[Fact]) = 3
             /\ at.step = 1 => Step.ask = "create" /\ Step.name = "fsync"
             /\ at.step = 2 => Step.ask = "write"
             /\ at.step = 3 => Step.ask = "fsync"
  BY <1>10 DEF Script, Step, Ask, fsync
<1>11. ASSUME Fact = "lsetstat"
      PROVE  /\ Len(Script[Fact]) = 4
             /\ at.step = 1 => Step.ask = "create" /\ Step.name = "file"
             /\ at.step = 2 => Step.ask = "create" /\ Step.name = "link"
             /\ at.step = 3 => Step.ask = "lsetstat"
             /\ at.step = 4 => Step.ask = "modes"
  BY <1>11 DEF Script, Step, Ask, lsetstat
<1>12. ASSUME Fact = "hash"
      PROVE  /\ Len(Script[Fact]) = 3
             /\ at.step = 1 => Step.ask = "create" /\ Step.name = "hash"
             /\ at.step = 2 => Step.ask = "open"
             /\ at.step = 3 => Step.ask = "hash"
  BY <1>12 DEF Script, Step, Ask, check_file
<1>13. ASSUME Fact = "largest"
      PROVE  /\ Len(Script[Fact]) = 2
             /\ at.step = 1 => Step.ask = "create" /\ Step.name = "largest"
             /\ at.step = 2 => Step.ask = "largest"
  BY <1>13 DEF Script, Step, Ask, largest_request
<1> QED BY <1>1, <1>2, <1>3, <1>4, <1>5, <1>6, <1>7, <1>8, <1>9, <1>10, <1>11, <1>12, <1>13

Claims == {claimed[i] : i \in DOMAIN claimed}
Claimable(fact) == {Named(fact)[i] : i \in DOMAIN Named(fact)}
Found(fact) == \E i \in DOMAIN findings : findings[i][1] = fact

PrTypeOK ==
    /\ host \in HostKind /\ writes \in BOOLEAN
    /\ at \in [fact : 0..13, step : 1..4, up : BOOLEAN]
    /\ at.fact # 0 => at.step <= Len(Script[Fact])
    /\ claimed \in Seq(Names)
    /\ findings \in Seq(Facts \X Verdict3)

\* What is in the directory is still to be removed, or reported; a probe that has begun has
\* claimed its names.
Accounted ==
    /\ strewn \subseteq Claims \cup left
    /\ at.fact # 0 /\ at.step > 1 => Claimable(Fact) \subseteq Claims

\* What the probe of posix-rename knows by the time it looks whether the file has moved.
PosixKnown ==
    at.fact # 0 /\ Fact = "posix" =>
        /\ at.step \in {2, 3} => "from" \in strewn
        /\ at.step = 4 => host.posix = "ok" /\ ("from" \in strewn <=> host.pretends)

Excuse(fact) == ~host.creates \/ fact = "largest" \/ host[fact] \in {"refused", "none", "accepts"}
Just(fact, verdict) ==
    /\ verdict = "yes" => Holds(fact)
    /\ verdict = "no" => ~Holds(fact)
Judged ==
    \A i \in DOMAIN findings :
        /\ Just(findings[i][1], findings[i][2])
        /\ findings[i][2] = "undetermined" /\ unheard = {} => Excuse(findings[i][1])

\* A session ends by itself over the last question alone.
LinkLost == ~at.up /\ unheard = {} => at.fact = 0

StartLost == at.fact = 0 /\ findings = <<<<"start", "undetermined">>>>
Passed ==
    StartLost \/ \A k \in 2..13 : (at.fact = 0 \/ k < at.fact) /\ IsAsked(Battery[k]) => Found(Battery[k])

PrInv == PrTypeOK /\ Accounted /\ PosixKnown /\ Judged /\ LinkLost /\ Passed

-------------------------------------------------------------------------------
(* What an answer says *)

LEMMA FactIs == ASSUME PrTypeOK, at.fact # 0 PROVE Fact \in Facts
BY BatteryHas DEF PrTypeOK, Fact

\* The verdict of an answer that ends a probe is what the server is.
LEMMA CreateTells ==
    ASSUME Step.ask = "create", host.creates \in BOOLEAN, 
           at.step < Len(Script[Fact]), Fact # "messages", ~GoesOn(Answer)
    PROVE  /\ Just(Fact, FindingOf(Answer))
           /\ FindingOf(Answer) = "undetermined" => Excuse(Fact)
<1>1. Answer = IF host.creates THEN "ok" ELSE "refused" BY DEF Answer
<1>2. ~host.creates BY <1>1 DEF GoesOn
<1>3. Answer = "refused" BY <1>1, <1>2
<1>4. FindingOf(Answer) = "undetermined" BY <1>3 DEF FindingOf, NotEstablished
<1> QED BY <1>2, <1>4 DEF Just, Excuse

LEMMA AnswerTells ==
    ASSUME PrTypeOK, PosixKnown, at.fact # 0, Fact # "start", ~GoesOn(Answer)
    PROVE  /\ Just(Fact, FindingOf(Answer))
           /\ FindingOf(Answer) = "undetermined" => Excuse(Fact)
<1>0. at.step \in 1..4 /\ at.step <= Len(Script[Fact]) BY DEF PrTypeOK
<1>13. /\ host.creates \in BOOLEAN /\ host.pretends \in BOOLEAN
       /\ host.realpath \in {"ok", "refused"}
       /\ host.root \in {"/", "other", "refused"}
       /\ host.messages \in {"tells", "silent", "restates", "accepts"}
       /\ host.limits \in {"stated", "none"}
       /\ host.folds \in {"ok", "gone", "refused"}
       /\ host.rename \in {"ok", "refused"}
       /\ host.times \in {"kept", "changed", "none"}
       /\ host.posix \in {"ok", "refused", "unsupported"}
       /\ host.fsync \in {"ok", "refused", "unsupported"}
       /\ host.lsetstat \in {"link", "target", "neither", "refused"}
       /\ host.hash \in {"true", "wrong", "refused"}
       /\ host.largest \in {"whole", "short", "refused", "hangs up"}
  BY DEF PrTypeOK, HostKind
<1>1. CASE Fact = "realpath"
  <2>0. Len(Script[Fact]) = 1 BY <1>1, StepIs
  <2>1. CASE at.step = 1
    <3>1. Step.ask = "realpath" BY <1>1, <2>1, StepIs
    <3>2. Answer = host.realpath BY <3>1 DEF Answer
    <3> QED
      BY <1>13, <1>1, <2>0, <2>1, <3>1, <3>2
      DEF GoesOn, FindingOf, NotEstablished, Says, Holds, Just, Excuse
  <2> QED BY <1>0, <2>0, <2>1
<1>2. CASE Fact = "root"
  <2>0. Len(Script[Fact]) = 1 BY <1>2, StepIs
  <2>1. CASE at.step = 1
    <3>1. Step.ask = "root" BY <1>2, <2>1, StepIs
    <3>2. Answer = host.root BY <3>1 DEF Answer
    <3> QED
      BY <1>13, <1>2, <2>0, <2>1, <3>1, <3>2
      DEF GoesOn, FindingOf, NotEstablished, Says, Holds, Just, Excuse
  <2> QED BY <1>0, <2>0, <2>1
<1>3. CASE Fact = "messages"
  <2>0. Len(Script[Fact]) = 2 BY <1>3, StepIs
  <2>1. CASE at.step = 1
    <3>1. Step.ask = "stat" BY <1>3, <2>1, StepIs
    <3>2. Answer = IF host.messages = "accepts" THEN "accepts" ELSE "refused" BY <3>1 DEF Answer
    <3>3. CASE host.messages = "accepts"
      <4>1. Answer = "accepts" BY <3>2, <3>3
      <4> QED BY <1>3, <3>1, <3>3, <4>1 DEF FindingOf, NotEstablished, Says, Holds, Just, Excuse
    <3>4. CASE ~(host.messages = "accepts")
      <4>1. Answer = "refused" BY <3>2, <3>4
      <4> QED BY <1>3, <2>0, <2>1, <4>1 DEF GoesOn
    <3> QED BY <3>3, <3>4
  <2>2. CASE at.step = 2
    <3>1. Step.ask = "readlink" BY <1>3, <2>2, StepIs
    <3>2. Answer = host.messages BY <3>1 DEF Answer
    <3> QED
      BY <1>13, <1>3, <2>0, <2>2, <3>1, <3>2
      DEF GoesOn, FindingOf, NotEstablished, Says, Holds, Just, Excuse
  <2> QED BY <1>0, <2>0, <2>1, <2>2
<1>4. CASE Fact = "limits"
  <2>0. Len(Script[Fact]) = 1 BY <1>4, StepIs
  <2>1. CASE at.step = 1
    <3>1. Step.ask = "limits" BY <1>4, <2>1, StepIs
    <3>2. Answer = host.limits BY <3>1 DEF Answer
    <3> QED
      BY <1>13, <1>4, <2>0, <2>1, <3>1, <3>2
      DEF GoesOn, FindingOf, NotEstablished, Says, Holds, Just, Excuse
  <2> QED BY <1>0, <2>0, <2>1
<1>5. CASE Fact = "folds"
  <2>0. Len(Script[Fact]) = 2 BY <1>5, StepIs
  <2>1. CASE at.step = 1
    <3>1. Step.ask = "create" /\ Step.name = "case" BY <1>5, <2>1, StepIs
    <3>2. at.step < Len(Script[Fact]) /\ Fact # "messages" BY <1>5, <2>0, <2>1
    <3> QED BY <1>13, <3>1, <3>2, CreateTells
  <2>2. CASE at.step = 2
    <3>1. Step.ask = "folds" BY <1>5, <2>2, StepIs
    <3>2. Answer = host.folds BY <3>1 DEF Answer
    <3> QED
      BY <1>13, <1>5, <2>0, <2>2, <3>1, <3>2
      DEF GoesOn, FindingOf, NotEstablished, Says, Holds, Just, Excuse
  <2> QED BY <1>0, <2>0, <2>1, <2>2
<1>6. CASE Fact = "rename"
  <2>0. Len(Script[Fact]) = 3 BY <1>6, StepIs
  <2>1. CASE at.step = 1
    <3>1. Step.ask = "create" /\ Step.name = "source" BY <1>6, <2>1, StepIs
    <3>2. at.step < Len(Script[Fact]) /\ Fact # "messages" BY <1>6, <2>0, <2>1
    <3> QED BY <1>13, <3>1, <3>2, CreateTells
  <2>2. CASE at.step = 2
    <3>1. Step.ask = "create" /\ Step.name = "target" BY <1>6, <2>2, StepIs
    <3>2. at.step < Len(Script[Fact]) /\ Fact # "messages" BY <1>6, <2>0, <2>2
    <3> QED BY <1>13, <3>1, <3>2, CreateTells
  <2>3. CASE at.step = 3
    <3>1. Step.ask = "rename" /\ Step.name = "source" BY <1>6, <2>3, StepIs
    <3>2. Answer = host.rename BY <3>1 DEF Answer
    <3> QED
      BY <1>13, <1>6, <2>0, <2>3, <3>1, <3>2
      DEF GoesOn, FindingOf, NotEstablished, Says, Holds, Just, Excuse
  <2> QED BY <1>0, <2>0, <2>1, <2>2, <2>3
<1>7. CASE Fact = "times"
  <2>0. Len(Script[Fact]) = 3 BY <1>7, StepIs
  <2>1. CASE at.step = 1
    <3>1. Step.ask = "create" /\ Step.name = "times" BY <1>7, <2>1, StepIs
    <3>2. at.step < Len(Script[Fact]) /\ Fact # "messages" BY <1>7, <2>0, <2>1
    <3> QED BY <1>13, <3>1, <3>2, CreateTells
  <2>2. CASE at.step = 2
    <3>1. Step.ask = "utime" BY <1>7, <2>2, StepIs
    <3>2. Answer = "ok" BY <3>1 DEF Answer
    <3> QED BY <1>7, <2>0, <2>2, <3>2 DEF GoesOn
  <2>3. CASE at.step = 3
    <3>1. Step.ask = "times" BY <1>7, <2>3, StepIs
    <3>2. Answer = host.times BY <3>1 DEF Answer
    <3> QED
      BY <1>13, <1>7, <2>0, <2>3, <3>1, <3>2
      DEF GoesOn, FindingOf, NotEstablished, Says, Holds, Just, Excuse
  <2> QED BY <1>0, <2>0, <2>1, <2>2, <2>3
<1>8. CASE Fact = "posix"
  <2>0. Len(Script[Fact]) = 4 BY <1>8, StepIs
  <2>1. CASE at.step = 1
    <3>1. Step.ask = "create" /\ Step.name = "from" BY <1>8, <2>1, StepIs
    <3>2. at.step < Len(Script[Fact]) /\ Fact # "messages" BY <1>8, <2>0, <2>1
    <3> QED BY <1>13, <3>1, <3>2, CreateTells
  <2>2. CASE at.step = 2
    <3>1. Step.ask = "create" /\ Step.name = "to" BY <1>8, <2>2, StepIs
    <3>2. at.step < Len(Script[Fact]) /\ Fact # "messages" BY <1>8, <2>0, <2>2
    <3> QED BY <1>13, <3>1, <3>2, CreateTells
  <2>3. CASE at.step = 3
    <3>1. Step.ask = "posix" /\ Step.name = "from" BY <1>8, <2>3, StepIs
    <3>2. Answer = host.posix BY <3>1 DEF Answer
    <3>3. CASE host.posix # "ok"
      <4> QED
        BY <1>13, <1>8, <3>1, <3>2, <3>3 DEF FindingOf, NotEstablished, Says, Holds, Just, Excuse
    <3>4. CASE ~(host.posix # "ok")
      <4>1. Answer = "ok" BY <3>2, <3>4
      <4> QED BY <1>8, <2>0, <2>3, <4>1 DEF GoesOn
    <3> QED BY <3>3, <3>4
  <2>4. CASE at.step = 4
    <3>1. Step.ask = "exists" /\ Step.name = "from" BY <1>8, <2>4, StepIs
    <3>2. Answer = IF Step.name \in strewn THEN "there" ELSE "gone" BY <3>1 DEF Answer
    <3> QED
      BY <1>13, <1>8, <2>0, <2>4, <3>1, <3>2
      DEF GoesOn, FindingOf, NotEstablished, Says, Holds, Just, Excuse, PosixKnown
  <2> QED BY <1>0, <2>0, <2>1, <2>2, <2>3, <2>4
<1>9. CASE Fact = "fsync"
  <2>0. Len(Script[Fact]) = 3 BY <1>9, StepIs
  <2>1. CASE at.step = 1
    <3>1. Step.ask = "create" /\ Step.name = "fsync" BY <1>9, <2>1, StepIs
    <3>2. at.step < Len(Script[Fact]) /\ Fact # "messages" BY <1>9, <2>0, <2>1
    <3> QED BY <1>13, <3>1, <3>2, CreateTells
  <2>2. CASE at.step = 2
    <3>1. Step.ask = "write" BY <1>9, <2>2, StepIs
    <3>2. Answer = "ok" BY <3>1 DEF Answer
    <3> QED BY <1>9, <2>0, <2>2, <3>2 DEF GoesOn
  <2>3. CASE at.step = 3
    <3>1. Step.ask = "fsync" BY <1>9, <2>3, StepIs
    <3>2. Answer = host.fsync BY <3>1 DEF Answer
    <3> QED
      BY <1>13, <1>9, <2>0, <2>3, <3>1, <3>2
      DEF GoesOn, FindingOf, NotEstablished, Says, Holds, Just, Excuse
  <2> QED BY <1>0, <2>0, <2>1, <2>2, <2>3
<1>10. CASE Fact = "lsetstat"
  <2>0. Len(Script[Fact]) = 4 BY <1>10, StepIs
  <2>1. CASE at.step = 1
    <3>1. Step.ask = "create" /\ Step.name = "file" BY <1>10, <2>1, StepIs
    <3>2. at.step < Len(Script[Fact]) /\ Fact # "messages" BY <1>10, <2>0, <2>1
    <3> QED BY <1>13, <3>1, <3>2, CreateTells
  <2>2. CASE at.step = 2
    <3>1. Step.ask = "create" /\ Step.name = "link" BY <1>10, <2>2, StepIs
    <3>2. at.step < Len(Script[Fact]) /\ Fact # "messages" BY <1>10, <2>0, <2>2
    <3> QED BY <1>13, <3>1, <3>2, CreateTells
  <2>3. CASE at.step = 3
    <3>1. Step.ask = "lsetstat" BY <1>10, <2>3, StepIs
    <3>2. Answer = IF host.lsetstat = "refused" THEN "refused" ELSE "ok" BY <3>1 DEF Answer
    <3>3. CASE host.lsetstat = "refused"
      <4>1. Answer = "refused" BY <3>2, <3>3
      <4> QED BY <1>10, <3>1, <3>3, <4>1 DEF FindingOf, NotEstablished, Says, Holds, Just, Excuse
    <3>4. CASE ~(host.lsetstat = "refused")
      <4>1. Answer = "ok" BY <3>2, <3>4
      <4> QED BY <1>10, <2>0, <2>3, <4>1 DEF GoesOn
    <3> QED BY <3>3, <3>4
  <2>4. CASE at.step = 4
    <3>1. Step.ask = "modes" BY <1>10, <2>4, StepIs
    <3>2. Answer = host.lsetstat BY <3>1 DEF Answer
    <3> QED
      BY <1>13, <1>10, <2>0, <2>4, <3>1, <3>2
      DEF GoesOn, FindingOf, NotEstablished, Says, Holds, Just, Excuse
  <2> QED BY <1>0, <2>0, <2>1, <2>2, <2>3, <2>4
<1>11. CASE Fact = "hash"
  <2>0. Len(Script[Fact]) = 3 BY <1>11, StepIs
  <2>1. CASE at.step = 1
    <3>1. Step.ask = "create" /\ Step.name = "hash" BY <1>11, <2>1, StepIs
    <3>2. at.step < Len(Script[Fact]) /\ Fact # "messages" BY <1>11, <2>0, <2>1
    <3> QED BY <1>13, <3>1, <3>2, CreateTells
  <2>2. CASE at.step = 2
    <3>1. Step.ask = "open" BY <1>11, <2>2, StepIs
    <3>2. Answer = "ok" BY <3>1 DEF Answer
    <3> QED BY <1>11, <2>0, <2>2, <3>2 DEF GoesOn
  <2>3. CASE at.step = 3
    <3>1. Step.ask = "hash" BY <1>11, <2>3, StepIs
    <3>2. Answer = host.hash BY <3>1 DEF Answer
    <3> QED
      BY <1>13, <1>11, <2>0, <2>3, <3>1, <3>2
      DEF GoesOn, FindingOf, NotEstablished, Says, Holds, Just, Excuse
  <2> QED BY <1>0, <2>0, <2>1, <2>2, <2>3
<1>12. CASE Fact = "largest"
  <2>0. Len(Script[Fact]) = 2 BY <1>12, StepIs
  <2>1. CASE at.step = 1
    <3>1. Step.ask = "create" /\ Step.name = "largest" BY <1>12, <2>1, StepIs
    <3>2. at.step < Len(Script[Fact]) /\ Fact # "messages" BY <1>12, <2>0, <2>1
    <3> QED BY <1>13, <3>1, <3>2, CreateTells
  <2>2. CASE at.step = 2
    <3>1. Step.ask = "largest" BY <1>12, <2>2, StepIs
    <3>2. Answer = host.largest BY <3>1 DEF Answer
    <3> QED
      BY <1>13, <1>12, <2>0, <2>2, <3>1, <3>2
      DEF GoesOn, FindingOf, NotEstablished, Says, Holds, Just, Excuse
  <2> QED BY <1>0, <2>0, <2>1, <2>2
<1> QED
  BY FactIs, <1>1, <1>2, <1>3, <1>4, <1>5, <1>6, <1>7, <1>8, <1>9, <1>10, <1>11, <1>12 DEF Facts

-------------------------------------------------------------------------------
(* Where an answer leads *)

LEMMA StartIs == ASSUME PrTypeOK, at.fact # 0 PROVE Fact = "start" <=> at.fact = 1
<1>1. at.fact \in 1..13 BY DEF PrTypeOK
<1>2. at.fact \in {1, 2, 3, 4, 5, 6, 7, 8, 9, 10, 11, 12, 13} BY <1>1
<1> QED BY <1>2, BatteryIs DEF Fact

LEMMA LargestIs == ASSUME PrTypeOK, at.fact # 0, Fact = "largest" PROVE at.fact = 13
<1>1. at.fact \in 1..13 BY DEF PrTypeOK
<1>2. at.fact \in {1, 2, 3, 4, 5, 6, 7, 8, 9, 10, 11, 12, 13} BY <1>1
<1> QED BY <1>2, BatteryIs DEF Fact

\* The next question is the first of those that follow and are asked, or there is none.
LEMMA FollowingIs ==
    ASSUME PrTypeOK, at.fact # 0
    PROVE  /\ Following = 0 \/ Following \in at.fact + 1 .. 13
           /\ \A k \in at.fact + 1 .. 13 : Following = 0 \/ k < Following => ~IsAsked(Battery[k])
<1> DEFINE later == {i \in DOMAIN Battery : i > at.fact /\ IsAsked(Battery[i])}
<1>1. at.fact \in 1..13 BY DEF PrTypeOK
<1>2. \A k \in at.fact + 1 .. 13 : k \notin later => ~IsAsked(Battery[k]) BY <1>1, BatteryIs
<1>3. later \subseteq at.fact + 1 .. 13 BY <1>1, BatteryIs
<1>4. Following = IF later = {} THEN 0 ELSE Min(later) BY DEF Following
<1> HIDE DEF later
<1>5. CASE later = {} BY <1>2, <1>4, <1>5
<1>6. CASE later # {}
  <2>0. later \subseteq Nat BY <1>1, <1>3
  <2>1. \E x \in later : \A y \in later : x <= y BY <1>6, <2>0, LeastNat
  <2>2. Min(later) \in later /\ \A y \in later : Min(later) <= y BY <2>1 DEF Min
  <2>3. Following \in later /\ \A y \in later : Following <= y BY <1>4, <1>6, <2>2
  <2>4. ASSUME NEW k \in at.fact + 1 .. 13, k < Following PROVE k \notin later
    <3>1. k \in Nat /\ Following \in Nat BY <1>1, <1>3, <2>3
    <3> QED BY <2>3, <2>4, <3>1
  <2>5. Following # 0 BY <1>1, <1>3, <2>3
  <2> QED BY <1>2, <1>3, <2>3, <2>4, <2>5
<1> QED BY <1>5, <1>6

\* Every probe asks something, and what it makes is one of the names it claims.
LEMMA ScriptsMake ==
    ASSUME PrTypeOK, at.fact # 0
    PROVE  /\ Len(Script[Fact]) \in 1..4
           /\ Step.ask = "create" => Step.name \in Claimable(Fact)
           /\ Claimable(Fact) \subseteq Names /\ Named(Fact) \in Seq(Names)
<1>0. at.step \in 1..4 /\ at.step <= Len(Script[Fact]) BY DEF PrTypeOK
<1>1. CASE Fact = "start"
  <2>0. Len(Script[Fact]) = 1 BY <1>1, StepIs
  <2>1. Len(Script[Fact]) = 1 /\ at.step \in 1..1 BY <1>0, <2>0
  <2>2. at.step = 1 => Step.ask = "start"
    BY <1>1, StepIs
  <2>3. Named(Fact) = <<>> BY <1>1 DEF Named
  <2>4. Claimable(Fact) = {} BY <2>3 DEF Claimable
  <2>5. Named(Fact) \in Seq(Names) BY <2>3 DEF Names
  <2> QED BY <2>1, <2>2, <2>4, <2>5 DEF Names
<1>2. CASE Fact = "realpath"
  <2>0. Len(Script[Fact]) = 1 BY <1>2, StepIs
  <2>1. Len(Script[Fact]) = 1 /\ at.step \in 1..1 BY <1>0, <2>0
  <2>2. at.step = 1 => Step.ask = "realpath"
    BY <1>2, StepIs
  <2>3. Named(Fact) = <<>> BY <1>2 DEF Named
  <2>4. Claimable(Fact) = {} BY <2>3 DEF Claimable
  <2>5. Named(Fact) \in Seq(Names) BY <2>3 DEF Names
  <2> QED BY <2>1, <2>2, <2>4, <2>5 DEF Names
<1>3. CASE Fact = "root"
  <2>0. Len(Script[Fact]) = 1 BY <1>3, StepIs
  <2>1. Len(Script[Fact]) = 1 /\ at.step \in 1..1 BY <1>0, <2>0
  <2>2. at.step = 1 => Step.ask = "root"
    BY <1>3, StepIs
  <2>3. Named(Fact) = <<>> BY <1>3 DEF Named
  <2>4. Claimable(Fact) = {} BY <2>3 DEF Claimable
  <2>5. Named(Fact) \in Seq(Names) BY <2>3 DEF Names
  <2> QED BY <2>1, <2>2, <2>4, <2>5 DEF Names
<1>4. CASE Fact = "messages"
  <2>0. Len(Script[Fact]) = 2 BY <1>4, StepIs
  <2>1. Len(Script[Fact]) = 2 /\ at.step \in 1..2 BY <1>0, <2>0
  <2>2. /\ at.step = 1 => Step.ask = "stat"
        /\ at.step = 2 => Step.ask = "readlink"
    BY <1>4, StepIs
  <2>3. Named(Fact) = <<>> BY <1>4 DEF Named
  <2>4. Claimable(Fact) = {} BY <2>3 DEF Claimable
  <2>5. Named(Fact) \in Seq(Names) BY <2>3 DEF Names
  <2> QED BY <2>1, <2>2, <2>4, <2>5 DEF Names
<1>5. CASE Fact = "limits"
  <2>0. Len(Script[Fact]) = 1 BY <1>5, StepIs
  <2>1. Len(Script[Fact]) = 1 /\ at.step \in 1..1 BY <1>0, <2>0
  <2>2. at.step = 1 => Step.ask = "limits"
    BY <1>5, StepIs
  <2>3. Named(Fact) = <<>> BY <1>5 DEF Named
  <2>4. Claimable(Fact) = {} BY <2>3 DEF Claimable
  <2>5. Named(Fact) \in Seq(Names) BY <2>3 DEF Names
  <2> QED BY <2>1, <2>2, <2>4, <2>5 DEF Names
<1>6. CASE Fact = "folds"
  <2>0. Len(Script[Fact]) = 2 BY <1>6, StepIs
  <2>1. Len(Script[Fact]) = 2 /\ at.step \in 1..2 BY <1>0, <2>0
  <2>2. /\ at.step = 1 => Step.ask = "create" /\ Step.name = "case"
        /\ at.step = 2 => Step.ask = "folds"
    BY <1>6, StepIs
  <2>3. Named(Fact) = <<"case">> BY <1>6 DEF Named
  <2>4. Claimable(Fact) = {"case"} BY <2>3 DEF Claimable
  <2>5. Named(Fact) \in Seq(Names) BY <2>3 DEF Names
  <2> QED BY <2>1, <2>2, <2>4, <2>5 DEF Names
<1>7. CASE Fact = "rename"
  <2>0. Len(Script[Fact]) = 3 BY <1>7, StepIs
  <2>1. Len(Script[Fact]) = 3 /\ at.step \in 1..3 BY <1>0, <2>0
  <2>2. /\ at.step = 1 => Step.ask = "create" /\ Step.name = "source"
        /\ at.step = 2 => Step.ask = "create" /\ Step.name = "target"
        /\ at.step = 3 => Step.ask = "rename"
    BY <1>7, StepIs
  <2>3. Named(Fact) = <<"source", "target">> BY <1>7 DEF Named
  <2>4. Claimable(Fact) = {"source", "target"} BY <2>3 DEF Claimable
  <2>5. Named(Fact) \in Seq(Names) BY <2>3 DEF Names
  <2> QED BY <2>1, <2>2, <2>4, <2>5 DEF Names
<1>8. CASE Fact = "times"
  <2>0. Len(Script[Fact]) = 3 BY <1>8, StepIs
  <2>1. Len(Script[Fact]) = 3 /\ at.step \in 1..3 BY <1>0, <2>0
  <2>2. /\ at.step = 1 => Step.ask = "create" /\ Step.name = "times"
        /\ at.step = 2 => Step.ask = "utime"
        /\ at.step = 3 => Step.ask = "times"
    BY <1>8, StepIs
  <2>3. Named(Fact) = <<"times">> BY <1>8 DEF Named
  <2>4. Claimable(Fact) = {"times"} BY <2>3 DEF Claimable
  <2>5. Named(Fact) \in Seq(Names) BY <2>3 DEF Names
  <2> QED BY <2>1, <2>2, <2>4, <2>5 DEF Names
<1>9. CASE Fact = "posix"
  <2>0. Len(Script[Fact]) = 4 BY <1>9, StepIs
  <2>1. Len(Script[Fact]) = 4 /\ at.step \in 1..4 BY <1>0, <2>0
  <2>2. /\ at.step = 1 => Step.ask = "create" /\ Step.name = "from"
        /\ at.step = 2 => Step.ask = "create" /\ Step.name = "to"
        /\ at.step = 3 => Step.ask = "posix"
        /\ at.step = 4 => Step.ask = "exists"
    BY <1>9, StepIs
  <2>3. Named(Fact) = <<"from", "to">> BY <1>9 DEF Named
  <2>4. Claimable(Fact) = {"from", "to"} BY <2>3 DEF Claimable
  <2>5. Named(Fact) \in Seq(Names) BY <2>3 DEF Names
  <2> QED BY <2>1, <2>2, <2>4, <2>5 DEF Names
<1>10. CASE Fact = "fsync"
  <2>0. Len(Script[Fact]) = 3 BY <1>10, StepIs
  <2>1. Len(Script[Fact]) = 3 /\ at.step \in 1..3 BY <1>0, <2>0
  <2>2. /\ at.step = 1 => Step.ask = "create" /\ Step.name = "fsync"
        /\ at.step = 2 => Step.ask = "write"
        /\ at.step = 3 => Step.ask = "fsync"
    BY <1>10, StepIs
  <2>3. Named(Fact) = <<"fsync">> BY <1>10 DEF Named
  <2>4. Claimable(Fact) = {"fsync"} BY <2>3 DEF Claimable
  <2>5. Named(Fact) \in Seq(Names) BY <2>3 DEF Names
  <2> QED BY <2>1, <2>2, <2>4, <2>5 DEF Names
<1>11. CASE Fact = "lsetstat"
  <2>0. Len(Script[Fact]) = 4 BY <1>11, StepIs
  <2>1. Len(Script[Fact]) = 4 /\ at.step \in 1..4 BY <1>0, <2>0
  <2>2. /\ at.step = 1 => Step.ask = "create" /\ Step.name = "file"
        /\ at.step = 2 => Step.ask = "create" /\ Step.name = "link"
        /\ at.step = 3 => Step.ask = "lsetstat"
        /\ at.step = 4 => Step.ask = "modes"
    BY <1>11, StepIs
  <2>3. Named(Fact) = <<"file", "link">> BY <1>11 DEF Named
  <2>4. Claimable(Fact) = {"file", "link"} BY <2>3 DEF Claimable
  <2>5. Named(Fact) \in Seq(Names) BY <2>3 DEF Names
  <2> QED BY <2>1, <2>2, <2>4, <2>5 DEF Names
<1>12. CASE Fact = "hash"
  <2>0. Len(Script[Fact]) = 3 BY <1>12, StepIs
  <2>1. Len(Script[Fact]) = 3 /\ at.step \in 1..3 BY <1>0, <2>0
  <2>2. /\ at.step = 1 => Step.ask = "create" /\ Step.name = "hash"
        /\ at.step = 2 => Step.ask = "open"
        /\ at.step = 3 => Step.ask = "hash"
    BY <1>12, StepIs
  <2>3. Named(Fact) = <<"hash">> BY <1>12 DEF Named
  <2>4. Claimable(Fact) = {"hash"} BY <2>3 DEF Claimable
  <2>5. Named(Fact) \in Seq(Names) BY <2>3 DEF Names
  <2> QED BY <2>1, <2>2, <2>4, <2>5 DEF Names
<1>13. CASE Fact = "largest"
  <2>0. Len(Script[Fact]) = 2 BY <1>13, StepIs
  <2>1. Len(Script[Fact]) = 2 /\ at.step \in 1..2 BY <1>0, <2>0
  <2>2. /\ at.step = 1 => Step.ask = "create" /\ Step.name = "largest"
        /\ at.step = 2 => Step.ask = "largest"
    BY <1>13, StepIs
  <2>3. Named(Fact) = <<"largest">> BY <1>13 DEF Named
  <2>4. Claimable(Fact) = {"largest"} BY <2>3 DEF Claimable
  <2>5. Named(Fact) \in Seq(Names) BY <2>3 DEF Names
  <2> QED BY <2>1, <2>2, <2>4, <2>5 DEF Names
<1> QED
  BY FactIs, <1>1, <1>2, <1>3, <1>4, <1>5, <1>6, <1>7, <1>8, <1>9, <1>10, <1>11, <1>12, <1>13 DEF Facts

LEMMA ClaimedIs ==
    ASSUME PrInv, at.fact # 0, claimed' = Claimed
    PROVE  claimed' \in Seq(Names) /\ Claims \cup Claimable(Fact) \subseteq Claims'
<1>1. claimed \in Seq(Names) /\ Named(Fact) \in Seq(Names) BY ScriptsMake DEF PrInv, PrTypeOK
<1>2. CASE at.step = 1
  <2>1. claimed' = claimed \o Named(Fact) BY <1>2 DEF Claimed
  <2>2. claimed' \in Seq(Names) BY <1>1, <2>1, ConcatProperties
  <2>3. ASSUME NEW i \in DOMAIN claimed PROVE i \in DOMAIN claimed' /\ claimed'[i] = claimed[i]
    BY <1>1, <2>1, <2>3, ConcatProperties, LenProperties
  <2>4. ASSUME NEW i \in DOMAIN Named(Fact)
        PROVE  Len(claimed) + i \in DOMAIN claimed' /\ claimed'[Len(claimed) + i] = Named(Fact)[i]
    <3>1. /\ Len(claimed) \in Nat /\ Len(Named(Fact)) \in Nat /\ i \in 1..Len(Named(Fact))
          /\ DOMAIN claimed' = 1..(Len(claimed) + Len(Named(Fact)))
      BY <1>1, <2>1, <2>2, <2>4, ConcatProperties, LenProperties
    <3>2. Len(claimed) + i \in 1..(Len(claimed) + Len(Named(Fact))) /\ Len(claimed) + i > Len(claimed)
          /\ (Len(claimed) + i) - Len(claimed) = i
      BY <3>1
    <3> QED BY <1>1, <2>1, <3>1, <3>2, ConcatProperties
  <2> QED BY <2>2, <2>3, <2>4 DEF Claims, Claimable
<1>3. CASE at.step # 1
  <2>1. claimed' = claimed BY <1>3 DEF Claimed
  <2>2. at.step > 1 BY <1>3 DEF PrInv, PrTypeOK
  <2> QED BY <1>1, <2>1, <2>2 DEF Claims, PrInv, Accounted
<1> QED BY <1>2, <1>3

-------------------------------------------------------------------------------
(* Steps of a probe *)

\* An answer, or what stands for one, in the terms the invariant needs.
Heard(answer, up) ==
    /\ Concludes(answer, up) /\ claimed' = Claimed /\ UNCHANGED <<host, writes, left>>
    /\ strewn' \in {strewn, Performed} /\ unheard \subseteq unheard'
    /\ Fact # "start" /\ GoesOn(answer) => answer = Answer /\ strewn' = Performed
    /\ Fact # "start" /\ ~GoesOn(answer) =>
         /\ Just(Fact, FindingOf(answer))
         /\ FindingOf(answer) = "undetermined" /\ unheard' = {} => Excuse(Fact)
         /\ ~up /\ unheard' = {} => at.fact = 13
    /\ Fact = "start" /\ answer # "ok" => unheard' # {}

LEMMA ScriptLens == \A fact \in Facts : Len(Script[fact]) \in 1..4
<1>1. Len(Script["start"]) = 1 BY DEF Script
<1>2. Len(Script["realpath"]) = 1 BY DEF Script, realpath_of_a_missing_path
<1>3. Len(Script["root"]) = 1 BY DEF Script, root_shape
<1>4. Len(Script["messages"]) = 2 BY DEF Script, message_quality
<1>5. Len(Script["limits"]) = 1 BY DEF Script, limits
<1>6. Len(Script["folds"]) = 2 BY DEF Script, case_folding
<1>7. Len(Script["rename"]) = 3 BY DEF Script, rename_replaces
<1>8. Len(Script["times"]) = 3 BY DEF Script, timestamps
<1>9. Len(Script["posix"]) = 4 BY DEF Script, posix_rename
<1>10. Len(Script["fsync"]) = 3 BY DEF Script, fsync
<1>11. Len(Script["lsetstat"]) = 4 BY DEF Script, lsetstat
<1>12. Len(Script["hash"]) = 3 BY DEF Script, check_file
<1>13. Len(Script["largest"]) = 2 BY DEF Script, largest_request
<1> QED
  BY <1>1, <1>2, <1>3, <1>4, <1>5, <1>6, <1>7, <1>8, <1>9, <1>10, <1>11, <1>12, <1>13 DEF Facts

LEMMA FindingIs == ASSUME NEW answer PROVE FindingOf(answer) \in Verdict3
BY DEF FindingOf, Verdict3

LEMMA HeardMakes ==
    ASSUME PrInv, at.fact # 0, NEW answer, NEW up \in BOOLEAN, Heard(answer, up)
    PROVE  /\ claimed' \in Seq(Names) /\ strewn' \subseteq Claims' \cup left'
           /\ Claimable(Fact) \subseteq Claims'
<1>1. claimed' \in Seq(Names) /\ Claims \cup Claimable(Fact) \subseteq Claims'
  BY ClaimedIs DEF Heard
<1>2. strewn \subseteq Claims \cup left /\ left' = left BY DEF PrInv, Accounted, Heard
<1>3. Performed \subseteq strewn \cup Claimable(Fact)
  <2>1. Step.ask = "create" => Step.name \in Claimable(Fact) BY ScriptsMake DEF PrInv
  <2> QED BY <2>1 DEF Performed
<1>4. strewn' \in {strewn, Performed} BY DEF Heard
<1> QED BY <1>1, <1>2, <1>3, <1>4

\* The probe asks its next question.
LEMMA GoesOnKeeps ==
    ASSUME PrInv, at.fact # 0, NEW answer, NEW up \in BOOLEAN, Heard(answer, up),
           Fact # "start", GoesOn(answer)
    PROVE  PrInv'
<1>0. PrTypeOK BY DEF PrInv
<1>1. /\ at' = [at EXCEPT !.step = @ + 1] /\ findings' = findings
      /\ host' = host /\ writes' = writes /\ left' = left
      /\ answer = Answer /\ strewn' = Performed /\ unheard \subseteq unheard'
  BY DEF Heard, Concludes
<1>2. at.step < Len(Script[Fact]) /\ Len(Script[Fact]) \in 1..4 /\ at.step \in 1..4
  BY <1>0, ScriptsMake DEF GoesOn, PrTypeOK
<1>3. /\ at' \in [fact : 0..13, step : 1..4, up : BOOLEAN]
      /\ at'.fact = at.fact /\ at'.step = at.step + 1 /\ at'.up = at.up
  <2>1. at \in [fact : 0..13, step : 1..4, up : BOOLEAN] BY <1>0 DEF PrTypeOK
  <2>4. PICK n \in 1..4 : n = Len(Script[Fact]) BY <1>2
  <2>5. at.step < n BY <1>2, <2>4
  <2>2. at.step + 1 \in 1..4 BY <1>2, <2>5
  <2>3. at' = [at EXCEPT !.step = at.step + 1] BY <1>1
  <2> QED BY <2>1, <2>2, <2>3
<1>4. Fact' = Fact BY <1>3 DEF Fact
<1>5. at'.step <= Len(Script[Fact]) BY <1>2, <1>3
<1>6. PrTypeOK'
  <2>1. claimed' \in Seq(Names) BY HeardMakes
  <2> QED BY <1>0, <1>1, <1>3, <1>4, <1>5, <2>1 DEF PrTypeOK
<1>7. Accounted' BY <1>4, HeardMakes DEF Accounted, Claimable
<1>8. PosixKnown'
  <2> SUFFICES ASSUME Fact = "posix"
               PROVE  /\ at'.step \in {2, 3} => "from" \in strewn'
                      /\ at'.step = 4 => host.posix = "ok" /\ ("from" \in strewn' <=> host.pretends)
    BY <1>1, <1>4 DEF PosixKnown
  <2>0. PosixKnown /\ host.pretends \in BOOLEAN /\ host.creates \in BOOLEAN
    BY <1>0 DEF PrInv, PrTypeOK, HostKind
  <2>1. CASE at.step = 1
    <3>1. Step.ask = "create" /\ Step.name = "from" BY <2>1, StepIs
    <3>2. host.creates BY <1>1, <3>1 DEF GoesOn, Answer
    <3>3. "from" \in strewn' BY <1>1, <3>1, <3>2 DEF Performed
    <3> QED BY <1>3, <2>1, <3>3
  <2>2. CASE at.step = 2
    <3>1. Step.ask = "create" BY <2>2, StepIs
    <3>2. "from" \in strewn BY <2>0, <2>2 DEF PosixKnown
    <3>3. "from" \in strewn' BY <1>1, <3>1, <3>2 DEF Performed
    <3> QED BY <1>3, <2>2, <3>3
  <2>3. CASE at.step = 3
    <3>1. Step.ask = "posix" /\ Step.name = "from" BY <2>3, StepIs
    <3>2. "from" \in strewn BY <2>0, <2>3 DEF PosixKnown
    <3>3. Answer = host.posix BY <3>1 DEF Answer
    <3>4. host.posix = "ok" BY <1>1, <3>3 DEF GoesOn
    <3>5. strewn' = IF ~host.pretends THEN strewn \ {"from"} ELSE strewn
      BY <1>1, <3>1, <3>4 DEF Performed
    <3>6. "from" \in strewn' <=> host.pretends BY <3>2, <3>5
    <3> QED BY <1>3, <2>3, <3>4, <3>6
  <2>4. CASE at.step = 4
    <3>1. Len(Script[Fact]) = 4 BY StepIs
    <3> QED BY <1>2, <2>4, <3>1
  <2> QED BY <1>2, <2>1, <2>2, <2>3, <2>4
<1>9. Judged' BY <1>1 DEF PrInv, Judged, Just, Holds, Excuse
<1>10. LinkLost' BY <1>1, <1>3 DEF PrInv, LinkLost
<1>11. Passed' BY <1>1, <1>3 DEF PrInv, Passed, StartLost, IsAsked, Found
<1> QED BY <1>6, <1>7, <1>8, <1>9, <1>10, <1>11 DEF PrInv

\* A finding is added to those there are.
LEMMA OneMore ==
    ASSUME PrInv, NEW f \in Facts, NEW v \in Verdict3, findings' = Append(findings, <<f, v>>)
    PROVE  /\ findings' \in Seq(Facts \X Verdict3)
           /\ \A i \in DOMAIN findings' :
                \/ i \in DOMAIN findings /\ findings'[i] = findings[i]
                \/ findings'[i] = <<f, v>>
           /\ \A i \in DOMAIN findings : i \in DOMAIN findings' /\ findings'[i] = findings[i]
           /\ \E i \in DOMAIN findings' : findings'[i] = <<f, v>>
<1>1. findings \in Seq(Facts \X Verdict3) /\ <<f, v>> \in Facts \X Verdict3 BY DEF PrInv, PrTypeOK
<1>2. /\ findings' \in Seq(Facts \X Verdict3) /\ Len(findings) \in Nat
      /\ Len(findings') = Len(findings) + 1
      /\ \A i \in 1..Len(findings) : findings'[i] = findings[i]
      /\ findings'[Len(findings) + 1] = <<f, v>>
  BY <1>1, AppendProperties, LenProperties
<1>3. DOMAIN findings = 1..Len(findings) /\ DOMAIN findings' = 1..(Len(findings) + 1)
  BY <1>1, <1>2, LenProperties
<1>4. \A i \in DOMAIN findings' : i \in DOMAIN findings \/ i = Len(findings) + 1 BY <1>2, <1>3
<1>5. \A i \in DOMAIN findings : i \in DOMAIN findings' /\ findings'[i] = findings[i] BY <1>2, <1>3
<1>6. Len(findings) + 1 \in DOMAIN findings' BY <1>2, <1>3
<1> QED BY <1>2, <1>4, <1>5, <1>6

\* The probe ends with a finding, and the next one that is asked begins.
LEMMA EndsKeeps ==
    ASSUME PrInv, at.fact # 0, NEW answer, NEW up \in BOOLEAN, Heard(answer, up),
           Fact # "start", ~GoesOn(answer)
    PROVE  PrInv'
<1>0. PrTypeOK BY DEF PrInv
<1>1. /\ at' = [at EXCEPT !.fact = Following, !.step = 1, !.up = up]
      /\ findings' = Append(findings, <<Fact, FindingOf(answer)>>)
      /\ host' = host /\ writes' = writes /\ left' = left
      /\ unheard \subseteq unheard'
      /\ Just(Fact, FindingOf(answer))
      /\ FindingOf(answer) = "undetermined" /\ unheard' = {} => Excuse(Fact)
      /\ ~up /\ unheard' = {} => at.fact = 13
  BY DEF Heard, Concludes
<1>2. Fact \in Facts /\ FindingOf(answer) \in Verdict3 BY <1>0, FactIs, FindingIs
<1>3. /\ Following = 0 \/ Following \in at.fact + 1 .. 13
      /\ \A k \in at.fact + 1 .. 13 : Following = 0 \/ k < Following => ~IsAsked(Battery[k])
  BY <1>0, FollowingIs
<1>4. at.fact \in 2..13 BY <1>0, StartIs DEF PrTypeOK
<1>5. /\ at' \in [fact : 0..13, step : 1..4, up : BOOLEAN]
      /\ at'.fact = Following /\ at'.step = 1 /\ at'.up = up
  <2>1. at \in [fact : 0..13, step : 1..4, up : BOOLEAN] BY <1>0 DEF PrTypeOK
  <2>2. Following \in 0..13 BY <1>3, <1>4
  <2>3. at' = [at EXCEPT !.fact = Following, !.step = 1, !.up = up] BY <1>1
  <2>4. at' = [fact |-> Following, step |-> 1, up |-> up] BY <2>1, <2>3
  <2> QED BY <2>2, <2>4
<1>6. PrTypeOK'
  <2>1. claimed' \in Seq(Names) BY HeardMakes
  <2>2. findings' \in Seq(Facts \X Verdict3) BY <1>1, <1>2, OneMore
  <2>3. at'.fact # 0 => at'.step <= Len(Script[Fact'])
    <3> SUFFICES ASSUME at'.fact # 0 PROVE 1 <= Len(Script[Fact']) BY <1>5
    <3>1. at'.fact \in 1..13 BY <1>5
    <3>2. Fact' \in Facts BY <3>1, BatteryHas DEF Fact
    <3> QED BY <3>2, ScriptLens
  <2> QED BY <1>0, <1>1, <1>5, <2>1, <2>2, <2>3 DEF PrTypeOK
<1>7. Accounted' BY <1>5, HeardMakes DEF Accounted
<1>8. PosixKnown' BY <1>5 DEF PosixKnown
<1>9. Judged'
  <2>1. \A i \in DOMAIN findings' : \/ i \in DOMAIN findings /\ findings'[i] = findings[i]
                                    \/ findings'[i] = <<Fact, FindingOf(answer)>>
    BY <1>1, <1>2, OneMore
  <2> SUFFICES ASSUME NEW i \in DOMAIN findings'
               PROVE  /\ Just(findings'[i][1], findings'[i][2])
                      /\ findings'[i][2] = "undetermined" /\ unheard' = {} => Excuse(findings'[i][1])
    BY <1>1 DEF Judged, Just, Holds, Excuse
  <2>2. CASE i \in DOMAIN findings /\ findings'[i] = findings[i]
    BY <1>1, <2>2 DEF PrInv, Judged
  <2>3. CASE findings'[i] = <<Fact, FindingOf(answer)>>
    <3>1. findings'[i][1] = Fact /\ findings'[i][2] = FindingOf(answer) BY <2>3
    <3> QED BY <1>1, <3>1
  <2> QED BY <2>1, <2>2, <2>3
<1>10. LinkLost' BY <1>1, <1>3, <1>5 DEF LinkLost
<1>11. Passed'
  <2> SUFFICES ASSUME NEW k \in 2..13, at'.fact = 0 \/ k < at'.fact, IsAsked(Battery[k])
               PROVE  \E i \in DOMAIN findings' : findings'[i][1] = Battery[k]
    BY <1>1 DEF Passed, IsAsked, Found
  <2>0. ~StartLost BY DEF StartLost
  <2>1. /\ \A i \in DOMAIN findings : i \in DOMAIN findings' /\ findings'[i] = findings[i]
        /\ \E i \in DOMAIN findings' : findings'[i] = <<Fact, FindingOf(answer)>>
    BY <1>1, <1>2, OneMore
  <2>2. CASE k < at.fact
    <3>1. Found(Battery[k]) BY <2>0, <2>2 DEF PrInv, Passed
    <3> QED BY <2>1, <3>1 DEF Found
  <2>3. CASE k = at.fact
    <3>1. Battery[k] = Fact BY <2>3 DEF Fact
    <3>2. PICK i \in DOMAIN findings' : findings'[i] = <<Fact, FindingOf(answer)>> BY <2>1
    <3>3. findings'[i][1] = Fact BY <3>2
    <3> QED BY <3>1, <3>3
  <2>4. CASE k > at.fact
    <3>1. k \in at.fact + 1 .. 13 BY <1>4, <2>4
    <3> QED BY <1>3, <1>5, <3>1
  <2> QED BY <1>4, <2>2, <2>3, <2>4
<1> QED BY <1>6, <1>7, <1>8, <1>9, <1>10, <1>11 DEF PrInv

\* What is asked, and by whom the large request is.
LEMMA AsksIs ==
    ASSUME PrTypeOK, at.fact # 0
    PROVE  /\ Step.ask \in {"start", "realpath", "root", "stat", "readlink", "limits", "create", "folds",
                             "rename", "utime", "times", "posix", "exists", "write", "fsync",
                             "lsetstat", "modes", "open", "hash", "largest"}
           /\ Step.ask = "largest" => Fact = "largest"
<1>0. at.step \in 1..4 /\ at.step <= Len(Script[Fact]) BY DEF PrTypeOK
<1>1. CASE Fact = "start"
  <2>0. Len(Script[Fact]) = 1 BY <1>1, StepIs
  <2>1. at.step \in 1..1 BY <1>0, <2>0
  <2>2. at.step = 1 => Step.ask = "start"
    BY <1>1, StepIs
  <2> QED BY <1>1, <2>1, <2>2
<1>2. CASE Fact = "realpath"
  <2>0. Len(Script[Fact]) = 1 BY <1>2, StepIs
  <2>1. at.step \in 1..1 BY <1>0, <2>0
  <2>2. at.step = 1 => Step.ask = "realpath"
    BY <1>2, StepIs
  <2> QED BY <1>2, <2>1, <2>2
<1>3. CASE Fact = "root"
  <2>0. Len(Script[Fact]) = 1 BY <1>3, StepIs
  <2>1. at.step \in 1..1 BY <1>0, <2>0
  <2>2. at.step = 1 => Step.ask = "root"
    BY <1>3, StepIs
  <2> QED BY <1>3, <2>1, <2>2
<1>4. CASE Fact = "messages"
  <2>0. Len(Script[Fact]) = 2 BY <1>4, StepIs
  <2>1. at.step \in 1..2 BY <1>0, <2>0
  <2>2. /\ at.step = 1 => Step.ask = "stat"
        /\ at.step = 2 => Step.ask = "readlink"
    BY <1>4, StepIs
  <2> QED BY <1>4, <2>1, <2>2
<1>5. CASE Fact = "limits"
  <2>0. Len(Script[Fact]) = 1 BY <1>5, StepIs
  <2>1. at.step \in 1..1 BY <1>0, <2>0
  <2>2. at.step = 1 => Step.ask = "limits"
    BY <1>5, StepIs
  <2> QED BY <1>5, <2>1, <2>2
<1>6. CASE Fact = "folds"
  <2>0. Len(Script[Fact]) = 2 BY <1>6, StepIs
  <2>1. at.step \in 1..2 BY <1>0, <2>0
  <2>2. /\ at.step = 1 => Step.ask = "create"
        /\ at.step = 2 => Step.ask = "folds"
    BY <1>6, StepIs
  <2> QED BY <1>6, <2>1, <2>2
<1>7. CASE Fact = "rename"
  <2>0. Len(Script[Fact]) = 3 BY <1>7, StepIs
  <2>1. at.step \in 1..3 BY <1>0, <2>0
  <2>2. /\ at.step = 1 => Step.ask = "create"
        /\ at.step = 2 => Step.ask = "create"
        /\ at.step = 3 => Step.ask = "rename"
    BY <1>7, StepIs
  <2> QED BY <1>7, <2>1, <2>2
<1>8. CASE Fact = "times"
  <2>0. Len(Script[Fact]) = 3 BY <1>8, StepIs
  <2>1. at.step \in 1..3 BY <1>0, <2>0
  <2>2. /\ at.step = 1 => Step.ask = "create"
        /\ at.step = 2 => Step.ask = "utime"
        /\ at.step = 3 => Step.ask = "times"
    BY <1>8, StepIs
  <2> QED BY <1>8, <2>1, <2>2
<1>9. CASE Fact = "posix"
  <2>0. Len(Script[Fact]) = 4 BY <1>9, StepIs
  <2>1. at.step \in 1..4 BY <1>0, <2>0
  <2>2. /\ at.step = 1 => Step.ask = "create"
        /\ at.step = 2 => Step.ask = "create"
        /\ at.step = 3 => Step.ask = "posix"
        /\ at.step = 4 => Step.ask = "exists"
    BY <1>9, StepIs
  <2> QED BY <1>9, <2>1, <2>2
<1>10. CASE Fact = "fsync"
  <2>0. Len(Script[Fact]) = 3 BY <1>10, StepIs
  <2>1. at.step \in 1..3 BY <1>0, <2>0
  <2>2. /\ at.step = 1 => Step.ask = "create"
        /\ at.step = 2 => Step.ask = "write"
        /\ at.step = 3 => Step.ask = "fsync"
    BY <1>10, StepIs
  <2> QED BY <1>10, <2>1, <2>2
<1>11. CASE Fact = "lsetstat"
  <2>0. Len(Script[Fact]) = 4 BY <1>11, StepIs
  <2>1. at.step \in 1..4 BY <1>0, <2>0
  <2>2. /\ at.step = 1 => Step.ask = "create"
        /\ at.step = 2 => Step.ask = "create"
        /\ at.step = 3 => Step.ask = "lsetstat"
        /\ at.step = 4 => Step.ask = "modes"
    BY <1>11, StepIs
  <2> QED BY <1>11, <2>1, <2>2
<1>12. CASE Fact = "hash"
  <2>0. Len(Script[Fact]) = 3 BY <1>12, StepIs
  <2>1. at.step \in 1..3 BY <1>0, <2>0
  <2>2. /\ at.step = 1 => Step.ask = "create"
        /\ at.step = 2 => Step.ask = "open"
        /\ at.step = 3 => Step.ask = "hash"
    BY <1>12, StepIs
  <2> QED BY <1>12, <2>1, <2>2
<1>13. CASE Fact = "largest"
  <2>0. Len(Script[Fact]) = 2 BY <1>13, StepIs
  <2>1. at.step \in 1..2 BY <1>0, <2>0
  <2>2. /\ at.step = 1 => Step.ask = "create"
        /\ at.step = 2 => Step.ask = "largest"
    BY <1>13, StepIs
  <2> QED BY <1>13, <2>1, <2>2
<1> QED
  BY FactIs, <1>1, <1>2, <1>3, <1>4, <1>5, <1>6, <1>7, <1>8, <1>9, <1>10, <1>11, <1>12, <1>13 DEF Facts

\* The session begins, or does not.
LEMMA StartKeeps ==
    ASSUME PrInv, at.fact # 0, NEW answer, NEW up \in BOOLEAN, Heard(answer, up), Fact = "start"
    PROVE  PrInv'
<1>0. PrTypeOK BY DEF PrInv
<1>1. /\ host' = host /\ writes' = writes /\ left' = left /\ unheard \subseteq unheard'
      /\ answer # "ok" => unheard' # {}
      /\ IF answer = "ok" THEN at' = [at EXCEPT !.fact = 2] /\ findings' = findings
         ELSE at' = [at EXCEPT !.fact = 0] /\ findings' = <<<<"start", "undetermined">>>>
  BY DEF Heard, Concludes
<1>2. at \in [fact : 0..13, step : 1..4, up : BOOLEAN] BY <1>0 DEF PrTypeOK
<1>3. at.fact = 1 /\ at.step = 1
  <2>1. Len(Script[Fact]) = 1 BY StepIs
  <2> QED BY <1>0, <1>2, <2>1, StartIs DEF PrTypeOK
<1>4. claimed' \in Seq(Names) /\ strewn' \subseteq Claims' \cup left' BY HeardMakes
<1>5. CASE answer = "ok"
  <2>1. at' = [at EXCEPT !.fact = 2] /\ findings' = findings BY <1>1, <1>5
  <2>2. /\ at' \in [fact : 0..13, step : 1..4, up : BOOLEAN]
        /\ at'.fact = 2 /\ at'.step = 1 /\ at'.up = at.up
    BY <1>2, <1>3, <2>1
  <2>3. Fact' = "realpath" BY <2>2, BatteryIs DEF Fact
  <2>5. PrTypeOK'
    <3>1. at'.step <= Len(Script[Fact'])
      <4>1. Fact' \in Facts BY <2>3 DEF Facts
      <4>2. Len(Script[Fact']) \in 1..4 BY <4>1, ScriptLens
      <4>3. \A n \in 1..4 : 1 <= n OBVIOUS
      <4> QED BY <2>2, <4>2, <4>3
    <3>2. /\ host' \in HostKind /\ writes' \in BOOLEAN
          /\ findings' \in Seq(Facts \X Verdict3)
      BY <1>0, <1>1, <2>1 DEF PrTypeOK
    <3>3. claimed' \in Seq(Names) BY <1>4
    <3> HIDE <1>0, <1>1
    <3> QED BY <2>2, <3>1, <3>2, <3>3 DEF PrTypeOK
  <2>6. Accounted' BY <1>4, <2>2 DEF Accounted
  <2>7. PosixKnown' BY <2>2 DEF PosixKnown
  <2>8. Judged' BY <1>1, <2>1 DEF PrInv, Judged, Just, Holds, Excuse
  <2>9. LinkLost' BY <1>1, <1>3, <2>2 DEF PrInv, LinkLost
  <2>10. Passed' BY <2>2 DEF Passed
  <2> QED BY <2>5, <2>6, <2>7, <2>8, <2>9, <2>10 DEF PrInv
<1>6. CASE answer # "ok"
  <2>1. at' = [at EXCEPT !.fact = 0] /\ findings' = <<<<"start", "undetermined">>>> /\ unheard' # {}
    BY <1>1, <1>6
  <2>2. at' \in [fact : 0..13, step : 1..4, up : BOOLEAN] /\ at'.fact = 0 BY <1>2, <2>1
  <2>3. findings' \in Seq(Facts \X Verdict3) BY <2>1 DEF Facts, Verdict3
  <2>5. PrTypeOK' BY <1>0, <1>1, <1>4, <2>2, <2>3 DEF PrTypeOK
  <2>6. Accounted' BY <1>4, <2>2 DEF Accounted
  <2>7. PosixKnown' BY <2>2 DEF PosixKnown
  <2>8. Judged'
    <3>1. \A i \in DOMAIN findings' : findings'[i][2] = "undetermined" BY <2>1
    <3> QED BY <2>1, <3>1 DEF Judged, Just
  <2>9. LinkLost' BY <2>1 DEF LinkLost
  <2>10. Passed' BY <2>1, <2>2 DEF Passed, StartLost
  <2> QED BY <2>5, <2>6, <2>7, <2>8, <2>9, <2>10 DEF PrInv
<1> QED BY <1>5, <1>6

LEMMA HeardKeeps ==
    ASSUME PrInv, at.fact # 0, NEW answer, NEW up \in BOOLEAN, Heard(answer, up)
    PROVE  PrInv'
BY StartKeeps, GoesOnKeeps, EndsKeeps

LEMMA AskNextKeeps == ASSUME PrInv, AskNext PROVE PrInv'
<1>1. Heard(Answer, TRUE)
  <2>1. Fact = "start" => Answer = "ok"
    <3>1. ASSUME Fact = "start" PROVE at.step = 1
      <4>1. Len(Script[Fact]) = 1 BY <3>1, StepIs
      <4>2. at.fact # 0 BY DEF AskNext, Cleaning
      <4>3. at.step \in 1..4 /\ at.step <= Len(Script[Fact]) BY <4>2 DEF PrInv, PrTypeOK
      <4> QED BY <4>1, <4>3
    <3>2. Fact = "start" => Step.ask = "start" BY <3>1, StepIs
    <3> QED BY <3>2 DEF Answer
  <2>2. Fact # "start" /\ ~GoesOn(Answer) =>
           /\ Just(Fact, FindingOf(Answer))
           /\ FindingOf(Answer) = "undetermined" => Excuse(Fact)
    BY AnswerTells DEF AskNext, Cleaning, PrInv
  <2> QED BY <2>1, <2>2 DEF AskNext, Heard
<1> QED BY <1>1, HeardKeeps DEF AskNext, Cleaning

\* An answer that did not come judges nothing.
LEMMA UnheardSays ==
    ~GoesOn("unheard") /\ FindingOf("unheard") = "undetermined" /\ Just(Fact, FindingOf("unheard"))
BY DEF GoesOn, FindingOf, NotEstablished, Just

LEMMA HangsUpKeeps == ASSUME PrInv, HangsUp PROVE PrInv'
<1>0. at.fact # 0 /\ Answer = "hangs up" BY DEF HangsUp, Cleaning
<1>1. Fact = "largest"
  <2>0. host \in HostKind BY DEF PrInv, PrTypeOK
  <2>1. CASE Step.ask \in {"create", "start", "utime", "write", "open", "exists", "stat", "lsetstat"}
    BY <1>0, <2>1 DEF Answer
  <2>2. CASE Step.ask = "readlink" BY <1>0, <2>0, <2>2 DEF Answer, HostKind
  <2>3. CASE Step.ask = "modes" BY <1>0, <2>0, <2>3 DEF Answer, HostKind
  <2>4. CASE Step.ask \in {"realpath", "root", "limits", "folds", "rename", "times", "posix",
                           "fsync", "hash"}
    <3>1. Answer = host[Step.ask] BY <2>4 DEF Answer
    <3> QED BY <1>0, <2>0, <2>4, <3>1 DEF HostKind
  <2>5. CASE Step.ask = "largest" BY <1>0, <2>5, AsksIs DEF PrInv
  <2> QED BY <1>0, <2>1, <2>2, <2>3, <2>4, <2>5, AsksIs DEF PrInv
<1>2. at.fact = 13 BY <1>0, <1>1, LargestIs DEF PrInv
<1>3. Heard("unheard", FALSE)
  BY <1>1, <1>2, UnheardSays DEF HangsUp, Heard, Excuse
<1> QED BY <1>0, <1>3, HeardKeeps

LEMMA LosesKeeps == ASSUME PrInv, Loses PROVE PrInv'
<1>1. PICK up \in BOOLEAN : Concludes("unheard", up) BY DEF Loses
<1>2. Heard("unheard", up) BY <1>1, UnheardSays DEF Loses, Heard
<1> QED BY <1>2, HeardKeeps DEF Loses, Cleaning

LEMMA FailsUnaskedKeeps == ASSUME PrInv, FailsUnasked PROVE PrInv'
<1>0. at.fact # 0 /\ unheard # {} BY DEF FailsUnasked, Cleaning, PrInv, LinkLost
<1>1. CASE Fact = "limits"
  <2>1. host.limits \in {"stated", "none"} BY DEF PrInv, PrTypeOK, HostKind
  <2>2. ~GoesOn(host.limits) BY <2>1 DEF GoesOn
  <2>3. FindingOf(host.limits) = IF host.limits = "stated" THEN "yes" ELSE "no"
    BY <1>1, <2>1 DEF FindingOf, NotEstablished, Says
  <2>4. Holds(Fact) <=> host.limits = "stated" BY <1>1, <2>1 DEF Holds, Says
  <2>5. Heard(host.limits, FALSE) BY <1>0, <1>1, <2>2, <2>3, <2>4 DEF FailsUnasked, Heard, Just
  <2> QED BY <1>0, <2>5, HeardKeeps
<1>2. CASE Fact # "limits"
  <2>1. Heard("unheard", FALSE) BY <1>0, <1>2, UnheardSays DEF FailsUnasked, Heard
  <2> QED BY <1>0, <2>1, HeardKeeps
<1> QED BY <1>1, <1>2

-------------------------------------------------------------------------------
(* What was made is removed *)

\* The last name is taken off what is claimed, whatever became of it.
LEMMA FrontIs ==
    ASSUME PrInv, claimed # <<>>, claimed' = Front(claimed)
    PROVE  claimed' \in Seq(Names) /\ Claims \subseteq Claims' \cup {Last(claimed)}
<1>1. claimed \in Seq(Names) /\ Len(claimed) \in Nat /\ DOMAIN claimed = 1..Len(claimed)
  BY LenProperties DEF PrInv, PrTypeOK
<1>2. Len(claimed) > 0 BY <1>1, EmptySeq
<1>3. claimed' = SubSeq(claimed, 1, Len(claimed) - 1) BY DEF Front
<1>4. /\ claimed' \in Seq(Names) /\ DOMAIN claimed' = 1..(Len(claimed) - 1)
      /\ \A i \in 1..(Len(claimed) - 1) : claimed'[i] = claimed[i]
  BY <1>1, <1>2, <1>3
<1>5. ASSUME NEW i \in DOMAIN claimed PROVE claimed[i] \in Claims' \cup {Last(claimed)}
  <2>1. CASE i = Len(claimed) BY <2>1 DEF Last
  <2>2. CASE i \in 1..(Len(claimed) - 1)
    <3>1. i \in DOMAIN claimed' /\ claimed'[i] = claimed[i] BY <1>4, <2>2
    <3> QED BY <3>1 DEF Claims
  <2> QED BY <1>1, <1>5, <2>1, <2>2
<1> QED BY <1>4, <1>5 DEF Claims

\* Nothing the report says changes, and what is in the directory is still accounted for.
LEMMA KeepsKeeps ==
    ASSUME PrInv, Cleaning, claimed # <<>>, Keeps, unheard \subseteq unheard',
           strewn' \subseteq Claims' \cup left'
    PROVE  PrInv'
<1>1. /\ host' = host /\ writes' = writes /\ at' = at /\ findings' = findings
      /\ claimed' = Front(claimed) /\ at.fact = 0
  BY DEF Keeps, Cleaning
<1>2. PrTypeOK' BY <1>1, FrontIs DEF PrInv, PrTypeOK
<1>3. Accounted' /\ PosixKnown' /\ LinkLost' BY <1>1 DEF Accounted, PosixKnown, LinkLost
<1>4. Judged' BY <1>1 DEF PrInv, Judged, Just, Holds, Excuse
<1>5. Passed' BY <1>1 DEF PrInv, Passed, StartLost, IsAsked, Found
<1> QED BY <1>2, <1>3, <1>4, <1>5 DEF PrInv

LEMMA CleanKeeps == ASSUME PrInv, Clean PROVE PrInv'
<1>1. Cleaning /\ claimed # <<>> /\ Keeps /\ unheard' = unheard BY DEF Clean
<1>2. Claims \subseteq Claims' \cup {Last(claimed)} BY <1>1, FrontIs DEF Keeps
<1>3. strewn \subseteq Claims \cup left BY DEF PrInv, Accounted
<1>4. strewn' \subseteq Claims' \cup left'
  <2>1. CASE Last(claimed) \in strewn /\ ~host.removes
    <3>1. left' = left \cup {Last(claimed)} /\ strewn' = strewn BY <2>1 DEF Clean
    <3> QED BY <1>2, <1>3, <3>1
  <2>2. CASE ~(Last(claimed) \in strewn /\ ~host.removes)
    <3>1. left' = left /\ strewn' = strewn \ {Last(claimed)} BY <2>2 DEF Clean
    <3> QED BY <1>2, <1>3, <3>1
  <2> QED BY <2>1, <2>2
<1> QED BY <1>1, <1>4, KeepsKeeps

LEMMA CleanFailsKeeps == ASSUME PrInv, CleanFails PROVE PrInv'
<1>1. /\ Cleaning /\ claimed # <<>> /\ Keeps /\ unheard \subseteq unheard'
      /\ strewn' \subseteq strewn /\ left' = left \cup {Last(claimed)}
  BY DEF CleanFails
<1>2. Claims \subseteq Claims' \cup {Last(claimed)} BY <1>1, FrontIs DEF Keeps
<1>3. strewn \subseteq Claims \cup left BY DEF PrInv, Accounted
<1>4. strewn' \subseteq Claims' \cup left' BY <1>1, <1>2, <1>3
<1> QED BY <1>1, <1>4, KeepsKeeps

-------------------------------------------------------------------------------
(* The report *)

LEMMA PrInit == ProbesInit => PrInv
<1> SUFFICES ASSUME ProbesInit PROVE PrInv OBVIOUS
<1>1. /\ host \in HostKind /\ writes \in BOOLEAN
      /\ at = [fact |-> 1, step |-> 1, up |-> TRUE]
      /\ strewn = {} /\ claimed = <<>> /\ findings = <<>> /\ left = {} /\ unheard = {}
  BY ProbesAssumption DEF ProbesInit
<1>2. at \in [fact : 0..13, step : 1..4, up : BOOLEAN] /\ at.fact = 1 /\ at.step = 1 /\ at.up
  BY <1>1
<1>3. Fact = "start" BY <1>2, BatteryIs DEF Fact
<1>4. Len(Script[Fact]) = 1 BY <1>3, StepIs
<1>5. PrTypeOK BY <1>1, <1>2, <1>4 DEF PrTypeOK
<1>6. Accounted /\ PosixKnown /\ LinkLost BY <1>1, <1>2, <1>3 DEF Accounted, PosixKnown, LinkLost
<1>7. Judged BY <1>1 DEF Judged
<1>8. Passed BY <1>2 DEF Passed
<1> QED BY <1>5, <1>6, <1>7, <1>8 DEF PrInv

LEMMA PrNextKeeps == PrInv /\ [ProbesNext]_probeVars => PrInv'
<1> SUFFICES ASSUME PrInv, [ProbesNext]_probeVars PROVE PrInv' OBVIOUS
<1>1. CASE AskNext BY <1>1, AskNextKeeps
<1>2. CASE HangsUp BY <1>2, HangsUpKeeps
<1>3. CASE Loses BY <1>3, LosesKeeps
<1>4. CASE FailsUnasked BY <1>4, FailsUnaskedKeeps
<1>5. CASE Clean BY <1>5, CleanKeeps
<1>6. CASE CleanFails BY <1>6, CleanFailsKeeps
<1>7. CASE UNCHANGED probeVars
  <2>1. /\ host' = host /\ writes' = writes /\ at' = at /\ strewn' = strewn
        /\ claimed' = claimed /\ findings' = findings /\ left' = left /\ unheard' = unheard
    BY <1>7 DEF probeVars
  <2>2. PrTypeOK' BY <2>1 DEF PrInv, PrTypeOK, Fact
  <2>3. Accounted' /\ PosixKnown' /\ LinkLost'
    BY <2>1 DEF PrInv, Accounted, PosixKnown, LinkLost, Fact, Claims
  <2>4. Judged' BY <2>1 DEF PrInv, Judged, Just, Holds, Excuse
  <2>5. Passed' BY <2>1 DEF PrInv, Passed, StartLost, IsAsked, Found
  <2> QED BY <2>2, <2>3, <2>4, <2>5 DEF PrInv
<1> QED BY <1>1, <1>2, <1>3, <1>4, <1>5, <1>6, <1>7 DEF ProbesNext

\* A fact that was not asked is one the report says it did not ask.
LEMMA NotAsked ==
    ASSUME writes \in BOOLEAN, NEW fact \in DOMAIN Says, ~IsAsked(fact)
    PROVE  \/ fact \in DOMAIN Needs /\ Limits \cap {Needs[fact], "unadvertised"} # {}
           \/ fact \notin DOMAIN Needs /\ "writes" \in Limits
<1>1. DOMAIN Needs = {"limits", "posix", "fsync", "lsetstat", "hash"} BY DEF Needs
<1>2. CASE fact \notin DOMAIN Needs
  <2>1. ~writes BY <1>2 DEF IsAsked
  <2> QED BY <1>2, <2>1 DEF Limits
<1>3. CASE fact \in DOMAIN Needs /\ Needs[fact] \notin host.offers
  <2>1. Needs[fact] \in Extensions BY <1>1, <1>3 DEF Needs, Extensions
  <2>2. "unadvertised" \in Limits BY <1>3, <2>1 DEF Limits
  <2> QED BY <1>3, <2>2
<1>4. CASE fact \in DOMAIN Needs /\ Needs[fact] \in host.offers
  <2>1. fact \in Writing /\ ~writes BY <1>4 DEF IsAsked
  <2>2. Needs[fact] # "limits" BY <1>1, <1>4, <2>1 DEF Needs, Writing
  <2>3. Needs[fact] \in Limits BY <1>4, <2>1, <2>2 DEF Limits
  <2> QED BY <1>4, <2>3
<1> QED BY <1>2, <1>3, <1>4

LEMMA BatterySays == \A fact \in DOMAIN Says : \E k \in 2..13 : Battery[k] = fact
<1> SUFFICES ASSUME NEW fact \in DOMAIN Says PROVE \E k \in 2..13 : Battery[k] = fact OBVIOUS
<1>1. fact \in {"realpath", "root", "messages", "limits", "folds", "rename", "times", "posix",
                "fsync", "lsetstat", "hash", "largest"}
  BY DEF Says
<1> QED BY <1>1, BatteryIs

LEMMA PrInvSays == PrInv => ProbesAreHonest
<1> SUFFICES ASSUME PrInv PROVE ProbesAreHonest OBVIOUS
<1>1. VerdictsAreTrue BY DEF VerdictsAreTrue, PrInv, Judged, Just
<1>2. OneFindingAtMost BY DEF OneFindingAtMost, PrInv, Judged, Excuse
<1>3. NothingPassedOver
  <2> SUFFICES ASSUME Cleaning, findings # <<<<"start", "undetermined">>>>,
                      NEW fact \in DOMAIN Says
               PROVE  \/ \E i \in DOMAIN findings : findings[i][1] = fact
                      \/ fact \in DOMAIN Needs /\ Limits \cap {Needs[fact], "unadvertised"} # {}
                      \/ fact \notin DOMAIN Needs /\ "writes" \in Limits
    BY DEF NothingPassedOver
  <2>1. PICK k \in 2..13 : Battery[k] = fact BY BatterySays
  <2>2. CASE IsAsked(fact)
    <3>1. at.fact = 0 /\ ~StartLost BY DEF Cleaning, StartLost
    <3>2. Found(Battery[k]) BY <2>1, <2>2, <3>1 DEF PrInv, Passed
    <3> QED BY <2>1, <3>2 DEF Found
  <2>3. CASE ~IsAsked(fact)
    <3>1. writes \in BOOLEAN BY DEF PrInv, PrTypeOK
    <3> QED BY <2>3, <3>1, NotAsked
  <2> QED BY <2>2, <2>3
<1>4. NothingForgotten
  <2> SUFFICES ASSUME claimed = <<>> PROVE strewn \subseteq left BY DEF NothingForgotten
  <2>1. Claims = {} BY DEF Claims
  <2> QED BY <2>1 DEF PrInv, Accounted
<1> QED BY <1>1, <1>2, <1>3, <1>4 DEF ProbesAreHonest

\* compatibility.py: for every server and whatever answers are lost, each verdict is what the
\* server is, a session the last question ends costs that finding alone, each fact is found or
\* named as not asked, and what is left behind is reported.
THEOREM ReportHolds == ProbesSpec => []ProbesAreHonest
<1>1. PrInv => ProbesAreHonest BY PrInvSays
<1>2. ProbesSpec => []PrInv BY PrInit, PrNextKeeps, PTL DEF ProbesSpec
<1> QED BY <1>1, <1>2, PTL

-------------------------------------------------------------------------------
(* The facade: sequences made of sequences *)

LowerNumber == {ss \in Nat \X Nat : ss[1] < ss[2]}

\* Induction over the natural numbers, for a set.
LEMMA NumbersInduct ==
    ASSUME NEW S, 0 \in S, \A n \in Nat : n \in S => n + 1 \in S
    PROVE  Nat \subseteq S
<1> SUFFICES ASSUME Nat \ S # {} PROVE FALSE OBVIOUS
<1>1. OpToRel(<, Nat) = LowerNumber BY Zenon DEF OpToRel, LowerNumber
<1>2. IsWellFoundedOn(LowerNumber, Nat) BY Zenon, <1>1, NatLessThanWellFounded
<1>3. PICK x \in Nat \ S : \A y \in Nat \ S : ~(<<y, x>> \in LowerNumber) BY <1>2, WFMin
<1>4. x # 0 BY <1>3
<1>5. x - 1 \in Nat /\ x - 1 < x BY <1>3, <1>4
<1>6. <<x - 1, x>> \in LowerNumber BY <1>3, <1>5 DEF LowerNumber
<1>7. x - 1 \in S BY <1>3, <1>5, <1>6
<1>8. (x - 1) + 1 \in S BY <1>5, <1>7
<1>9. (x - 1) + 1 = x BY <1>3
<1> QED BY <1>3, <1>8, <1>9

Starts(s, t) == Len(s) <= Len(t) /\ \A i \in 1..Len(s) : s[i] = t[i]

LEMMA PrefixIs ==
    ASSUME NEW X, NEW s \in Seq(X), NEW t \in Seq(X)
    PROVE  IsPrefix(s, t) <=> Starts(s, t)
<1>1. /\ Len(s) \in Nat /\ Len(t) \in Nat /\ s = [i \in 1..Len(s) |-> s[i]]
      /\ t = [i \in 1..Len(t) |-> t[i]]
  BY LenProperties
<1>2. SubSeq(s, 1, Len(s)) = [i \in 1..Len(s) |-> s[i]] BY <1>1
<1>3. Len(s) <= Len(t) => SubSeq(t, 1, Len(s)) = [i \in 1..Len(s) |-> t[i]] BY <1>1
<1> QED BY <1>1, <1>2, <1>3 DEF IsPrefix, Starts

LEMMA ConcatStarts ==
    ASSUME NEW X, NEW s \in Seq(X), NEW t \in Seq(X)
    PROVE  s \o t \in Seq(X) /\ Starts(s, s \o t)
BY DEF Starts

LEMMA StartsFurther ==
    ASSUME NEW X, NEW r \in Seq(X), NEW s \in Seq(X), NEW t \in Seq(X), Starts(r, s), Starts(s, t)
    PROVE  Starts(r, t)
BY LenProperties DEF Starts

\* What stands after each of the sequences that are put behind one another.
Partial(P, seqs, X) ==
    /\ P \in [0..Len(seqs) -> Seq(X)] /\ P[0] = <<>>
    /\ \A i \in 1..Len(seqs) : P[i] = P[i - 1] \o seqs[i]

LEMMA PartialsStart ==
    ASSUME NEW X, NEW seqs \in Seq(Seq(X)), NEW P, Partial(P, seqs, X), NEW k \in 0..Len(seqs)
    PROVE  Starts(P[k], P[Len(seqs)])
<1> DEFINE N == Len(seqs)
           S == {n \in Nat : n <= N => \A i \in 0..n : Starts(P[i], P[n])}
<1>1. N \in Nat /\ \A i \in 1..N : seqs[i] \in Seq(X) BY LenProperties
<1>2. \A i \in 0..N : P[i] \in Seq(X) BY DEF Partial
<1>3. 0 \in S BY DEF Partial, Starts
<1>4. ASSUME NEW n \in Nat, n \in S PROVE n + 1 \in S
  <2> SUFFICES ASSUME n + 1 <= N, NEW i \in 0..n + 1 PROVE Starts(P[i], P[n + 1]) OBVIOUS
  <2> HIDE DEF N
  <2>1. n + 1 \in 1..N /\ n \in 0..N /\ n + 1 \in 0..N /\ (n + 1) - 1 = n /\ i \in 0..N BY <1>1
  <2>2. P[n + 1] = P[n] \o seqs[n + 1] BY <2>1 DEF Partial, N
  <2>3. Starts(P[n], P[n + 1]) BY <1>1, <1>2, <2>1, <2>2, ConcatStarts
  <2>4. CASE i = n + 1 BY <2>4 DEF Starts
  <2>5. CASE i # n + 1
    <3>1. i \in 0..n BY <2>5
    <3>2. Starts(P[i], P[n]) BY <1>4, <2>1, <3>1
    <3> QED BY <1>2, <2>1, <2>3, <3>2, StartsFurther
  <2> QED BY <2>4, <2>5
<1> HIDE DEF S
<1>5. N \in S BY <1>1, <1>3, <1>4, NumbersInduct
<1> QED BY <1>1, <1>5 DEF S

LEMMA PartialsExist ==
    ASSUME NEW X, NEW seqs \in Seq(Seq(X))
    PROVE  \E P : Partial(P, seqs, X)
<1> DEFINE N == Len(seqs)
           Up1(f, n) == f[0] = <<>> /\ \A i \in 1..n : f[i] = f[i - 1] \o seqs[i]
           S == {n \in Nat : n <= N => \E f \in [0..n -> Seq(X)] : Up1(f, n)}
<1>1. N \in Nat /\ \A i \in 1..N : seqs[i] \in Seq(X) BY LenProperties
<1>2. 0 \in S
  <2> DEFINE f == [i \in 0..0 |-> <<>>]
  <2>1. f \in [0..0 -> Seq(X)] /\ Up1(f, 0) OBVIOUS
  <2> QED BY <2>1
<1>3. ASSUME NEW n \in Nat, n \in S PROVE n + 1 \in S
  <2> SUFFICES ASSUME n + 1 <= N PROVE \E f \in [0..n + 1 -> Seq(X)] : Up1(f, n + 1)
    <3> HIDE DEF Up1
    <3> QED OBVIOUS
  <2>1. PICK f \in [0..n -> Seq(X)] : Up1(f, n)
    <3> HIDE DEF Up1, N
    <3> QED BY <1>1, <1>3
  <2> DEFINE g == [i \in 0..n + 1 |-> IF i = n + 1 THEN f[n] \o seqs[n + 1] ELSE f[i]]
  <2>2. f[n] \o seqs[n + 1] \in Seq(X)
    <3>1. n + 1 \in 1..N /\ n \in 0..n BY <1>1
    <3>2. f[n] \in Seq(X) /\ seqs[n + 1] \in Seq(X) BY <1>1, <3>1
    <3> QED BY <3>2
  <2>3. g \in [0..n + 1 -> Seq(X)] BY <2>2
  <2>4. /\ \A i \in 0..n : g[i] = f[i]
        /\ g[n + 1] = f[n] \o seqs[n + 1]
    <3>1. n + 1 \in 0..n + 1 /\ \A i \in 0..n : i \in 0..n + 1 /\ i # n + 1 BY <1>1
    <3>2. ASSUME NEW i \in 0..n PROVE g[i] = f[i] BY <3>1
    <3>3. g[n + 1] = f[n] \o seqs[n + 1] BY <3>1
    <3> QED BY <3>2, <3>3
  <2> HIDE DEF g
  <2>5. \A i \in 1..n + 1 : g[i] = g[i - 1] \o seqs[i]
    <3> SUFFICES ASSUME NEW i \in 1..n + 1 PROVE g[i] = g[i - 1] \o seqs[i] OBVIOUS
    <3>1. CASE i = n + 1
      <4>1. i - 1 = n /\ n \in 0..n BY <3>1
      <4> QED BY <2>4, <3>1, <4>1
    <3>2. CASE i # n + 1
      <4>1. i \in 1..n /\ i - 1 \in 0..n /\ i \in 0..n BY <3>2
      <4> QED BY <2>1, <2>4, <4>1
    <3> QED BY <3>1, <3>2
  <2>6. g[0] = <<>> BY <2>1, <2>4
  <2> QED BY <2>3, <2>5, <2>6
<1> HIDE DEF S
<1>4. N \in S BY <1>1, <1>2, <1>3, NumbersInduct
<1>5. PICK f \in [0..N -> Seq(X)] : Up1(f, N)
  <2> HIDE DEF Up1, N
  <2> QED BY <1>1, <1>4 DEF S
<1> QED BY <1>5 DEF Partial

\* They are what FlattenSeq comes to.
LEMMA FlattenIs ==
    ASSUME NEW X, NEW seqs \in Seq(Seq(X))
    PROVE  \E P : Partial(P, seqs, X) /\ FlattenSeq(seqs) = P[Len(seqs)]
<1> DEFINE N == Len(seqs)
           Is(f) == f = [i \in 1..N |-> IF i = 1 THEN seqs[i] ELSE f[i - 1] \o seqs[i]]
           flatten == CHOOSE f : Is(f)
<1>1. N \in Nat /\ \A i \in 1..N : seqs[i] \in Seq(X) BY LenProperties
<1>2. PICK P : Partial(P, seqs, X) BY PartialsExist
<1>3. CASE N = 0
  <2>1. FlattenSeq(seqs) = seqs BY <1>3 DEF FlattenSeq
  <2>2. seqs = <<>> BY <1>3, EmptySeq
  <2> QED BY <1>2, <1>3, <2>1, <2>2 DEF Partial
<1>4. CASE N # 0
  <2>1. FlattenSeq(seqs) = flatten[N] BY <1>4 DEF FlattenSeq
  <2> DEFINE g == [i \in 1..N |-> P[i]]
  <2>2. \A i \in 1..N : P[i] = IF i = 1 THEN seqs[i] ELSE g[i - 1] \o seqs[i]
    <3> SUFFICES ASSUME NEW i \in 1..N PROVE P[i] = IF i = 1 THEN seqs[i] ELSE g[i - 1] \o seqs[i]
      OBVIOUS
    <3>1. P[i] = P[i - 1] \o seqs[i] BY <1>2 DEF Partial
    <3>2. CASE i = 1
      <4>1. P[i - 1] = <<>> BY <1>2, <3>2 DEF Partial
      <4> QED BY <1>1, <3>1, <3>2, <4>1
    <3>3. CASE i # 1
      <4>1. i - 1 \in 1..N BY <1>1, <3>3
      <4> HIDE DEF N
      <4> QED BY <3>1, <3>3, <4>1
    <3> QED BY <3>2, <3>3
  <2>3. Is(g)
    <3> HIDE DEF N
    <3> QED BY <2>2
  <2>4. Is(flatten) BY <2>3
  <2> HIDE DEF flatten, g, N
  <2> DEFINE S == {n \in Nat : n \in 1..N => flatten[n] = P[n]}
  <2>5. \A i \in 1..N : flatten[i] = IF i = 1 THEN seqs[i] ELSE flatten[i - 1] \o seqs[i]
    BY <2>4
  <2>6. 0 \in S BY <1>1
  <2>7. ASSUME NEW n \in Nat, n \in S PROVE n + 1 \in S
    <3> SUFFICES ASSUME n + 1 \in 1..N PROVE flatten[n + 1] = P[n + 1] OBVIOUS
    <3>1. P[n + 1] = P[n] \o seqs[n + 1]
      <4>1. (n + 1) - 1 = n OBVIOUS
      <4> QED BY <1>2, <4>1 DEF Partial, N
    <3>2. CASE n = 0
      <4>1. P[n] = <<>> BY <1>2, <3>2 DEF Partial
      <4>2. flatten[n + 1] = seqs[n + 1] BY <2>5, <3>2
      <4> QED BY <1>1, <3>1, <4>1, <4>2
    <3>3. CASE n # 0
      <4>1. n \in 1..N /\ n + 1 # 1 /\ (n + 1) - 1 = n BY <1>1, <3>3
      <4>2. flatten[n] = P[n] BY <2>7, <4>1
      <4>3. flatten[n + 1] = flatten[n] \o seqs[n + 1] BY <2>5, <4>1
      <4> QED BY <3>1, <4>2, <4>3
    <3> QED BY <3>2, <3>3
  <2> HIDE DEF S
  <2>8. N \in S BY <1>1, <2>6, <2>7, NumbersInduct
  <2>9. flatten[N] = P[N] BY <1>1, <1>4, <2>8 DEF S
  <2> QED BY <1>2, <2>1, <2>9 DEF N
<1> QED BY <1>3, <1>4

\* What buffered names come to, batch by batch.
LEMMA BufferedIs == ASSUME NEW batch \in Seq(EntryNames) PROVE Buffered(batch) \in Seq(EntryNames)
<1> DEFINE seqs == [i \in DOMAIN batch |-> IF batch[i] \in Dots THEN <<>> ELSE <<batch[i]>>]
<1>1. DOMAIN batch = 1..Len(batch) /\ Len(batch) \in Nat /\ \A i \in 1..Len(batch) : batch[i] \in EntryNames
  BY LenProperties, ElementOfSeq
<1>2. \A i \in 1..Len(batch) : (IF batch[i] \in Dots THEN <<>> ELSE <<batch[i]>>) \in Seq(EntryNames)
  BY <1>1
<1>3. seqs \in Seq(Seq(EntryNames)) BY <1>1, <1>2
<1> HIDE DEF seqs
<1>4. PICK P : Partial(P, seqs, EntryNames) /\ FlattenSeq(seqs) = P[Len(seqs)] BY <1>3, FlattenIs
<1>5. Len(seqs) \in 0..Len(seqs) BY <1>3, LenProperties
<1>6. FlattenSeq(seqs) \in Seq(EntryNames) BY <1>4, <1>5 DEF Partial
<1> QED BY <1>6 DEF Buffered, seqs

Showings == [i \in DOMAIN Batches |-> Buffered(Batches[i])]
Shown == CHOOSE P : Partial(P, Showings, EntryNames) /\ AllNames = P[Len(Showings)]

LEMMA ShownIs ==
    /\ Len(Batches) \in Nat /\ Shown \in [0..Len(Batches) -> Seq(EntryNames)] /\ Shown[0] = <<>>
    /\ \A i \in 1..Len(Batches) :
         Buffered(Batches[i]) \in Seq(EntryNames) /\ Shown[i] = Shown[i - 1] \o Buffered(Batches[i])
    /\ AllNames = Shown[Len(Batches)] /\ AllNames \in Seq(EntryNames)
    /\ \A i \in 0..Len(Batches) : Starts(Shown[i], AllNames)
<1>1. /\ DOMAIN Batches = 1..Len(Batches) /\ Len(Batches) \in Nat
      /\ \A i \in 1..Len(Batches) : Batches[i] \in Seq(EntryNames)
  BY FacadeAssumption, LenProperties, ElementOfSeq
<1>2. \A i \in 1..Len(Batches) : Buffered(Batches[i]) \in Seq(EntryNames) BY <1>1, BufferedIs
<1>3. Showings \in Seq(Seq(EntryNames)) /\ Len(Showings) = Len(Batches) BY <1>1, <1>2 DEF Showings
<1>4. \E P : Partial(P, Showings, EntryNames) /\ AllNames = P[Len(Showings)]
  BY <1>3, FlattenIs DEF AllNames, Showings
<1>5. Partial(Shown, Showings, EntryNames) /\ AllNames = Shown[Len(Showings)]
  BY <1>4, Zenon DEF Shown
<1>6. \A i \in 1..Len(Batches) : Showings[i] = Buffered(Batches[i]) BY <1>1 DEF Showings
<1>7. \A i \in 0..Len(Batches) : Starts(Shown[i], AllNames) BY <1>3, <1>5, PartialsStart
<1>8. AllNames \in Seq(EntryNames) BY <1>1, <1>3, <1>5 DEF Partial
<1> QED BY <1>1, <1>2, <1>3, <1>5, <1>6, <1>7, <1>8 DEF Partial

-------------------------------------------------------------------------------
(* The facade: its invariant *)

Handle == Thread \X Nat
Item == Nat \cup EntryNames
ObjectState == [entered : BOOLEAN, handle : Handle \cup {NoCall}, batch : Seq(EntryNames),
                exhausted : BOOLEAN, position : Nat, base : Nat]

FaTypeOK ==
    /\ session \in {"open", "closed"}
    /\ kind \in [Thread -> Kind] /\ obj \in [Thread -> ObjectState]
    /\ call \in [Thread -> PortalCalls \cup {NoCall}]
    /\ DOMAIN opened \subseteq Handle /\ late \subseteq DOMAIN opened
    /\ \A h \in DOMAIN opened : opened[h] \in 0..Len(Batches)
    /\ size \in Nat /\ disk \in [Thread -> Seq(Nat)] /\ got \in [Thread -> Seq(Item)]
    /\ lost \in [Thread -> Nat] /\ asks \in [Thread -> Nat]

\* What a call that went out is about.
Posted(t, what) == call[t] # NoCall /\ call[t].at # "ready" /\ call[t].op = what
InCall(t) ==
    /\ call[t] # NoCall => call[t].op \in Wants(t)
    /\ call[t] # NoCall /\ call[t].at = "ready" => call[t].on = NoCall
    /\ call[t] # NoCall /\ call[t].at = "sizing" => call[t].op \in {"readall", "seekend"}
    /\ Posted(t, "enter") => obj[t].entered /\ call[t].on \in {t} \X Nat
    /\ Posted(t, "exit") =>
         obj[t].handle = NoCall /\ call[t].on \in {t} \X Nat /\ call[t].on \notin late
    /\ Posted(t, "next") =>
         /\ obj[t].handle # NoCall /\ call[t].on = obj[t].handle
         /\ obj[t].batch = <<>> /\ ~obj[t].exhausted
    /\ Posted(t, "readall") /\ call[t].at = "asked" => call[t].on \in Nat
    /\ call[t] # NoCall /\ call[t].at # "ready" /\ call[t].op \notin {"enter", "exit"} =>
         obj[t].handle # NoCall

\* An object is entered once: before it has its handle the server has none for it, and a
\* handle that it has is nobody else's until its block ends.
Unborn(t) ==
    ~obj[t].entered \/ Posted(t, "enter") =>
        /\ obj[t].handle = NoCall /\ \A h \in DOMAIN opened : h[1] # t
        /\ got[t] = <<>> /\ obj[t].batch = <<>>
Held(t) ==
    obj[t].handle # NoCall =>
        /\ obj[t].handle \in {t} \X Nat /\ obj[t].handle \notin late
        /\ session = "open" => obj[t].handle \in DOMAIN opened

\* What a scan returned and what it keeps are what the batches so far have to show; a reader
\* stands where its bytes end, a writer where what it wrote does.
Scans(t) ==
    /\ Starts(got[t] \o obj[t].batch, AllNames)
    /\ obj[t].exhausted => got[t] = AllNames /\ obj[t].batch = <<>>
    /\ obj[t].handle # NoCall /\ session = "open" =>
         got[t] \o obj[t].batch = Shown[opened[obj[t].handle]]
Reads(t) ==
    /\ obj[t].base <= obj[t].position /\ obj[t].position <= size
    /\ got[t] = [i \in 1..(obj[t].position - obj[t].base) |-> obj[t].base + i]
WritesOut(t) == Len(got[t]) = obj[t].position /\ Starts(got[t], disk[t])
Streams(t) ==
    /\ kind[t] = "scan" /\ lost[t] = 0 => Scans(t)
    /\ kind[t] = "reader" => Reads(t)
    /\ kind[t] = "writer" => WritesOut(t)

Driven(t) == InCall(t) /\ Unborn(t) /\ Held(t) /\ Streams(t)
Shut == session = "closed" => DOMAIN opened = {}
FaInv == FaTypeOK /\ Shut /\ HandlesAreOwned /\ \A t \in Thread : Driven(t)

LEMMA FaInitInv == FacadeInit => FaInv
<1> SUFFICES ASSUME FacadeInit PROVE FaInv OBVIOUS
<1>1. kind \in [Thread -> Kind] BY FacadeAssumption DEF FacadeInit
<1>2. DOMAIN opened = {} BY DEF FacadeInit
<1>3. FaTypeOK
  <2>1. Fresh \in ObjectState BY DEF Fresh, ObjectState
  <2> QED BY <1>1, <1>2, <2>1, FacadeAssumption DEF FacadeInit, FaTypeOK
<1>4. ASSUME NEW t \in Thread PROVE Driven(t)
  <2>1. obj[t] = Fresh /\ call[t] = NoCall /\ got[t] = <<>> /\ disk[t] = <<>> /\ size \in Nat
    BY <1>4, FacadeAssumption DEF FacadeInit
  <2>2. InCall(t) /\ Unborn(t) /\ Held(t) BY <1>2, <2>1 DEF InCall, Unborn, Held, Posted, Fresh
  <2>3. Scans(t)
    <3>1. Starts(<<>>, AllNames) BY ShownIs DEF Starts
    <3>2. <<>> \o <<>> = <<>> OBVIOUS
    <3> QED BY <2>1, <3>1, <3>2 DEF Scans, Fresh
  <2>4. Reads(t) BY <2>1 DEF Reads, Fresh
  <2>5. WritesOut(t) BY <2>1 DEF WritesOut, Fresh, Starts
  <2> QED BY <2>2, <2>3, <2>4, <2>5 DEF Driven, Streams
<1>5. Shut /\ HandlesAreOwned BY <1>2 DEF Shut, HandlesAreOwned
<1> QED BY <1>3, <1>4, <1>5 DEF FaInv

-------------------------------------------------------------------------------
(* The facade: its steps *)

\* A step that leaves a thread alone, and what its handle leads to.
Apart(t) ==
    /\ kind' = kind /\ obj'[t] = obj[t] /\ call'[t] = call[t] /\ got'[t] = got[t]
    /\ disk'[t] = disk[t] /\ lost'[t] = lost[t]
Around(t) ==
    /\ session' = session /\ size \in Nat /\ size' \in Nat /\ size <= size'
    /\ \A h \in DOMAIN opened' : h[1] = t => h \in DOMAIN opened
    /\ \A h \in DOMAIN opened : h[1] = t /\ h \notin late =>
         h \in DOMAIN opened' /\ opened'[h] = opened[h]
    /\ \A h \in late' : h[1] = t => h \in late

LEMMA ApartKept ==
    ASSUME FaTypeOK, NEW t \in Thread, Driven(t), Apart(t), Around(t) PROVE Driven(t)'
<1>1. InCall(t)'
  <2>1. Wants(t)' = Wants(t) BY DEF Apart, Wants
  <2>2. \A h \in {t} \X Nat : h \notin late => h \notin late' BY DEF Around
  <2> QED BY <2>1, <2>2 DEF Driven, InCall, Posted, Apart
<1>2. Unborn(t)' BY DEF Driven, Unborn, Posted, Apart, Around
<1>3. Held(t)' BY DEF Driven, Held, Apart, Around
<1>4. Scans(t) => Scans(t)'
  <2> SUFFICES ASSUME Scans(t) PROVE Scans(t)' OBVIOUS
  <2>1. obj[t].handle # NoCall /\ session = "open" =>
           obj[t].handle \in DOMAIN opened /\ obj[t].handle \notin late /\ obj[t].handle[1] = t
    BY DEF Driven, Held
  <2>2. obj[t].handle # NoCall /\ session = "open" => opened'[obj[t].handle] = opened[obj[t].handle]
    BY <2>1 DEF Around
  <2> QED BY <2>2 DEF Scans, Apart, Around
<1>5. Reads(t) => Reads(t)'
  <2>1. obj[t].position \in Nat BY DEF FaTypeOK, ObjectState
  <2>2. obj[t].position <= size => obj[t].position <= size' BY <2>1 DEF Around
  <2> QED BY <2>2 DEF Reads, Apart
<1>6. WritesOut(t) => WritesOut(t)' BY DEF WritesOut, Apart
<1>7. Streams(t)' BY <1>4, <1>5, <1>6 DEF Driven, Streams, Apart
<1> QED BY <1>1, <1>2, <1>3, <1>7 DEF Driven

\* Whose a handle is.
Owned(t, h) ==
    \/ h \in late \/ obj[t].handle = h \/ h \in unclosed
    \/ call[t] # NoCall /\ call[t].op = "exit" /\ call[t].on = h

LEMMA OwnedKept ==
    ASSUME HandlesAreOwned, NEW t \in Thread, \A u \in Thread \ {t} : Apart(u),
           late \subseteq late', unclosed \subseteq unclosed',
           \A h \in DOMAIN opened' : Owned(t, h)' \/ (h \in DOMAIN opened /\ ~Owned(t, h))
    PROVE  HandlesAreOwned'
<1> SUFFICES ASSUME NEW h \in DOMAIN opened', ~Owned(t, h)'
             PROVE  \/ \E u \in Thread : obj'[u].handle = h
                    \/ \E u \in Thread : call'[u] # NoCall /\ call'[u].op = "exit" /\ call'[u].on = h
  BY DEF HandlesAreOwned, Owned
<1>1. h \in DOMAIN opened /\ ~Owned(t, h) OBVIOUS
<1>2. \E u \in Thread : \/ obj[u].handle = h
                        \/ call[u] # NoCall /\ call[u].op = "exit" /\ call[u].on = h
  BY <1>1 DEF HandlesAreOwned, Owned
<1>3. PICK u \in Thread : \/ obj[u].handle = h
                          \/ call[u] # NoCall /\ call[u].op = "exit" /\ call[u].on = h
  BY <1>2
<1>4. u # t BY <1>1, <1>3 DEF Owned
<1>5. obj'[u] = obj[u] /\ call'[u] = call[u] BY <1>4 DEF Apart
<1> QED BY <1>3, <1>5

\* So a step of one thread is about that thread.
Steps(t) ==
    /\ FaTypeOK' /\ Driven(t)'
    /\ \A u \in Thread \ {t} : Apart(u) /\ Around(u)
    /\ session' = session /\ (session = "closed" => DOMAIN opened' = {})
    /\ late \subseteq late' /\ unclosed \subseteq unclosed'
    /\ \A h \in DOMAIN opened' : Owned(t, h)' \/ (h \in DOMAIN opened /\ ~Owned(t, h))

LEMMA StepsKeep == ASSUME FaInv, NEW t \in Thread, Steps(t) PROVE FaInv'
<1>1. HandlesAreOwned' BY OwnedKept DEF FaInv, Steps
<1>2. \A u \in Thread : Driven(u)' BY ApartKept DEF FaInv, Steps
<1> QED BY <1>1, <1>2 DEF FaInv, Steps, Shut

LEMMA CallKeeps == ASSUME FaInv, NEW t \in Thread, NEW what, Call(t, what) PROVE Steps(t)
<1> USE DEF FaInv
<1>1. /\ call[t] = NoCall /\ what \in Wants(t)
      /\ call' = call \/ call' = [call EXCEPT ![t] = [op |-> what, at |-> "ready", on |-> NoCall]]
      /\ asks' = [asks EXCEPT ![t] = @ + 1]
      /\ UNCHANGED <<session, kind, obj, farVars, got, lost, unclosed>>
  BY DEF Call, linkVars
<1>2. Wants(t) \subseteq {"enter", "next", "read", "readall", "seekend", "write", "exit"}
  BY DEF FaTypeOK, Kind, Wants
<1>3. FaTypeOK'
  <2>1. [op |-> what, at |-> "ready", on |-> NoCall] \in PortalCalls BY <1>1, <1>2 DEF PortalCalls
  <2>2. call' \in [Thread -> PortalCalls \cup {NoCall}] BY <1>1, <2>1 DEF FaTypeOK
  <2>3. asks' \in [Thread -> Nat] BY <1>1 DEF FaTypeOK
  <2> QED BY <1>1, <2>2, <2>3 DEF FaTypeOK, farVars
<1>4. Driven(t)'
  <2>1. call'[t] = NoCall \/ call'[t] = [op |-> what, at |-> "ready", on |-> NoCall]
    BY <1>1 DEF FaTypeOK
  <2>2. Driven(t) OBVIOUS
  <2>3. InCall(t)'
    <3>1. Wants(t)' = Wants(t) BY <1>1 DEF Wants
    <3>2. CASE call'[t] = NoCall BY <3>2 DEF InCall, Posted
    <3>3. CASE call'[t] = [op |-> what, at |-> "ready", on |-> NoCall]
      <4>1. call'[t].op = what /\ call'[t].at = "ready" /\ call'[t].on = NoCall BY <3>3
      <4> QED BY <1>1, <3>1, <4>1 DEF InCall, Posted
    <3> QED BY <2>1, <3>2, <3>3
  <2>4. Unborn(t)' /\ Held(t)' BY <1>1, <2>1, <2>2 DEF Driven, Unborn, Held, Posted, farVars
  <2>5. Streams(t)' BY <1>1, <2>2 DEF Driven, Streams, Scans, Reads, WritesOut, farVars
  <2> QED BY <2>3, <2>4, <2>5 DEF Driven
<1>5. \A u \in Thread \ {t} : Apart(u) /\ Around(u)
  BY <1>1 DEF FaTypeOK, Apart, Around, farVars
<1>6. \A h \in DOMAIN opened' : Owned(t, h)' \/ (h \in DOMAIN opened /\ ~Owned(t, h))
  BY <1>1 DEF Owned, farVars
<1> QED BY <1>1, <1>3, <1>4, <1>5, <1>6 DEF Steps, Shut, farVars

\* The records of a thread that a step is about.
LEMMA TypesAt ==
    ASSUME FaTypeOK, NEW t \in Thread
    PROVE  /\ obj[t] \in ObjectState /\ got[t] \in Seq(Item) /\ disk[t] \in Seq(Nat)
           /\ lost[t] \in Nat /\ asks[t] \in Nat /\ kind[t] \in Kind
           /\ call[t] # NoCall => call[t] \in PortalCalls
BY DEF FaTypeOK

\* Which calls are about which objects.
LEMMA CallsMatch ==
    ASSUME FaTypeOK, NEW t \in Thread, Driven(t), call[t] # NoCall
    PROVE  /\ call[t].op = "next" => kind[t] = "scan"
           /\ call[t].op \in {"read", "readall", "seekend"} => kind[t] = "reader"
           /\ call[t].op = "write" => kind[t] = "writer"
BY DEF Driven, InCall, Wants, FaTypeOK, Kind

LEMMA ReturnIs ==
    ASSUME FaTypeOK, NEW t \in Thread, Return(t)
    PROVE  /\ call'[t] = NoCall /\ call' \in [Thread -> PortalCalls \cup {NoCall}]
           /\ \A u \in Thread \ {t} : call'[u] = call[u]
           /\ InCall(t)' /\ ~Posted(t, "enter")'
BY DEF Return, FaTypeOK, InCall, Posted

LEMMA StartsPart ==
    ASSUME NEW s \in Seq(Item), NEW b \in Seq(EntryNames), Starts(s \o b, AllNames)
    PROVE  Starts(s \o <<>>, AllNames) /\ Starts(s, AllNames) /\ s \o <<>> = s
<1>1. s \o b \in Seq(Item) /\ AllNames \in Seq(Item) /\ Starts(s, s \o b) /\ s \o <<>> = s
  <2>1. b \in Seq(Item) /\ AllNames \in Seq(Item) BY ShownIs, SeqMonotonic DEF Item
  <2> QED BY <2>1, ConcatStarts
<1>2. Starts(s, AllNames) BY <1>1, StartsFurther
<1> QED BY <1>1, <1>2

LEMMA RefuseKeeps == ASSUME FaInv, NEW t \in Thread, Refuse(t) PROVE Steps(t)
<1> USE DEF FaInv
<1>1. /\ call[t] # NoCall /\ call[t].at = "ready" /\ Return(t)
      /\ \/ obj' = obj
         \/ session = "closed" /\ obj' = [obj EXCEPT ![t] = Before(t, call[t].op)]
      /\ UNCHANGED <<session, kind, opened, late, size, disk, got, lost, unclosed, asks>>
  BY DEF Refuse, linkVars, farVars, FaTypeOK
<1>2. obj[t] \in ObjectState /\ got[t] \in Seq(Item) /\ Driven(t) BY TypesAt
<1> DEFINE new == obj'[t]
<1>3. /\ new = obj[t] \/ session = "closed"
      /\ \/ new = obj[t]
         \/ new = [obj[t] EXCEPT !.entered = TRUE]
         \/ new = [obj[t] EXCEPT !.handle = NoCall, !.batch = <<>>]
      /\ obj' = [obj EXCEPT ![t] = new]
  BY <1>1 DEF Before, FaTypeOK
<1>4. new \in ObjectState
  <2>1. [obj[t] EXCEPT !.entered = TRUE] \in ObjectState BY <1>2 DEF ObjectState
  <2>2. [obj[t] EXCEPT !.handle = NoCall, !.batch = <<>>] \in ObjectState
    <3>1. <<>> \in Seq(EntryNames) OBVIOUS
    <3> QED BY <1>2, <3>1 DEF ObjectState
  <2> HIDE DEF new
  <2> QED BY <1>2, <1>3, <2>1, <2>2
<1>5. FaTypeOK' BY <1>1, <1>3, <1>4, ReturnIs DEF FaTypeOK
<1>6. Driven(t)'
  <2>1. InCall(t)' /\ ~Posted(t, "enter")' BY <1>1, ReturnIs
  <2>2. Unborn(t)' /\ Held(t)'
    <3>1. new.handle \in {obj[t].handle, NoCall} /\ (~new.entered => ~obj[t].entered)
          /\ new.batch \in {obj[t].batch, <<>>}
      BY <1>2, <1>3 DEF ObjectState
    <3> HIDE DEF new
    <3>2. new = obj'[t] BY DEF new
    <3>3. Unborn(t)' BY <1>1, <1>2, <2>1, <3>1, <3>2 DEF Driven, Unborn
    <3>4. Held(t)' BY <1>1, <1>2, <3>1, <3>2 DEF Driven, Held
    <3> QED BY <3>3, <3>4
  <2>3. Scans(t) => Scans(t)'
    BY <1>1, <1>2, <1>3, StartsPart DEF Scans, ObjectState
  <2>4. Reads(t) => Reads(t)' BY <1>1, <1>2, <1>3 DEF Reads, ObjectState
  <2>5. WritesOut(t) => WritesOut(t)' BY <1>1, <1>2, <1>3 DEF WritesOut, ObjectState
  <2> QED BY <1>1, <1>2, <2>1, <2>2, <2>3, <2>4, <2>5 DEF Driven, Streams
<1>7. \A u \in Thread \ {t} : Apart(u) /\ Around(u)
  <2>1. \A u \in Thread \ {t} : obj'[u] = obj[u] BY <1>3 DEF FaTypeOK
  <2> QED BY <1>1, <2>1, ReturnIs DEF FaTypeOK, Apart, Around
<1>8. \A h \in DOMAIN opened' : Owned(t, h)' \/ (h \in DOMAIN opened /\ ~Owned(t, h))
  <2>1. CASE session = "closed" BY <1>1, <2>1 DEF Shut
  <2>2. CASE session # "closed"
    <3>1. new = obj[t] /\ call[t].on = NoCall BY <1>1, <1>2, <1>3, <2>2 DEF Driven, InCall
    <3>2. NoCall \notin DOMAIN opened BY FacadeAssumption DEF FaTypeOK, Handle
    <3> QED BY <1>1, <3>1, <3>2 DEF Owned
  <2> QED BY <2>1, <2>2
<1> QED BY <1>1, <1>5, <1>6, <1>7, <1>8 DEF Steps, Shut

\* Taking the first of what is kept.
LEMMA HeadMoves ==
    ASSUME NEW s \in Seq(Item), NEW b \in Seq(EntryNames), b # <<>>
    PROVE  /\ Append(s, Head(b)) \in Seq(Item) /\ Tail(b) \in Seq(EntryNames)
           /\ Append(s, Head(b)) \o Tail(b) = s \o b
<1>1. Head(b) \in EntryNames /\ Tail(b) \in Seq(EntryNames) BY HeadTailProperties
<1>2. Append(s, Head(b)) \in Seq(Item) BY <1>1, AppendProperties DEF Item
<1>3. b \in Seq(Item) /\ Tail(b) \in Seq(Item) BY <1>1, SeqMonotonic DEF Item
<1>4. Append(s, Head(b)) \o Tail(b) = s \o b BY <1>3
<1> QED BY <1>1, <1>2, <1>4

LEMMA NextBufferedKeeps == ASSUME FaInv, NEW t \in Thread, NextBuffered(t) PROVE Steps(t)
<1> USE DEF FaInv
<1>1. /\ call[t] # NoCall /\ call[t].at = "ready" /\ call[t].op = "next" /\ Return(t)
      /\ \/ /\ obj[t].batch # <<>>
            /\ got' = [got EXCEPT ![t] = Append(@, Head(obj[t].batch))]
            /\ obj' = [obj EXCEPT ![t] = [obj[t] EXCEPT !.batch = Tail(obj[t].batch)]]
         \/ UNCHANGED <<got, obj>>
      /\ UNCHANGED <<session, kind, opened, late, size, disk, lost, unclosed, asks>>
  BY DEF NextBuffered, linkVars, farVars, FaTypeOK
<1>2. obj[t] \in ObjectState /\ got[t] \in Seq(Item) /\ Driven(t) /\ kind[t] = "scan"
  BY <1>1, TypesAt, CallsMatch
<1>3. obj[t].batch \in Seq(EntryNames) BY <1>2 DEF ObjectState
<1>4. /\ got'[t] \in Seq(Item) /\ obj'[t] \in ObjectState
      /\ obj'[t].entered = obj[t].entered /\ obj'[t].handle = obj[t].handle
      /\ obj'[t].exhausted = obj[t].exhausted
      /\ got'[t] \o obj'[t].batch = got[t] \o obj[t].batch
      /\ obj[t].batch = <<>> => UNCHANGED <<got, obj>>
  <2>1. CASE obj[t].batch # <<>> /\ ~UNCHANGED <<got, obj>>
    <3>1. /\ got'[t] = Append(got[t], Head(obj[t].batch))
          /\ obj'[t] = [obj[t] EXCEPT !.batch = Tail(obj[t].batch)]
      BY <1>1, <2>1 DEF FaTypeOK
    <3>2. /\ Append(got[t], Head(obj[t].batch)) \in Seq(Item)
          /\ Tail(obj[t].batch) \in Seq(EntryNames)
          /\ Append(got[t], Head(obj[t].batch)) \o Tail(obj[t].batch) = got[t] \o obj[t].batch
      BY <1>2, <1>3, <2>1, HeadMoves
    <3> QED BY <1>2, <2>1, <3>1, <3>2 DEF ObjectState
  <2>2. CASE UNCHANGED <<got, obj>> BY <1>2, <2>2
  <2> QED BY <1>1, <2>1, <2>2
<1>5. FaTypeOK'
  <2>1. got' \in [Thread -> Seq(Item)] /\ obj' \in [Thread -> ObjectState]
    BY <1>1, <1>4 DEF FaTypeOK
  <2> QED BY <1>1, <2>1, ReturnIs DEF FaTypeOK
<1>6. Driven(t)'
  <2>1. InCall(t)' /\ ~Posted(t, "enter")' BY <1>1, ReturnIs
  <2>2. Unborn(t)' /\ Held(t)' BY <1>1, <1>2, <1>4, <2>1 DEF Driven, Unborn, Held
  <2>3. lost[t] = 0 => Scans(t)' BY <1>1, <1>2, <1>4 DEF Driven, Streams, Scans
  <2> QED BY <1>1, <1>2, <2>1, <2>2, <2>3 DEF Driven, Streams
<1>7. \A u \in Thread \ {t} : Apart(u) /\ Around(u)
  <2>1. \A u \in Thread \ {t} : obj'[u] = obj[u] /\ got'[u] = got[u] BY <1>1 DEF FaTypeOK
  <2> QED BY <1>1, <2>1, ReturnIs DEF FaTypeOK, Apart, Around
<1>8. \A h \in DOMAIN opened' : Owned(t, h)' \/ (h \in DOMAIN opened /\ ~Owned(t, h))
  BY <1>1, <1>4 DEF Owned
<1> QED BY <1>1, <1>5, <1>6, <1>7, <1>8 DEF Steps, Shut

LEMMA PostKeeps == ASSUME FaInv, NEW t \in Thread, Post(t) PROVE Steps(t)
<1> USE DEF FaInv
<1> DEFINE op == call[t].op
           where == IF op \in {"readall", "seekend"} THEN "sizing" ELSE "asked"
           about == IF op = "enter" THEN NewHandle(t) ELSE obj[t].handle
           new == Before(t, op)
<1>1. /\ call[t] # NoCall /\ call[t].at = "ready" /\ session = "open" /\ ~StateRefuses(t, op)
      /\ op = "next" => obj[t].batch = <<>> /\ ~obj[t].exhausted
      /\ call' = [call EXCEPT ![t] = [call[t] EXCEPT !.at = where, !.on = about]]
      /\ obj' = [obj EXCEPT ![t] = new]
      /\ UNCHANGED <<session, kind, opened, late, size, disk, got, lost, unclosed, asks>>
  BY DEF Post, linkVars, farVars
<1>2. /\ obj[t] \in ObjectState /\ got[t] \in Seq(Item) /\ Driven(t) /\ asks[t] \in Nat
      /\ call[t] \in PortalCalls
  BY <1>1, TypesAt
<1>3. \/ op = "enter" /\ new = [obj[t] EXCEPT !.entered = TRUE]
      \/ op = "exit" /\ new = [obj[t] EXCEPT !.handle = NoCall, !.batch = <<>>]
      \/ op \notin {"enter", "exit"} /\ new = obj[t]
  BY DEF Before
<1>4. /\ op = "enter" => ~obj[t].entered /\ obj[t].handle = NoCall
      /\ op # "enter" => obj[t].handle \in {t} \X Nat /\ obj[t].handle \in DOMAIN opened
                         /\ obj[t].handle # NoCall
  BY <1>1, <1>2 DEF StateRefuses, Driven, Unborn, Held
<1>5. new \in ObjectState
  <2>1. [obj[t] EXCEPT !.entered = TRUE] \in ObjectState BY <1>2 DEF ObjectState
  <2>2. [obj[t] EXCEPT !.handle = NoCall, !.batch = <<>>] \in ObjectState
    <3>1. <<>> \in Seq(EntryNames) OBVIOUS
    <3> QED BY <1>2, <3>1 DEF ObjectState
  <2> HIDE DEF new
  <2> QED BY <1>2, <1>3, <2>1, <2>2
<1>6. about \in {t} \X Nat BY <1>2, <1>4 DEF NewHandle
<1>7. /\ call'[t] = [call[t] EXCEPT !.at = where, !.on = about] /\ call'[t] \in PortalCalls
      /\ call'[t].op = op /\ call'[t].at = where /\ call'[t].on = about
      /\ obj'[t] = new
  <2> HIDE DEF new, about
  <2>1. call'[t] = [call[t] EXCEPT !.at = where, !.on = about] BY <1>1 DEF FaTypeOK
  <2>2. [call[t] EXCEPT !.at = where, !.on = about] \in PortalCalls BY <1>2, <1>6 DEF PortalCalls
  <2>3. obj'[t] = new BY <1>1 DEF FaTypeOK
  <2> QED BY <1>2, <2>1, <2>2, <2>3 DEF PortalCalls
<1>8. FaTypeOK'
  <2> HIDE DEF new, about
  <2>1. call' \in [Thread -> PortalCalls \cup {NoCall}] /\ obj' \in [Thread -> ObjectState]
    BY <1>1, <1>5, <1>7 DEF FaTypeOK
  <2> QED BY <1>1, <2>1 DEF FaTypeOK
<1>9. Driven(t)'
  <2>1. InCall(t)'
    <3>1. op \in Wants(t)' BY <1>1, <1>2 DEF Driven, InCall, Wants
    <3>2. where \in {"sizing", "asked"} OBVIOUS
    <3>3. op = "readall" => where = "sizing" OBVIOUS
    <3>4. op = "enter" => new.entered BY <1>2, <1>3 DEF ObjectState
    <3>5. op = "exit" => new.handle = NoCall BY <1>2, <1>3 DEF ObjectState
    <3>6. op = "next" => /\ new.handle # NoCall /\ about = new.handle
                         /\ new.batch = <<>> /\ ~new.exhausted
      BY <1>1, <1>3, <1>4
    <3>7. where = "sizing" => op \in {"readall", "seekend"} OBVIOUS
    <3>8. op = "exit" => about \notin late' BY <1>1, <1>2, <1>4 DEF Driven, Held
    <3>9. op \notin {"enter", "exit"} => new.handle # NoCall BY <1>3, <1>4
    <3> HIDE DEF new, about, op, where
    <3> QED BY <1>6, <1>7, <3>1, <3>2, <3>3, <3>4, <3>5, <3>6, <3>7, <3>8, <3>9 DEF InCall, Posted
  <2>2. Unborn(t)'
    <3>1. CASE op = "enter"
      <4>1. /\ new.handle = NoCall /\ \A h \in DOMAIN opened : h[1] # t
            /\ got[t] = <<>> /\ new.batch = <<>>
        BY <1>2, <1>3, <1>4, <3>1 DEF Driven, Unborn, ObjectState
      <4> HIDE DEF new
      <4> QED BY <1>1, <1>7, <4>1 DEF Unborn
    <3>2. CASE op # "enter"
      <4>1. new.entered = obj[t].entered /\ obj[t].entered
        BY <1>2, <1>3, <1>4, <3>2 DEF Driven, Unborn, ObjectState
      <4> QED BY <1>7, <3>2, <4>1 DEF Unborn, Posted
    <3> QED BY <3>1, <3>2
  <2>3. Held(t)'
    <3>1. new.handle = NoCall \/ new.handle = obj[t].handle BY <1>2, <1>3 DEF ObjectState
    <3> HIDE DEF new
    <3> QED BY <1>1, <1>2, <1>7, <3>1 DEF Driven, Held
  <2>4. Scans(t) => Scans(t)'
    <3>1. \/ new.handle = obj[t].handle /\ new.batch = obj[t].batch
          \/ new.handle = NoCall /\ new.batch = <<>>
      BY <1>2, <1>3 DEF ObjectState
    <3>2. new.exhausted = obj[t].exhausted BY <1>2, <1>3 DEF ObjectState
    <3>3. obj[t].batch \in Seq(EntryNames) BY <1>2 DEF ObjectState
    <3> HIDE DEF new
    <3> QED BY <1>1, <1>2, <1>7, <3>1, <3>2, <3>3, StartsPart DEF Scans
  <2>5. new.position = obj[t].position /\ new.base = obj[t].base BY <1>2, <1>3 DEF ObjectState
  <2> HIDE DEF new
  <2>6. Reads(t) => Reads(t)' BY <1>1, <1>7, <2>5 DEF Reads
  <2>7. WritesOut(t) => WritesOut(t)' BY <1>1, <1>7, <2>5 DEF WritesOut
  <2> QED BY <1>1, <1>2, <2>1, <2>2, <2>3, <2>4, <2>6, <2>7 DEF Driven, Streams
<1>10. \A u \in Thread \ {t} : Apart(u) /\ Around(u)
  <2>1. \A u \in Thread \ {t} : obj'[u] = obj[u] /\ call'[u] = call[u]
    <3> HIDE DEF new, about, where
    <3> QED BY <1>1 DEF FaTypeOK
  <2> QED BY <1>1, <2>1 DEF FaTypeOK, Apart, Around
<1>11. \A h \in DOMAIN opened' : Owned(t, h)' \/ (h \in DOMAIN opened /\ ~Owned(t, h))
  <2>1. call[t].on = NoCall /\ NoCall \notin DOMAIN opened
    BY <1>1, <1>2, FacadeAssumption DEF FaTypeOK, Handle, Driven, InCall
  <2>2. call'[t] # NoCall BY <1>7, FacadeAssumption
  <2>3. \/ new.handle = obj[t].handle
        \/ call'[t].op = "exit" /\ call'[t].on = obj[t].handle
    BY <1>2, <1>3, <1>7 DEF ObjectState
  <2> HIDE DEF new, about, op
  <2> QED BY <1>1, <1>7, <2>1, <2>2, <2>3 DEF Owned
<1> QED BY <1>1, <1>8, <1>9, <1>10, <1>11 DEF Steps, Shut

\* A thread whose call is answered.
LEMMA AnsweredIs ==
    ASSUME FaInv, NEW t \in Thread, NEW where \in {"asked", "sizing"}, NEW ops, Awaits(t, where, ops)
    PROVE  /\ session = "open" /\ call[t] # NoCall /\ call[t].at = where /\ call[t].op \in ops
           /\ Posted(t, call[t].op) /\ Driven(t)
BY DEF Awaits, Posted, FaInv

LEMMA EnteredKeeps == ASSUME FaInv, NEW t \in Thread, Entered(t) PROVE Steps(t)
<1> USE DEF FaInv
<1> DEFINE on == call[t].on
<1>1. /\ session = "open" /\ Posted(t, "enter") /\ Driven(t) /\ Return(t)
      /\ opened' = Opening(on)
      /\ obj' = [obj EXCEPT ![t] = [obj[t] EXCEPT !.handle = on]]
      /\ UNCHANGED <<session, kind, late, size, disk, got, lost, unclosed, asks>>
  BY AnsweredIs DEF Entered, linkVars
<1>2. /\ on \in {t} \X Nat /\ on \notin DOMAIN opened /\ obj[t].handle = NoCall
      /\ obj[t].entered /\ got[t] = <<>> /\ obj[t].batch = <<>>
  BY <1>1 DEF Driven, InCall, Unborn
<1> HIDE DEF on
<1>3. /\ DOMAIN opened' = DOMAIN opened \cup {on} /\ opened'[on] = 0
      /\ \A h \in DOMAIN opened : opened'[h] = opened[h]
  BY <1>1, <1>2 DEF Opening
<1>4. obj[t] \in ObjectState BY TypesAt
<1>5. [obj[t] EXCEPT !.handle = on] \in ObjectState BY <1>2, <1>4 DEF ObjectState, Handle
<1>6. obj'[t] = [obj[t] EXCEPT !.handle = on] BY <1>1 DEF FaTypeOK
<1>7. /\ obj'[t].handle = on /\ obj'[t].entered /\ obj'[t].batch = obj[t].batch
      /\ obj'[t].exhausted = obj[t].exhausted
      /\ obj'[t].position = obj[t].position /\ obj'[t].base = obj[t].base
  BY <1>2, <1>4, <1>6 DEF ObjectState
<1>8. FaTypeOK'
  <2>1. obj' \in [Thread -> ObjectState] BY <1>1, <1>5 DEF FaTypeOK
  <2>2. 0 \in 0..Len(Batches) BY ShownIs
  <2>3. \A h \in DOMAIN opened' : opened'[h] \in 0..Len(Batches) BY <1>3, <2>2 DEF FaTypeOK
  <2>4. DOMAIN opened' \subseteq Handle /\ late' \subseteq DOMAIN opened'
    BY <1>1, <1>2, <1>3 DEF FaTypeOK, Handle
  <2> QED BY <1>1, <2>1, <2>3, <2>4, ReturnIs DEF FaTypeOK
<1>9. Driven(t)'
  <2>1. InCall(t)' /\ ~Posted(t, "enter")' BY <1>1, ReturnIs
  <2>2. Unborn(t)' BY <1>7, <2>1 DEF Unborn
  <2>3. Held(t)' BY <1>1, <1>2, <1>3, <1>7 DEF Held, FaTypeOK
  <2>4. Scans(t) => Scans(t)'
    <3>1. <<>> \o <<>> = Shown[0] BY ShownIs
    <3> QED BY <1>1, <1>2, <1>3, <1>7, <3>1 DEF Scans
  <2>5. Reads(t) => Reads(t)' BY <1>1, <1>7 DEF Reads
  <2>6. WritesOut(t) => WritesOut(t)' BY <1>1, <1>7 DEF WritesOut
  <2> QED BY <1>1, <2>1, <2>2, <2>3, <2>4, <2>5, <2>6 DEF Driven, Streams
<1>10. \A u \in Thread \ {t} : Apart(u) /\ Around(u)
  <2>1. \A u \in Thread \ {t} : obj'[u] = obj[u] BY <1>1 DEF FaTypeOK
  <2> QED BY <1>1, <1>2, <1>3, <2>1, ReturnIs DEF FaTypeOK, Apart, Around
<1>11. \A h \in DOMAIN opened' : Owned(t, h)' \/ (h \in DOMAIN opened /\ ~Owned(t, h))
  <2>1. call[t].op = "enter" /\ NoCall \notin DOMAIN opened
    BY <1>1, FacadeAssumption DEF Posted, FaTypeOK, Handle
  <2> QED BY <1>1, <1>2, <1>3, <1>7, <2>1 DEF Owned
<1> QED BY <1>1, <1>8, <1>9, <1>10, <1>11 DEF Steps, Shut

LEMMA ExitedKeeps == ASSUME FaInv, NEW t \in Thread, Exited(t) PROVE Steps(t)
<1> USE DEF FaInv
<1> DEFINE on == call[t].on
<1>1. /\ session = "open" /\ Posted(t, "exit") /\ Driven(t) /\ Return(t)
      /\ opened' = [h \in DOMAIN opened \ {on} |-> opened[h]]
      /\ UNCHANGED <<session, kind, obj, late, size, disk, got, lost, unclosed, asks>>
  BY AnsweredIs DEF Exited, linkVars
<1>2. on \in {t} \X Nat /\ on \notin late /\ obj[t].handle = NoCall /\ call[t].op = "exit"
  BY <1>1 DEF Driven, InCall, Posted
<1> HIDE DEF on
<1>3. /\ DOMAIN opened' = DOMAIN opened \ {on}
      /\ \A h \in DOMAIN opened' : opened'[h] = opened[h]
  BY <1>1
<1>4. FaTypeOK'
  <2>1. late' \subseteq DOMAIN opened' BY <1>1, <1>2, <1>3 DEF FaTypeOK
  <2> QED BY <1>1, <1>3, <2>1, ReturnIs DEF FaTypeOK
<1>5. Driven(t)'
  <2>1. InCall(t)' /\ ~Posted(t, "enter")' BY <1>1, ReturnIs
  <2>2. Unborn(t)' /\ Held(t)' BY <1>1, <1>2, <1>3, <2>1 DEF Driven, Unborn, Held
  <2>3. Streams(t)' BY <1>1, <1>2 DEF Driven, Streams, Scans, Reads, WritesOut
  <2> QED BY <2>1, <2>2, <2>3 DEF Driven
<1>6. \A u \in Thread \ {t} : Apart(u) /\ Around(u)
  BY <1>1, <1>2, <1>3, ReturnIs DEF FaTypeOK, Apart, Around
<1>7. \A h \in DOMAIN opened' : Owned(t, h)' \/ (h \in DOMAIN opened /\ ~Owned(t, h))
  BY <1>1, <1>3 DEF Owned, on
<1> QED BY <1>1, <1>4, <1>5, <1>6, <1>7 DEF Steps, Shut

LEMMA FilledKeeps == ASSUME FaInv, NEW t \in Thread, Filled(t) PROVE Steps(t)
<1> USE DEF FaInv
<1> DEFINE on == call[t].on
           answered == opened[on]
           shows == Buffered(Batches[answered + 1])
<1>1. /\ session = "open" /\ Posted(t, "next") /\ call[t] # NoCall /\ Driven(t)
      /\ \/ /\ answered < Len(Batches)
            /\ opened' = [opened EXCEPT ![on] = answered + 1]
            /\ \/ /\ shows # <<>>
                  /\ got' = [got EXCEPT ![t] = Append(@, Head(shows))]
                  /\ obj' = [obj EXCEPT ![t] = [obj[t] EXCEPT !.batch = Tail(shows)]]
                  /\ Return(t)
               \/ shows = <<>> /\ UNCHANGED <<got, obj, call>>
         \/ /\ ~(answered < Len(Batches))
            /\ obj' = [obj EXCEPT ![t] = [obj[t] EXCEPT !.exhausted = TRUE]]
            /\ Return(t) /\ UNCHANGED <<opened, got>>
      /\ UNCHANGED <<session, kind, late, size, disk, lost, unclosed, asks>>
  BY AnsweredIs DEF Filled, TakesNext, linkVars
<1>2. /\ obj[t] \in ObjectState /\ got[t] \in Seq(Item) /\ kind[t] = "scan"
      /\ on = obj[t].handle /\ obj[t].handle # NoCall /\ obj[t].batch = <<>> /\ ~obj[t].exhausted
      /\ on \in {t} \X Nat /\ on \in DOMAIN opened /\ on \notin late /\ call[t].op = "next"
      /\ obj[t].entered
  BY <1>1, TypesAt, CallsMatch DEF Driven, InCall, Held, Posted, Unborn
<1>3. answered \in 0..Len(Batches) /\ Len(Batches) \in Nat BY <1>2, ShownIs DEF FaTypeOK
<1>4. answered < Len(Batches) =>
        /\ answered + 1 \in 1..Len(Batches) /\ (answered + 1) - 1 = answered
        /\ shows \in Seq(EntryNames) /\ Shown[answered + 1] = Shown[answered] \o shows
        /\ answered + 1 \in 0..Len(Batches)
  <2>1. answered < Len(Batches) =>
          /\ answered + 1 \in 1..Len(Batches) /\ (answered + 1) - 1 = answered
          /\ answered + 1 \in 0..Len(Batches)
    BY <1>3
  <2> HIDE DEF answered
  <2> QED BY <2>1, ShownIs
<1> HIDE DEF on, answered, shows
<1>5. got[t] \o <<>> = got[t] BY <1>2
<1>6. /\ DOMAIN opened' = DOMAIN opened
      /\ \A h \in DOMAIN opened : h # on => opened'[h] = opened[h]
      /\ opened'[on] = IF answered < Len(Batches) THEN answered + 1 ELSE answered
  BY <1>1, <1>2 DEF answered
<1> DEFINE new == obj'[t]
           said == got'[t]
<1>7. /\ new \in ObjectState /\ said \in Seq(Item) /\ new.handle = on /\ new.entered
      /\ \/ /\ answered < Len(Batches) /\ said \o new.batch = got[t] \o shows /\ ~new.exhausted
            /\ new.batch = <<>> \/ call'[t] = NoCall
         \/ ~(answered < Len(Batches)) /\ said = got[t] /\ new.batch = <<>> /\ call'[t] = NoCall
      /\ (UNCHANGED call /\ new = obj[t]) \/ Return(t)
  <2>1. CASE /\ shows # <<>> /\ got' = [got EXCEPT ![t] = Append(@, Head(shows))]
             /\ obj' = [obj EXCEPT ![t] = [obj[t] EXCEPT !.batch = Tail(shows)]]
             /\ answered < Len(Batches) /\ Return(t)
    <3>1. said = Append(got[t], Head(shows)) /\ new = [obj[t] EXCEPT !.batch = Tail(shows)]
      BY <2>1 DEF FaTypeOK
    <3>2. /\ Append(got[t], Head(shows)) \in Seq(Item) /\ Tail(shows) \in Seq(EntryNames)
          /\ Append(got[t], Head(shows)) \o Tail(shows) = got[t] \o shows
      BY <1>2, <1>4, <2>1, HeadMoves
    <3>3. call'[t] = NoCall BY <2>1, ReturnIs
    <3> HIDE DEF new, said
    <3>4. new \in ObjectState /\ new.batch = Tail(shows) /\ new.handle = on /\ new.entered /\ ~new.exhausted
      BY <1>2, <3>1, <3>2 DEF ObjectState
    <3> QED BY <2>1, <3>1, <3>2, <3>3, <3>4
  <2>2. CASE answered < Len(Batches) /\ shows = <<>> /\ UNCHANGED <<got, obj, call>>
    BY <1>2, <1>5, <2>2
  <2>3. CASE /\ ~(answered < Len(Batches)) /\ Return(t) /\ UNCHANGED <<opened, got>>
             /\ obj' = [obj EXCEPT ![t] = [obj[t] EXCEPT !.exhausted = TRUE]]
    <3>1. said = got[t] /\ new = [obj[t] EXCEPT !.exhausted = TRUE] BY <2>3 DEF FaTypeOK
    <3>2. call'[t] = NoCall BY <2>3, ReturnIs
    <3> HIDE DEF new, said
    <3>3. new \in ObjectState /\ new.batch = obj[t].batch /\ new.handle = on /\ new.entered
      BY <1>2, <3>1 DEF ObjectState
    <3> QED BY <1>2, <2>3, <3>1, <3>2, <3>3
  <2> HIDE DEF new, said
  <2> QED BY <1>1, <2>1, <2>2, <2>3
<1>8. FaTypeOK'
  <2>1. got' \in [Thread -> Seq(Item)] /\ obj' \in [Thread -> ObjectState]
    BY <1>1, <1>7 DEF FaTypeOK
  <2>2. call' \in [Thread -> PortalCalls \cup {NoCall}] BY <1>1, ReturnIs DEF FaTypeOK
  <2>3. \A h \in DOMAIN opened' : opened'[h] \in 0..Len(Batches)
    BY <1>3, <1>4, <1>6 DEF FaTypeOK
  <2> QED BY <1>1, <1>6, <2>1, <2>2, <2>3 DEF FaTypeOK
<1>9. Driven(t)'
  <2> HIDE DEF new, said
  <2>0. new = obj'[t] /\ said = got'[t] BY DEF new, said
  <2>1. InCall(t)' /\ ~Posted(t, "enter")'
    <3>1. CASE Return(t) BY <3>1, ReturnIs
    <3>2. CASE UNCHANGED call /\ new = obj[t]
      <4>1. Wants(t)' = Wants(t) BY <1>1 DEF Wants
      <4>2. InCall(t)' BY <1>1, <2>0, <3>2, <4>1 DEF Driven, InCall, Posted
      <4>3. ~Posted(t, "enter")' BY <1>2, <3>2 DEF Posted
      <4> QED BY <4>2, <4>3
    <3> QED BY <1>7, <3>1, <3>2
  <2>2. Unborn(t)' BY <1>7, <2>0, <2>1 DEF Unborn
  <2>3. Held(t)' BY <1>1, <1>2, <1>6, <1>7, <2>0 DEF Held
  <2>4. lost[t] = 0 => Scans(t)'
    <3> SUFFICES ASSUME lost[t] = 0 PROVE Scans(t)' OBVIOUS
    <3>1. got[t] = Shown[answered] /\ Starts(got[t] \o <<>>, AllNames)
      BY <1>1, <1>2, <1>5 DEF Driven, Streams, Scans, answered
    <3>2. CASE answered < Len(Batches)
      <4>1. said \o new.batch = Shown[answered + 1] BY <1>4, <1>7, <3>1, <3>2
      <4>2. Starts(Shown[answered + 1], AllNames) BY <1>4, <3>2, ShownIs
      <4>3. ~new.exhausted /\ opened'[on] = answered + 1 BY <1>6, <1>7, <3>2
      <4> QED BY <1>7, <2>0, <4>1, <4>2, <4>3 DEF Scans
    <3>3. CASE ~(answered < Len(Batches))
      <4>1. answered = Len(Batches) BY <1>3, <3>3
      <4>2. said = AllNames BY <1>7, <3>1, <3>3, <4>1, ShownIs
      <4>3. said \o <<>> = Shown[answered] /\ opened'[on] = answered /\ new.batch = <<>>
        BY <1>5, <1>6, <1>7, <3>1, <3>3
      <4>4. Starts(said \o <<>>, AllNames) BY <1>7, <3>1, <3>3
      <4> QED BY <1>7, <2>0, <4>2, <4>3, <4>4 DEF Scans
    <3> QED BY <3>2, <3>3
  <2> QED BY <1>1, <1>2, <2>1, <2>2, <2>3, <2>4 DEF Driven, Streams
<1>10. \A u \in Thread \ {t} : Apart(u) /\ Around(u)
  <2>1. \A u \in Thread \ {t} : obj'[u] = obj[u] /\ got'[u] = got[u] /\ call'[u] = call[u]
    BY <1>1, ReturnIs DEF FaTypeOK
  <2>2. \A u \in Thread \ {t} : \A h \in DOMAIN opened : h[1] = u => opened'[h] = opened[h]
    BY <1>2, <1>6
  <2> QED BY <1>1, <1>6, <2>1, <2>2 DEF FaTypeOK, Apart, Around
<1>11. \A h \in DOMAIN opened' : Owned(t, h)' \/ (h \in DOMAIN opened /\ ~Owned(t, h))
  <2> HIDE DEF new, said
  <2> QED BY <1>1, <1>2, <1>6, <1>7 DEF Owned, new
<1> QED BY <1>1, <1>8, <1>9, <1>10, <1>11 DEF Steps, Shut

\* A call ends, and moves no more than a cursor, what was returned and what a file holds.
Settles(t) ==
    /\ call[t] # NoCall /\ Posted(t, call[t].op) /\ Return(t)
    /\ UNCHANGED <<session, kind, opened, late, size, lost, asks>> /\ unclosed \subseteq unclosed'
    /\ call[t].op = "exit" => call[t].on \in unclosed'
    /\ obj' = [obj EXCEPT ![t] = obj'[t]] /\ obj'[t] \in ObjectState
    /\ obj'[t].handle = obj[t].handle /\ obj'[t].entered = obj[t].entered
    /\ obj'[t].batch = obj[t].batch /\ obj'[t].exhausted = obj[t].exhausted
    /\ got' = [got EXCEPT ![t] = got'[t]] /\ got'[t] \in Seq(Item)
    /\ obj[t].handle = NoCall \/ kind[t] = "scan" => got'[t] = got[t]
    /\ disk' = [disk EXCEPT ![t] = disk'[t]] /\ disk'[t] \in Seq(Nat)
    /\ kind[t] = "reader" => Reads(t)'
    /\ kind[t] = "writer" => WritesOut(t)'

LEMMA SettlesKeeps == ASSUME FaInv, NEW t \in Thread, Settles(t) PROVE Steps(t)
<1> USE DEF FaInv
<1>1. FaTypeOK'
  <2>1. /\ got' \in [Thread -> Seq(Item)] /\ obj' \in [Thread -> ObjectState]
        /\ disk' \in [Thread -> Seq(Nat)]
    BY DEF Settles, FaTypeOK
  <2>2. call' \in [Thread -> PortalCalls \cup {NoCall}] BY ReturnIs DEF Settles
  <2> QED BY <2>1, <2>2 DEF Settles, FaTypeOK
<1>2. Driven(t)'
  <2>1. InCall(t)' /\ ~Posted(t, "enter")' BY ReturnIs DEF Settles
  <2>2. Unborn(t)' BY <2>1 DEF Driven, Unborn, Settles
  <2>3. Held(t)' BY DEF Driven, Held, Settles
  <2>4. kind[t] = "scan" /\ Scans(t) => Scans(t)' BY DEF Scans, Settles
  <2>5. Streams(t)' BY <2>4 DEF Driven, Streams, Settles
  <2> QED BY <2>1, <2>2, <2>3, <2>5 DEF Driven
<1>3. \A u \in Thread \ {t} : Apart(u) /\ Around(u)
  <2>1. \A u \in Thread \ {t} : obj'[u] = obj[u] /\ got'[u] = got[u] /\ disk'[u] = disk[u]
    BY DEF Settles, FaTypeOK
  <2> QED BY <2>1, ReturnIs DEF Settles, FaTypeOK, Apart, Around
<1>4. \A h \in DOMAIN opened' : Owned(t, h)' \/ (h \in DOMAIN opened /\ ~Owned(t, h))
  BY DEF Owned, Settles
<1> QED BY <1>1, <1>2, <1>3, <1>4 DEF Steps, Shut, Settles

\* The bytes behind those that were read.
LEMMA BytesFollow ==
    ASSUME NEW base \in Nat, NEW from \in Nat, NEW came \in Nat, base <= from
    PROVE  [i \in 1..(from - base) |-> base + i] \o [i \in 1..came |-> from + i]
           = [i \in 1..((from + came) - base) |-> base + i]
<1> DEFINE m == from - base
           s == [i \in 1..m |-> base + i]
           r == [i \in 1..came |-> from + i]
           w == [i \in 1..((from + came) - base) |-> base + i]
<1>1. m \in Nat /\ (from + came) - base = m + came /\ from = base + m OBVIOUS
<1> HIDE DEF m
<1>2. s \in Seq(Nat) /\ r \in Seq(Nat) /\ w \in Seq(Nat) /\ Len(s) = m /\ Len(r) = came
      /\ Len(w) = m + came
  BY <1>1
<1> HIDE DEF s, r, w
<1>3. s \o r \in Seq(Nat) /\ Len(s \o r) = m + came BY <1>2, ConcatProperties
<1>4. ASSUME NEW i \in 1..m + came PROVE (s \o r)[i] = w[i]
  <2>1. CASE i <= m
    <3>1. i \in 1..m BY <1>1, <2>1
    <3>2. (s \o r)[i] = s[i] BY <1>2, <2>1, ConcatProperties
    <3>3. s[i] = base + i BY <3>1 DEF s
    <3>4. w[i] = base + i BY <1>1 DEF w
    <3> QED BY <3>2, <3>3, <3>4
  <2>2. CASE ~(i <= m)
    <3>1. i - m \in 1..came BY <1>1, <2>2
    <3>2. (s \o r)[i] = r[i - m] BY <1>2, <2>2, <1>1, ConcatProperties
    <3>3. r[i - m] = from + (i - m) BY <3>1 DEF r
    <3>4. w[i] = base + i BY <1>1 DEF w
    <3>5. from + (i - m) = base + i BY <1>1
    <3> QED BY <3>2, <3>3, <3>4, <3>5
  <2> QED BY <2>1, <2>2
<1>5. s \o r = w BY <1>2, <1>3, <1>4, SeqEqual
<1> QED BY <1>5 DEF s, r, w, m

LEMMA ReadKeeps == ASSUME FaInv, NEW t \in Thread, Read(t) PROVE Steps(t)
<1> USE DEF FaInv
<1> DEFINE from == obj[t].position
           base == obj[t].base
           length == IF call[t].op = "read" THEN 2 ELSE call[t].on
           came == IF from + length <= size THEN length ELSE size - from
<1>1. /\ call[t] # NoCall /\ call[t].op \in {"read", "readall"} /\ call[t].at = "asked"
      /\ Posted(t, call[t].op) /\ Return(t) /\ Driven(t)
      /\ got' = [got EXCEPT ![t] = @ \o [i \in 1..came |-> from + i]]
      /\ obj' = [obj EXCEPT ![t] = [obj[t] EXCEPT !.position = from + came]]
      /\ UNCHANGED <<session, kind, opened, late, size, disk, lost, unclosed, asks>>
  BY AnsweredIs DEF Read, Moved, linkVars, farVars
<1>2. obj[t] \in ObjectState /\ disk[t] \in Seq(Nat) /\ kind[t] = "reader"
  BY <1>1, TypesAt, CallsMatch
<1>3. Reads(t) BY <1>1, <1>2 DEF Driven, Streams
<1>4. length \in Nat BY <1>1 DEF Driven, InCall, Posted
<1>5. /\ from \in Nat /\ base \in Nat /\ base <= from /\ size \in Nat /\ from <= size
      /\ got[t] = [i \in 1..(from - base) |-> base + i]
  BY <1>2, <1>3 DEF ObjectState, Reads, FaTypeOK
<1>6. came \in Nat /\ from + came <= size /\ from + came \in Nat /\ base <= from + came
  <2> HIDE DEF length, from, base
  <2> QED BY <1>4, <1>5
<1>7. /\ got'[t] = got[t] \o [i \in 1..came |-> from + i]
      /\ obj'[t] = [obj[t] EXCEPT !.position = from + came]
  <2> HIDE DEF from, came
  <2> QED BY <1>1 DEF FaTypeOK
<1>8. got'[t] = [i \in 1..((from + came) - base) |-> base + i]
  <2> HIDE DEF from, came, base
  <2>1. [i \in 1..(from - base) |-> base + i] \o [i \in 1..came |-> from + i]
        = [i \in 1..((from + came) - base) |-> base + i]
    BY <1>5, <1>6, BytesFollow
  <2> QED BY <1>5, <1>7, <2>1
<1> HIDE DEF from, came, base, length
<1>9. /\ obj'[t] \in ObjectState /\ obj'[t].position = from + came /\ obj'[t].base = base
      /\ obj'[t].handle = obj[t].handle /\ obj'[t].entered = obj[t].entered
      /\ obj'[t].batch = obj[t].batch /\ obj'[t].exhausted = obj[t].exhausted
  BY <1>2, <1>6, <1>7 DEF ObjectState, base
<1>10. got'[t] \in Seq(Item)
  <2>1. (from + came) - base \in Nat BY <1>5, <1>6
  <2>2. got'[t] \in Seq(Nat)
    <3>1. \A i \in 1..((from + came) - base) : base + i \in Nat BY <1>5
    <3> QED BY <1>8, <2>1, <3>1
  <2> QED BY <2>2, SeqMonotonic DEF Item
<1>11. Reads(t)'
  <2>1. [i \in 1..(obj'[t].position - obj'[t].base) |-> obj'[t].base + i]
        = [i \in 1..((from + came) - base) |-> base + i]
    BY <1>9
  <2> QED BY <1>1, <1>6, <1>8, <1>9, <2>1 DEF Reads
<1>12. obj[t].handle # NoCall
  BY <1>1, <1>2 DEF Driven, InCall, Posted
<1>13. Settles(t) BY <1>1, <1>2, <1>9, <1>10, <1>11, <1>12 DEF Settles, FaTypeOK
<1> QED BY <1>13, SettlesKeeps

LEMMA SizedKeeps == ASSUME FaInv, NEW t \in Thread, Sized(t) PROVE Steps(t)
<1> USE DEF FaInv
<1>1. /\ call[t] # NoCall /\ call[t].op \in {"readall", "seekend"} /\ call[t].at = "sizing"
      /\ Posted(t, call[t].op) /\ Driven(t)
      /\ \/ /\ obj' = [obj EXCEPT ![t] = [obj[t] EXCEPT !.position = size, !.base = size]]
            /\ got' = [got EXCEPT ![t] = <<>>] /\ Return(t)
         \/ /\ call[t].op = "readall"
            /\ call' = [call EXCEPT ![t] = [call[t] EXCEPT !.at = "asked", !.on = size - obj[t].position]]
            /\ UNCHANGED <<obj, got>>
      /\ UNCHANGED <<session, kind, opened, late, size, disk, lost, unclosed, asks>>
  <2>1. /\ Awaits(t, "sizing", {"readall", "seekend"})
        /\ UNCHANGED <<session, kind, opened, late, size, disk, lost, unclosed, asks>>
    BY DEF Sized, linkVars, farVars
  <2>2. /\ call[t] # NoCall /\ call[t].op \in {"readall", "seekend"} /\ call[t].at = "sizing"
        /\ Posted(t, call[t].op) /\ Driven(t)
    BY <2>1, AnsweredIs
  <2>3. CASE call[t].op = "seekend" BY <2>1, <2>2, <2>3 DEF Sized
  <2>4. CASE call[t].op # "seekend" BY <2>1, <2>2, <2>4 DEF Sized
  <2> QED BY <2>3, <2>4
<1>2. /\ obj[t] \in ObjectState /\ disk[t] \in Seq(Nat) /\ kind[t] = "reader" /\ size \in Nat
      /\ call[t] \in PortalCalls /\ obj[t].handle # NoCall
  BY <1>1, TypesAt, CallsMatch DEF Driven, InCall, FaTypeOK
<1>3. Reads(t) BY <1>1, <1>2 DEF Driven, Streams
<1>4. CASE /\ obj' = [obj EXCEPT ![t] = [obj[t] EXCEPT !.position = size, !.base = size]]
           /\ got' = [got EXCEPT ![t] = <<>>] /\ Return(t)
  <2>1. obj'[t] = [obj[t] EXCEPT !.position = size, !.base = size] /\ got'[t] = <<>>
    BY <1>4 DEF FaTypeOK
  <2>2. /\ obj'[t] \in ObjectState /\ obj'[t].position = size /\ obj'[t].base = size
        /\ obj'[t].handle = obj[t].handle /\ obj'[t].entered = obj[t].entered
        /\ obj'[t].batch = obj[t].batch /\ obj'[t].exhausted = obj[t].exhausted
    BY <1>2, <2>1 DEF ObjectState
  <2>3. Reads(t)'
    <3>1. [i \in 1..(size - size) |-> size + i] = <<>> BY <1>2
    <3>2. [i \in 1..(obj'[t].position - obj'[t].base) |-> obj'[t].base + i]
          = [i \in 1..(size - size) |-> size + i]
      BY <2>2
    <3> QED BY <1>1, <1>2, <2>1, <2>2, <3>1, <3>2 DEF Reads
  <2>4. got'[t] \in Seq(Item) BY <2>1
  <2>5. obj' = [obj EXCEPT ![t] = obj'[t]] /\ got' = [got EXCEPT ![t] = got'[t]]
        /\ disk' = [disk EXCEPT ![t] = disk'[t]]
    BY <1>1, <1>4, <2>1 DEF FaTypeOK
  <2>6. Settles(t) BY <1>1, <1>2, <1>4, <2>2, <2>3, <2>4, <2>5 DEF Settles
  <2> QED BY <2>6, SettlesKeeps
<1>5. CASE /\ call[t].op = "readall" /\ UNCHANGED <<obj, got>>
           /\ call' = [call EXCEPT ![t] = [call[t] EXCEPT !.at = "asked", !.on = size - obj[t].position]]
  <2>1. size - obj[t].position \in Nat BY <1>2, <1>3 DEF Reads, ObjectState
  <2> DEFINE remains == size - obj[t].position
             asking == [call[t] EXCEPT !.at = "asked", !.on = remains]
  <2>2. call' = [call EXCEPT ![t] = asking] /\ call'[t] = asking BY <1>5 DEF FaTypeOK
  <2> HIDE DEF remains
  <2>3. /\ asking \in PortalCalls /\ asking.op = "readall" /\ asking.at = "asked" /\ asking.on = remains
        /\ remains \in Nat
    BY <1>2, <1>5, <2>1 DEF PortalCalls, remains
  <2> HIDE DEF asking
  <2>4. FaTypeOK'
    <3>1. call' \in [Thread -> PortalCalls \cup {NoCall}] BY <2>2, <2>3 DEF FaTypeOK
    <3> QED BY <1>1, <1>5, <3>1 DEF FaTypeOK
  <2>5. Driven(t)'
    <3>1. Wants(t)' = Wants(t) BY <1>1 DEF Wants
    <3>2. InCall(t)'
      <4>1. call'[t].op = "readall" /\ call'[t].at = "asked" /\ call'[t].on \in Nat
        BY <2>2, <2>3
      <4>2. call[t] # NoCall /\ call[t].op = "readall" BY <1>1, <1>5
      <4>3. "readall" \in Wants(t)' BY <1>2, <3>1, <4>2 DEF Driven, InCall
      <4>4. call[t].at # "ready" BY <1>1
      <4>5. obj'[t].handle # NoCall BY <1>1, <1>2, <1>5, <4>2, <4>4 DEF Driven, InCall, Posted
      <4> QED BY <4>1, <4>3, <4>5 DEF InCall, Posted
    <3>3. Unborn(t)' BY <1>1, <1>5, <2>2, <2>3 DEF Driven, Unborn, Posted
    <3>4. Held(t)' /\ Streams(t)'
      BY <1>1, <1>2, <1>5 DEF Driven, Held, Streams, Reads
    <3> QED BY <3>2, <3>3, <3>4 DEF Driven
  <2>6. \A u \in Thread \ {t} : Apart(u) /\ Around(u)
    BY <1>1, <1>5, <2>2 DEF FaTypeOK, Apart, Around
  <2>7. \A h \in DOMAIN opened' : Owned(t, h)' \/ (h \in DOMAIN opened /\ ~Owned(t, h))
    BY <1>1, <1>5 DEF Owned
  <2> QED BY <1>1, <2>4, <2>5, <2>6, <2>7 DEF Steps, Shut
<1> QED BY <1>1, <1>4, <1>5

\* What a WRITE leaves in a file: the same up to where it begins, then what it brought.
LEMMA OverwrittenIs ==
    ASSUME NEW stored \in Seq(Nat), NEW data \in Seq(Nat), NEW from \in Nat, from <= Len(stored)
    PROVE  /\ Overwritten(stored, from, data) \in Seq(Nat)
           /\ Len(Overwritten(stored, from, data)) >= from + Len(data)
           /\ \A i \in 1..from : Overwritten(stored, from, data)[i] = stored[i]
           /\ \A i \in 1..Len(data) : Overwritten(stored, from, data)[from + i] = data[i]
<1> DEFINE n == IF Len(stored) > from + Len(data) THEN Len(stored) ELSE from + Len(data)
           blocks == [i \in 1..n |-> IF i \in from + 1..from + Len(data) THEN data[i - from]
                                     ELSE stored[i]]
<1>1. Overwritten(stored, from, data) = blocks BY DEF Overwritten
<1>2. /\ Len(stored) \in Nat /\ Len(data) \in Nat /\ \A i \in 1..Len(stored) : stored[i] \in Nat
      /\ \A i \in 1..Len(data) : data[i] \in Nat
  BY LenProperties, ElementOfSeq
<1>3. n \in Nat /\ n >= from + Len(data) /\ n >= from /\ (n > from + Len(data) => n = Len(stored))
  BY <1>2
<1> HIDE DEF n
<1>4. ASSUME NEW i \in 1..n
      PROVE  (IF i \in from + 1..from + Len(data) THEN data[i - from] ELSE stored[i]) \in Nat
  <2>1. CASE i \in from + 1..from + Len(data)
    <3>1. i - from \in 1..Len(data) BY <1>2, <2>1
    <3> QED BY <1>2, <2>1, <3>1
  <2>2. CASE i \notin from + 1..from + Len(data)
    <3>1. i \in 1..Len(stored) BY <1>2, <1>3, <2>2
    <3> QED BY <1>2, <2>2, <3>1
  <2> QED BY <2>1, <2>2
<1>5. blocks \in Seq(Nat) /\ Len(blocks) = n BY <1>3, <1>4
<1>6. ASSUME NEW i \in 1..from PROVE blocks[i] = stored[i]
  <2>1. i \in 1..n /\ i \notin from + 1..from + Len(data) BY <1>2, <1>3
  <2> QED BY <2>1
<1>7. ASSUME NEW i \in 1..Len(data) PROVE blocks[from + i] = data[i]
  <2>1. from + i \in 1..n /\ from + i \in from + 1..from + Len(data) /\ (from + i) - from = i
    BY <1>2, <1>3
  <2> QED BY <2>1
<1> QED BY <1>1, <1>3, <1>5, <1>6, <1>7

LEMMA WroteKeeps == ASSUME FaInv, NEW t \in Thread, Wrote(t) PROVE Steps(t)
<1> USE DEF FaInv
<1> DEFINE data == <<asks[t], asks[t]>>
           from == obj[t].position
<1>1. /\ call[t] # NoCall /\ call[t].op = "write" /\ call[t].at = "asked"
      /\ Posted(t, call[t].op) /\ Return(t) /\ Driven(t)
      /\ disk' = [disk EXCEPT ![t] = Overwritten(@, from, data)]
      /\ got' = [got EXCEPT ![t] = @ \o data]
      /\ obj' = [obj EXCEPT ![t] = [obj[t] EXCEPT !.position = from + 2]]
      /\ UNCHANGED <<session, kind, opened, late, size, lost, unclosed, asks>>
  BY AnsweredIs DEF Wrote, linkVars
<1>2. /\ obj[t] \in ObjectState /\ disk[t] \in Seq(Nat) /\ got[t] \in Seq(Item) /\ asks[t] \in Nat
      /\ kind[t] = "writer" /\ obj[t].handle # NoCall
  BY <1>1, TypesAt, CallsMatch DEF Driven, InCall
<1>3. from \in Nat /\ Len(got[t]) = from /\ Starts(got[t], disk[t])
  BY <1>1, <1>2 DEF Driven, Streams, WritesOut, ObjectState
<1>4. data \in Seq(Nat) /\ data \in Seq(Item) /\ Len(data) = 2 BY <1>2 DEF Item
<1> HIDE DEF data, from
<1>5. /\ disk'[t] = Overwritten(disk[t], from, data) /\ got'[t] = got[t] \o data
      /\ obj'[t] = [obj[t] EXCEPT !.position = from + 2]
  BY <1>1 DEF FaTypeOK
<1>6. /\ obj'[t] \in ObjectState /\ obj'[t].position = from + 2
      /\ obj'[t].handle = obj[t].handle /\ obj'[t].entered = obj[t].entered
      /\ obj'[t].batch = obj[t].batch /\ obj'[t].exhausted = obj[t].exhausted
  <2>1. from + 2 \in Nat BY <1>3
  <2> QED BY <1>2, <1>5, <2>1 DEF ObjectState
<1>7. from <= Len(disk[t]) /\ \A i \in 1..from : got[t][i] = disk[t][i] BY <1>3 DEF Starts
<1>8. /\ disk'[t] \in Seq(Nat) /\ Len(disk'[t]) >= from + 2
      /\ \A i \in 1..from : disk'[t][i] = disk[t][i]
      /\ \A i \in 1..2 : disk'[t][from + i] = data[i]
  <2> DEFINE after == Overwritten(disk[t], from, data)
  <2>1. /\ after \in Seq(Nat) /\ Len(after) >= from + Len(data)
        /\ \A i \in 1..from : after[i] = disk[t][i]
        /\ \A i \in 1..Len(data) : after[from + i] = data[i]
    BY <1>2, <1>3, <1>4, <1>7, OverwrittenIs
  <2> HIDE DEF after
  <2>2. disk'[t] = after BY <1>5 DEF after
  <2> QED BY <1>4, <2>1, <2>2
<1>9. /\ got'[t] \in Seq(Item) /\ Len(got'[t]) = from + 2
      /\ \A i \in 1..from + 2 : got'[t][i] = IF i <= from THEN got[t][i] ELSE data[i - from]
  <2> DEFINE s == got[t]
  <2>1. s \in Seq(Item) /\ Len(s) = from /\ got'[t] = s \o data BY <1>2, <1>3, <1>5
  <2> HIDE DEF s
  <2>2. /\ s \o data \in Seq(Item) /\ Len(s \o data) = Len(s) + Len(data)
        /\ \A i \in 1..Len(s) + Len(data) :
             (s \o data)[i] = IF i <= Len(s) THEN s[i] ELSE data[i - Len(s)]
    BY <1>4, <2>1, ConcatProperties
  <2> QED BY <1>4, <2>1, <2>2 DEF s
<1>10. WritesOut(t)'
  <2>1. ASSUME NEW i \in 1..from + 2 PROVE got'[t][i] = disk'[t][i]
    <3>1. CASE i <= from
      <4>1. i \in 1..from BY <1>3, <3>1
      <4> QED BY <1>7, <1>8, <1>9, <3>1, <4>1
    <3>2. CASE ~(i <= from)
      <4>1. i - from \in 1..2 /\ from + (i - from) = i BY <1>3, <3>2
      <4> QED BY <1>8, <1>9, <3>2, <4>1
    <3> QED BY <3>1, <3>2
  <2> QED BY <1>6, <1>8, <1>9, <2>1 DEF WritesOut, Starts
<1>11. Settles(t) BY <1>1, <1>2, <1>6, <1>8, <1>9, <1>10 DEF Settles, FaTypeOK
<1> QED BY <1>11, SettlesKeeps

LEMMA FailKeeps == ASSUME FaInv, NEW t \in Thread, Fail(t) PROVE Steps(t)
<1> USE DEF FaInv
<1> DEFINE on == call[t].on
<1>1. /\ call[t] # NoCall /\ call[t].at \in {"asked", "sizing"} /\ session = "open"
      /\ Posted(t, call[t].op) /\ Return(t) /\ Driven(t)
      /\ unclosed' = IF call[t].op = "exit" THEN unclosed \cup {on} ELSE unclosed
      /\ UNCHANGED <<session, kind, obj, got, asks>>
  BY DEF Fail, Posted, linkVars
<1>2. /\ obj[t] \in ObjectState /\ got[t] \in Seq(Item) /\ disk[t] \in Seq(Nat) /\ lost[t] \in Nat
      /\ asks[t] \in Nat /\ size \in Nat
  BY TypesAt DEF FaTypeOK
<1>3. InCall(t)' /\ ~Posted(t, "enter")' BY <1>1, ReturnIs
<1>4. unclosed \subseteq unclosed' /\ (call[t].op = "exit" => on \in unclosed') BY <1>1
<1>5. CASE UNCHANGED <<farVars, lost>>
  <2>1. kind[t] = "reader" => Reads(t)' BY <1>1, <1>5 DEF Driven, Streams, Reads, farVars
  <2>2. kind[t] = "writer" => WritesOut(t)' BY <1>1, <1>5 DEF Driven, Streams, WritesOut, farVars
  <2>3. Settles(t)
    BY <1>1, <1>2, <1>4, <1>5, <2>1, <2>2 DEF Settles, FaTypeOK, farVars
  <2> QED BY <2>3, SettlesKeeps
<1>6. CASE /\ call[t].op = "enter" /\ opened' = Opening(on) /\ late' = late \cup {on}
           /\ UNCHANGED <<size, disk, lost>>
  <2>1. /\ on \in {t} \X Nat /\ on \notin DOMAIN opened /\ obj[t].handle = NoCall /\ obj[t].entered
    BY <1>1, <1>6 DEF Driven, InCall, Unborn
  <2> HIDE DEF on
  <2>2. /\ DOMAIN opened' = DOMAIN opened \cup {on} /\ opened'[on] = 0
        /\ \A h \in DOMAIN opened : opened'[h] = opened[h]
    BY <1>6, <2>1 DEF Opening
  <2>3. FaTypeOK'
    <3>1. 0 \in 0..Len(Batches) BY ShownIs
    <3>2. \A h \in DOMAIN opened' : opened'[h] \in 0..Len(Batches) BY <2>2, <3>1 DEF FaTypeOK
    <3>3. DOMAIN opened' \subseteq Handle /\ late' \subseteq DOMAIN opened'
      BY <1>6, <2>1, <2>2 DEF FaTypeOK, Handle
    <3> QED BY <1>1, <1>6, <3>2, <3>3, ReturnIs DEF FaTypeOK
  <2>4. Driven(t)'
    <3>1. Unborn(t)' BY <1>1, <1>3, <2>1 DEF Unborn
    <3>2. Held(t)' BY <1>1, <2>1 DEF Held
    <3>3. Streams(t)' BY <1>1, <1>6, <2>1 DEF Driven, Streams, Scans, Reads, WritesOut
    <3> QED BY <1>3, <3>1, <3>2, <3>3 DEF Driven
  <2>5. \A u \in Thread \ {t} : Apart(u) /\ Around(u)
    BY <1>1, <1>2, <1>6, <2>1, <2>2, ReturnIs DEF FaTypeOK, Apart, Around
  <2>6. \A h \in DOMAIN opened' : Owned(t, h)' \/ (h \in DOMAIN opened /\ ~Owned(t, h))
    <3>1. NoCall \notin DOMAIN opened BY FacadeAssumption DEF FaTypeOK, Handle
    <3> QED BY <1>1, <1>6, <2>1, <2>2, <3>1 DEF Owned
  <2> QED BY <1>1, <1>4, <1>6, <2>3, <2>4, <2>5, <2>6 DEF Steps, Shut
<1>7. CASE /\ call[t].op = "next" /\ opened[on] < Len(Batches)
           /\ opened' = [opened EXCEPT ![on] = @ + 1]
           /\ lost' = [lost EXCEPT ![t] = @ + 1] /\ UNCHANGED <<late, size, disk>>
  <2>1. on = obj[t].handle /\ on \in {t} \X Nat /\ on \in DOMAIN opened /\ obj[t].entered /\ kind[t] = "scan"
        /\ obj[t].handle # NoCall
    BY <1>1, <1>7, CallsMatch DEF Driven, InCall, Held, Unborn
  <2> HIDE DEF on
  <2>2. /\ DOMAIN opened' = DOMAIN opened /\ opened'[on] = opened[on] + 1
        /\ \A h \in DOMAIN opened : h # on => opened'[h] = opened[h]
    BY <1>7, <2>1
  <2>3. FaTypeOK'
    <3>1. opened[on] + 1 \in 0..Len(Batches) BY <1>7, <2>1, ShownIs DEF FaTypeOK
    <3>2. \A h \in DOMAIN opened' : opened'[h] \in 0..Len(Batches) BY <2>2, <3>1 DEF FaTypeOK
    <3>3. lost' \in [Thread -> Nat] BY <1>7 DEF FaTypeOK
    <3> QED BY <1>1, <1>7, <2>2, <3>2, <3>3, ReturnIs DEF FaTypeOK
  <2>4. Driven(t)'
    <3>1. Unborn(t)' BY <1>1, <1>3, <2>1 DEF Unborn
    <3>2. Held(t)' BY <1>1, <1>7, <2>2 DEF Driven, Held
    <3>3. lost'[t] # 0 BY <1>2, <1>7 DEF FaTypeOK
    <3>4. Streams(t)' BY <1>1, <2>1, <3>3 DEF Streams
    <3> QED BY <1>3, <3>1, <3>2, <3>4 DEF Driven
  <2>5. \A u \in Thread \ {t} : Apart(u) /\ Around(u)
    <3>1. \A u \in Thread \ {t} : lost'[u] = lost[u] BY <1>7 DEF FaTypeOK
    <3>2. \A u \in Thread \ {t} : \A h \in DOMAIN opened : h[1] = u => opened'[h] = opened[h]
      BY <2>1, <2>2
    <3>3. \A u \in Thread \ {t} : call'[u] = call[u] BY <1>1, ReturnIs
    <3>4. \A u \in Thread \ {t} : Apart(u) BY <1>1, <1>2, <1>7, <3>1, <3>3 DEF Apart
    <3>5. \A u \in Thread \ {t} : Around(u)
      BY <1>1, <1>2, <1>7, <2>2, <3>2 DEF FaTypeOK, Around
    <3> QED BY <3>4, <3>5
  <2>6. \A h \in DOMAIN opened' : Owned(t, h)' \/ (h \in DOMAIN opened /\ ~Owned(t, h))
    BY <1>1, <1>7, <2>2 DEF Owned
  <2> QED BY <1>1, <1>4, <1>7, <2>3, <2>4, <2>5, <2>6 DEF Steps, Shut
<1>8. CASE /\ call[t].op = "exit" /\ opened' = [h \in DOMAIN opened \ {on} |-> opened[h]]
           /\ UNCHANGED <<late, size, disk, lost>>
  <2>1. on \in {t} \X Nat /\ on \notin late /\ obj[t].handle = NoCall
    BY <1>1, <1>8 DEF Driven, InCall
  <2> HIDE DEF on
  <2>2. /\ DOMAIN opened' = DOMAIN opened \ {on}
        /\ \A h \in DOMAIN opened' : opened'[h] = opened[h]
    BY <1>8
  <2>3. FaTypeOK'
    <3>1. late' \subseteq DOMAIN opened' BY <1>8, <2>1, <2>2 DEF FaTypeOK
    <3> QED BY <1>1, <1>8, <2>2, <3>1, ReturnIs DEF FaTypeOK
  <2>4. Driven(t)'
    <3>1. Unborn(t)' /\ Held(t)' BY <1>1, <1>3, <2>1, <2>2 DEF Driven, Unborn, Held
    <3>2. Streams(t)' BY <1>1, <1>8, <2>1 DEF Driven, Streams, Scans, Reads, WritesOut
    <3> QED BY <1>3, <3>1, <3>2 DEF Driven
  <2>5. \A u \in Thread \ {t} : Apart(u) /\ Around(u)
    <3>1. \A u \in Thread \ {t} : call'[u] = call[u] BY <1>1, ReturnIs
    <3>2. \A u \in Thread \ {t} : Apart(u) BY <1>1, <1>2, <1>8, <3>1 DEF Apart
    <3>3. \A u \in Thread \ {t} : \A h \in DOMAIN opened : h[1] = u => h # on BY <2>1
    <3>4. \A u \in Thread \ {t} : Around(u)
      BY <1>1, <1>2, <1>8, <2>2, <3>3 DEF FaTypeOK, Around
    <3> QED BY <3>2, <3>4
  <2>6. \A h \in DOMAIN opened' : Owned(t, h)' \/ (h \in DOMAIN opened /\ ~Owned(t, h))
    BY <1>1, <1>4, <1>8, <2>2 DEF Owned, on
  <2> QED BY <1>1, <1>4, <1>8, <2>3, <2>4, <2>5, <2>6 DEF Steps, Shut
<1>9. CASE /\ call[t].op = "write" /\ disk' = [disk EXCEPT ![t] = Overwritten(@, obj[t].position, <<asks[t]>>)]
           /\ UNCHANGED <<opened, late, size, lost>>
  <2> DEFINE from == obj[t].position
             data == <<asks[t]>>
             after == Overwritten(disk[t], from, data)
  <2>1. kind[t] = "writer" /\ from \in Nat /\ Len(got[t]) = from /\ Starts(got[t], disk[t])
    BY <1>1, <1>2, <1>9, CallsMatch DEF Driven, Streams, WritesOut, ObjectState
  <2>2. data \in Seq(Nat) /\ Len(data) = 1 BY <1>2
  <2>3. from <= Len(disk[t]) /\ \A i \in 1..from : got[t][i] = disk[t][i] BY <2>1 DEF Starts
  <2> HIDE DEF from, data
  <2>4. after \in Seq(Nat) /\ Len(after) >= from + Len(data) /\ \A i \in 1..from : after[i] = disk[t][i]
    BY <1>2, <2>1, <2>2, <2>3, OverwrittenIs
  <2>5. disk' = [disk EXCEPT ![t] = after] /\ disk'[t] = after
    BY <1>9 DEF FaTypeOK, from, data
  <2> HIDE DEF after
  <2>6. WritesOut(t)'
    <3>1. from <= Len(after) BY <2>1, <2>2, <2>4
    <3>2. obj'[t].position = from /\ got'[t] = got[t] BY <1>1 DEF from
    <3> QED BY <2>1, <2>3, <2>4, <2>5, <3>1, <3>2 DEF WritesOut, Starts
  <2>7. Settles(t) BY <1>1, <1>2, <1>4, <1>9, <2>1, <2>4, <2>5, <2>6 DEF Settles, FaTypeOK
  <2> QED BY <2>7, SettlesKeeps
<1> QED BY <1>5, <1>6, <1>7, <1>8, <1>9 DEF Fail

LEMMA DeadlineKeeps == ASSUME FaInv, NEW t \in Thread, Deadline(t) PROVE Steps(t)
<1> USE DEF FaInv
<1>1. /\ call[t] # NoCall /\ session = "closed" /\ Return(t) /\ Driven(t) /\ DOMAIN opened = {}
      /\ UNCHANGED <<session, kind, obj, opened, late, size, disk, got, lost, unclosed, asks>>
  BY DEF Deadline, linkVars, farVars, Shut
<1>2. FaTypeOK' BY <1>1, ReturnIs DEF FaTypeOK
<1>3. Driven(t)'
  <2>1. InCall(t)' /\ ~Posted(t, "enter")' BY <1>1, ReturnIs
  <2>2. Unborn(t)' /\ Held(t)' BY <1>1, <2>1 DEF Driven, Unborn, Held
  <2>3. Streams(t)' BY <1>1 DEF Driven, Streams, Scans, Reads, WritesOut
  <2> QED BY <2>1, <2>2, <2>3 DEF Driven
<1>4. \A u \in Thread \ {t} : Apart(u) /\ Around(u)
  BY <1>1, ReturnIs DEF FaTypeOK, Apart, Around
<1> QED BY <1>1, <1>2, <1>3, <1>4 DEF Steps, Shut

\* What no thread does.
Beside ==
    /\ UNCHANGED <<kind, obj, call, got, disk, lost, unclosed, asks, session>>
    /\ size' \in Nat /\ size <= size'

LEMMA BesideKeeps ==
    ASSUME FaInv, Beside, UNCHANGED <<opened, late>> PROVE FaInv'
<1> USE DEF FaInv
<1>1. FaTypeOK' BY DEF FaTypeOK, Beside
<1>2. \A t \in Thread : Driven(t)'
  <2> TAKE t \in Thread
  <2>1. Apart(t) /\ Around(t) BY DEF Apart, Around, Beside, FaTypeOK
  <2> QED BY <2>1, ApartKept
<1>3. HandlesAreOwned' /\ Shut' BY DEF HandlesAreOwned, Shut, Beside
<1> QED BY <1>1, <1>2, <1>3

LEMMA ReapKeeps == ASSUME FaInv, Reap PROVE FaInv'
<1> USE DEF FaInv
<1>1. PICK h \in late : /\ late' = late \ {h} /\ opened' = [g \in DOMAIN opened \ {h} |-> opened[g]]
                        /\ UNCHANGED <<session, kind, obj, call, size, disk, got, lost, unclosed, asks>>
  BY DEF Reap, linkVars
<1>2. /\ DOMAIN opened' = DOMAIN opened \ {h}
      /\ \A g \in DOMAIN opened' : opened'[g] = opened[g]
  BY <1>1
<1>3. FaTypeOK' BY <1>1, <1>2 DEF FaTypeOK
<1>4. \A t \in Thread : Driven(t)'
  <2> TAKE t \in Thread
  <2>1. Apart(t) /\ Around(t) BY <1>1, <1>2 DEF Apart, Around, FaTypeOK
  <2> QED BY <2>1, ApartKept
<1>5. HandlesAreOwned' /\ Shut' BY <1>1, <1>2 DEF HandlesAreOwned, Shut
<1> QED BY <1>3, <1>4, <1>5

LEMMA CloseSessionKeeps == ASSUME FaInv, CloseSession PROVE FaInv'
<1> USE DEF FaInv
<1>1. /\ session' = "closed" /\ opened' = <<>> /\ late' = {} /\ DOMAIN opened' = {}
      /\ UNCHANGED <<kind, obj, call, size, disk, got, lost, unclosed, asks>>
  BY DEF CloseSession
<1>2. FaTypeOK' BY <1>1 DEF FaTypeOK
<1>3. ASSUME NEW t \in Thread PROVE Driven(t)'
  <2>1. Driven(t) OBVIOUS
  <2>2. Wants(t)' = Wants(t) BY <1>1 DEF Wants
  <2>3. InCall(t)' BY <1>1, <2>1, <2>2 DEF Driven, InCall, Posted
  <2>4. Unborn(t)' /\ Held(t)' BY <1>1, <2>1 DEF Driven, Unborn, Held, Posted
  <2>5. Streams(t)' BY <1>1, <2>1 DEF Driven, Streams, Scans, Reads, WritesOut
  <2> QED BY <2>3, <2>4, <2>5 DEF Driven
<1>4. HandlesAreOwned' /\ Shut' BY <1>1 DEF HandlesAreOwned, Shut
<1> QED BY <1>2, <1>3, <1>4

LEMMA FaNextKeeps == FaInv /\ [FacadeNext]_facadeVars => FaInv'
<1> SUFFICES ASSUME FaInv, [FacadeNext]_facadeVars PROVE FaInv' OBVIOUS
<1>1. ASSUME NEW t \in Thread, NEW what, Call(t, what) PROVE FaInv' BY <1>1, CallKeeps, StepsKeep
<1>2. ASSUME NEW t \in Thread, Refuse(t) \/ NextBuffered(t) \/ Post(t) PROVE FaInv'
  BY <1>2, RefuseKeeps, NextBufferedKeeps, PostKeeps, StepsKeep
<1>3. ASSUME NEW t \in Thread, Entered(t) \/ Exited(t) \/ Filled(t) \/ Sized(t) \/ Read(t) \/ Wrote(t)
      PROVE  FaInv'
  BY <1>3, EnteredKeeps, ExitedKeeps, FilledKeeps, SizedKeeps, ReadKeeps, WroteKeeps, StepsKeep
<1>4. ASSUME NEW t \in Thread, Fail(t) \/ Deadline(t) PROVE FaInv'
  BY <1>4, FailKeeps, DeadlineKeeps, StepsKeep
<1>5. size \in Nat BY DEF FaInv, FaTypeOK
<1>6. ASSUME NEW t \in Thread, TryAgain(t) PROVE FaInv'
  <2>1. Beside /\ UNCHANGED <<opened, late>> BY <1>5, <1>6 DEF TryAgain, Beside, linkVars, farVars
  <2> QED BY <2>1, BesideKeeps
<1>7. CASE Grow
  <2>1. Beside /\ UNCHANGED <<opened, late>> BY <1>5, <1>7 DEF Grow, Beside, linkVars
  <2> QED BY <2>1, BesideKeeps
<1>8. CASE Finish \/ StopPortal
  <2>1. Beside /\ UNCHANGED <<opened, late>> BY <1>5, <1>8 DEF Finish, StopPortal, Beside, farVars
  <2> QED BY <2>1, BesideKeeps
<1>9. CASE UNCHANGED facadeVars
  <2>1. Beside /\ UNCHANGED <<opened, late>> BY <1>5, <1>9 DEF facadeVars, Beside
  <2> QED BY <2>1, BesideKeeps
<1> HIDE DEF FaInv
<1> QED BY <1>1, <1>2, <1>3, <1>4, <1>6, <1>7, <1>8, <1>9, ReapKeeps, CloseSessionKeeps DEF FacadeNext

\* The facade's threads may end their block, or meet failures, at any point: no handle is
\* without an owner, and scans, reads and writes carry what they are to, in order
\* (SyncSession, DirectoryScan, RemoteFile).
THEOREM FacadeHolds == FacadeSpec => []FacadeIsFaithful
<1>1. FaInv => FacadeIsFaithful
  <2> SUFFICES ASSUME FaInv, NEW t \in Thread
               PROVE  CASE kind[t] = "scan" ->
                             lost[t] = 0 => /\ IsPrefix(got[t], AllNames)
                                            /\ obj[t].exhausted => got[t] = AllNames
                        [] kind[t] = "reader" ->
                             got[t] = [i \in 1..(obj[t].position - obj[t].base) |-> obj[t].base + i]
                        [] kind[t] = "writer" -> IsPrefix(got[t], disk[t])
    BY DEF FaInv, FacadeIsFaithful, StreamsAreFaithful
  <2>1. /\ Streams(t) /\ obj[t] \in ObjectState /\ got[t] \in Seq(Item) /\ disk[t] \in Seq(Nat)
        /\ kind[t] \in Kind
    BY TypesAt DEF FaInv, Driven
  <2>2. CASE kind[t] = "scan"
    <3>1. ASSUME lost[t] = 0 PROVE IsPrefix(got[t], AllNames) /\ (obj[t].exhausted => got[t] = AllNames)
      <4>1. Scans(t) BY <2>1, <2>2, <3>1 DEF Streams
      <4>2. obj[t].batch \in Seq(EntryNames) BY <2>1 DEF ObjectState
      <4>3. Starts(got[t], AllNames) BY <2>1, <4>1, <4>2, StartsPart DEF Scans
      <4>4. AllNames \in Seq(Item) BY ShownIs, SeqMonotonic DEF Item
      <4> QED BY <2>1, <4>1, <4>3, <4>4, PrefixIs DEF Scans
    <3> QED BY <2>2, <3>1
  <2>3. CASE kind[t] = "reader" BY <2>1, <2>3 DEF Streams, Reads
  <2>4. CASE kind[t] = "writer"
    <3>1. Starts(got[t], disk[t]) BY <2>1, <2>4 DEF Streams, WritesOut
    <3>2. disk[t] \in Seq(Item) BY <2>1, SeqMonotonic DEF Item
    <3>3. IsPrefix(got[t], disk[t]) BY <2>1, <3>1, <3>2, PrefixIs
    <3> QED BY <2>4, <3>3
  <2> QED BY <2>1, <2>2, <2>3, <2>4 DEF Kind
<1> QED BY FaInitInv, FaNextKeeps, <1>1, PTL DEF FacadeSpec
===============================================================================
