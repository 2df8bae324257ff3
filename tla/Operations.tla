------------------------------ MODULE Operations ------------------------------
(***************************************************************************)
(* The operations of a session that are a few requests each                *)
(* (session/_operations.py and the first part of session/_session.py):     *)
(* what they make of the answers, the working directory a session has and  *)
(* the server does not, and what is learned of the server's extensions.    *)
(*                                                                         *)
(* Several tasks share the session; between a request and its answer, and  *)
(* between an answer and what the task makes of it, the others go on, and  *)
(* so do the server's other clients.  How requests travel is Dispatcher.   *)
(***************************************************************************)
EXTENDS Naturals, Sequences, FiniteSets

CONSTANTS
    Caller,      \* tasks that share the session
    Place,       \* absolute paths
    Up,          \* [Place -> Place], itself for the top
    Relative,    \* the one relative path there is
    Under,       \* [Place -> Place]: what it names in a directory
    DefaultDir,  \* where the server starts
    Foreign,     \* what REALPATH of "." is where paths are not rooted at "/"
    Asked,       \* calls that may be made: [op, path, ok]
    Offers,      \* what servers may advertise: a set of sets of extensions
    Contents,    \* what servers may have: [Place -> kind]
    NoPath,
    Altered,     \* places other clients change
    MaxAsked, MaxAltered    \* bounds: calls, and such changes

\* What may be at a place.
Kinds == {"dir", "file", "link", "absent"}
\* The extension each call tries that tries one.
Extension == [posix_rename_if_supported |-> "posix-rename", fsync_if_supported |-> "fsync",
              lchmod |-> "lsetstat", check_file |-> "check-file"]
IfSupported == {"posix_rename_if_supported", "fsync_if_supported"}
Ops == {"exists", "lexists", "isdir", "mkdir", "makedirs", "chdir", "getcwd"} \cup DOMAIN Extension

ASSUME OperationsAssumption ==
    /\ Up \in [Place -> Place] /\ Under \in [Place -> Place] /\ DefaultDir \in Place
    /\ Relative \notin Place /\ Foreign \notin Place /\ NoPath \notin Place \cup {Relative, Foreign}
    /\ {"none", "failure", "junk"} \cap (Place \cup {Foreign}) = {}
    /\ Asked \subseteq [op : Ops, path : Place \cup {Relative}, ok : BOOLEAN]
    /\ Contents \subseteq [Place -> Kinds]
    /\ MaxAsked \in Nat /\ MaxAltered \in Nat

VARIABLES
    there,          \* [Place -> "dir", "file", "link" (to a directory) or "absent"]
    offer,          \* extensions in the server's VERSION
    rooted,         \* whether its default directory is rooted at "/"
    cwd, probed,    \* Session._cwd and _root
    unsupported,    \* Session._unsupported
    task,           \* what each task is at
    asked, altered

opVars == <<there, offer, rooted, cwd, probed, unsupported, task, asked, altered>>
serverVars == <<there, offer, rooted, altered>>
sessionVars == <<cwd, probed, unsupported>>

-------------------------------------------------------------------------------
(* Paths. *)

\* A defect: the working directory is put before whatever path comes.
ResolvesAlways(path) == IF cwd = NoPath THEN path ELSE Under[cwd]
\* _resolve: what goes on the wire; where the server's arithmetic takes it.
Resolve(path) == IF cwd = NoPath \/ path # Relative THEN path ELSE Under[cwd]
Meant(path) == IF path = Relative THEN Under[DefaultDir] ELSE path

\* What a caller means by a path at the time of the call.
Intended(path) ==
    IF path # Relative THEN path ELSE Under[IF cwd = NoPath THEN DefaultDir ELSE cwd]
\* A place and what is above it: what every set that is closed under Up holds with it.
Closed(places) == \A p \in places : Up[p] \in places
Ancestors(p) == {q \in Place : \A places \in SUBSET Place :
                                   p \in places /\ Closed(places) => q \in places}

(* A task. *)

\* Its call, the place the caller meant and whether a chdir elsewhere could move it; for
\* makedirs, what is still to be made and whether this is the second try; the request it
\* waits for, and its answer; the result.  And of history: what the place was and what the
\* server performed since the call, the places requests went to.
Resting == [call |-> [op |-> "none", path |-> NoPath, ok |-> FALSE], means |-> NoPath,
            bound |-> FALSE, todo |-> <<>>, again |-> FALSE,
            asks |-> "none", of |-> NoPath, answer |-> "none", result |-> "none",
            was |-> {}, performed |-> FALSE, went |-> {}]

\* The session may have a working directory from before.
OpsInit ==
    /\ there \in Contents
    /\ offer \in Offers /\ rooted \in BOOLEAN
    /\ cwd \in {NoPath} \cup {p \in Place : there[p] = "dir"}
    /\ probed = NoPath /\ unsupported = {}
    /\ task = [t \in Caller |-> Resting]
    /\ asked = 0 /\ altered = 0

\* Every method resolves the path it is given, also one another method resolved already.
AsksRaw(k, request, path) ==
    [k EXCEPT !.asks = request, !.of = path, !.answer = "none",
              !.went = @ \cup {Meant(path)}]
Asks(k, request, path) == AsksRaw(k, request, Resolve(path))
\* A request that is not about a place the caller named.
AsksFor(k, request) == [k EXCEPT !.asks = request, !.of = NoPath, !.answer = "none"]
Returns(k, result) == [Resting EXCEPT !.result = result]

-------------------------------------------------------------------------------
(* What each call asks first. *)

\* _attempt_extension and check_file: what the server is known not to have is not asked for.
TriesExtension(k) ==
    IF Extension[k.call.op] \notin unsupported THEN AsksFor(k, Extension[k.call.op])
    ELSE Returns(k, IF k.call.op \in IfSupported THEN "false" ELSE "incapable")

\* _require_rooted_paths, and then REALPATH, or not.
Canonicalises(k, root) ==
    IF k.of = Relative /\ root \notin Place THEN Returns(k, "incapable")
    ELSE AsksRaw(k, "REALPATH", k.of)
EntersRooted(k) ==
    IF k.of = Relative /\ probed = NoPath THEN [k EXCEPT !.asks = "ROOT"]
    ELSE Canonicalises(k, probed)

Begin(t, c) ==
    /\ task[t].asks = "none" /\ asked < MaxAsked /\ asked' = asked + 1
    /\ LET k == [Resting EXCEPT !.call = c, !.means = Intended(c.path),
                                !.bound = c.path # Relative \/ cwd # NoPath,
                                !.was = {there[Intended(c.path)]}]
           path == Resolve(c.path)
           first == CASE c.op \in {"exists", "isdir"} -> Asks(k, "STAT", path)
                      [] c.op = "lexists" -> Asks(k, "LSTAT", path)
                      [] c.op \in {"mkdir", "makedirs"} -> Asks(k, "MKDIR", path)
                      [] c.op = "chdir" -> EntersRooted([k EXCEPT !.of = path])
                      [] c.op = "getcwd" -> IF cwd # NoPath \/ probed # NoPath
                                            THEN Returns(k, "true") ELSE AsksFor(k, "ROOT")
                      [] c.op \in DOMAIN Extension -> TriesExtension(k)
       IN  task' = [task EXCEPT ![t] = first]
    /\ UNCHANGED <<serverVars, sessionVars>>

-------------------------------------------------------------------------------
(* The server. *)

Followed(kind) == IF kind = "link" THEN "dir" ELSE kind
\* What a request may be answered as things are.  Attributes may come without permissions
\* ("vague"); any request may be refused, or get an answer of another type ("junk").
Answers(asks, path) ==
    {"failure", "junk"} \cup
    CASE asks \in {"STAT", "LSTAT"} ->
             LET kind == there[Meant(path)]
             IN  IF kind = "absent" THEN {"absent"}
                 ELSE {"vague", IF asks = "STAT" THEN Followed(kind) ELSE kind}
      [] asks = "MKDIR" -> IF there[Meant(path)] = "absent"
                              /\ Followed(there[Up[Meant(path)]]) = "dir"
                           THEN {"done"} ELSE {}
      [] asks = "ROOT" -> {IF rooted THEN DefaultDir ELSE Foreign}
      [] asks = "REALPATH" -> {Meant(path)}
      [] OTHER -> {"done", "unsupported"}

Seen(k, now) == IF k.asks = "none" THEN k ELSE [k EXCEPT !.was = @ \cup {now[k.means]}]

Serve(t, answer) ==
    LET k == task[t]
        now == IF k.asks = "MKDIR" /\ answer = "done"
               THEN [there EXCEPT ![Meant(k.of)] = "dir"] ELSE there
    IN  /\ k.asks # "none" /\ k.answer = "none"
        /\ answer \in Answers(k.asks, k.of)
        /\ there' = now
        /\ task' = [u \in Caller |->
               IF u # t THEN Seen(task[u], now)
               ELSE [Seen(k, now) EXCEPT !.answer = answer,
                                         !.performed = @ \/ answer = "done"]]
        /\ UNCHANGED <<offer, rooted, altered, sessionVars, asked>>

\* Another client of the server makes, removes or replaces something; a request that was
\* given up is performed late.
Alter(p, kind) ==
    /\ altered < MaxAltered /\ altered' = altered + 1
    /\ p # DefaultDir /\ there[p] # kind
    /\ there' = [there EXCEPT ![p] = kind]
    /\ task' = [t \in Caller |-> Seen(task[t], there')]
    /\ UNCHANGED <<offer, rooted, sessionVars, asked>>

-------------------------------------------------------------------------------
(* What a task makes of an answer. *)

Waits(t, asks, ops) ==
    task[t].asks = asks /\ task[t].answer # "none" /\ task[t].call.op \in ops
Moves(t, k) == task' = [task EXCEPT ![t] = k] /\ UNCHANGED <<serverVars, asked>>

\* raise_for_status and _unexpected: a ServerError of some kind, or a ProtocolError.
ServerError(answer) == answer \in {"failure", "absent", "unsupported"}
Raises(k) == Returns(k, IF k.answer = "junk" THEN "protocol" ELSE "raised")

\* A defect: any refusal is taken for an absence.
AbsentIfRefused(answer) == ServerError(answer)
\* _attrs_or_absent: only NO_SUCH_FILE is one.
Absent(answer) == answer = "absent"

\* exists, isdir and _classify.
Attributes(t) ==
    /\ \/ Waits(t, "STAT", {"exists", "isdir"}) \/ Waits(t, "LSTAT", {"lexists"})
    /\ LET k == task[t]
       IN  Moves(t, IF Absent(k.answer) THEN Returns(k, "false")
                    ELSE IF ServerError(k.answer) \/ k.answer = "junk" THEN Raises(k)
                    ELSE IF k.call.op # "isdir" \/ k.answer = "dir" THEN Returns(k, "true")
                    ELSE Returns(k, IF k.answer = "vague" THEN "incapable" ELSE "false"))
    /\ UNCHANGED sessionVars

\* _mkdir_parents: a directory that cannot be made is tried again below its parent, and
\* the parent made the same way.  The child of the top has none to be made.
MadeOne(k) ==
    IF k.todo = <<>> THEN Returns(k, "true")
    ELSE Asks([k EXCEPT !.todo = Tail(@), !.again = TRUE], "MKDIR", Head(k.todo))
NotMade(k) ==
    IF k.call.op = "mkdir" \/ k.again \/ ~k.bound \/ Up[Up[k.of]] = Up[k.of]
    THEN Returns(k, "raised")
    ELSE Asks([k EXCEPT !.todo = <<k.of>> \o @], "MKDIR", Up[k.of])

\* mkdir: a refusal is looked into where a directory may be there already.
Mkdir(t) ==
    /\ Waits(t, "MKDIR", {"mkdir", "makedirs"})
    /\ LET k == task[t]
       IN  Moves(t, IF k.answer = "done" THEN MadeOne(k)
                    ELSE IF k.answer = "junk" THEN Raises(k)
                    ELSE IF k.call.ok \/ k.todo # <<>> THEN Asks(k, "LSTAT", k.of)
                    ELSE NotMade(k))
    /\ UNCHANGED sessionVars

\* _is_directory: whatever refuses to be looked at is none.
IsDirectory(t) ==
    /\ Waits(t, "LSTAT", {"mkdir", "makedirs"})
    /\ LET k == task[t]
       IN  Moves(t, IF k.answer = "junk" THEN Raises(k)
                    ELSE IF k.answer = "dir" THEN MadeOne(k) ELSE NotMade(k))
    /\ UNCHANGED sessionVars

\* The probe of _require_rooted_paths and of getcwd.
Probe(t) ==
    /\ Waits(t, "ROOT", {"chdir", "getcwd"})
    /\ LET k == task[t]
           told == k.answer \in Place \cup {Foreign}
       IN  /\ Moves(t, IF ~told THEN Raises(k)
                       ELSE IF k.call.op = "getcwd" THEN Returns(k, "true")
                       ELSE Canonicalises(k, k.answer))
           /\ probed' = IF told THEN k.answer ELSE probed
    /\ UNCHANGED <<cwd, unsupported>>

Canonical(t) ==
    /\ Waits(t, "REALPATH", {"chdir"})
    /\ LET k == task[t]
       IN  Moves(t, IF k.answer \in Place THEN Asks(k, "STAT", k.answer) ELSE Raises(k))
    /\ UNCHANGED sessionVars

\* chdir, at last: the directory is the session's for every task.
Enter(t) ==
    /\ Waits(t, "STAT", {"chdir"})
    /\ LET k == task[t]
       IN  /\ Moves(t, IF k.answer = "dir" THEN Returns(k, "true")
                       ELSE IF k.answer = "vague" THEN Returns(k, "incapable") ELSE Raises(k))
           /\ cwd' = IF k.answer = "dir" THEN k.of ELSE cwd
    /\ UNCHANGED <<probed, unsupported>>

Learns(extension) ==
    unsupported' = IF extension \in offer THEN unsupported ELSE unsupported \cup {extension}

\* _attempt_extension, and check_file, which asks without it.  An advertised extension's
\* refusal is about this request, and raised; only the _if_supported calls take it for no.
Attempted(t, op) ==
    /\ op \in DOMAIN Extension /\ Waits(t, Extension[op], {op})
    /\ LET k == task[t]
           advertised == Extension[op] \in offer
           no == IF op \in IfSupported THEN "false" ELSE "incapable"
           raised == \/ k.answer = "junk" \/ op = "check_file"
                     \/ advertised /\ ~(k.answer = "unsupported" /\ op \in IfSupported)
       IN  /\ Moves(t, IF k.answer = "done" THEN Returns(k, "true")
                       ELSE IF raised THEN Raises(k) ELSE Returns(k, no))
           /\ IF k.answer = "unsupported" THEN Learns(Extension[op])
              ELSE UNCHANGED unsupported
    /\ UNCHANGED <<cwd, probed>>

\* The deadline of Session.request.
TimedOut(t) ==
    /\ task[t].asks # "none" /\ Moves(t, Returns(task[t], "timeout"))
    /\ UNCHANGED sessionVars

OpsNext ==
    \/ \E p \in Altered, kind \in Kinds : Alter(p, kind)
    \/ \E t \in Caller :
          \/ \E c \in Asked : Begin(t, c)
          \/ \E answer \in Answers(task[t].asks, task[t].of) : Serve(t, answer)
          \/ Attributes(t) \/ Mkdir(t) \/ IsDirectory(t)
          \/ Probe(t) \/ Canonical(t) \/ Enter(t)
          \/ \E op \in DOMAIN Extension : Attempted(t, op)
          \/ TimedOut(t)

OpsSpec == OpsInit /\ [][OpsNext]_opVars

-------------------------------------------------------------------------------
\* All requests of a call go to the place its path meant when it was called, to a
\* directory above it where those are made as well, whatever chdir other tasks do
\* meanwhile (_resolve).  Only a relative path given before there is a working directory
\* is not tied to a place.
OnePathPerCall ==
    \A t \in Caller : task[t].bound =>
        task[t].went \subseteq
            IF task[t].call.op = "makedirs" THEN Ancestors(task[t].means) ELSE {task[t].means}

\* What a call says is, or was at a moment since it was called; but a mkdir whose path is not
\* tied to a place may have looked for its directory at another one.
Truthful(k, result) ==
    LET op == k.call.op
        kinds == IF op = "lexists" THEN k.was ELSE {Followed(w) : w \in k.was}
    IN  /\ op \in {"exists", "lexists"} /\ result = "false" => "absent" \in kinds
        /\ op \in {"exists", "lexists"} /\ result = "true" => kinds # {"absent"}
        /\ op = "isdir" /\ result = "false" => kinds # {"dir"}
        /\ op \in {"isdir", "chdir"} /\ result = "true" => "dir" \in kinds
        /\ op \in {"mkdir", "makedirs"} /\ result = "true" /\ (k.bound \/ k.performed) =>
               "dir" \in kinds
        /\ op \in IfSupported /\ result \in {"true", "false"} => (result = "true") = k.performed
\* Nothing is taken for absent because it was not to be seen, for a directory because it
\* could not be made, and for not performed what was.  Nobody moves into what has not been
\* a directory, and an extension the server advertised is never given up
\* (_attrs_or_absent, _classify, mkdir, _mkdir_parents, chdir, _attempt_extension, D-205).
AnswersAreTrue ==
    [][/\ \A t \in Caller : task[t].asks # "none" /\ task'[t].result # "none" =>
              Truthful(task[t], task'[t].result)
       /\ unsupported' \cap offer = {}
       /\ cwd' \in Place \cup {NoPath}]_opVars
===============================================================================
