-------------------------------- MODULE Probes --------------------------------
(***************************************************************************)
(* The doctor's battery of probes (compatibility.py): facts about a host *)
(* are established by asking, some of them by writing into a directory the *)
(* caller nominated, and what was written is removed at the end.           *)
(*                                                                         *)
(* One thread asks one request after another.  Any of them may be unheard,    *)
(* performed or not, with the link or without it.                          *)
(***************************************************************************)
EXTENDS Naturals, FiniteSets, SequencesExt

CONSTANTS
    Server,      \* servers there may be: how each answers what is asked
    MaxLost      \* bound: answers that are lost

Extensions == {"posix-rename", "fsync", "lsetstat", "limits", "check-file"}
HostKind == [
    offers : SUBSET Extensions, creates : BOOLEAN, removes : BOOLEAN, pretends : BOOLEAN,
    realpath : {"ok", "refused"}, root : {"/", "other", "refused"},
    messages : {"tells", "silent", "restates", "accepts"}, limits : {"stated", "none"},
    folds : {"ok", "gone", "refused"}, rename : {"ok", "refused"},
    times : {"kept", "changed", "none"}, posix : {"ok", "refused", "unsupported"},
    fsync : {"ok", "refused", "unsupported"},
    lsetstat : {"link", "target", "neither", "refused"}, hash : {"true", "wrong", "refused"},
    largest : {"whole", "short", "refused", "hangs up"}]
ASSUME ProbesAssumption == Server \subseteq HostKind /\ MaxLost \in Nat

VARIABLES
    host, writes,    \* the server; whether a directory was nominated
    at,              \* [fact: which of Battery, 0 after it; step: of its script; up: the link]
    strewn,          \* what of this run is in the directory
    claimed,         \* _Scratch.claimed
    findings,        \* <<fact, verdict>>, in order
    left,            \* left_behind
    unheard          \* facts whose answers were lost

probeVars == <<host, writes, at, strewn, claimed, findings, left, unheard>>

-------------------------------------------------------------------------------
(* The battery: facts in their order, and what each of them asks. *)

Ask(what, name) == [ask |-> what, name |-> name]
realpath_of_a_missing_path == <<Ask("realpath", "none")>>
root_shape == <<Ask("root", "none")>>
message_quality == <<Ask("stat", "none"), Ask("readlink", "none")>>
limits == <<Ask("limits", "none")>>
case_folding == <<Ask("create", "case"), Ask("folds", "none")>>
rename_replaces == <<Ask("create", "source"), Ask("create", "target"), Ask("rename", "source")>>
posix_rename ==
    <<Ask("create", "from"), Ask("create", "to"), Ask("posix", "from"), Ask("exists", "from")>>
timestamps == <<Ask("create", "times"), Ask("utime", "none"), Ask("times", "none")>>
fsync == <<Ask("create", "fsync"), Ask("write", "none"), Ask("fsync", "none")>>
lsetstat == <<Ask("create", "file"), Ask("create", "link"), Ask("lsetstat", "none"), Ask("modes", "none")>>
check_file == <<Ask("create", "hash"), Ask("open", "none"), Ask("hash", "none")>>
largest_request == <<Ask("create", "largest"), Ask("largest", "none")>>
Script == [
    start |-> <<Ask("start", "none")>>, realpath |-> realpath_of_a_missing_path, root |-> root_shape,
    messages |-> message_quality, limits |-> limits, folds |-> case_folding,
    rename |-> rename_replaces, times |-> timestamps, posix |-> posix_rename, fsync |-> fsync,
    lsetstat |-> lsetstat, hash |-> check_file, largest |-> largest_request]

\* The names a probe claims before it makes any of them.
Named(fact) ==
    CASE fact = "folds" -> <<"case">> [] fact = "rename" -> <<"source", "target">>
      [] fact = "times" -> <<"times">> [] fact = "posix" -> <<"from", "to">>
      [] fact = "fsync" -> <<"fsync">> [] fact = "lsetstat" -> <<"file", "link">>
      [] fact = "hash" -> <<"hash">> [] fact = "largest" -> <<"largest">>
      [] OTHER -> <<>>

\* read_only_probes and write_probes: what an extension is needed for is asked of a server
\* that advertises it; the large request, which may end the session, comes last.
Battery ==
    <<"start", "realpath", "root", "messages", "limits",
      "folds", "rename", "times", "posix", "fsync", "lsetstat", "hash", "largest">>
Writing == {"folds", "rename", "times", "posix", "fsync", "lsetstat", "hash", "largest"}
Needs == [limits |-> "limits", posix |-> "posix-rename", fsync |-> "fsync",
          lsetstat |-> "lsetstat", hash |-> "check-file"]
IsAsked(fact) ==
    (fact \in DOMAIN Needs => Needs[fact] \in host.offers) /\ (fact \in Writing => writes)
Fact == Battery[at.fact]
Step == Script[Fact][at.step]

ProbesInit ==
    /\ host \in Server /\ writes \in BOOLEAN
    /\ at = [fact |-> 1, step |-> 1, up |-> TRUE]
    /\ strewn = {} /\ claimed = <<>> /\ findings = <<>> /\ left = {} /\ unheard = {}

-------------------------------------------------------------------------------
(* What a server answers, and what the answer says of the fact. *)

Answer == CASE Step.ask = "create" -> IF host.creates THEN "ok" ELSE "refused"
            [] Step.ask \in {"start", "utime", "write", "open"} -> "ok"
            [] Step.ask = "exists" -> IF Step.name \in strewn THEN "there" ELSE "gone"
            [] Step.ask = "stat" -> IF host.messages = "accepts" THEN "accepts" ELSE "refused"
            [] Step.ask = "readlink" -> host.messages
            [] Step.ask = "modes" -> host.lsetstat
            [] Step.ask = "lsetstat" -> IF host.lsetstat = "refused" THEN "refused" ELSE "ok"
            [] OTHER -> host[Step.ask]
Performed == CASE Step.ask = "create" /\ host.creates -> strewn \cup {Step.name}
               [] Step.ask = "rename" /\ host.rename = "ok" /\ ~host.pretends -> strewn \ {Step.name}
               [] Step.ask = "posix" /\ host.posix = "ok" /\ ~host.pretends -> strewn \ {Step.name}
               [] OTHER -> strewn

\* Whether the answer lets the probe go on; else its verdict.  A refusal is an answer to the
\* question of most probes; of the others, as of whatever else fails, _guarded makes a fact
\* that is not established.
GoesOn(answer) == at.step < Len(Script[Fact]) /\ answer \in {"ok", "refused"}
                  /\ (answer = "refused" => Fact = "messages")
Says == [realpath |-> {"ok"}, root |-> {"/"}, messages |-> {"tells"}, limits |-> {"stated"},
         folds |-> {"ok"}, rename |-> {"ok"}, times |-> {"kept"}, posix |-> {"gone"},
         fsync |-> {"ok"}, lsetstat |-> {"link"}, hash |-> {"true"}, largest |-> {"whole"}]
NotEstablished(answer) ==
    \/ answer = "accepts" /\ Fact = "messages"
    \/ answer = "none" /\ Fact = "times"
    \/ answer = "refused" /\ (Step.ask = "create" \/ Fact \in {"folds", "fsync", "hash"})
    \/ answer = "unheard"
FindingOf(answer) == IF NotEstablished(answer) THEN "undetermined"
                   ELSE IF answer \in Says[Fact] THEN "yes" ELSE "no"

-------------------------------------------------------------------------------
(* Steps. *)

Cleaning == at.fact = 0
Following ==
    LET later == {i \in DOMAIN Battery : i > at.fact /\ IsAsked(Battery[i])}
    IN  IF later = {} THEN 0 ELSE Min(later)

\* A defect: what is not known to be made is not claimed.
ClaimedWhenMade ==
    IF at.step > 1 /\ Script[Fact][at.step - 1].ask = "create"
    THEN Append(claimed, Script[Fact][at.step - 1].name) ELSE claimed
\* The probe's names are claimed before any of them is made (claim, then _create).
Claimed == IF at.step = 1 THEN claimed \o Named(Fact) ELSE claimed

Concludes(answer, up) ==
    IF Fact = "start"
    THEN IF answer = "ok"
         THEN at' = [at EXCEPT !.fact = 2] /\ UNCHANGED findings
         ELSE at' = [at EXCEPT !.fact = 0] /\ findings' = <<<<"start", "undetermined">>>>
    ELSE IF GoesOn(answer) THEN at' = [at EXCEPT !.step = @ + 1] /\ UNCHANGED findings
    ELSE /\ at' = [at EXCEPT !.fact = Following, !.step = 1, !.up = up]
         /\ findings' = Append(findings, <<Fact, FindingOf(answer)>>)

\* A probe's next request, and what its answer makes of it.
AskNext ==
    /\ ~Cleaning /\ at.up /\ Answer # "hangs up"
    /\ strewn' = Performed /\ claimed' = Claimed
    /\ Concludes(Answer, TRUE)
    /\ UNCHANGED <<host, writes, left, unheard>>

\* The server closes the channel instead of answering.
HangsUp ==
    /\ ~Cleaning /\ at.up /\ Answer = "hangs up"
    /\ claimed' = Claimed /\ Concludes("unheard", FALSE)
    /\ UNCHANGED <<host, writes, strewn, left, unheard>>

\* The answer is late, or lost with the link; what the session knows is asked of nobody.
Loses ==
    /\ ~Cleaning /\ at.up /\ Fact # "limits"
    /\ Cardinality(unheard) < MaxLost /\ unheard' = unheard \cup {Fact}
    /\ strewn' \in {strewn, Performed} /\ claimed' = Claimed
    /\ \E up \in BOOLEAN : Concludes("unheard", up)
    /\ UNCHANGED <<host, writes, left>>

\* Without a link every probe asks once, and fails.
FailsUnasked ==
    /\ ~Cleaning /\ ~at.up
    /\ claimed' = Claimed
    /\ Concludes(IF Fact = "limits" THEN host.limits ELSE "unheard", FALSE)
    /\ UNCHANGED <<host, writes, strewn, left, unheard>>

\* _clean_up: the last name first; what is gone is the expected case.
Keeps == claimed' = Front(claimed) /\ UNCHANGED <<host, writes, at, findings>>
Clean ==
    /\ Cleaning /\ claimed # <<>> /\ at.up /\ Keeps
    /\ IF Last(claimed) \in strewn /\ ~host.removes
       THEN left' = left \cup {Last(claimed)} /\ UNCHANGED strewn
       ELSE strewn' = strewn \ {Last(claimed)} /\ UNCHANGED left
    /\ UNCHANGED unheard
CleanFails ==
    /\ Cleaning /\ claimed # <<>> /\ Keeps
    /\ IF at.up THEN Cardinality(unheard) < MaxLost /\ unheard' = unheard \cup {"clean"}
       ELSE UNCHANGED unheard
    /\ strewn' \in {strewn, IF at.up /\ host.removes THEN strewn \ {Last(claimed)} ELSE strewn}
    /\ left' = left \cup {Last(claimed)}

ProbesNext == AskNext \/ HangsUp \/ Loses \/ FailsUnasked \/ Clean \/ CleanFails
ProbesSpec == ProbesInit /\ [][ProbesNext]_probeVars

-------------------------------------------------------------------------------
(* Properties. *)

\* _undetermined: what the report says it did not ask.
Limits ==
    (IF writes THEN {} ELSE {"writes"} \cup (host.offers \ {"limits"}))
    \cup IF Extensions \subseteq host.offers THEN {} ELSE {"unadvertised"}

Holds(fact) ==
    host[fact] \in (Says[fact] \cup {"ok"}) /\ (fact = "posix" => ~host.pretends)

\* A verdict is what the server is, also when answers were lost on the way.
VerdictsAreTrue ==
    \A i \in DOMAIN findings :
        LET fact == findings[i][1] IN
        /\ findings[i][2] = "yes" => Holds(fact)
        /\ findings[i][2] = "no" => ~Holds(fact)

\* A server that ends the session over the large request costs that one finding.
OneFindingAtMost ==
    \A i \in DOMAIN findings :
        findings[i][2] = "undetermined" /\ unheard = {} /\ host.creates =>
            \/ findings[i][1] = "largest"
            \/ host[findings[i][1]] \in {"refused", "none", "accepts"}

\* A fact is established, found impossible to establish, or named as not asked.
NothingPassedOver ==
    Cleaning /\ findings # <<<<"start", "undetermined">>>> =>
        \A fact \in DOMAIN Says :
            \/ \E i \in DOMAIN findings : findings[i][1] = fact
            \/ fact \in DOMAIN Needs /\ Limits \cap {Needs[fact], "unadvertised"} # {}
            \/ fact \notin DOMAIN Needs /\ "writes" \in Limits

\* What could not be removed is reported, whatever was lost on the way.
NothingForgotten == Cleaning /\ claimed = <<>> => strewn \subseteq left

\* The report is true of the server, and of what the battery leaves behind there
\* (read_only_probes, write_probes, _guarded, _clean_up).
ProbesAreHonest == VerdictsAreTrue /\ OneFindingAtMost /\ NothingPassedOver /\ NothingForgotten
===============================================================================
