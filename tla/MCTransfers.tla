----------------------------- MODULE MCTransfers -----------------------------
(***************************************************************************)
(* Small instances, for TLC, of what must come to an end: the pipelined    *)
(* sender, and the walks that feed a pool of workers.  The two are         *)
(* independent; a behaviour is one of either's, the subject.               *)
(***************************************************************************)
EXTENDS Upload, Tree, TLC

VARIABLE subject

-------------------------------------------------------------------------------
(* The trees. *)

NodeDef == {"root", "f", "F", "d", "D", "g", "h", "z", "out", "p"}
ParentDef == [n \in NodeDef |->
    CASE n = "g" -> "d" [] n = "h" -> "D" [] n \in {"out", "p"} -> "out" [] OTHER -> "root"]
NameDef == [n \in NodeDef |->
    CASE n \in {"f", "g", "h"} -> "a" [] n = "F" -> "A" [] OTHER -> n]
FoldDef == [n \in {"a", "A", "z", "root", "d", "D", "out", "p"} |->
    CASE n = "A" -> "a" [] n = "D" -> "d" [] OTHER -> n]
Shape(files, dirs, links) ==
    [n \in NodeDef |-> CASE n \in files \cup {"p"} -> "file"
                          [] n \in dirs \cup {"root", "out"} -> "dir"
                          [] n \in links -> "link" [] OTHER -> "absent"]
\* Two files of one name; two directories; a directory and a file; and a link.
ShapesDef ==
    {Shape({"f", "F", "g"}, {"d"}, {}), Shape({"g", "h", "F"}, {"d", "D"}, {}),
     Shape({"D", "g"}, {"d"}, {}), Shape({"f", "F"}, {}, {"d"}), Shape({"z"}, {"d"}, {})}
OldAtDef == {<<"a">>}
Walks(what, depths) == [job : {what}, depth : depths, list : {<<>>}]
CallDef == Walks("tree", {0, 9}) \cup Walks("preview", {9}) \cup Walks("remove", {9})
           \cup [job : {"list"}, depth : {9}, list : {<<"f", "F", "D">>, <<"g", "f">>}]

-------------------------------------------------------------------------------
(* One subject at a time. *)

uploadVars == vars
walkVars == <<treeVars, pool>>
UploadIdle == Init /\ source = 0
TreeIdle ==
    /\ TreeInit /\ call = CHOOSE c \in Call : TRUE
    /\ ~folding /\ ~terse /\ remote = (CHOOSE s \in Shapes : TRUE)
    /\ \A i \in Inodes \ {<<>>} : local[i] = Nothing

TransfersInit ==
    \/ subject = "upload" /\ Init /\ TreeIdle
    \/ subject = "tree" /\ UploadIdle /\ TreeInit
Uploading == subject = "upload" /\ UNCHANGED <<subject, walkVars>>
Downloading == subject = "tree" /\ UNCHANGED <<subject, uploadVars>>
\* What ended.
Done ==
    \/ Uploading /\ result # "none" /\ UNCHANGED uploadVars
    \/ Downloading /\ outcome # "none" /\ UNCHANGED walkVars
TransfersNext == (Uploading /\ Next) \/ (Downloading /\ TreeNext) \/ Done
TransfersVars == <<subject, uploadVars, walkVars>>
TransfersSpec ==
    /\ TransfersInit /\ [][TransfersNext]_TransfersVars
    /\ WF_TransfersVars(Uploading /\ SenderSteps) /\ WF_TransfersVars(Uploading /\ ReceiverSteps)
    /\ WF_TransfersVars(Uploading /\ ServerSteps) /\ WF_TransfersVars(Downloading /\ TreeStep)

\* What was begun ends: a run of the sender, whichever of its tasks is last, and a walk with
\* its pool, whoever fails or is cancelled (PipelinedUpload.run, for_each_bounded).
EverythingEnds == (subject = "upload" => RunEnds) /\ (subject = "tree" => TreeEnds)
===============================================================================
