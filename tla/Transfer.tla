------------------------------- MODULE Transfer -------------------------------
(***************************************************************************)
(* What a bulk transfer promises its caller, whichever way the bytes go.   *)
(* A transfer fixes the offsets it is to move, moves each of them at some  *)
(* moment and in any order, and reports success only with all of them      *)
(* moved.  Nothing is un-moved.  `Download' and `Upload' implement it.     *)
(***************************************************************************)
EXTENDS Integers

CONSTANT MaxOffset  \* offsets are 0..MaxOffset - 1

VARIABLES
    status,  \* "idle", "moving", "whole" (reported as done) or "failed"
    wanted,  \* the offsets this transfer is to move
    moved    \* those that have arrived at the other end

Offsets == 0..MaxOffset - 1

Init == status = "idle" /\ wanted = {} /\ moved = {}

\* A new transfer fixes its span, in the place of one that has ended.
Begin ==
    /\ status # "moving"
    /\ status' = "moving"
    /\ wanted' \in SUBSET Offsets
    /\ moved' = {}

\* The caller asks again: the last report is no longer the answer.
Prepare ==
    /\ status # "moving"
    /\ status' = "idle" /\ wanted' = {} /\ moved' = {}

Move ==
    /\ status = "moving"
    /\ moved \subseteq moved' /\ moved' \subseteq wanted
    /\ UNCHANGED <<status, wanted>>

\* The source has less to give than was announced.
Narrow ==
    /\ status = "moving"
    /\ moved \subseteq wanted' /\ wanted' \subseteq wanted
    /\ UNCHANGED <<status, moved>>

Complete ==
    /\ status = "moving" /\ moved = wanted
    /\ status' = "whole"
    /\ UNCHANGED <<wanted, moved>>

\* A resume that finds everything in place moves nothing and is done.
NothingToMove ==
    /\ status = "idle"
    /\ status' = "whole" /\ wanted' = {} /\ moved' = {}

\* A failure may leave anything behind and says nothing of it.
Fail ==
    /\ status \in {"idle", "moving"}
    /\ status' = "failed" /\ wanted' = {} /\ moved' = {}

Next == Begin \/ Prepare \/ Move \/ Narrow \/ Complete \/ NothingToMove \/ Fail

Spec == Init /\ [][Next]_<<status, wanted, moved>>
===============================================================================
