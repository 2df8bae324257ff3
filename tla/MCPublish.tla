------------------------------ MODULE MCPublish ------------------------------
(* Small instances of Publish for TLC. *)
EXTENDS Publish

\* One target, an edited source and a torn append.
Alone == [targets |-> {CHOOSE t \in Target : TRUE}, together |-> 1, versions |-> 2,
          torn |-> 1, renames |-> {"none", "quiet", "advertised"}]
\* Two targets at once.
Pair == [targets |-> Target, together |-> 2, versions |-> 1,
         torn |-> 0, renames |-> {"quiet", "advertised"}]
AllScenes == {Alone, Pair}

\* One call, and a server that may not rename over a file.
Once == [targets |-> Target, together |-> 1, versions |-> 1,
         torn |-> 0, renames |-> {"quiet", "advertised"}]
OneScene == {Once}

\* The tasks of one process are alike.
Tasks == Permutations(Publisher)
===============================================================================
