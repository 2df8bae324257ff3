--------------------------------- MODULE Pool ---------------------------------
(* for_each_bounded (session/_pool.py): a generator of items and the workers     *)
(* that handle them, joined by a stream without a buffer.  With one worker there *)
(* is no stream: the generator waits while its item is handled.  Whoever walks   *)
(* or transfers supplies the generator's steps and the handling of an item.      *)
EXTENDS Naturals, FiniteSets

CONSTANTS
    Worker,    \* as many as "concurrency"
    NoItem

ASSUME PoolAssumption == Worker # {} /\ IsFiniteSet(Worker)

\* gen: the generator is "running", its item is being "sending", it is "suspended"
\* behind a yield nobody will resume yet, or it is "closed".
VARIABLE pool

NewPool == [gen |-> "running", offered |-> NoItem, held |-> [w \in Worker |-> NoItem],
            error |-> "none", over |-> FALSE]

Sequential == Cardinality(Worker) = 1
\* The first failure is the one that is raised.
Raised(e) == IF pool.error = "none" THEN e ELSE pool.error
Producing == pool.gen = "running" /\ pool.error = "none" /\ ~pool.over

Offer(item) ==
    /\ Producing
    /\ pool' = IF Sequential
               THEN [pool EXCEPT !.held = [w \in Worker |-> item], !.gen = "suspended"]
               ELSE [pool EXCEPT !.offered = item, !.gen = "sending"]

ProducerFails(e) ==
    /\ Producing
    /\ pool' = [pool EXCEPT !.gen = "closed", !.error = e]

Exhausted ==
    /\ Producing
    /\ pool' = [pool EXCEPT !.gen = "closed"]

\* _worker: an idle one meets the producer in the stream.
Take(w) ==
    /\ pool.gen = "sending" /\ pool.error = "none" /\ pool.held[w] = NoItem
    /\ pool' = [pool EXCEPT !.held[w] = pool.offered, !.offered = NoItem, !.gen = "running"]

\* A handler whose last answer is already there finishes, cancelled or not.
Handled(w) ==
    /\ pool.held[w] # NoItem
    /\ pool' = [pool EXCEPT !.held[w] = NoItem,
                            !.gen = IF Sequential /\ pool.error = "none" THEN "running" ELSE @]

HandlerFails(w, e) ==
    /\ pool.held[w] # NoItem
    /\ pool' = [pool EXCEPT !.held[w] = NoItem, !.error = Raised(e)]

CancelPool ==
    /\ ~pool.over /\ pool.error = "none"
    /\ pool' = [pool EXCEPT !.error = "cancelled"]

\* The task group cancels the others wherever they wait: in a handler, in the generator,
\* which ends with it, or in the send, behind which the generator stays.
Unwind ==
    /\ pool.error # "none"
    /\ \/ \E w \in Worker : pool.held[w] # NoItem /\ pool' = [pool EXCEPT !.held[w] = NoItem]
       \/ pool.gen = "running" /\ pool' = [pool EXCEPT !.gen = "closed"]
       \/ pool.gen = "sending" /\ pool' = [pool EXCEPT !.gen = "suspended", !.offered = NoItem]

\* The group has ended, then aclosing closes the generator.
Join ==
    /\ ~pool.over /\ pool.gen \in {"suspended", "closed"}
    /\ pool.gen = "suspended" => pool.error # "none"
    /\ \A w \in Worker : pool.held[w] = NoItem
    /\ pool' = [pool EXCEPT !.gen = "closed", !.over = TRUE]
===============================================================================
