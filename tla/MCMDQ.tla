------------------------------- MODULE MCMDQ -------------------------------
(***************************************************************************)
(* Instances of MDQ for TLC: one budget of faults per question asked.      *)
(***************************************************************************)
EXTENDS MDQ, TLC, FiniteSetsExt

Budget(kinds) == [k \in FaultKind |-> IF k \in kinds THEN 1 ELSE 0]

\* Everything that can go wrong at a worker, and the errors of a submission
\* that the queue may notice.
WorkerFaults == Budget({"crash", "sigterm", "db", "insert", "redis", "dup", "late"})

\* Everything an accepted job is to survive, and the events that may drop one;
\* Redis may fail two workers, so that none is left that works.
LifeFaults ==
    [Budget({"crash", "sigterm", "dup", "redisLoss", "enqueue", "abort"})
        EXCEPT !["redis"] = 2]

\* Two jobs meet one fault, one job meets any two; at most two entries are
\* announced; ids are interchangeable, so one given job is asked for first.  No
\* step that the fairness demands needs a fault or a submission.
Asked == {j \in Jobs : req[j] # "none"}
First == CHOOSE j \in Jobs : TRUE
FewEvents ==
    /\ Cardinality(Asked) + MapThenSumSet(Spent, FaultKind) <= 3
    /\ Cardinality(Asked) + Spent("dup") <= 2
    /\ Asked # {} => First \in Asked

EnqueueFault == Budget({"enqueue"})
LateFault == Budget({"late"})
DbFault == Budget({"db"})
SigtermFault == Budget({"sigterm"})

WorkerSymmetry == Permutations(Workers)
=============================================================================
