---------------------------- MODULE JobLifecycle ----------------------------
(***************************************************************************)
(* What the queue promises about one job after another, as its owner sees  *)
(* it through GET /api/v1/jobs/{id}: a job is submitted once, is executed  *)
(* at least once, is deferred only after a failed execution, is given up   *)
(* only when its type has no handler or it failed max_retries times, and   *)
(* once finished it never changes again.  No queue, no workers.            *)
(***************************************************************************)
EXTENDS Integers

CONSTANTS Jobs, Types, HandledTypes, RetryLimits

VARIABLES status, maxRetries, jobType, failures

vars == <<status, maxRetries, jobType, failures>>
request == <<maxRetries, jobType>>

Unfinished == {"PENDING", "RUNNING", "RETRYING"}

Init ==
    /\ status = [j \in Jobs |-> "ABSENT"]
    /\ maxRetries = [j \in Jobs |-> 0]
    /\ jobType = [j \in Jobs |-> "NONE"]
    /\ failures = [j \in Jobs |-> 0]

Submit(j) ==
    /\ status[j] = "ABSENT"
    /\ status' = [status EXCEPT ![j] = "PENDING"]
    /\ \E t \in Types : jobType' = [jobType EXCEPT ![j] = t]
    /\ \E m \in RetryLimits : maxRetries' = [maxRetries EXCEPT ![j] = m]
    /\ UNCHANGED failures

SetStatus(j, s) ==
    /\ status[j] \in Unfinished
    /\ status' = [status EXCEPT ![j] = s]
    /\ UNCHANGED <<request, failures>>

Begin(j) == SetStatus(j, "RUNNING")

Complete(j) == jobType[j] \in HandledTypes /\ SetStatus(j, "COMPLETED")

Fail(j) ==
    /\ status[j] \in Unfinished
    /\ jobType[j] \in HandledTypes
    /\ failures' = [failures EXCEPT ![j] = @ + 1]
    /\ UNCHANGED <<status, request>>

\* max_retries counts executions: the default 3 allows three of them.
Defer(j) ==
    /\ failures[j] > 0 /\ maxRetries[j] > 1
    /\ SetStatus(j, "RETRYING")

GiveUp(j) ==
    /\ \/ jobType[j] \notin HandledTypes
       \/ failures[j] > 0 /\ failures[j] >= maxRetries[j]
    /\ SetStatus(j, "FAILED")

Next ==
    \E j \in Jobs :
        Submit(j) \/ Begin(j) \/ Complete(j) \/ Fail(j) \/ Defer(j) \/ GiveUp(j)

Spec == Init /\ [][Next]_vars
=============================================================================
