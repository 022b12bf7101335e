------------------------------ MODULE JobStore ------------------------------
(***************************************************************************)
(* The "jobs" table in PostgreSQL and the statements of JobRepository      *)
(* (backend/internal/repository/job.go).  Each column the control flow     *)
(* depends on is a function from job ids; a row that was not inserted has  *)
(* status Absent.  Every statement is one atomic step: the repository      *)
(* opens no transaction that spans two of them.                            *)
(*                                                                         *)
(* payload, result, error_details, user_id and the timestamps are left     *)
(* out: no decision of the program reads them.                             *)
(***************************************************************************)
EXTENDS Integers

CONSTANTS
    Jobs,           \* the ids gen_random_uuid() may hand out
    Types,          \* the job types clients ask for
    HandledTypes    \* the types a handler is registered for

ASSUME TypesAssumption == HandledTypes \subseteq Types

VARIABLES status, retries, maxRetries, jobType

storeVars == <<status, retries, maxRetries, jobType>>

Absent == "ABSENT"
NoType == "NONE"
Status == {"PENDING", "RUNNING", "COMPLETED", "FAILED", "RETRYING"}

\* The statuses the processor's guard treats as final.
Finished == {"COMPLETED", "FAILED"}

StoreTypeOK ==
    /\ status \in [Jobs -> Status \cup {Absent}]
    /\ retries \in [Jobs -> Nat]
    /\ maxRetries \in [Jobs -> Int]
    /\ jobType \in [Jobs -> Types \cup {NoType}]

StoreInit ==
    /\ status = [j \in Jobs |-> Absent]
    /\ retries = [j \in Jobs |-> 0]
    /\ maxRetries = [j \in Jobs |-> 0]
    /\ jobType = [j \in Jobs |-> NoType]

CreateJob(j, type, max) ==
    /\ status[j] = Absent
    /\ status' = [status EXCEPT ![j] = "PENDING"]
    /\ retries' = [retries EXCEPT ![j] = 0]
    /\ maxRetries' = [maxRetries EXCEPT ![j] = max]
    /\ jobType' = [jobType EXCEPT ![j] = type]

\* WHERE id = $4 always matches: rows are never deleted by this program.
UpdateJobState(j, s) ==
    /\ status' = [status EXCEPT ![j] = s]
    /\ UNCHANGED <<retries, maxRetries, jobType>>

\* Mutant of IncrementJobRetry: counts the retries down.
DecrementJobRetry(j) ==
    /\ retries' = [retries EXCEPT ![j] = @ - 1]
    /\ UNCHANGED <<status, maxRetries, jobType>>

IncrementJobRetry(j) ==
    /\ retries' = [retries EXCEPT ![j] = @ + 1]
    /\ UNCHANGED <<status, maxRetries, jobType>>
=============================================================================
