----------------------------- MODULE Processor -----------------------------
(***************************************************************************)
(* A worker process: cmd/worker/main.go and the event loop of              *)
(* internal/worker/processor.go.  The loop is one goroutine, so a worker   *)
(* has one program counter; every PostgreSQL or Redis call is a step of    *)
(* its own, because other workers run between any two of them.             *)
(*                                                                         *)
(*   down --Boot--> boot --> loop --> claim --> dequeue --> loop ...       *)
(*                                      |          |                       *)
(*                                      +--fetch---+   (processMessage)    *)
(*   fetch --> ack                              job already finished       *)
(*   fetch --> setRunning --> handle --> setCompleted --> ack              *)
(*                      |         +--> increment --> setFailed --> ack     *)
(*                      |                      +--> setRetrying            *)
(*                      +--> setFailed --> ack  no handler for the type    *)
(***************************************************************************)
EXTENDS JobStore, Stream, Faults

CONSTANT Workers

ASSUME WorkersAssumption == IsFiniteSet(Workers)

VARIABLES
    pc,         \* the call each worker makes next
    msg,        \* the entry processMessage was called with, 0 outside it
    claimed,    \* did the entry come from XAUTOCLAIM
    attempts,   \* RetriesAttempted in the local copy of the job
    ctxDone,    \* has main cancelled the context of the processor
    failures    \* per job, the times its handler returned an error (history)

workerVars == <<pc, msg, claimed, attempts, ctxDone, failures>>
localVars == <<claimed, attempts, ctxDone, failures>>

Outside == {"down", "boot", "loop", "claim", "dequeue", "stopped"}
Processing == {"fetch", "setRunning", "handle", "increment", "setFailed",
               "setRetrying", "setCompleted", "ack"}

WorkersTypeOK ==
    /\ pc \in [Workers -> Outside \cup Processing]
    /\ msg \in [Workers -> 0..Len(stream)]
    /\ claimed \in [Workers -> BOOLEAN]
    /\ attempts \in [Workers -> Nat]
    /\ ctxDone \in [Workers -> BOOLEAN]
    /\ failures \in [Jobs -> Nat]
    /\ \A w \in Workers : msg[w] # 0 <=> pc[w] \in Processing

WorkersInit ==
    /\ pc = [w \in Workers |-> "down"]
    /\ msg = [w \in Workers |-> 0]
    /\ claimed = [w \in Workers |-> FALSE]
    /\ attempts = [w \in Workers |-> 0]
    /\ ctxDone = [w \in Workers |-> FALSE]
    /\ failures = [j \in Jobs |-> 0]

JobOf(w) == stream[msg[w]]

Holders(e) == {w \in Workers : msg[w] = e}

Goto(w, l) == pc' = [pc EXCEPT ![w] = l]

\* processMessage is called with entry e.
Process(w, e, fromClaim) ==
    /\ Goto(w, "fetch")
    /\ msg' = [msg EXCEPT ![w] = e]
    /\ claimed' = [claimed EXCEPT ![w] = fromClaim]
    /\ UNCHANGED <<attempts, ctxDone, failures>>

\* processMessage returns: a claimed entry was the loop's first phase, a
\* dequeued one its last.
Return(w) ==
    /\ Goto(w, IF claimed[w] THEN "dequeue" ELSE "loop")
    /\ msg' = [msg EXCEPT ![w] = 0]
    /\ claimed' = [claimed EXCEPT ![w] = FALSE]
    /\ attempts' = [attempts EXCEPT ![w] = 0]
    /\ UNCHANGED <<ctxDone, failures>>

\* A call fails on a cancelled context, or because its server fails it.
CallFails(w, kind) ==
    \/ ctxDone[w] /\ NoFault
    \/ ~ctxDone[w] /\ Fault(kind)

CallWorks(w) == ~ctxDone[w] /\ NoFault

\* The result of UpdateJobState is logged and otherwise ignored.
WriteState(w, s) ==
    \/ CallWorks(w) /\ UpdateJobState(JobOf(w), s)
    \/ CallFails(w, "db") /\ UNCHANGED storeVars
-----------------------------------------------------------------------------
\* The process and its signals.

Boot(w) ==
    /\ pc[w] = "down"
    /\ Goto(w, "boot")
    /\ UNCHANGED <<msg, localVars, storeVars, streamVars, faultsLeft>>

\* SIGINT or SIGTERM: main cancels the context and sleeps five seconds.
Signal(w) ==
    /\ pc[w] # "down" /\ ~ctxDone[w]
    /\ Fault("sigterm")
    /\ ctxDone' = [ctxDone EXCEPT ![w] = TRUE]
    /\ UNCHANGED <<pc, msg, claimed, attempts, failures, storeVars, streamVars>>

Die(w) ==
    /\ Goto(w, "down")
    /\ msg' = [msg EXCEPT ![w] = 0]
    /\ claimed' = [claimed EXCEPT ![w] = FALSE]
    /\ attempts' = [attempts EXCEPT ![w] = 0]
    /\ ctxDone' = [ctxDone EXCEPT ![w] = FALSE]
    /\ UNCHANGED <<failures, storeVars, streamVars>>

\* main returns after the five seconds, wherever the loop is.
Exit(w) == pc[w] # "down" /\ ctxDone[w] /\ NoFault /\ Die(w)

Crash(w) == pc[w] # "down" /\ Fault("crash") /\ Die(w)
-----------------------------------------------------------------------------
\* Processor.Start: the consumer group, then the loop.

\* If the group cannot be created, Start returns and the process lives on.
CreateGroup(w) ==
    /\ pc[w] = "boot"
    /\ \/ CallWorks(w) /\ XGroupCreateMkStream /\ Goto(w, "loop")
       \/ CallFails(w, "redis") /\ UNCHANGED streamVars /\ Goto(w, "stopped")
    /\ UNCHANGED <<msg, localVars, storeVars>>

SelectDone(w) ==
    /\ pc[w] = "loop"
    /\ Goto(w, IF ctxDone[w] THEN "stopped" ELSE "claim")
    /\ UNCHANGED <<msg, localVars, storeVars, streamVars, faultsLeft>>

\* Whatever goes wrong here, the loop goes on to dequeueMessages.  A lost
\* reply leaves the entry claimed by a worker that does not know it.
HandleAbandonedMessages(w) ==
    /\ pc[w] = "claim"
    /\ UNCHANGED storeVars
    /\ \/ /\ CallWorks(w)
          /\ \E e \in Claimable : XAutoClaim(e) /\ Process(w, e, TRUE)
       \/ /\ CallFails(w, "redis")
          /\ UNCHANGED streamVars \/ \E e \in Claimable : XAutoClaim(e)
          /\ Goto(w, "dequeue") /\ UNCHANGED <<msg, localVars>>
       \/ /\ CallWorks(w)
          /\ Claimable = {}
          /\ UNCHANGED streamVars
          /\ Goto(w, "dequeue") /\ UNCHANGED <<msg, localVars>>

\* The client library does not interrupt a blocked read, so an entry may
\* still arrive, or the two seconds pass, after the context is cancelled.
DequeueMessages(w) ==
    /\ pc[w] = "dequeue"
    /\ UNCHANGED storeVars
    /\ \/ NoFault /\ XReadGroup /\ Process(w, NewEntry, FALSE)
       \/ /\ NoFault
          /\ ~HasNewEntry
          /\ UNCHANGED streamVars
          /\ Goto(w, "loop") /\ UNCHANGED <<msg, localVars>>
       \/ /\ CallFails(w, "redis")
          /\ UNCHANGED streamVars \/ XReadGroup
          /\ Goto(w, IF ctxDone[w] THEN "stopped" ELSE "loop")
          /\ UNCHANGED <<msg, localVars>>
-----------------------------------------------------------------------------
\* Processor.processMessage, one database or broker call at a time.

\* Mutants of GetJob: no guard against finished jobs, a SELECT without
\* retries_attempted, and a guard that forgets the acknowledgement.
GetJobUnguarded(w) ==
    /\ pc[w] = "fetch"
    /\ UNCHANGED <<storeVars, streamVars>>
    /\ \/ /\ CallWorks(w)
          /\ Goto(w, "setRunning")
          /\ attempts' = [attempts EXCEPT ![w] = retries[JobOf(w)]]
          /\ UNCHANGED <<msg, claimed, ctxDone, failures>>
       \/ CallFails(w, "db") /\ Return(w)

GetJobWithoutRetries(w) ==
    /\ pc[w] = "fetch"
    /\ UNCHANGED <<storeVars, streamVars, msg, claimed, ctxDone, failures>>
    /\ CallWorks(w)
    /\ Goto(w, IF status[JobOf(w)] \in Finished THEN "ack" ELSE "setRunning")
    /\ attempts' = [attempts EXCEPT ![w] = 0]

GetJobLeavesFinished(w) ==
    /\ pc[w] = "fetch"
    /\ UNCHANGED <<storeVars, streamVars>>
    /\ CallWorks(w)
    /\ IF status[JobOf(w)] \in Finished
       THEN Return(w)
       ELSE /\ Goto(w, "setRunning")
            /\ attempts' = [attempts EXCEPT ![w] = retries[JobOf(w)]]
            /\ UNCHANGED <<msg, claimed, ctxDone, failures>>

\* GetJobByID, and the guard that skips finished jobs.
GetJob(w) ==
    /\ pc[w] = "fetch"
    /\ UNCHANGED <<storeVars, streamVars>>
    /\ \/ /\ CallWorks(w)
          /\ status[JobOf(w)] \in Finished
          /\ Goto(w, "ack") /\ UNCHANGED <<msg, localVars>>
       \/ /\ CallWorks(w)
          /\ status[JobOf(w)] \notin Finished
          /\ Goto(w, "setRunning")
          /\ attempts' = [attempts EXCEPT ![w] = retries[JobOf(w)]]
          /\ UNCHANGED <<msg, claimed, ctxDone, failures>>
       \/ CallFails(w, "db") /\ Return(w)

\* Mutant of MarkRunning: a job without a handler is skipped, not failed.
MarkRunningSkipsUnknown(w) ==
    /\ pc[w] = "setRunning"
    /\ WriteState(w, "RUNNING")
    /\ UNCHANGED streamVars
    /\ IF jobType[JobOf(w)] \in HandledTypes
       THEN Goto(w, "handle") /\ UNCHANGED <<msg, localVars>>
       ELSE Return(w)

MarkRunning(w) ==
    /\ pc[w] = "setRunning"
    /\ WriteState(w, "RUNNING")
    /\ Goto(w, IF jobType[JobOf(w)] \in HandledTypes THEN "handle" ELSE "setFailed")
    /\ UNCHANGED <<msg, localVars, streamVars>>

\* The handlers sleep and draw lots; they take no notice of the context.
RunHandler(w) ==
    /\ pc[w] = "handle"
    /\ \/ Goto(w, "setCompleted") /\ UNCHANGED failures
       \/ /\ Goto(w, "increment")
          /\ failures' = [failures EXCEPT ![JobOf(w)] = @ + 1]
    /\ UNCHANGED <<msg, claimed, attempts, ctxDone, storeVars, streamVars, faultsLeft>>

\* Mutants of CountFailure: the failure is counted twice before the decision,
\* it is counted in memory only, and the decision is made before it is counted.
CountFailureTwice(w) ==
    /\ pc[w] = "increment"
    /\ CallWorks(w) /\ IncrementJobRetry(JobOf(w))
    /\ attempts' = [attempts EXCEPT ![w] = @ + 2]
    /\ Goto(w, IF attempts[w] + 2 >= maxRetries[JobOf(w)]
               THEN "setFailed" ELSE "setRetrying")
    /\ UNCHANGED <<msg, claimed, ctxDone, failures, streamVars>>

CountFailureInMemory(w) ==
    /\ pc[w] = "increment"
    /\ CallWorks(w)
    /\ attempts' = [attempts EXCEPT ![w] = @ + 1]
    /\ Goto(w, IF attempts[w] + 1 >= maxRetries[JobOf(w)]
               THEN "setFailed" ELSE "setRetrying")
    /\ UNCHANGED <<msg, claimed, ctxDone, failures, storeVars, streamVars>>

CountFailureLate(w) ==
    /\ pc[w] = "increment"
    /\ CallWorks(w) /\ IncrementJobRetry(JobOf(w))
    /\ attempts' = [attempts EXCEPT ![w] = @ + 1]
    /\ Goto(w, IF attempts[w] >= maxRetries[JobOf(w)]
               THEN "setFailed" ELSE "setRetrying")
    /\ UNCHANGED <<msg, claimed, ctxDone, failures, streamVars>>

\* The row's counter is incremented in the database (or not: the error is
\* dropped) and the local copy's in memory; the decision uses the copy.
CountFailure(w) ==
    /\ pc[w] = "increment"
    /\ \/ CallWorks(w) /\ IncrementJobRetry(JobOf(w))
       \/ CallFails(w, "db") /\ UNCHANGED storeVars
    /\ attempts' = [attempts EXCEPT ![w] = @ + 1]
    /\ Goto(w, IF attempts[w] + 1 >= maxRetries[JobOf(w)]
               THEN "setFailed" ELSE "setRetrying")
    /\ UNCHANGED <<msg, claimed, ctxDone, failures, streamVars>>

MarkFailed(w) ==
    /\ pc[w] = "setFailed"
    /\ WriteState(w, "FAILED")
    /\ Goto(w, "ack")
    /\ UNCHANGED <<msg, localVars, streamVars>>

\* Mutant of MarkRetrying: the entry is acknowledged.
MarkRetryingAcks(w) ==
    /\ pc[w] = "setRetrying"
    /\ WriteState(w, "RETRYING")
    /\ XAck(msg[w])
    /\ Return(w)

\* No XACK: the entry stays pending until some worker claims it again.
MarkRetrying(w) ==
    /\ pc[w] = "setRetrying"
    /\ WriteState(w, "RETRYING")
    /\ Return(w)
    /\ UNCHANGED streamVars

MarkCompleted(w) ==
    /\ pc[w] = "setCompleted"
    /\ WriteState(w, "COMPLETED")
    /\ Goto(w, "ack")
    /\ UNCHANGED <<msg, localVars, streamVars>>

\* The result of XACK is not looked at.
Ack(w) ==
    /\ pc[w] = "ack"
    /\ \/ CallWorks(w) /\ XAck(msg[w])
       \/ CallFails(w, "redis") /\ UNCHANGED streamVars
    /\ Return(w)
    /\ UNCHANGED storeVars
-----------------------------------------------------------------------------
\* The steps the Go scheduler runs as long as the process lives.
LoopStep(w) ==
    \/ CreateGroup(w) \/ SelectDone(w)
    \/ HandleAbandonedMessages(w) \/ DequeueMessages(w)
    \/ GetJob(w) \/ MarkRunning(w) \/ RunHandler(w) \/ CountFailure(w)
    \/ MarkFailed(w) \/ MarkRetrying(w) \/ MarkCompleted(w) \/ Ack(w)

WorkerNext ==
    \E w \in Workers :
        LoopStep(w) \/ Boot(w) \/ Signal(w) \/ Exit(w) \/ Crash(w)
=============================================================================
