-------------------------------- MODULE MDQ --------------------------------
(***************************************************************************)
(* The distributed queue: API handlers that insert jobs and announce them  *)
(* on the stream, and workers that take entries off it and record what     *)
(* became of the jobs, over one PostgreSQL and one Redis that the two      *)
(* sides share and nothing else.                                           *)
(***************************************************************************)
EXTENDS Api, Processor

vars == <<storeVars, streamVars, faultsLeft, req, workerVars>>

Init ==
    /\ StoreInit /\ StreamInit /\ FaultsInit
    /\ ApiInit /\ WorkersInit

Submission == ApiNext /\ UNCHANGED workerVars

Work == WorkerNext /\ UNCHANGED req

\* minIdleTime passes for a pending entry.  The handlers take at most five
\* seconds and minIdleTime is a minute, so for an entry that some worker is
\* at work on this is a fault: a stalled call or a suspended process.
Age(e) ==
    /\ GrowIdle(e)
    /\ IF Holders(e) = {} THEN NoFault ELSE Fault("late")
    /\ UNCHANGED <<storeVars, req, workerVars>>

RedisRestart ==
    /\ Fault("redisLoss")
    /\ LoseData
    /\ UNCHANGED <<storeVars, req, workerVars>>

Next == Submission \/ Work \/ (\E e \in pel : Age(e)) \/ RedisRestart

Spec == Init /\ [][Next]_vars

\* The Go scheduler runs a live loop, main's five seconds end, the platform
\* restarts a dead worker, a request is served to its end, time passes.
\* Nothing else has to happen: no client has to submit, no fault has to
\* strike, no process has to be stopped.
Fairness ==
    /\ \A w \in Workers : WF_vars(LoopStep(w) /\ UNCHANGED req)
    /\ \A w \in Workers : WF_vars((Boot(w) \/ Exit(w)) /\ UNCHANGED req)
    /\ \A j \in Jobs : WF_vars(Enqueue(j) /\ UNCHANGED workerVars)
    /\ WF_vars(\E e \in pel : Holders(e) = {} /\ Age(e))

FairSpec == Spec /\ Fairness
-----------------------------------------------------------------------------
\* The type invariant: every variable of the two stores, the requests and
\* the workers keeps its type, only entries delivered since the last data loss
\* are pending, and a worker holds an entry exactly inside processMessage.
TypeOK ==
    StoreTypeOK /\ StreamTypeOK(Jobs) /\ FaultsTypeOK /\ RequestsTypeOK /\ WorkersTypeOK

\* A job with a registered handler is FAILED only after its handler returned
\* an error max_retries times, whatever crashes, stalls, lost replies and
\* stale copies of RetriesAttempted went into the decision
\* (processor.go: job.RetriesAttempted >= job.MaxRetries).
NeverGivesUpEarly ==
    \A j \in Jobs :
        status[j] = "FAILED" =>
            jobType[j] \notin HandledTypes \/ failures[j] >= maxRetries[j]

\* An accepted job that has not finished is named by an entry some worker
\* will still be handed: at no point between the row, the stream, the pending
\* list and the acknowledgement does a crash, a shutdown, a lost reply or a
\* duplicated entry drop it.  Until a write or an XADD fails, Redis loses its
\* data or a live worker's entry is claimed away, that is.
NothingLost ==
    (\A k \in {"db", "enqueue", "redisLoss", "late"} : Unspent(k)) =>
        \A j \in Jobs :
            req[j] = "accepted" /\ status[j] \notin Finished =>
                \E e \in LiveEntries : stream[e] = j

\* As long as no entry is duplicated and none is claimed from a live worker,
\* no two workers are inside processMessage for the same job.
OneWorkerPerJob ==
    Unspent("dup") /\ Unspent("late") =>
        \A v, w \in Workers :
            v # w /\ msg[v] # 0 /\ msg[w] # 0 => JobOf(v) # JobOf(w)

\* A job is not executed for ever: the failed executions exceed max_retries
\* (or the one execution every job gets) by at most one for each event that
\* can lose the count or the verdict: a crash, a shutdown, a failed write.
Allowed(j) == IF maxRetries[j] > 1 THEN maxRetries[j] ELSE 1
RetryLimit ==
    Unspent("dup") /\ Unspent("late") =>
        \A j \in Jobs :
            failures[j] <= Allowed(j) + Spent("crash") + Spent("sigterm") + Spent("db")

\* A job that waits for another attempt has one left by the database's own
\* count, although the decision was made on the worker's copy of it.
RetryingHasRetriesLeft ==
    Unspent("dup") /\ Unspent("late") /\ Unspent("db") =>
        \A j \in Jobs : status[j] = "RETRYING" => retries[j] < maxRetries[j]

\* Every entry, and every entry about to be added, names an inserted row, so
\* that no worker fetches a job that is not there: processMessage would leave
\* such an entry pending and be handed it again for ever (job_handlers.go:
\* Enqueue only after CreateJob has succeeded).
EntriesHaveRows ==
    /\ \A e \in 1..Len(stream) : status[stream[e]] # Absent
    /\ \A j \in Jobs : req[j] = "enqueue" => status[j] # Absent

\* retries_attempted, which the owner is shown, never runs ahead of the
\* executions that failed; and while no two workers share a job it misses those
\* a worker is about to count and at most one for each crash, shutdown and
\* failed write, although the worker that decides counts in its own copy.
Uncounted(j) == {w \in Workers : pc[w] = "increment" /\ JobOf(w) = j}
FailuresAreCounted ==
    \A j \in Jobs :
        LET counted == retries[j] + Cardinality(Uncounted(j))
        IN  /\ counted <= failures[j]
            /\ Unspent("dup") /\ Unspent("late") =>
                  failures[j] <= counted + Spent("crash") + Spent("sigterm") + Spent("db")

\* An outcome is final as long as no entry is duplicated and none is claimed
\* from a live worker, although the UPDATEs do not test the status that the
\* guard of processMessage has read (processor.go: finished jobs are skipped).
OutcomesAreFinal ==
    [][Unspent("dup")' /\ Unspent("late")' =>
         \A j \in Jobs : status[j] \in Finished => status'[j] = status[j]]_vars

\* A write or an XADD has failed, Redis has lost its data, or an entry was
\* claimed from a live worker.
Harmed == \E k \in {"db", "enqueue", "redisLoss", "late"} : ~Unspent(k)

\* Every worker process lives on without its loop: no one takes entries until
\* one of them is restarted, which nothing makes happen.
NobodyWorks == \A w \in Workers : pc[w] = "stopped" /\ ~ctxDone[w]

\* Every accepted job finishes and stays finished, whatever crashes, shutdowns,
\* Redis errors and duplicated entries come in between, in whatever order, as
\* long as one worker has its loop: those that could not create the group when
\* they started have none (processor.go: Start, handleAbandonedMessages, the
\* guard of processMessage).
AcceptedJobsFinish ==
    \A j \in Jobs :
        req[j] = "accepted" ~> [](status[j] \in Finished \/ Harmed \/ NobodyWorks)

\* A job whose announcement is still in Redis does not wait for ever, provided
\* there is a consumer group: after a data loss it is enough that one worker
\* starts anew and creates the group, which then reaches what was announced
\* meanwhile (processor.go: XGroupCreateMkStream in Start).  Excepted are a
\* failed write, an entry announced twice (the data loss may then take the one
\* entry from a worker, which writes over the outcome the other one has got) and
\* workers that are all without a loop.
Announced(j) == \E e \in DOMAIN stream : e > lost /\ stream[e] = j
AnnouncedJobsAreServed ==
    \A j \in Jobs :
        Announced(j) /\ group ~>
            \/ ~Announced(j) \/ status[j] \in Finished
            \/ ~Unspent("db") \/ ~Unspent("dup") \/ NobodyWorks

\* No entry was duplicated and none was claimed from a live worker.
Solo == Unspent("dup") /\ Unspent("late")

\* The queue implements the life cycle it promises to the owner of a job, until
\* an entry is duplicated or claimed from a live worker: it begins and goes on as
\* JobLifecycle does.
Lifecycle ==
    INSTANCE JobLifecycle
        WITH RetryLimits <- {EffectiveRetries(m) : m \in RequestedRetries}

ImplementsLifecycle ==
    /\ Lifecycle!Init
    /\ [][Solo' => [Lifecycle!Next]_(Lifecycle!vars)]_vars
-----------------------------------------------------------------------------
\* What the repository says and the program does not do.

\* job_handlers.go: when XADD failed, "our background sweeper process will
\* eventually pick it up and retry the enqueue".
SweeperRetriesEnqueue ==
    \A j \in Jobs :
        req[j] = "accepted" ~> \E e \in DOMAIN stream : stream[e] = j

\* processor.go, at the guard of processMessage: "Prevent overwriting finished
\* jobs".
FinishedJobsNotOverwritten ==
    [][\A j \in Jobs : status[j] \in Finished => status'[j] = status[j]]_vars

\* loadgen/main.go polls every accepted job until it is COMPLETED or FAILED
\* and then reports "All jobs processed!".
PollingEnds ==
    \A j \in Jobs : req[j] = "accepted" ~> status[j] \in Finished

\* worker/main.go: "Give the worker 5 seconds to finish its current handler":
\* a job whose handler succeeded leaves MarkCompleted with its outcome stored.
FinishedHandlerIsRecorded ==
    [][\A w \in Workers :
         pc[w] = "setCompleted" /\ pc'[w] = "ack" =>
             status'[JobOf(w)] = "COMPLETED"]_vars
=============================================================================
