------------------------------- MODULE System -------------------------------
(***************************************************************************)
(* The whole back end: replicas of the API server and workers, over one    *)
(* PostgreSQL and one Redis.  Module MDQ sees of the server only the two   *)
(* calls of a submission; here the processes, handlers, readers and        *)
(* clients of ApiServer are next to the workers of Processor, and the      *)
(* stores are the only state they share.                                   *)
(*                                                                         *)
(* The system is shown to implement MDQ, so what is said there of jobs,    *)
(* entries and verdicts holds with real replicas in front of the stream:   *)
(* ones that start, drain, are killed in the middle of a handler, or have  *)
(* their clients leave.                                                    *)
(***************************************************************************)
EXTENDS ApiServer

CONSTANTS
    Workers,
    WorkBudget      \* how often each kind of fault may strike behind the server

ASSUME SystemAssumption == IsFiniteSet(Workers) /\ WorkBudget \in [Kinds -> Nat]

VARIABLES
    pc, msg, claimed, attempts, ctxDone, failures,  \* see Processor
    workFaults                                      \* faults that may still strike

Crew == INSTANCE Processor WITH FaultBudget <- WorkBudget, faultsLeft <- workFaults

serverVars == <<proc, requestVars, left>>
workerVars == <<pc, msg, claimed, attempts, ctxDone, failures>>
crewVars == <<workerVars, workFaults>>
systemVars == <<vars, crewVars>>

SystemInit == Init /\ Crew!WorkersInit /\ Crew!FaultsInit

\* The server's processes and the workers' have no variable of each other's.
Serve == Next /\ UNCHANGED crewVars

Work == Crew!WorkerNext /\ UNCHANGED serverVars

\* minIdleTime passes for a pending entry; a fault if a worker is at work on it.
Age(e) ==
    /\ GrowIdle(e)
    /\ IF Crew!Holders(e) = {} THEN Crew!NoFault ELSE Crew!Fault("late")
    /\ UNCHANGED <<storeVars, serverVars, workerVars>>

RedisRestart ==
    /\ Crew!Fault("redisLoss")
    /\ LoseData
    /\ UNCHANGED <<storeVars, serverVars, workerVars>>

SystemNext == Serve \/ Work \/ (\E e \in pel : Age(e)) \/ RedisRestart

SystemSpec == SystemInit /\ [][SystemNext]_systemVars
-----------------------------------------------------------------------------
\* The system implements the queue.  MDQ counts one stock of faults; here the
\* server's mishaps, as Api counts them, and the workers' faults are apart.
Queue ==
    INSTANCE MDQ
        WITH FaultBudget <- [k \in Kinds |-> budget[k] + WorkBudget[k]],
             faultsLeft <- [k \in Kinds |-> faultsLeft[k] + workFaults[k]]

ImplementsQueue == Queue!Spec

\* A client that read a 202, from whichever replica, has a job that is finished
\* or that the workers will still be handed, unless an INSERT, an UPDATE or an
\* XADD failed, Redis lost its data or a live worker's entry was claimed: no
\* drain, kill or departure of a client comes between the answer and the entry
\* (job_handlers.go: the answer is written after Enqueue has returned).
AnsweredJobsAreQueued ==
    left["enqueue"] = MishapBudget["enqueue"]
        /\ (\A k \in {"db", "redisLoss", "late"} : workFaults[k] = WorkBudget[k]) =>
        \A j \in Jobs :
            at[j] = "done" /\ code[j] = 202 /\ status[j] \notin Crew!Finished =>
                \E e \in LiveEntries : stream[e] = j
=============================================================================
