-------------------------------- MODULE Api --------------------------------
(***************************************************************************)
(* POST /api/v1/jobs: Server.handleCreateJob (internal/api/job_handlers.go)*)
(* and redisProducer.Enqueue (internal/queue/producer.go).  Requests share *)
(* nothing but the two stores, so a request is named by the id its row     *)
(* will get and any number of API replicas is covered; the death of a      *)
(* replica is the abort of each of its requests.                           *)
(***************************************************************************)
EXTENDS JobStore, Stream, Faults

CONSTANT RequestedRetries   \* values of "max_retries" in request bodies

ASSUME RetriesAssumption == RequestedRetries \subseteq Int

VARIABLE req

\* "none"     no such request yet
\* "enqueue"  the row is inserted, XADD is next
\* "accepted" answered 202
\* "error"    answered 4xx or 5xx, or never answered
ReqState == {"none", "enqueue", "accepted", "error"}

RequestsTypeOK == req \in [Jobs -> ReqState]

ApiInit == req = [j \in Jobs |-> "none"]

DefaultRetries == 3

\* A missing or zero max_retries becomes 3; any other value is kept.
EffectiveRetries(m) == IF m = 0 THEN DefaultRetries ELSE m

Answer(j, r) == req' = [req EXCEPT ![j] = r]

\* Mutant of HandleCreateJob: the return after the failed INSERT is missing.
HandleCreateJobGoesOn(j) ==
    /\ req[j] = "none"
    /\ UNCHANGED streamVars
    /\ \/ \E t \in Types, m \in RequestedRetries : CreateJob(j, t, m) /\ NoFault
       \/ UNCHANGED storeVars /\ Fault("insert")
    /\ Answer(j, "enqueue")

HandleCreateJob(j) ==
    /\ req[j] = "none"
    /\ UNCHANGED streamVars
    /\ \/ /\ \E t \in Types, m \in RequestedRetries :
                CreateJob(j, t, EffectiveRetries(m))
          /\ NoFault
          /\ Answer(j, "enqueue")
       \* Malformed body, no user, or a row the table's constraints refuse.
       \/ /\ UNCHANGED storeVars
          /\ NoFault
          /\ Answer(j, "error")
       \* INSERT reports an error; the row may be there all the same.
       \/ /\ Fault("insert")
          /\ \/ \E t \in Types, m \in RequestedRetries :
                   CreateJob(j, t, EffectiveRetries(m))
             \/ UNCHANGED storeVars
          /\ Answer(j, "error")

\* The result of XADD only decides what is logged: the answer is 202.
Enqueue(j) ==
    /\ req[j] = "enqueue"
    /\ UNCHANGED storeVars
    /\ \/ XAdd(j) /\ NoFault /\ Answer(j, "accepted")
       \/ XAdd(j) /\ Fault("dup") /\ UNCHANGED req
       \/ UNCHANGED streamVars /\ Fault("enqueue") /\ Answer(j, "accepted")

AbortRequest(j) ==
    /\ req[j] = "enqueue"
    /\ Fault("abort")
    /\ Answer(j, "error")
    /\ UNCHANGED <<storeVars, streamVars>>

ApiNext ==
    \E j \in Jobs : HandleCreateJob(j) \/ Enqueue(j) \/ AbortRequest(j)
=============================================================================
