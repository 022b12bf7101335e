----------------------------- MODULE ApiServer -----------------------------
(***************************************************************************)
(* The API server: replicas of cmd/api/main.go that start, serve requests  *)
(* and shut down, and the requests' handlers (internal/api), one database  *)
(* or broker call at a time.  Module Api knows only the two calls of a     *)
(* submission and a request that is abandoned between them; here that is   *)
(* what becomes of a replica that is killed or told to stop, and of a      *)
(* client that goes away.                                                  *)
(*                                                                         *)
(*   down -> postgres -> redis -> listen --> running -> draining ->        *)
(*                                      +--> deaf ----> closing -> down    *)
(*                                                                         *)
(* A request for a job's creation is named by the id the row will get.     *)
(***************************************************************************)
EXTENDS JobStore, Stream

CONSTANTS
    Replicas, Users,
    Reads,              \* names of the requests other than POST /api/v1/jobs
    RequestedRetries,   \* values of "max_retries" in request bodies
    MishapBudget,       \* how often each kind of mishap may happen
    MaxKinds            \* how many kinds of mishap one behaviour may have

\* "kill"      a replica dies without notice
\* "sigterm"   a replica receives SIGINT or SIGTERM
\* "postgres"  a PostgreSQL call fails
\* "redis"     PING fails when a replica starts
\* "listen"    the port cannot be bound
\* "enqueue"   XADD fails for good
\* "dup"       the client library sends an XADD again that had been applied
\* "gone"      a client closes its connection before it has the answer
\* "slow"      requests take longer than the ten seconds of Shutdown
MishapKind == {"kill", "sigterm", "postgres", "redis", "listen",
               "enqueue", "dup", "gone", "slow"}

Requests == Jobs \cup Reads

ASSUME ApiServerAssumption ==
    /\ IsFiniteSet(Jobs) /\ Jobs \cap Reads = {}
    /\ RequestedRetries \subseteq Int
    /\ MishapBudget \in [MishapKind -> Nat] /\ MaxKinds \in Nat

VARIABLES
    proc,   \* where each replica is in main
    at,     \* the call the handler of each request makes next
    on,     \* the replica that runs the handler
    call,   \* route, user and job of each request
    code,   \* the status its handler has decided on, 0 before that
    known,  \* jobs its user was told of before it was sent (history)
    shown,  \* the jobs in its answer
    left    \* mishaps that may still happen

requestVars == <<at, on, call, code, known, shown>>
vars == <<storeVars, streamVars, proc, requestVars, left>>

ProcState == {"down", "postgres", "redis", "listen", "running", "deaf",
              "draining", "closing"}
Handling == {"insert", "enqueue", "select", "lookup", "answer"}
Codes == {200, 202, 400, 401, 500}

NoReplica == "none"
NoCall == [route |-> "none", user |-> "none", job |-> "none"]
Call(route, u, j) == [route |-> route, user |-> u, job |-> j]

Init ==
    /\ StoreInit /\ StreamInit
    /\ proc = [p \in Replicas |-> "down"]
    /\ at = [r \in Requests |-> "none"]
    /\ on = [r \in Requests |-> NoReplica]
    /\ call = [r \in Requests |-> NoCall]
    /\ code = [r \in Requests |-> 0]
    /\ known = [r \in Requests |-> {}]
    /\ shown = [r \in Requests |-> {}]
    /\ left = MishapBudget

Spent(k) == MishapBudget[k] - left[k]
Mishap(k) ==
    /\ left[k] > 0
    /\ Cardinality({k} \cup {l \in MishapKind : Spent(l) > 0}) <= MaxKinds
    /\ left' = [left EXCEPT ![k] = @ - 1]
Smooth == UNCHANGED left

InFlight(p) == {r \in Requests : on[r] = p /\ at[r] \in Handling}
-----------------------------------------------------------------------------
\* main: connections, listener, shutdown.

Become(p, s) == proc' = [proc EXCEPT ![p] = s]

\* The process is gone, and with it the handlers it was running.
Die(p) ==
    /\ Become(p, "down")
    /\ on' = [r \in Requests |-> IF on[r] = p THEN NoReplica ELSE on[r]]
    /\ UNCHANGED <<storeVars, streamVars, at, call, code, known, shown>>

Start(p) ==
    /\ proc[p] = "down"
    /\ Become(p, "postgres")
    /\ Smooth /\ UNCHANGED <<storeVars, streamVars, requestVars>>

\* A PING that fails ends the process (log.Fatalf).
Connect(p, store, next) ==
    /\ proc[p] = store
    /\ \/ Smooth /\ Become(p, next)
       \/ Mishap(store) /\ Become(p, "down")
    /\ UNCHANGED <<storeVars, streamVars, requestVars>>

ConnectPostgres(p) == Connect(p, "postgres", "redis")
ConnectRedis(p) == Connect(p, "redis", "listen")

\* The listener runs in a goroutine; its failure is logged, main waits on.
Listen(p) ==
    /\ proc[p] = "listen"
    /\ \/ Smooth /\ Become(p, "running")
       \/ Mishap("listen") /\ Become(p, "deaf")
    /\ UNCHANGED <<storeVars, streamVars, requestVars>>

\* Mutant of Probe: a probe of another port, as the workers have.
ProbeElsewhere(p) ==
    /\ proc[p] = "running"
    /\ UNCHANGED vars

\* The liveness probe finds nobody behind /healthz and stops the process.
Probe(p) ==
    /\ proc[p] = "deaf"
    /\ Become(p, "draining")
    /\ Smooth /\ UNCHANGED <<storeVars, streamVars, requestVars>>

\* Mutant of Signal: main returns, its deferred calls close the pools.
SignalReturns(p) ==
    /\ proc[p] = "running"
    /\ Mishap("sigterm")
    /\ Become(p, "closing")
    /\ UNCHANGED <<storeVars, streamVars, requestVars>>

\* Before signal.Notify the signal ends the process; afterwards main calls
\* Shutdown, which closes the listener and waits for the handlers.
Signal(p) ==
    /\ Mishap("sigterm")
    /\ \/ /\ proc[p] \in {"postgres", "redis", "listen"}
          /\ Become(p, "down")
       \/ /\ proc[p] \in {"running", "deaf"}
          /\ Become(p, "draining")
    /\ UNCHANGED <<storeVars, streamVars, requestVars>>

\* Mutant of Drained: main ends when ListenAndServe returns, which it does
\* as soon as Shutdown is called.
DrainedAtOnce(p) == proc[p] = "draining" /\ Smooth /\ Die(p)

Drained(p) ==
    /\ proc[p] = "draining"
    /\ InFlight(p) = {}
    /\ Become(p, "closing")
    /\ Smooth /\ UNCHANGED <<storeVars, streamVars, requestVars>>

\* Shutdown's ten seconds pass: log.Fatalf.
ForceExit(p) ==
    /\ proc[p] = "draining"
    /\ InFlight(p) # {}
    /\ Mishap("slow") /\ Die(p)

\* The deferred calls close the Redis client, then the PostgreSQL pool.
ClosePools(p) == proc[p] = "closing" /\ Smooth /\ Die(p)

Kill(p) == proc[p] # "down" /\ Mishap("kill") /\ Die(p)
-----------------------------------------------------------------------------
\* Requests.

Alive(r) == on[r] # NoReplica

Decide(r, c) ==
    /\ at' = [at EXCEPT ![r] = "answer"]
    /\ code' = [code EXCEPT ![r] = c]

Proceed(r, l) ==
    /\ at' = [at EXCEPT ![r] = l]
    /\ UNCHANGED code

\* The jobs of a user whose creation has been answered 202.
ToldOf(u) == {j \in Jobs : at[j] = "done" /\ code[j] = 202 /\ call[j].user = u}

\* A request reaches a replica that is ready; AuthMiddleware and the decoder
\* pass it on or refuse it.  Login has no token to check.
Arrive(r, p) ==
    /\ at[r] = "none"
    /\ proc[p] = "running"
    /\ on' = [on EXCEPT ![r] = p]
    /\ Smooth /\ UNCHANGED <<storeVars, streamVars, proc, shown>>
    /\ \/ /\ r \in Jobs
          /\ \E u \in Users : call' = [call EXCEPT ![r] = Call("create", u, r)]
          /\ Proceed(r, "insert")
          /\ UNCHANGED known
       \/ /\ r \in Reads
          /\ \E u \in Users :
                /\ \/ call' = [call EXCEPT ![r] = Call("list", u, "none")]
                   \/ \E j \in Jobs : call' = [call EXCEPT ![r] = Call("get", u, j)]
                /\ known' = [known EXCEPT ![r] = ToldOf(u)]
          /\ Proceed(r, "select")
       \/ /\ r \in Reads
          /\ Proceed(r, "lookup")
          /\ UNCHANGED <<call, known>>
       \/ /\ Decide(r, 401) \/ Decide(r, 400)
          /\ UNCHANGED <<call, known>>

\* Mutant of Insert: the return after the error is missing.
InsertGoesOn(r) ==
    /\ at[r] = "insert" /\ Alive(r)
    /\ \E t \in Types, m \in RequestedRetries :
          \/ CreateJob(r, t, m) /\ Smooth
          \/ UNCHANGED storeVars /\ Mishap("postgres")
    /\ Proceed(r, "enqueue")
    /\ UNCHANGED <<streamVars, proc, on, call, known, shown>>

\* A missing or zero max_retries becomes 3.
EffectiveRetries(m) == IF m = 0 THEN 3 ELSE m

\* The INSERT.  The table's constraints may refuse the row; when the connection
\* fails the row may be there all the same.
Insert(r) ==
    /\ at[r] = "insert" /\ Alive(r)
    /\ \/ /\ \E t \in Types, m \in RequestedRetries : CreateJob(r, t, EffectiveRetries(m))
          /\ Smooth /\ Proceed(r, "enqueue")
       \/ UNCHANGED storeVars /\ Smooth /\ Decide(r, 500)
       \/ /\ \/ \E t \in Types, m \in RequestedRetries : CreateJob(r, t, EffectiveRetries(m))
             \/ UNCHANGED storeVars
          /\ Mishap("postgres") /\ Decide(r, 500)
    /\ UNCHANGED <<streamVars, proc, on, call, known, shown>>

\* Mutant of Enqueue: a failed XADD is answered 500.
EnqueueRefuses(r) ==
    /\ at[r] = "enqueue" /\ Alive(r)
    /\ \/ XAdd(r) /\ Smooth /\ Decide(r, 202)
       \/ UNCHANGED streamVars /\ Mishap("enqueue") /\ Decide(r, 500)
    /\ UNCHANGED <<storeVars, proc, on, call, known, shown>>

\* XADD; its failure is logged and the answer is 202 all the same.
Enqueue(r) ==
    /\ at[r] = "enqueue" /\ Alive(r)
    /\ \/ XAdd(r) /\ Smooth /\ Decide(r, 202)
       \/ XAdd(r) /\ Mishap("dup") /\ UNCHANGED <<at, code>>
       \/ UNCHANGED streamVars /\ Mishap("enqueue") /\ Decide(r, 202)
    /\ UNCHANGED <<storeVars, proc, on, call, known, shown>>

Rows == {j \in Jobs : status[j] # Absent}
GetJobsByUser(u) == {j \in Rows : call[j].user = u}
GetJobByID(j) == {j} \cap Rows

\* handleListJobs and handleGetJob.
Select(r) ==
    /\ at[r] = "select" /\ Alive(r)
    /\ \/ /\ call[r].route = "list"
          /\ shown' = [shown EXCEPT ![r] = GetJobsByUser(call[r].user)]
          /\ Smooth /\ Decide(r, 200)
       \/ /\ call[r].route = "get"
          /\ shown' = [shown EXCEPT ![r] = GetJobByID(call[r].job)]
          /\ Smooth /\ Decide(r, IF GetJobByID(call[r].job) = {} THEN 500 ELSE 200)
       \/ Mishap("postgres") /\ Decide(r, 500) /\ UNCHANGED shown
    /\ UNCHANGED <<storeVars, streamVars, proc, on, call, known>>

\* Mutant of Lookup: the failed query is not answered.
LookupUnanswered(r) ==
    /\ at[r] = "lookup" /\ Alive(r)
    /\ \/ Smooth /\ Decide(r, 200)
       \/ Mishap("postgres") /\ Proceed(r, "answer")
    /\ UNCHANGED <<storeVars, streamVars, proc, on, call, known, shown>>

\* handleLogin: an unknown user, a wrong password and a failed query all
\* answer 401, a token that cannot be signed 500.
Lookup(r) ==
    /\ at[r] = "lookup" /\ Alive(r)
    /\ \/ Smooth /\ Decide(r, 200)
       \/ Smooth /\ Decide(r, 401)
       \/ Smooth /\ Decide(r, 500)
       \/ Mishap("postgres") /\ Decide(r, 401)
    /\ UNCHANGED <<storeVars, streamVars, proc, on, call, known, shown>>

Respond(r) ==
    /\ at[r] = "answer" /\ Alive(r)
    /\ Proceed(r, "done")
    /\ Smooth /\ UNCHANGED <<storeVars, streamVars, proc, on, call, known, shown>>

\* The request's context ends with its connection, and every call that takes
\* the context fails.
GiveUp(r) ==
    /\ at[r] \in Handling /\ Alive(r)
    /\ Mishap("gone")
    /\ Proceed(r, "cut")
    /\ UNCHANGED <<storeVars, streamVars, proc, on, call, known, shown>>

\* The client of a handler that died with its replica sees the connection close.
Reset(r) ==
    /\ at[r] \in Handling /\ ~Alive(r)
    /\ Proceed(r, "cut")
    /\ Smooth /\ UNCHANGED <<storeVars, streamVars, proc, on, call, known, shown>>

\* A handler's next call.
Handle(r) == (r \in Jobs /\ (Insert(r) \/ Enqueue(r))) \/ Select(r) \/ Lookup(r) \/ Respond(r)

Boot(p) == Start(p) \/ ConnectPostgres(p) \/ ConnectRedis(p) \/ Listen(p)
Stop(p) == Drained(p) \/ ClosePools(p)

Next ==
    \/ \E p \in Replicas : Boot(p) \/ Stop(p) \/ Probe(p) \/ Signal(p) \/ ForceExit(p) \/ Kill(p)
    \/ \E r \in Requests : Handle(r) \/ GiveUp(r) \/ Reset(r) \/ \E p \in Replicas : Arrive(r, p)

Spec == Init /\ [][Next]_vars

\* The platform starts what is down and probes what runs, main and handlers go
\* on while they live.  No client has to send anything, no mishap has to happen.
Fairness ==
    /\ \A p \in Replicas : WF_vars(Boot(p)) /\ WF_vars(Stop(p)) /\ WF_vars(Probe(p))
    /\ \A r \in Requests : WF_vars(Handle(r)) /\ WF_vars(Reset(r))

FairSpec == Spec /\ Fairness
-----------------------------------------------------------------------------
\* The type invariant: a request that is being answered has been decided on,
\* and every row belongs to a request AuthMiddleware let through.
TypeOK ==
    /\ StoreTypeOK /\ StreamTypeOK(Jobs)
    /\ proc \in [Replicas -> ProcState]
    /\ at \in [Requests -> Handling \cup {"none", "done", "cut"}]
    /\ on \in [Requests -> Replicas \cup {NoReplica}]
    /\ call \in [Requests -> [route : {"none", "create", "list", "get"},
                              user : Users \cup {"none"}, job : Jobs \cup {"none"}]]
    /\ code \in [Requests -> Codes \cup {0}]
    /\ known \in [Requests -> SUBSET Jobs] /\ shown \in [Requests -> SUBSET Jobs]
    /\ left \in [MishapKind -> Nat]
    /\ \A r \in Requests : at[r] \in {"answer", "done"} => code[r] # 0
    /\ \A j \in Rows : call[j].route = "create"

\* No handler runs in a process whose connections are closed or closing: the
\* deferred Close calls of main run only after Shutdown has seen the last
\* handler return (main.go: defer pgPool.Close, defer redisClient.Close).
NoUseAfterClose ==
    \A r \in Requests :
        at[r] \in Handling /\ Alive(r) => proc[on[r]] \in {"running", "draining"}

\* A graceful stop strands no job.  As long as no replica is killed or forced
\* out, a row that nobody announced, or is about to, has its own mishap: an
\* INSERT reported as failed, a failed XADD, a client that went away.
Stranded ==
    {j \in Rows : /\ \A e \in DOMAIN stream : stream[e] # j
                  /\ ~(at[j] = "enqueue" /\ Alive(j))}
GracefulStopStrandsNoJob ==
    Spent("kill") + Spent("slow") = 0 =>
        Cardinality(Stranded) <= Spent("postgres") + Spent("enqueue") + Spent("gone")

\* What a client was told stays true of its later reads: a list shows every job whose creation was answered 202 before
\* the list was asked for, and only the user's own; such a job is found by id.
ReadsShowWhatWasAccepted ==
    \A r \in Reads :
        /\ call[r].route = "list" /\ code[r] = 200 =>
              known[r] \subseteq shown[r] /\ shown[r] \subseteq GetJobsByUser(call[r].user)
        /\ call[r].route = "get" /\ code[r] # 0 /\ call[r].job \in known[r] =>
              code[r] = 200 \/ Spent("postgres") > 0

\* After every start that fails, every rollout and every kill, each replica
\* comes to serve again.
ReplicasServeAgain == \A p \in Replicas : []<>(proc[p] = "running")

\* The server does what module Api says of it.  A request Api calls accepted
\* is one whose XADD was tried, although a replica that dies then does not
\* answer; one cut off before that is an aborted one.
Accepted(j) == code[j] = 202
Aborted(j) == at[j] = "cut" /\ code[j] = 0 /\ j \in Rows

RequestState(j) ==
    CASE Accepted(j) -> "accepted"
      [] at[j] = "enqueue" -> "enqueue"
      [] at[j] \in {"none", "insert"} -> "none"
      [] OTHER -> "error"

Kinds == {"crash", "sigterm", "db", "insert", "redis", "redisLoss", "enqueue",
          "dup", "abort", "late"}

\* Api may meet a failed INSERT and an abandoned request for each job, and the
\* mishaps of XADD that this module has; the other faults are not its own.
Allowance(kind, unfailed, unaborted) ==
    CASE kind = "insert" -> Cardinality(unfailed)
      [] kind = "abort" -> Cardinality(unaborted)
      [] kind \in {"enqueue", "dup"} -> MishapBudget[kind]
      [] OTHER -> 0

req == [j \in Jobs |-> RequestState(j)]
budget == [k \in Kinds |-> Allowance(k, Jobs, Jobs)]
faultsLeft ==
    [k \in Kinds |->
        Allowance(k, {j \in Jobs : code[j] # 500}, {j \in Jobs : ~Aborted(j)})
            - (IF k \in {"enqueue", "dup"} THEN Spent(k) ELSE 0)]

Submission == INSTANCE Api WITH FaultBudget <- budget

ImplementsSubmission ==
    /\ StoreInit /\ StreamInit /\ Submission!FaultsInit /\ Submission!ApiInit
    /\ [][Submission!ApiNext]_<<storeVars, streamVars, req, faultsLeft>>
=============================================================================
