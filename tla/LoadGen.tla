------------------------------ MODULE LoadGen ------------------------------
(***************************************************************************)
(* The load generator (backend/cmd/loadgen/main.go): a swarm of goroutines *)
(* takes work from a channel that main has filled and closed, creates jobs *)
(* over HTTP and hands the ids to main over a second channel; main waits   *)
(* for the swarm and then polls every id until its job is finished.        *)
(*                                                                         *)
(* The server is any server: a request that timed out may have created its *)
(* job, or create it later, and a job need not finish.  The one thing that *)
(* is taken from MDQ is that a finished job stays finished.                *)
(***************************************************************************)
EXTENDS Integers, Sequences, FiniteSets

CONSTANTS
    Users,          \* goroutines of the swarm (concurrentUsers)
    Jobs,           \* one id for each creation request
    CheckErrors     \* bound: status checks that may fail

TotalJobs == Cardinality(Jobs)

ASSUME SwarmAssumption ==
    /\ IsFiniteSet(Users) /\ Users # {} /\ IsFiniteSet(Jobs)
    /\ CheckErrors \in Nat

VARIABLES
    main,           \* where main is
    user, request,  \* where each goroutine is, and the job it asked for
    work,           \* items left in workChan
    wg,             \* the WaitGroup's counter
    jobIDs, closed, \* the channel of created ids
    success, failed,        \* the two atomic counters
    pending, remaining,     \* the lists of the polling loop
    errorsLeft,     \* status checks that may still fail
    requested, created, finished,   \* the server's view of the jobs
    acked           \* ids a client has read from a 202 (history)

mainVars == <<pending, remaining, errorsLeft>>
swarmVars == <<user, request, work, wg, jobIDs, success, failed, requested, acked>>
serverVars == <<created, finished>>
vars == <<main, mainVars, swarmVars, closed, serverVars>>

NoJob == "NONE"

Init ==
    /\ main = "login"
    /\ user = [u \in Users |-> "unborn"] /\ request = [u \in Users |-> NoJob]
    /\ work = TotalJobs
    /\ wg = 0
    /\ jobIDs = <<>> /\ closed = FALSE
    /\ success = 0 /\ failed = 0
    /\ pending = <<>> /\ remaining = <<>>
    /\ errorsLeft = CheckErrors
    /\ requested = {} /\ created = {} /\ finished = {} /\ acked = {}

At(u, l) == user' = [user EXCEPT ![u] = l]
-----------------------------------------------------------------------------
\* The server.

CreateOnServer(j) ==
    /\ j \in requested \ created
    /\ created' = created \cup {j}
    /\ UNCHANGED <<main, mainVars, swarmVars, closed, finished>>

Finish(j) ==
    /\ j \in created \ finished
    /\ finished' = finished \cup {j}
    /\ UNCHANGED <<main, mainVars, swarmVars, closed, created>>
-----------------------------------------------------------------------------
\* main, as far as the end of the swarm.

\* Without a token main exits; without an answer it waits for ever, since
\* http.Post has no timeout.
Login ==
    /\ main = "login"
    /\ main' \in {"spawn", "exited"}
    /\ UNCHANGED <<mainVars, swarmVars, closed, serverVars>>

\* wg.Add(1) comes before the go statement.
Spawn(u) ==
    /\ main = "spawn" /\ user[u] = "unborn"
    /\ wg' = wg + 1
    /\ At(u, "range")
    /\ main' = IF \E v \in Users \ {u} : user[v] = "unborn" THEN "spawn" ELSE "wait"
    /\ UNCHANGED <<mainVars, request, work, jobIDs, success, failed, requested,
                   acked, closed, serverVars>>

\* Mutant of WaitAndClose: no wg.Wait().
CloseAtOnce ==
    /\ main = "wait"
    /\ closed' = TRUE
    /\ main' = "collect"
    /\ UNCHANGED <<mainVars, swarmVars, serverVars>>

WaitAndClose ==
    /\ main = "wait" /\ wg = 0
    /\ closed' = TRUE
    /\ main' = "collect"
    /\ UNCHANGED <<mainVars, swarmVars, serverVars>>
-----------------------------------------------------------------------------
\* A goroutine of the swarm.

\* Every request makes the server choose a new id, if it gets that far.
Take(u) ==
    /\ user[u] = "range" /\ work > 0
    /\ work' = work - 1
    /\ At(u, "post")
    /\ \E j \in Jobs \ requested :
          /\ request' = [request EXCEPT ![u] = j]
          /\ requested' = requested \cup {j}
    /\ UNCHANGED <<main, mainVars, wg, jobIDs, closed, success, failed, acked, serverVars>>

Answered(u) ==
    /\ user[u] = "post" /\ request[u] \in created
    /\ success' = success + 1
    /\ acked' = acked \cup {request[u]}
    /\ At(u, "send")
    /\ UNCHANGED <<main, mainVars, request, work, wg, jobIDs, closed, failed,
                   requested, serverVars>>

\* Mutants of Refused: the failure is not counted, or counted as a creation.
RefusedUncounted(u) ==
    /\ user[u] = "post"
    /\ At(u, "range")
    /\ request' = [request EXCEPT ![u] = NoJob]
    /\ UNCHANGED <<main, mainVars, work, wg, jobIDs, closed, success, failed,
                   requested, acked, serverVars>>

RefusedMiscounted(u) ==
    /\ user[u] = "post"
    /\ failed' = failed - 1
    /\ At(u, "range")
    /\ request' = [request EXCEPT ![u] = NoJob]
    /\ UNCHANGED <<main, mainVars, work, wg, jobIDs, closed, success, requested,
                   acked, serverVars>>

\* An error status, a broken connection, or the client's ten seconds are over;
\* the request may be served all the same.
Refused(u) ==
    /\ user[u] = "post"
    /\ failed' = failed + 1
    /\ At(u, "range")
    /\ request' = [request EXCEPT ![u] = NoJob]
    /\ UNCHANGED <<main, mainVars, work, wg, jobIDs, closed, success, requested,
                   acked, serverVars>>

\* Mutant of Capacity: make(chan string, concurrentUsers).
SmallCapacity == Cardinality(Users)

\* jobIDs is buffered; nobody receives before the swarm is over.
Capacity == TotalJobs

SendId(u) ==
    /\ user[u] = "send" /\ Len(jobIDs) < Capacity
    /\ jobIDs' = Append(jobIDs, request[u])
    /\ At(u, "range")
    /\ request' = [request EXCEPT ![u] = NoJob]
    /\ UNCHANGED <<main, mainVars, work, wg, closed, success, failed, requested,
                   acked, serverVars>>

\* workChan is closed and drained: the deferred wg.Done().
Leave(u) ==
    /\ user[u] = "range" /\ work = 0
    /\ wg' = wg - 1
    /\ At(u, "gone")
    /\ UNCHANGED <<main, mainVars, request, work, jobIDs, closed, success, failed,
                   requested, acked, serverVars>>

UserStep(u) == Take(u) \/ Answered(u) \/ Refused(u) \/ SendId(u) \/ Leave(u)
-----------------------------------------------------------------------------
\* main again: collecting and polling.

CollectIds ==
    /\ main = "collect"
    /\ pending' = jobIDs /\ jobIDs' = <<>>
    /\ main' = "poll"
    /\ UNCHANGED <<user, request, work, wg, success, failed, requested, acked,
                   remaining, errorsLeft, closed, serverVars>>

\* Mutant of CheckStatus: an id whose check failed is dropped.
CheckStatusOnce ==
    /\ main = "poll" /\ pending # <<>>
    /\ pending' = Tail(pending)
    /\ \/ /\ errorsLeft > 0
          /\ errorsLeft' = errorsLeft - 1
          /\ UNCHANGED remaining
       \/ /\ UNCHANGED errorsLeft
          /\ remaining' = IF Head(pending) \in finished
                          THEN remaining ELSE Append(remaining, Head(pending))
    /\ UNCHANGED <<main, swarmVars, closed, serverVars>>

\* One status check; an error and an unfinished job are both tried again.
CheckStatus ==
    /\ main = "poll" /\ pending # <<>>
    /\ pending' = Tail(pending)
    /\ \/ /\ errorsLeft > 0
          /\ errorsLeft' = errorsLeft - 1
          /\ remaining' = Append(remaining, Head(pending))
       \/ /\ UNCHANGED errorsLeft
          /\ remaining' = IF Head(pending) \in finished
                          THEN remaining ELSE Append(remaining, Head(pending))
    /\ UNCHANGED <<main, swarmVars, closed, serverVars>>

\* The list is through: the remaining ids are the next one, after two seconds.
EndOfPass ==
    /\ main = "poll" /\ pending = <<>>
    /\ pending' = remaining /\ remaining' = <<>>
    /\ main' = IF remaining = <<>> THEN "done" ELSE "poll"
    /\ UNCHANGED <<errorsLeft, swarmVars, closed, serverVars>>

MainStep ==
    \/ (\E u \in Users : Spawn(u)) \/ WaitAndClose
    \/ CollectIds \/ CheckStatus \/ EndOfPass

Next ==
    \/ Login
    \/ MainStep
    \/ \E u \in Users : UserStep(u)
    \/ \E j \in Jobs : CreateOnServer(j) \/ Finish(j)

Spec == Init /\ [][Next]_vars

\* main and the goroutines run: a creation ends by its answer or after ten
\* seconds, a status check after five.  A login need not be answered, no request
\* has to be served and no job has to finish.
FairSpec ==
    /\ Spec
    /\ WF_vars(MainStep)
    /\ \A u \in Users : WF_vars(UserStep(u))
-----------------------------------------------------------------------------
\* The type invariant of the load generator's main, goroutines and channels.
TypeOK ==
    /\ main \in {"login", "exited", "spawn", "wait", "collect", "poll", "done"}
    /\ user \in [Users -> {"unborn", "range", "post", "send", "gone"}]
    /\ request \in [Users -> Jobs \cup {NoJob}]
    /\ work \in 0..TotalJobs /\ wg \in 0..Cardinality(Users)
    /\ jobIDs \in Seq(Jobs) /\ pending \in Seq(Jobs) /\ remaining \in Seq(Jobs)
    /\ closed \in BOOLEAN
    /\ success \in 0..TotalJobs /\ failed \in 0..TotalJobs
    /\ errorsLeft \in 0..CheckErrors
    /\ requested \subseteq Jobs
    /\ created \subseteq requested /\ finished \subseteq created /\ acked \subseteq created

\* When main closes jobIDs no goroutine is left that could send on it (in Go
\* that would be a panic): the WaitGroup's counter covers every goroutine from
\* before its first step until after its last send.
NoSendOnClosedChannel == closed => \A u \in Users : user[u] = "gone"

\* No goroutine finds jobIDs full.  Nobody receives before the swarm is over, so
\* one that did would wait for main while main waits for it in wg.Wait()
\* (loadgen/main.go: the buffer of jobIDs).
SendNeverBlocks == \A u \in Users : user[u] = "send" => Len(jobIDs) < Capacity

\* "All jobs processed!" is true of every job whose creation was answered: no
\* id is lost between the goroutines, the channel and the lists of the polling
\* loop, whatever checks fail.
AllJobsProcessed == main = "done" => acked \subseteq finished

\* Once the swarm is over the two counters add up to the work there was, and
\* jobs created behind a request that seemed to fail are at most the failures.
Tally ==
    main \in {"collect", "poll", "done"} =>
        /\ success = Cardinality(acked) /\ success + failed = TotalJobs
        /\ Cardinality(created \ acked) <= failed

\* Once it has its token the generator ends, or polls for ever for a job that
\* was accepted and never finishes: the swarm does not wait for a receiver that
\* waits for the swarm, whatever requests time out, and the polling loop runs
\* out of unfinished jobs if they finish (loadgen/main.go: wg.Wait and the
\* polling loop).
GeneratorEnds ==
    main = "spawn" ~> \/ main = "done"
                      \/ [](main = "poll" /\ ~(acked \subseteq finished))
=============================================================================
