# mdq in TLA+

A verification project for mdq, a distributed job queue: a Go API that inserts
jobs into PostgreSQL and announces them on a Redis stream, Go workers that take
them off it in a consumer group, a migration job, a load generator and a React
frontend. The modules model the path of a job from the form in the browser to
its outcome, with the faults that path meets. TLC checks them on small
instances; TLAPS proves every invariant, action property and refinement for all
instances.

Paths below are relative to `src/`; Go paths to `src/backend/`, TypeScript paths
to `src/frontend/src/`.

## Inventory

| Component | State | Operations | Properties that make it correct | Modelled in |
|---|---|---|---|---|
| Job store (`internal/repository/job.go`, migration 000001) | one row per job: status, retries_attempted, max_retries, type | CreateJob, UpdateJobState, IncrementJobRetry, GetJobByID, GetJobsByUser; single statements, no transaction spans two | an outcome is earned, and stored once | `JobStore` |
| Redis stream `mdq:jobs`, group `mdq-workers` (external) | entries, last-delivered id, pending list with idle times | XADD, XGROUP CREATE, XREADGROUP, XAUTOCLAIM, XACK | an unfinished job always has an entry that will be handed out | `Stream` |
| Submission (`internal/api/job_handlers.go`, `internal/queue/producer.go`) | per request: inserted, announced, answered | handleCreateJob, Enqueue | a job answered 202 is executed | `Api`, `ApiServer` |
| Worker (`cmd/worker/main.go`, `internal/worker`) | program counter, entry held, local copy of the job, context | boot, event loop, claim, dequeue, processMessage, shutdown | one worker per job, bounded retries, verdicts earned, nothing lost in a crash | `Processor`, `MDQ` |
| Job queries (`handleListJobs`, `handleGetJob`) | none | two SELECTs | what was accepted is shown, to its owner | `ApiServer`, `Dashboard`, `LoadGen` |
| Login and JWT (`auth_handlers.go`, `jwt_middleware.go`) | none (the token carries it) | login, AuthMiddleware | a session that ended ends everywhere | `ApiServer` (outcomes), `Session` (tokens) |
| API process (`cmd/api/main.go`, `internal/api/server.go`) | where main is, connections, handlers running | start, listen, shutdown, forced exit | pools outlive handlers, a rollout strands nothing, replicas come back | `ApiServer` |
| Connections and migrations (`internal/db`) | pools; `schema_migrations` | pings, RunMigrations | success means migrated, no file twice or left out | `ApiServer`, `Startup` |
| Load generator (`cmd/loadgen/main.go`) | two channels, a WaitGroup, a list of pending ids | swarm of goroutines, polling loop | each job created once, no id lost, polling ends | `LoadGen` |
| Web dashboard (`Dashboard.tsx`) | list of jobs, interval, form | mount, poll every 5 s, submit, unmount | comes to show the latest list, shows none of an earlier life | `Dashboard` |
| Web session (`AuthContext.tsx`, `api.ts`, `Login.tsx`, `App.tsx`) | token in localStorage and in each tab's React state | login, logout, 401 interceptor, protected route | the two copies agree, an ended session leaves | `Session` |
| Metrics and tracing (`internal/metrics`, `internal/telemetry`) | counters, spans | increments | - (never read) | not modelled |
| Deployment (`infra/`, `docker-compose.yml`) | declarative | replicas, probes, restarts, volumes | - | as environment, partly |

**Interactions.** API and workers share PostgreSQL and Redis and nothing else;
there is no call between them. The API writes a row, then an entry (two writes,
no transaction). A worker reads an entry, reads the row, writes RUNNING, runs
the handler, writes the outcome, acknowledges the entry: every one of these is
a separate network call, and other workers run between any two of them. A retry
is not scheduled by anybody: the entry is left un-acknowledged and another pass
of XAUTOCLAIM finds it after `minIdleTime` (one minute). Browser and load
generator know the API only, through requests that overlap, time out and are
answered in any order, by whichever replica. Tabs share localStorage. The
migration job shares the database with everybody and is waited for by nobody.

**Hard behaviours.** Two workers on one job; a decision on a stale copy of the
retry counter; a crash between any two calls; a failed UPDATE followed by an
acknowledgement; a shutdown that cancels the context under a running handler;
lost replies of XREADGROUP and XAUTOCLAIM; an XADD sent twice; a row without an
entry; Redis restarting empty; a rollout under load; an answer that outlives the
page that asked for it; a 401 for a token that has been replaced; a migration
killed half way. `PROJECT.json` lists each one at its line.

## Modules

| Module | Models | Correspondence |
|---|---|---|
| `Faults` | the environment's budget of faults | one counter per kind; an action that needs a fault spends one |
| `JobStore` | table `jobs` and JobRepository | one function per column; each operator is one SQL statement |
| `Stream` | the Redis commands, as the code uses them (external) | entries are positions; `pel` the pending list, `idle` those past `minIdleTime` |
| `Api` | what the queue needs to know of a submission | `HandleCreateJob` is everything up to the INSERT, `Enqueue` the XADD and the answer |
| `Processor` | a worker process | `pc` names the network call a worker makes next, one action per call |
| `MDQ` | both sides over the two stores; time and Redis restarts | `Next == Submission \/ Work \/ Age \/ RedisRestart` |
| `System` | the whole back end: replicas and workers over the two stores | `SystemNext == Serve \/ Work \/ Age \/ RedisRestart`; `Serve` is any step of `ApiServer`, `Work` any of a worker |
| `JobLifecycle` | abstract specification: what the owner of a job is promised | no queue, no workers |
| `ApiServer` | API replicas and the requests they serve | `proc` is where main is, `at` the call a handler makes next, `on` the replica it runs in |
| `LoadGen` | the load generator: main and its goroutines | `user[u]` is where a goroutine is in its loop, `main` where main is; channels are a counter and a sequence |
| `Dashboard` | the dashboard component and the server it asks | `get`, `post` are the requests in flight, `mount` numbers the component's instances; a callback is a step |
| `Session` | tabs, localStorage, interceptors, login form, the server's tokens | `stored` is localStorage, `react[t]` a tab's copy, `call` the requests in flight |
| `Startup` | the database server and the migration job | `job` is where RunMigrations is, `version` and `dirty` are `schema_migrations` |
| `MC...` | constants and symmetry for TLC | - |
| `...Proofs` | theorems, see below | - |

How they compose:

* `MDQ` EXTENDS `Api` and `Processor`, which both EXTEND the two stores and
  `Faults`. It instantiates `JobLifecycle` and implements it.
* `ApiServer` EXTENDS the two stores and instantiates `Api` with a refinement
  mapping: replicas, connections and handlers, call by call, implement the
  submission on which the queue is built. The death of a replica and the
  departure of a client become `Api`'s `AbortRequest`, so `MDQ` covers any number
  of replicas without naming one.
* `System` EXTENDS `ApiServer`, instantiates `Processor` for the workers and
  implements `MDQ`: the queue is the abstraction of the whole back end, not only
  of its submissions. The server's mishaps and the workers' faults are two stocks
  there, and their sum is what `MDQ` spends.
* `LoadGen` takes one thing from `MDQ`: a finished job stays finished. A request may
  be served after its client gave up, or never, and a job need not finish.
* `Dashboard` stands on `ReadsShowWhatWasAccepted` of `ApiServer`: reads see the
  rows written before them. `Session` has the dashboard's polling as the request
  that discovers an ended session.
* `RetryProofs` EXTENDS `MDQProofs`, `SystemProofs` EXTENDS `ApiServerProofs` and
  instantiates `RetryProofs`; every other `...Proofs` EXTENDS its component. No
  module declares a recursive operator.

Where the models take a position:

* A failed PostgreSQL or Redis call of a worker either changed nothing or, for
  XREADGROUP and XAUTOCLAIM, was applied and its reply lost. (An UPDATE or XACK
  that was applied and then reported as failed leaves the same state as one that
  worked, because the code ignores those results, so it needs no action.)
* A failed INSERT of the server (`"insert"`) may have left the row; it is a kind of
  fault apart from the workers' `"db"`, because no promise about an accepted job
  has to give way to it.
* On a cancelled context every call fails at once, except a read already blocked
  in XREADGROUP, which the client library does not interrupt.
* `Age(e)` is `minIdleTime` elapsing. Handlers take at most five seconds, so for
  an entry a live worker holds, this is the fault `"late"`.
* The consumer name is left out: none of the commands used depends on it.
* Handlers fail or succeed nondeterministically (`simulateWork` draws lots).
* Message fields are well formed: the only producer always writes `job_id` and
  `type`, so the branches for a malformed entry (`processor.go:150-154`) are
  unreachable and left out, and rows are never deleted, so `job not found` is.
* `ApiServer`: a request's context ends with its connection, so a client that
  leaves ends the handler (`GiveUp`), also one that is past its last call; an
  `http.Server` refuses new connections once Shutdown has begun. A replica whose
  listener failed lives on (`deaf`) until the liveness probe stops it. The
  verdicts of the decoder, of bcrypt, of the JWT library and of the constraints of
  the jobs table are nondeterministic: an INSERT may be refused, and a login end
  with 500, without anything having failed.
* `LoadGen`: the id of a job is chosen when the request is sent. A request
  that ends without a 202 in time (`Refused`) stays `requested`, so the server
  may still serve it. The 24 hours of the token are taken as never over, and status
  checks fail finitely often (`CheckErrors`).
* `Dashboard`: a list is the number of changes the user's rows had seen when it
  was read, so that "older" is a comparison. StrictMode's second run of the
  effect is a second fetch at the mount; without it one of the two is simply
  answered first. React ignores the state setters of an instance that is gone.
* `Session`: a token is the number of the login that issued it, and who logged in
  is not told apart further: two logins of one user are as different as those of
  two. A tab is a document: one that the browser keeps in its back/forward cache is
  a tab of its own, and closing a tab for good is left out. Loading a document
  cancels the old document's requests. Back and Forward between `/login` and
  `/dashboard` inside the `BrowserRouter` keep the document, its React state and its
  requests (`Traverse`); which entries the history holds is left open, so the model
  can go either way at any time. Between `window.location.href = ...` and the load,
  callbacks still run (`leaving`), and the user may stop the load (`StopLoad`).
* `Startup`: golang-migrate is external: it notes a version as dirty, executes the
  file in one transaction, notes it clean. Two jobs never run at once (one Job
  object with one pod).

## Checks

| Run | Instance | What holds (or is violated) |
|---|---|---|
| `worker_faults` | 1 job, 2 workers, faults crash, sigterm, db, insert, redis, dup, late (3.6 M states) | `TypeOK`, `NeverGivesUpEarly`, `NothingLost`, `OneWorkerPerJob`, `RetryLimit`, `RetryingHasRetriesLeft`, `EntriesHaveRows`, `FailuresAreCounted`, `OutcomesAreFinal` |
| `lifecycle` | 2 jobs, 2 workers, a type without a handler, faults crash, sigterm, dup, redisLoss, enqueue, abort once and redis twice, up to 3 events (`FewEvents`); fairness (0.4 M) | `ImplementsLifecycle`, `AcceptedJobsFinish`, `AnnouncedJobsAreServed` |
| `server` | 2 replicas, 1 job, 1 read, 2 users, any two kinds of mishap, each once; fairness (0.7 M) | `TypeOK`, `NoUseAfterClose`, `GracefulStopStrandsNoJob`, `ReadsShowWhatWasAccepted`, `ImplementsSubmission`, `ReplicasServeAgain` |
| `system` | 1 replica, 1 worker, 1 job, any one kind of mishap once, faults crash, db, redisLoss (0.1 M) | `AnsweredJobsAreQueued`, `ImplementsQueue` |
| `swarm` | 2 goroutines, 3 jobs, 1 failing status check, any request may time out; fairness (8 k) | `TypeOK`, `NoSendOnClosedChannel`, `AllJobsProcessed`, `Tally`, `SendNeverBlocks`, `GeneratorEnds` |
| `board` | 3 list requests and 1 submission in flight, 3 changes, 2 mounts, 1 failure; fairness (1.4 M) | `TypeOK`, `NothingFromBeforeMount`, `FollowUpHasTheJob`, `ListCatchesUp`, `PollingStops` |
| `session` | 2 tabs, 2 requests of one of them in flight, 2 logins, 3 loads started or stopped by the user, 1 failure; fairness (0.5 M) | `TypeOK`, `CopiesAgree`, `ListBelongsToSession`, `EndedSessionLeaves`, `ForeignListLeaves` |
| `migration` | 2 files, 3 attempts, 2 kills, 2 restarts of the database, files kept or not (715) | `TypeOK`, `SuccessMeansMigrated`, `EachMigrationOnce`, `NoGaps` |
| `no_sweeper` | fault enqueue; fairness | violates `SweeperRetriesEnqueue` |
| `overlap` | 2 workers, fault late | violates `FinishedJobsNotOverwritten` |
| `lost_write` | fault db; fairness | violates `PollingEnds` |
| `shutdown` | fault sigterm | violates `FinishedHandlerIsRecorded` |

**Properties of the queue.**

* `NeverGivesUpEarly`: no interleaving, stale copy or lost write makes a job
  FAILED before its handler failed `max_retries` times.
* `NothingLost`: an accepted unfinished job is always named by an entry a worker
  can still be handed. Conditional: a failed UPDATE, a failed XADD, a data loss
  and an entry claimed from a live worker each break it (see findings).
* `OneWorkerPerJob`: without duplicated entries and late claims no two workers
  are inside `processMessage` for one job.
* `RetryLimit`: executions exceed `max_retries` by at most one for each crash,
  shutdown or failed write.
* `RetryingHasRetriesLeft`: RETRYING is written only when the *row* has retries
  left, though the decision reads the worker's copy. With two workers on a job,
  or a failed increment, it is false.
* `EntriesHaveRows`: no entry is ahead of its row. A worker handed such an entry
  would return without acknowledging it, and be handed it again for ever.
* `FailuresAreCounted`: `retries_attempted`, which the owner is shown, never runs
  ahead of the failed executions, and misses at most those about to be counted
  and one for each crash, shutdown or failed write.
* `OutcomesAreFinal`: without duplicated entries and late claims no step changes
  a finished job, although no UPDATE tests the status. (`overlap` shows what
  happens with a late claim.)
* `ImplementsLifecycle`: outcomes are final, executions follow submission, and
  each status change is justified by what happened before, for as long as `Solo`
  holds: until an entry is duplicated or claimed from a live worker. After that the
  guard may fail (`overlap`).
* `AcceptedJobsFinish`: each accepted job finishes and stays finished, through
  crashes, shutdowns, Redis errors and duplicated entries. Excepted are what can
  drop it (`Harmed`: a failed write or XADD, a data loss, a live worker's entry
  claimed) and `NobodyWorks`: every worker process lives on without its loop,
  because it could not create the group at start-up. One worker with a loop is
  enough. XAUTOCLAIM sees one pending entry only, so with two jobs an idle entry
  may be hidden behind a busy one, and is reached all the same. An entry of a
  finished job left unacknowledged would hide it for ever.
* `AnnouncedJobsAreServed`: after Redis has come back empty, an entry announced
  since is served once there is a consumer group again, which one worker's
  restart provides for all. Excepted are a failed write, `NobodyWorks`, and a job
  announced twice: the data loss may then take the one entry from a worker in the
  middle of its execution, which writes over the outcome the other entry has got
  and leaves no entry behind.

**Properties of the API server.**

* `NoUseAfterClose`: no handler meets a closed pool, though `ListenAndServe`
  returns, and the signal handler runs, while handlers are still at work.
* `GracefulStopStrandsNoJob`: unless a replica is killed or forced out, every row
  without an entry has a failed INSERT, a failed XADD or a departed client to
  account for it; rollouts contribute none.
* `ReadsShowWhatWasAccepted`: a list asked for after a 202 has the job, and only
  the user's own; a job so accepted is found by id. (The replicas share one
  database, so it does not matter which of them answers.)
* `ImplementsSubmission`: the refinement of `Api`.
* `ReplicasServeAgain`: after each failed start, rollout or kill, every replica
  serves again.

**Properties of the whole back end.**

* `ImplementsQueue`: the refinement of `MDQ`, workers and replicas interleaved.
* `AnsweredJobsAreQueued`: a job whose client *read* a 202, from whichever replica,
  is finished or named by an entry a worker can still be handed. Conditional on
  XADD, the workers' writes, Redis' data and the claims, like `NothingLost`; kills,
  forced exits, departures and failed INSERTs of the server do not count.

**Properties of the clients and of the start-up.**

* `NoSendOnClosedChannel`: main closes `jobIDs` only when no goroutine is left
  that could send on it.
* `SendNeverBlocks`: a goroutine that has an id to send finds room in the channel,
  which nobody receives from before the swarm has ended.
* `AllJobsProcessed`: "All jobs processed!" is true of every job answered 202;
  no id is lost between goroutines, channel and the two lists of the loop.
* `Tally`: the two counters add up to the work there was, and the jobs created
  behind a request that seemed to fail are at most the failures.
* `GeneratorEnds`: once it has its token, the generator ends or polls for ever for
  an accepted job that never finishes. The swarm does not wait for main while main
  waits for the swarm, whatever requests time out, and a polling loop whose jobs
  finish runs out of them. (`lost_write` and `no_sweeper` show jobs that do not.)
* `NothingFromBeforeMount`: however late its answer, a list read before the
  dashboard was mounted is not shown in it.
* `FollowUpHasTheJob`: the list fetched after a submission has its job.
* `ListCatchesUp`: an open dashboard comes to show the server's list for good.
  (Between two answers it may show an older one than before: nothing orders them.)
* `PollingStops`: a closed dashboard asks no more.
* `CopiesAgree`: in a tab that is alone, React state and localStorage agree;
  after a 401, until `/login` is loaded or the user logs in, localStorage is empty.
* `ListBelongsToSession`: a tab that is alone shows jobs asked for with a token its
  dashboard has held since it appeared. It does not say "with the token React holds
  now": a login answered while the dashboard is shown already (the form sent twice,
  or Back, submit, Forward) replaces the token and not the component, and the old
  list stays on the screen for a moment.
* `ForeignListLeaves`: that moment ends. A list of another session than the one in
  localStorage, in a tab alone or not, is replaced or goes.
* `EndedSessionLeaves`: when the token expires or another tab logs out, the
  dashboard goes. Both are stated for the tabs that send requests.
* `SuccessMeansMigrated`, `EachMigrationOnce`, `NoGaps`: whatever kills the job or
  breaks its connection, what it reports is true, no file is executed twice and
  none is left out. `SuccessMeansMigrated` ends where the database comes back
  empty after the job (`wiped`).

**Bounds.** Two workers are enough for one to overtake, claim from, or outlive
the other; a third would repeat one of these roles. One job suffices for what
concerns one job at a time, since jobs share only the stream and its workers;
`lifecycle` covers that sharing, and the theorems any number of jobs.
`max_retries` 2 has an execution below the limit and one at it. `ScanLimit` 1 is
the tightest scan XAUTOCLAIM can do. Each fault happens at most once, anywhere:
every combination of the different faults of `worker_faults` occurs. `lifecycle`
has every event an accepted job is to survive and those that may drop one; Redis
errors twice, so that both workers can end up without a loop. A state constraint
(`FewEvents`) keeps jobs asked for and faults together to three: two jobs meet any
one fault, one job any two. Since it bounds only events that no fairness demands
(a submission, a fault), a behaviour it cuts off is one in which a client or the
environment has not acted yet; it never removes a step that a worker, the rest of
a request or time owes. Both jobs being alike, a given one is asked for first.

`system`: the parts have their own, larger runs; this one is for the seam. One
replica, one worker and one job meet any one kind of mishap at the server together
with a crash, a failed write and a loss of Redis. `server`: one replica serves
while the other stops; a mishap of one kind meets any mishap of a second kind
(`MaxKinds`), the third would be a coincidence of three independent failures.
`swarm`: more jobs than goroutines is what matters (300 and 10 in the program):
some goroutine comes back for more work and the id channel holds more ids than
there are goroutines. `board`: two fetches of an old instance and one of the new
overlap in every order. `session`: an old poll is in flight while a login is; the
second tab opens, reloads, goes Back and Forward and logs out but sends nothing
itself, because an instance in which both tabs send has too many states for the time a run may take.
Three loads open both tabs
and reload one, or reload the lone tab twice, or stop one load (`MaxLoads`). The
proofs cover any requests of any tabs and any number of loads. `migration`: a first file, a last one,
and each kind of interruption twice.

Deadlock is checked in the runs of `MDQ`, `System` and `Session`. In `swarm` and
`migration` the program ends, in `board` the dashboard may have been closed for
the last time, in `server` replicas may wait for requests for ever.

**Fairness.** Always weak, and never for clients, users, faults or kills.

* `MDQ`: each worker's loop (a goroutine that never waits on another), the start
  of a stopped worker and the end of main's five seconds (the deployment restarts
  it), the rest of a request that has inserted its row, and time passing for
  entries nobody holds. No fairness for claims from live workers.
* `LoadGen`: main after its login and each goroutine: a creation ends by its answer
  or after ten seconds, a status check after five. Nothing for the login, which goes
  through `http.Post` without a timeout and may wait for ever
  (`cmd/loadgen/main.go:162`), and nothing for the server: no request has to be
  served and no job has to finish.
* `ApiServer`: the platform starts what is down and probes what runs, main and
  the handlers go on while they live.
* `Dashboard`: the interval fires, list requests are served and their answers
  delivered. No failure has to happen and none is for ever.
* `Session`: an open dashboard polls, requests are answered, a tab told to load
  `/login` does unless the user stops it. Nobody has to log in or out, and nobody
  reloads or stops loads for ever: a user who reloads a page faster than it is
  answered keeps it.

Every passing property has a mutant: a plausible bug written beside the
definition it replaces (a missing return, a cleanup forgotten, main that returns
too early, ...), under which TLC finds the property violated.

## Findings

1. *No sweeper* (`job_handlers.go:51-52`): the comment promises that a sweeper
   retries a failed enqueue; none exists, and the job stays PENDING for ever.
2. *Check before act* (`processor.go:163-165`): the guard against overwriting
   finished jobs reads a status that the later UPDATEs do not test again.
3. *Acknowledging a lost outcome* (`processor.go:223-228`, also 210-214): when
   the outcome cannot be stored the entry is acknowledged all the same and the
   job is RUNNING for ever; the load generator's polling never ends.
4. *Grace period on a cancelled context* (`worker/main.go:131-140`): the handler
   gets its five seconds, but its outcome is stored with the cancelled context.

Limits of the design that the models reach and no line promises away:

* After Redis has lost its data, running workers get NOGROUP and back off until
  one of them is started anew (only `Start` creates the group); if it cannot be
  created at start-up, `Start` returns and the process idles.
* An older list may replace a newer one on the dashboard until the next answer.
* A late 401 for an old token removes the token a new login has stored, and the
  user logs in again. The 401 of a failed login reloads the login page too.
* Tabs of different users share one token: a tab lists the jobs of whoever
  logged in last.
* A login over a dashboard that is shown already leaves the old session's list on
  the screen until the next answer (`Dashboard.tsx:34`).
* A job announced twice is executed by two workers if Redis loses its data under
  the first of them, and the second outcome replaces the first.
* The load generator's login has no timeout, nor has the server.
* A migration killed between its two marks leaves a dirty version, and every
  further attempt fails; so do attempts made while PostgreSQL is still starting,
  and nothing runs the job again when they are used up, nor after the database
  has come back without its files (`infra/k8s/base/postgres.yaml` has no volume).

## Proofs

All theorems are proved by TLAPS for every value of the constants, under these
assumptions, each evaluated by TLC in the runs: budgets of faults are naturals
(`BudgetAssumption`); the types with a handler are types (`TypesAssumption`);
XAUTOCLAIM scans at least one entry (`ScanAssumption`); requested retries are
integers, negative ones included (`RetriesAssumption`); there are finitely many
workers (`WorkersAssumption`); goroutines are finitely many and at least one, jobs
finitely many (`SwarmAssumption`); jobs are finitely many and have other names
than reads, mishap budgets are naturals (`ApiServerAssumption`); at least two
list requests can overlap (`DashboardAssumption`); a request belongs to a tab
(`SessionAssumption`); the whole back end has finitely many workers and natural
budgets (`SystemAssumption`); the job has at least one attempt (`StartupAssumption`).

| Theorem | Module | States |
|---|---|---|
| `TypeCorrect` | `MDQProofs` | `Spec => []TypeOK` |
| `VerdictsAreEarned` | `MDQProofs` | `Spec => []NeverGivesUpEarly` |
| `EntriesNameRows` | `MDQProofs` | `Spec => []EntriesHaveRows` |
| `OneWorkerAtATime` | `MDQProofs` | `Spec => []OneWorkerPerJob` |
| `NothingIsLost` | `MDQProofs` | `Spec => []NothingLost` |
| `ExecutionsAreBounded` | `RetryProofs` | `Spec => []RetryLimit` |
| `RetryingIsTrue` | `RetryProofs` | `Spec => []RetryingHasRetriesLeft` |
| `CountsAreTrue` | `RetryProofs` | `Spec => []FailuresAreCounted` |
| `OutcomesStay` | `RetryProofs` | `Spec => OutcomesAreFinal` |
| `LifecycleIsKept` | `RetryProofs` | `Spec => ImplementsLifecycle` |
| `ServerTypes` | `ApiServerProofs` | `Spec => []TypeOK` |
| `PoolsOutliveHandlers` | `ApiServerProofs` | `Spec => []NoUseAfterClose` |
| `AcceptedJobsAreShown` | `ApiServerProofs` | `Spec => []ReadsShowWhatWasAccepted` |
| `GracefulStops` | `ApiServerProofs` | `Spec => []GracefulStopStrandsNoJob` |
| `ServerSubmits` | `ApiServerProofs` | `Spec => ImplementsSubmission` |
| `SystemIsTheQueue` | `SystemProofs` | `SystemSpec => ImplementsQueue` |
| `AnsweredJobsAreDelivered` | `SystemProofs` | `SystemSpec => []AnsweredJobsAreQueued` |
| `SystemKeepsPromises` | `SystemProofs` | the queue's verdicts, exclusivity, bounds, counts, outcomes and life cycle, of `SystemSpec` |
| `SystemKeepsServing` | `SystemProofs` | `SystemSpec => [](NoUseAfterClose /\ GracefulStopStrandsNoJob /\ ReadsShowWhatWasAccepted)` |
| `SwarmTypes` | `LoadGenProofs` | `Spec => []TypeOK` |
| `ClosedAfterLastSend` | `LoadGenProofs` | `Spec => []NoSendOnClosedChannel` |
| `NoIdIsLost` | `LoadGenProofs` | `Spec => []AllJobsProcessed` |
| `CountersAddUp` | `LoadGenProofs` | `Spec => []Tally` |
| `NoSendBlocks` | `LoadGenProofs` | `Spec => []SendNeverBlocks` |
| `DashboardTypes` | `DashboardProofs` | `Spec => []TypeOK` |
| `NothingOldIsShown` | `DashboardProofs` | `Spec => []NothingFromBeforeMount` |
| `FollowUpIsFresh` | `DashboardProofs` | `Spec => []FollowUpHasTheJob` |
| `SessionTypes` | `SessionProofs` | `Spec => []TypeOK` |
| `TokenCopiesAgree` | `SessionProofs` | `Spec => []CopiesAgree` |
| `NoForeignList` | `SessionProofs` | `Spec => []ListBelongsToSession` |
| `MigrationTypes` | `StartupProofs` | `Spec => []TypeOK` |
| `NoFileLeftOut` | `StartupProofs` | `Spec => []NoGaps` |
| `NoFileTwice` | `StartupProofs` | `Spec => []EachMigrationOnce` |
| `SuccessIsTrue` | `StartupProofs` | `Spec => []SuccessMeansMigrated` |

*Types.* `TypeOK` of `MDQ` is inductive as it stands, and is put together from a
part for each module it EXTENDS; one lemma for each statement, command and move
of a worker says that it keeps its part.

*Verdicts* (`VerdictInv`). A worker decides on its copy of `retries_attempted`,
read before the handler ran, while others count in the row. So it must be known
that the copy never exceeds the row, and that the row never exceeds what really
happened: the row's count plus the workers whose failure is not counted yet
(`Uncounted`) is at most the failed executions. A worker that decides has a
failure of its own among these, which is the `+ 1` of `processor.go:209`.

*Exclusivity* (`HoldInv`). While no live worker's entry was claimed away, an entry
a worker holds is not idle, so that XAUTOCLAIM passes over it, and has no other
holder (`OneHolder`); while no entry was duplicated, a job has one entry
(`OneEntry`). That no worker holds an entry not delivered yet makes the next
XREADGROUP safe.

*Delivery* (`DeliveryInv`). `NothingLost` alone is not inductive: the entry it
finds may be one a worker is about to acknowledge. So each accepted, unfinished
job has an entry that is live and *safe* (no worker whose call will work stands
before XACK of it), and a worker comes to XACK only with a finished job
(`AcksFinished`), or, with its context cancelled, to an XACK that fails.

*Retries* (`SoloInv`, on top of `VerdictInv` and `HoldInv`). `Solo` says that no
entry was duplicated or claimed from a live worker, so that by exclusivity one
worker at most works on a job. Then its copy *is* the row (`WorkerCounts`), and
each failed execution is counted in the row, still owed by the one worker that
is between the handler and the increment, or lost to a crash, a shutdown or a
failed write (`JobCounts`). A shutdown is charged when the signal arrives, before
its effect, which is why `WorkerCounts` knows what a cancelled worker will lose.
`FailuresAreCounted` is read off `JobCounts`; `OutcomesAreFinal` follows because a
worker past the guard still finds its job unfinished (`WorkerCounts`).

*Life cycle.* A step of the queue is a step of `JobLifecycle` or leaves status,
limit and failures alone. What the abstract guards ask is `SoloInv` and
`AllEarned`: a worker about to write a verdict has the executions for it.
`ImplementsLifecycle` asks it of the steps up to the first duplicated entry or late
claim (`Solo`), since with two workers on a job the refinement is false (`overlap`).

*API server* (`ServerInv`). `JobKnows` ties the place a handler has reached to
whether its row exists; `ReadKnows` that the jobs a reader was told of are rows of
the reader's own, which the SELECT then must return; `NoUseAfterClose` is kept
because main leaves `draining` only with no handler in flight. For `GracefulStops`
each step strands no further job, or one and spends its mishap. For
`ServerSubmits` each server step is matched with the step of `Api` it implements;
the mapping of the fault counters charges a job answered 500, or cut off after its
INSERT, to a budget of one fault per job, and the proof shows that this counter
falls by exactly one at each such step and at no other.

*Whole back end* (`SystemInv`: `ServerInv`, the types of the workers, and entries
that name rows). Each side needs something of the other. A worker's UPDATE must not
make a row, or a request would change its state in `Api`'s eyes without taking a
step: the entry it holds names a row already (`HeldRow`). The server's steps must
leave the entries the workers hold in place: the stream only grows
(`ServerWrites`). Then a step of the server is one of `MDQ`'s submissions by
`ServerSubmits` (`ServeIsSubmission`), and a worker's step is `MDQ`'s step of the
same name once each fault spent from the workers' stock is seen to be spent from
the sum of the two (`CrewFaultLifts`, `LoopLifts`, `ProcessLifts`). With the
refinement proved, what holds of `MDQ` holds of the system: `SystemProofs`
instantiates `RetryProofs` at the refinement mapping (`Proven`), discharges its
assumptions (`ProvenAssumptions`), and cites its theorems. `AnsweredJobsAreQueued` is
`NothingLost` at the mapping, because a request answered 202 is accepted in `Api`
and no worker can spend the fault that fails XADD (`CrewFaultsOK`).
What `ApiServer` promises alone needs no mapping (`SystemKeepsServing`): `SystemInv`
contains `ServerInv`, and a worker adds no row, takes no entry out of the stream and
has no part in a request, so that it strands no job (`CrewStrandsNone`).

*Load generator.* `SwarmInv`: the WaitGroup's counter is the number of live
goroutines, so zero means that all have left. `IdInv`: an id read from a 202 is
finished, in a goroutine's hands, in the channel, or in one of the two lists.
`TallyInv`: work left and requests sent are all the work; requests sent are
successes, failures and goroutines that wait for an answer. `RoomInv`: the ids in
the channel and those in the hands of goroutines about to send belong to different
answered jobs, so that the last of them still finds room in a channel of `TotalJobs`.

*Dashboard* (`DashboardInv`). A request in flight knows which instance sent it and
which submission it follows, and its answer is no older than either.

*Session* (`SessionInv`). In a tab that is alone, a poll the dashboard still waits
for carries a token this dashboard has held (`CallKnows`): localStorage holds the
tab's token, or none after a 401, and a dashboard on the screen has held the token
React holds (`TabKnows`). A login adds a token to what the dashboard has held and
takes none away, so it disturbs no list and no poll; leaving the dashboard clears
the list and detaches the polls (`LeaveKeeps`), which is why Forward finds nothing of
the old session to show (`TraverseKeeps`).

*Start-up* (`StartupInv`). `NoGaps` with what the job knows at each of its steps:
before a file is executed the version is dirty and all earlier files are in.

Proved: every invariant and action property of the runs, and the three refinements.
Only model-checked: liveness, which TLAPS does not prove under fairness
(`AcceptedJobsFinish`, `AnnouncedJobsAreServed`, `ReplicasServeAgain`,
`GeneratorEnds`, `ListCatchesUp`, `PollingStops`, `EndedSessionLeaves`,
`ForeignListLeaves`), and the
findings, which are counterexamples.

## Not modelled

* Metrics, tracing, logging: written and never read by the program.
* Routing tables and CORS headers: fixed tables that no state depends on.
* Payloads, results, error texts and timestamps: no decision reads them; `run_at`
  is stored and read by nobody.
* bcrypt and the JWT signature: only their verdicts.
* The time handlers sleep, and the numbers of seconds in timeouts: an elapsed
  timeout is an event.
* Ingress, Terraform, CloudFormation and the pipelines: declarative, outside the
  program's control flow.

## Plan

The components whose steps depend on one another are modelled. What could be
added:

1. A session instance in which both tabs send requests, with a coarser server
   so that it stays small; the theorems already cover its safety.
2. Composition of `Dashboard` and `Session` in one browser tab, should the code
   come to share state between them beyond the mounted component.
3. Liveness of the migration while the database stays up and nobody kills the
   job.
