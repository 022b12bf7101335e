---------------------------- MODULE RetryProofs ----------------------------
(***************************************************************************)
(* Theorems about a job's attempts while no two workers share it: how often *)
(* it can be executed, when it may wait for another attempt, and that the  *)
(* queue implements the life cycle promised to its owner.                  *)
(***************************************************************************)
EXTENDS MDQProofs
-----------------------------------------------------------------------------
\* The events that can lose a count or a verdict.
Lost == Spent("crash") + Spent("sigterm") + Spent("db")

\* The calls at which a worker decides on its copy, and those at which its job
\* has not got its outcome yet.
Copying == {"setRunning", "handle", "increment"}
Working == Copying \cup {"setFailed", "setRetrying", "setCompleted"}

\* A failed execution that a worker is still about to count, or to judge.
Owed(j, calls) ==
    IF \E w \in Workers : pc[w] \in calls /\ JobOf(w) = j /\ ~ctxDone[w] THEN 1 ELSE 0

\* An execution that failed is counted in the row, is being counted, or its
\* count was lost; and a job not finished has an attempt left, is being judged,
\* or its verdict was lost.
JobCounts(j) ==
    /\ status[j] = Absent => failures[j] = 0
    /\ failures[j] <= retries[j] + Lost + Owed(j, {"increment"})
    /\ failures[j] <= Allowed(j) + Lost
    /\ status[j] \notin Finished =>
          failures[j] < Allowed(j) + Lost + Owed(j, {"increment", "setFailed"})
    /\ Unspent("db") /\ status[j] = "RETRYING" => retries[j] < maxRetries[j]

\* A worker's copy is the row; what a shutdown will lose is in Lost already.
WorkerCounts(w) ==
    pc[w] \in Working =>
        /\ status[JobOf(w)] \notin Finished
        /\ pc[w] \in Copying => attempts[w] = retries[JobOf(w)]
        /\ pc[w] \in {"handle", "increment"} /\ ~ctxDone[w] /\ Unspent("db") =>
              status[JobOf(w)] = "RUNNING"
        /\ pc[w] = "setRetrying" => retries[JobOf(w)] < maxRetries[JobOf(w)]
        /\ pc[w] \in {"setRunning", "handle"} /\ ctxDone[w] =>
              /\ failures[JobOf(w)] < retries[JobOf(w)] + Lost
              /\ failures[JobOf(w)] + 1 < Allowed(JobOf(w)) + Lost

SoloInv ==
    /\ VerdictInv /\ HoldInv
    /\ Solo => /\ \A j \in Jobs : JobCounts(j)
               /\ \A w \in Workers : WorkerCounts(w)
-----------------------------------------------------------------------------
\* Exclusivity.

LEMMA AloneOnJob ==
    ASSUME HoldInv, Solo, NEW v \in Workers, NEW w \in Workers, v # w,
           pc[v] \in Processing, pc[w] \in Processing
    PROVE  JobOf(v) # JobOf(w)
<1>1. msg[v] \in 1..Len(stream) /\ msg[w] \in 1..Len(stream)
  BY EntryNamesJob DEF HoldInv, TypeOK
<1>2. msg[v] # msg[w]
  BY <1>1 DEF HoldInv, OneHolder, Solo
<1> QED BY <1>1, <1>2 DEF HoldInv, OneEntry, Solo, JobOf

LEMMA OwedAlone ==
    ASSUME HoldInv, Solo, NEW w \in Workers, pc[w] \in Processing,
           NEW P, P \subseteq Processing
    PROVE  Owed(JobOf(w), P) = IF pc[w] \in P /\ ~ctxDone[w] THEN 1 ELSE 0
BY AloneOnJob DEF Owed

LEMMA LostIsNat ==
    ASSUME SoloInv
    PROVE  /\ \A k \in {"crash", "sigterm", "db"} : Spent(k) \in Nat
           /\ Lost \in Nat
<1>1. \A k \in FaultKind : Spent(k) \in Nat
  BY BudgetAssumption DEF SoloInv, HoldInv, WithinBudget, TypeOK, FaultsTypeOK, Spent
<1>2. {"crash", "sigterm", "db"} \subseteq FaultKind
  BY DEF FaultKind
<1> HIDE DEF Spent
<1> QED BY <1>1, <1>2 DEF Lost

LEMMA LostGrows ==
    ASSUME TypeOK, WithinBudget, [Next]_vars
    PROVE  /\ Lost \in Nat /\ Lost' \in Nat /\ Lost <= Lost'
           /\ \A k \in {"crash", "sigterm", "db"} : Fault(k) => Lost' = Lost + 1
<1> DEFINE K == {"crash", "sigterm", "db"}
<1>1. K \subseteq FaultKind
  BY DEF FaultKind
<1>2. \A k \in K :
         /\ faultsLeft[k] \in Nat /\ faultsLeft'[k] \in Nat /\ FaultBudget[k] \in Nat
         /\ faultsLeft'[k] <= faultsLeft[k] /\ faultsLeft[k] <= FaultBudget[k]
  BY <1>1, StepSpends, StepType, BudgetAssumption DEF WithinBudget, TypeOK, FaultsTypeOK
<1>3. ASSUME NEW k \in K, Fault(k)
      PROVE  \A l \in K : faultsLeft'[l] = IF l = k THEN faultsLeft[l] - 1 ELSE faultsLeft[l]
  BY <1>1, <1>3 DEF Fault, TypeOK, FaultsTypeOK
<1> HIDE DEF K
<1>4. Lost \in Nat /\ Lost' \in Nat /\ Lost <= Lost'
  BY <1>2 DEF Lost, Spent, K
<1>5. ASSUME NEW k \in K, Fault(k) PROVE Lost' = Lost + 1
  BY <1>2, <1>3, <1>5 DEF Lost, Spent, K
<1> QED BY <1>4, <1>5 DEF K
-----------------------------------------------------------------------------
\* A worker's step.

LEMMA SoloBefore ==
    ASSUME SoloInv, [Next]_vars, Solo'
    PROVE  /\ Solo /\ (\A j \in Jobs : JobCounts(j)) /\ (\A w \in Workers : WorkerCounts(w))
           /\ Unspent("db")' => Unspent("db")
<1>1. TypeOK /\ WithinBudget
  BY DEF SoloInv, HoldInv
<1>2. {"dup", "late", "db"} \subseteq FaultKind
  BY DEF FaultKind
<1> HIDE DEF Unspent
<1> QED BY <1>1, <1>2, UnspentBefore DEF SoloInv, Solo

\* The jobs in D are those the step is about; it touches no other job, and no
\* other worker is at work on them.
LEMMA OthersCount ==
    ASSUME SoloInv, [Next]_vars, Solo', NEW w \in Workers, WorkerStep(w), NEW D,
           \A j \in Jobs \ D :
               status'[j] = status[j] /\ retries'[j] = retries[j] /\ failures'[j] = failures[j],
           \A v \in Workers \ {w} : pc[v] \in Working => JobOf(v) \notin D,
           pc[w] \in Working => JobOf(w) \in D,
           pc'[w] \in Working => JobOf(w)' \in D
    PROVE  /\ \A j \in Jobs \ D : JobCounts(j)'
           /\ \A v \in Workers \ {w} : WorkerCounts(v)'
<1>1. TypeOK /\ WithinBudget
  BY DEF SoloInv, HoldInv
<1>2. /\ \A v \in Workers \ {w} :
            /\ pc'[v] = pc[v] /\ JobOf(v)' = JobOf(v)
            /\ attempts'[v] = attempts[v] /\ ctxDone'[v] = ctxDone[v]
      /\ \A j \in Jobs : Allowed(j)' = Allowed(j) /\ maxRetries'[j] = maxRetries[j]
  BY <1>1, WorkerFrame DEF JobOf, Allowed
<1>3. Lost \in Nat /\ Lost' \in Nat /\ Lost <= Lost' /\ (Unspent("db")' => Unspent("db"))
  BY <1>1, LostGrows, SoloBefore
<1>4. \A j \in Jobs : /\ failures[j] \in Nat /\ retries[j] \in Nat
                      /\ Allowed(j) \in Nat /\ maxRetries[j] \in Int
  BY <1>1 DEF TypeOK, StoreTypeOK, WorkersTypeOK, Allowed
<1>5. ASSUME NEW j \in Jobs \ D PROVE JobCounts(j)'
  <2>1. ASSUME NEW P, P \subseteq Working PROVE Owed(j, P)' = Owed(j, P)
    BY <1>2, <1>5, <2>1 DEF Owed
  <2>2. /\ Owed(j, {"increment"})' = Owed(j, {"increment"})
        /\ Owed(j, {"increment", "setFailed"})' = Owed(j, {"increment", "setFailed"})
    BY <2>1 DEF Working, Copying
  <2>3. /\ Owed(j, {"increment"}) \in Nat /\ Owed(j, {"increment", "setFailed"}) \in Nat
        /\ JobCounts(j)
    BY <1>5, SoloBefore DEF Owed
  <2> HIDE DEF Owed, Lost, Unspent, Allowed
  <2> QED BY <1>2, <1>3, <1>4, <1>5, <2>2, <2>3 DEF JobCounts
<1>6. ASSUME NEW v \in Workers \ {w} PROVE WorkerCounts(v)'
  <2> SUFFICES ASSUME pc[v] \in Working PROVE WorkerCounts(v)'
    BY <1>2, <1>6 DEF WorkerCounts
  <2>1. JobOf(v) \in Jobs \ D
    BY <1>1, <1>6, EntryNamesJob DEF TypeOK, Working, Copying, Processing
  <2>2. WorkerCounts(v)
    BY <1>6, SoloBefore
  <2> DEFINE j == JobOf(v)
  <2>3. /\ status'[j] = status[j] /\ retries'[j] = retries[j] /\ failures'[j] = failures[j]
        /\ JobOf(v)' = j
    BY <1>2, <1>6, <2>1
  <2>4. failures[j] \in Nat /\ retries[j] \in Nat /\ Allowed(j) \in Nat /\ Allowed(j)' = Allowed(j)
        /\ maxRetries'[j] = maxRetries[j]
    BY <1>2, <1>4, <2>1
  <2>5. j = JobOf(v) /\ maxRetries[j] \in Int
    BY <1>4, <2>1
  <2> HIDE DEF Lost, Unspent, JobOf, j
  <2> QED BY <1>2, <1>3, <1>6, <2>2, <2>3, <2>4, <2>5 DEF WorkerCounts, Allowed
<1> QED BY <1>5, <1>6

LEMMA OwedNext ==
    ASSUME SoloInv, [Next]_vars, Solo', NEW w \in Workers, WorkerStep(w),
           pc[w] \in Processing, NEW P, P \subseteq Processing
    PROVE  \A j : j = JobOf(w) =>
             /\ Owed(j, P) = IF pc[w] \in P /\ ~ctxDone[w] THEN 1 ELSE 0
             /\ Owed(j, P)' = IF pc'[w] \in P /\ JobOf(w)' = j /\ ~ctxDone'[w] THEN 1 ELSE 0
<1>1. TypeOK /\ HoldInv /\ Solo
  BY SoloBefore DEF SoloInv, HoldInv
<1>2. \A v \in Workers \ {w} : /\ pc'[v] = pc[v] /\ JobOf(v)' = JobOf(v)
                               /\ ctxDone'[v] = ctxDone[v]
  BY <1>1, WorkerFrame DEF JobOf
<1>3. \A v \in Workers \ {w} : pc[v] \in P => JobOf(v) # JobOf(w)
  BY <1>1, AloneOnJob
<1> HIDE DEF JobOf
<1> QED BY <1>2, <1>3 DEF Owed

AllCount == (\A j \in Jobs : JobCounts(j)) /\ (\A w \in Workers : WorkerCounts(w))

LEMMA OwnJob ==
    ASSUME SoloInv, [Next]_vars, Solo', NEW w \in Workers, WorkerStep(w),
           pc[w] \in Processing, NEW j, j = JobOf(w)
    PROVE  /\ j \in Jobs /\ status[j] # Absent /\ JobCounts(j) /\ WorkerCounts(w)
           /\ failures[j] \in Nat /\ retries[j] \in Nat /\ maxRetries[j] \in Int
           /\ attempts[w] \in Nat /\ Allowed(j) \in Nat /\ Allowed(j) > 0
           /\ Allowed(j)' = Allowed(j) /\ maxRetries'[j] = maxRetries[j] /\ stream' = stream
           /\ maxRetries[j] > 1 => Allowed(j) = maxRetries[j]
<1>1. TypeOK /\ EntriesHaveRows
  BY DEF SoloInv, HoldInv, VerdictInv
<1>2. j \in Jobs /\ msg[w] \in 1..Len(stream)
  BY <1>1, EntryNamesJob DEF TypeOK
<1>3. status[j] # Absent
  BY <1>1, <1>2 DEF EntriesHaveRows, JobOf
<1>4. stream' = stream /\ maxRetries' = maxRetries
  BY <1>1, WorkerFrame
<1>5. JobCounts(j) /\ WorkerCounts(w)
  BY <1>2, SoloBefore
<1> QED BY <1>1, <1>2, <1>3, <1>4, <1>5 DEF Allowed, TypeOK, StoreTypeOK, WorkersTypeOK

\* A step on the job a worker holds is settled by its effect on this job.
LEMMA OwnStep ==
    ASSUME SoloInv, [Next]_vars, Solo', NEW w \in Workers, WorkerStep(w),
           pc[w] \in Processing, NEW j, j = JobOf(w),
           \A i \in Jobs \ {j} :
               status'[i] = status[i] /\ retries'[i] = retries[i] /\ failures'[i] = failures[i],
           pc'[w] \in Working => JobOf(w)' = j,
           JobCounts(j)', WorkerCounts(w)'
    PROVE  AllCount'
<1>1. HoldInv /\ Solo
  BY SoloBefore DEF SoloInv
<1>2. \A v \in Workers \ {w} : pc[v] \in Working => JobOf(v) \notin {j}
  BY <1>1, AloneOnJob DEF Working, Copying, Processing
<1>3. /\ \A i \in Jobs \ {j} : JobCounts(i)'
      /\ \A v \in Workers \ {w} : WorkerCounts(v)'
  <2> HIDE DEF JobCounts, WorkerCounts, JobOf
  <2> QED BY <1>2, OthersCount
<1> HIDE DEF JobCounts, WorkerCounts
<1> QED BY <1>3 DEF AllCount

\* A worker that puts its job down, or never had one.
LEMMA LeaveCounts ==
    ASSUME SoloInv, [Next]_vars, Solo', NEW w \in Workers, WorkerStep(w),
           UNCHANGED <<storeVars, failures>>, pc'[w] \notin Working,
           pc[w] \in {"increment", "setFailed"} /\ ~ctxDone[w] => Lost' > Lost
    PROVE  AllCount'
<1>1. UNCHANGED <<status, retries, failures>> /\ WorkerCounts(w)'
  BY DEF storeVars, WorkerCounts
<1>2. CASE pc[w] \notin Processing
  <2>1. pc[w] \notin Working
    BY <1>2 DEF Working, Copying, Processing
  <2> DEFINE D == {}
  <2>2. /\ \A i \in Jobs \ D : /\ status'[i] = status[i] /\ retries'[i] = retries[i]
                               /\ failures'[i] = failures[i]
        /\ \A v \in Workers \ {w} : pc[v] \in Working => JobOf(v) \notin D
    BY <1>1
  <2>3. /\ \A i \in Jobs \ D : JobCounts(i)'
        /\ \A v \in Workers \ {w} : WorkerCounts(v)'
    <3> HIDE DEF JobCounts, WorkerCounts, JobOf, D
    <3> QED BY <2>1, <2>2, OthersCount
  <2> HIDE DEF JobCounts, WorkerCounts
  <2> QED BY <1>1, <2>3 DEF AllCount
<1>3. CASE pc[w] \in Processing
  <2> DEFINE j == JobOf(w)
             P == {"increment"}
             Q == {"increment", "setFailed"}
  <2>1. P \subseteq Processing /\ Q \subseteq Processing /\ P \subseteq Working /\ Q \subseteq Working
    BY DEF Processing, Working, Copying
  <2>2. /\ Owed(j, P) = IF pc[w] \in P /\ ~ctxDone[w] THEN 1 ELSE 0
        /\ Owed(j, Q) = IF pc[w] \in Q /\ ~ctxDone[w] THEN 1 ELSE 0
    BY <1>3, <2>1, OwedNext
  <2>3. \A i : i = j => Owed(i, P)' = 0 /\ Owed(i, Q)' = 0
    BY <1>3, <2>1, OwedNext
  <2>4. Lost \in Nat /\ Lost' \in Nat /\ Lost <= Lost' /\ (Unspent("db")' => Unspent("db"))
    BY LostGrows, SoloBefore DEF SoloInv, HoldInv
  <2>5. \A i : i = j => JobCounts(i)'
    <3> SUFFICES ASSUME NEW i, i = j PROVE JobCounts(i)'
      OBVIOUS
    <3>1. /\ i \in Jobs /\ JobCounts(i) /\ failures[i] \in Nat /\ retries[i] \in Nat
          /\ Allowed(i) \in Nat /\ Allowed(i)' = Allowed(i) /\ maxRetries'[i] = maxRetries[i]
      BY <1>3, OwnJob
    <3>2. /\ Owed(i, P) = IF pc[w] \in P /\ ~ctxDone[w] THEN 1 ELSE 0
          /\ Owed(i, Q) = IF pc[w] \in Q /\ ~ctxDone[w] THEN 1 ELSE 0
          /\ Owed(i, P)' = 0 /\ Owed(i, Q)' = 0
      BY <2>2, <2>3
    <3> HIDE DEF Owed, Lost, Unspent, Allowed, j
    <3> QED BY <1>1, <2>4, <3>1, <3>2 DEF JobCounts
  <2> HIDE DEF JobCounts, WorkerCounts, JobOf
  <2> QED BY <1>1, <1>3, <2>5, OwnStep
<1> QED BY <1>2, <1>3

LEMMA LeaveSteps ==
    ASSUME SoloInv, [Next]_vars, Solo', NEW w \in Workers, WorkerStep(w),
           \/ Boot(w) \/ Exit(w) \/ Crash(w) \/ CreateGroup(w) \/ SelectDone(w)
           \/ HandleAbandonedMessages(w) \/ DequeueMessages(w) \/ Ack(w)
           \/ (GetJob(w) /\ pc'[w] # "setRunning")
    PROVE  AllCount'
<1> USE DEF Working, Copying
<1>1. TypeOK /\ WithinBudget
  BY DEF SoloInv, HoldInv
<1>2. pc \in [Workers -> Outside \cup Processing]
  BY <1>1 DEF TypeOK, WorkersTypeOK
<1>3. CASE Boot(w) \/ CreateGroup(w) \/ SelectDone(w)
  BY <1>2, <1>3, LeaveCounts DEF Boot, CreateGroup, SelectDone, Goto, localVars
<1>4. CASE HandleAbandonedMessages(w) \/ DequeueMessages(w)
  <2>1. /\ UNCHANGED <<storeVars, failures>> /\ pc'[w] \notin Working
        /\ pc[w] \in {"claim", "dequeue"}
    BY <1>2, <1>4 DEF HandleAbandonedMessages, DequeueMessages, Process, Goto, localVars
  <2> QED BY <2>1, LeaveCounts
<1>5. CASE Ack(w) \/ (GetJob(w) /\ pc'[w] # "setRunning")
  <2>1. /\ UNCHANGED <<storeVars, failures>> /\ pc'[w] \notin Working
        /\ pc[w] \in {"fetch", "ack"}
    BY <1>2, <1>5 DEF Ack, GetJob, Return, Goto, localVars
  <2> QED BY <2>1, LeaveCounts
<1>6. CASE Exit(w)
  BY <1>2, <1>6, LeaveCounts DEF Exit, Die, Goto
<1>7. CASE Crash(w)
  <2>1. Lost \in Nat /\ Lost' = Lost + 1
    BY <1>1, <1>7, LostGrows DEF Crash
  <2>2. Lost' > Lost
    BY <2>1
  <2> QED BY <1>2, <1>7, <2>2, LeaveCounts DEF Crash, Die, Goto
<1> QED BY <1>3, <1>4, <1>5, <1>6, <1>7

\* What a worker at work on job j knows, and what it has to know afterwards.
LEMMA CallBefore ==
    ASSUME SoloInv, [Next]_vars, Solo', NEW w \in Workers, WorkerStep(w),
           pc[w] \in Processing, NEW j, j = JobOf(w)
    PROVE  /\ failures[j] <= retries[j] + Lost + (IF pc[w] = "increment" /\ ~ctxDone[w] THEN 1 ELSE 0)
           /\ failures[j] <= Allowed(j) + Lost
           /\ status[j] \notin Finished =>
                 failures[j] < Allowed(j) + Lost
                   + (IF pc[w] \in {"increment", "setFailed"} /\ ~ctxDone[w] THEN 1 ELSE 0)
           /\ Unspent("db") /\ status[j] = "RETRYING" => retries[j] < maxRetries[j]
           /\ pc[w] \in Working =>
                /\ status[j] \notin Finished
                /\ pc[w] \in Copying => attempts[w] = retries[j]
                /\ pc[w] \in {"handle", "increment"} /\ ~ctxDone[w] /\ Unspent("db") =>
                      status[j] = "RUNNING"
                /\ pc[w] = "setRetrying" => retries[j] < maxRetries[j]
                /\ pc[w] \in {"setRunning", "handle"} /\ ctxDone[w] =>
                      failures[j] < retries[j] + Lost /\ failures[j] + 1 < Allowed(j) + Lost
<1> DEFINE P == {"increment"}
           Q == {"increment", "setFailed"}
<1>1. /\ Owed(j, P) = IF pc[w] \in P /\ ~ctxDone[w] THEN 1 ELSE 0
      /\ Owed(j, Q) = IF pc[w] \in Q /\ ~ctxDone[w] THEN 1 ELSE 0
  BY OwedNext DEF Processing
<1>2. JobCounts(j) /\ WorkerCounts(w)
  BY OwnJob
<1> HIDE DEF Owed, Lost, Unspent, Allowed, JobOf
<1> QED BY <1>1, <1>2 DEF JobCounts, WorkerCounts

LEMMA CallCounts ==
    ASSUME SoloInv, [Next]_vars, Solo', NEW w \in Workers, WorkerStep(w),
           pc[w] \in Processing, NEW j, j = JobOf(w),
           \A i \in Jobs \ {j} :
               status'[i] = status[i] /\ retries'[i] = retries[i] /\ failures'[i] = failures[i],
           pc'[w] \in Working => msg'[w] = msg[w],
           status'[j] # Absent,
           failures'[j] <= retries'[j] + Lost' + (IF pc'[w] = "increment" /\ ~ctxDone'[w] THEN 1 ELSE 0),
           failures'[j] <= Allowed(j) + Lost',
           status'[j] \notin Finished =>
               failures'[j] < Allowed(j) + Lost'
                   + (IF pc'[w] \in {"increment", "setFailed"} /\ ~ctxDone'[w] THEN 1 ELSE 0),
           Unspent("db")' /\ status'[j] = "RETRYING" => retries'[j] < maxRetries[j],
           pc'[w] \in Working =>
               /\ status'[j] \notin Finished
               /\ pc'[w] \in Copying => attempts'[w] = retries'[j]
               /\ pc'[w] \in {"handle", "increment"} /\ ~ctxDone'[w] /\ Unspent("db")' =>
                     status'[j] = "RUNNING"
               /\ pc'[w] = "setRetrying" => retries'[j] < maxRetries[j]
               /\ pc'[w] \in {"setRunning", "handle"} /\ ctxDone'[w] =>
                     failures'[j] < retries'[j] + Lost' /\ failures'[j] + 1 < Allowed(j) + Lost'
    PROVE  AllCount'
<1> DEFINE P == {"increment"}
           Q == {"increment", "setFailed"}
<1>1. Allowed(j)' = Allowed(j) /\ maxRetries'[j] = maxRetries[j] /\ stream' = stream
  BY OwnJob
<1>2. pc'[w] \in Working => JobOf(w)' = j
  BY <1>1 DEF JobOf
<1>3. /\ Owed(j, P)' = IF pc'[w] \in P /\ ~ctxDone'[w] THEN 1 ELSE 0
      /\ Owed(j, Q)' = IF pc'[w] \in Q /\ ~ctxDone'[w] THEN 1 ELSE 0
  <2>1. pc'[w] \in Q => JobOf(w)' = j
    BY <1>2 DEF Working, Copying
  <2>2. P \subseteq Processing /\ Q \subseteq Processing /\ P \subseteq Q
    BY DEF Processing
  <2> HIDE DEF Owed, JobOf
  <2> QED BY <2>1, <2>2, OwedNext
<1>4. JobCounts(j)'
  <2> HIDE DEF Owed, Lost, Unspent, Allowed, JobOf
  <2> QED BY <1>1, <1>3 DEF JobCounts
<1>5. WorkerCounts(w)'
  <2>1. pc'[w] \in Working => Allowed(JobOf(w))' = Allowed(j)
    BY <1>1, <1>2 DEF Allowed
  <2> HIDE DEF Lost, Unspent, Allowed, JobOf
  <2> QED BY <1>1, <1>2, <2>1 DEF WorkerCounts
<1> HIDE DEF JobCounts, WorkerCounts, JobOf
<1> QED BY <1>2, <1>4, <1>5, OwnStep

LEMMA CallSteps ==
    ASSUME SoloInv, [Next]_vars, Solo', NEW w \in Workers, WorkerStep(w),
           \/ Signal(w) \/ (GetJob(w) /\ pc'[w] = "setRunning")
           \/ MarkRunning(w) \/ RunHandler(w) \/ CountFailure(w)
           \/ MarkFailed(w) \/ MarkRetrying(w) \/ MarkCompleted(w)
    PROVE  AllCount'
<1> DEFINE j == JobOf(w)
<1>1. TypeOK /\ WithinBudget
  BY DEF SoloInv, HoldInv
<1>2. /\ pc \in [Workers -> Outside \cup Processing] /\ ctxDone \in [Workers -> BOOLEAN]
      /\ attempts \in [Workers -> Nat] /\ failures \in [Jobs -> Nat]
      /\ status \in [Jobs -> Status \cup {Absent}] /\ retries \in [Jobs -> Nat]
  BY <1>1 DEF TypeOK, WorkersTypeOK, StoreTypeOK
<1>3. /\ Lost \in Nat /\ Lost' \in Nat /\ Lost <= Lost' /\ (Unspent("db")' => Unspent("db"))
      /\ Fault("sigterm") \/ Fault("db") => Lost' = Lost + 1
  BY <1>1, LostGrows, SoloBefore
<1>4. Fault("db") => ~Unspent("db")'
  <2>1. "db" \in FaultKind
    BY DEF FaultKind
  <2> HIDE DEF Unspent
  <2> QED BY <1>1, <2>1, UnspentBefore, FaultStrikes DEF TypeOK
<1>5. /\ \A s \in Status : s # Absent
      /\ {"RUNNING", "RETRYING"} \cap Finished = {} /\ {"COMPLETED", "FAILED"} \subseteq Finished
      /\ {"RUNNING", "RETRYING", "COMPLETED", "FAILED"} \subseteq Status
  BY DEF Status, Absent, Finished
<1> USE DEF Working, Copying
<1>6. CASE Signal(w) /\ pc[w] \notin Working
  <2>1. UNCHANGED <<storeVars, failures>> /\ pc'[w] \notin Working
    BY <1>6 DEF Signal
  <2> QED BY <1>6, <2>1, LeaveCounts
<1>7. CASE Signal(w) /\ pc[w] \in Working
  <2>1. /\ pc' = pc /\ msg' = msg /\ attempts' = attempts /\ ctxDone'[w] = TRUE /\ ~ctxDone[w]
        /\ UNCHANGED <<status, retries, failures>> /\ Lost' = Lost + 1
    BY <1>2, <1>3, <1>7 DEF Signal, storeVars
  <2>2. pc[w] \in Processing
    BY <1>7 DEF Processing
  <2>3. \A i : i = j =>
          /\ status[i] # Absent /\ failures[i] \in Nat /\ retries[i] \in Nat
          /\ Allowed(i) \in Nat
    BY <2>2, OwnJob
  <2> HIDE DEF Lost, Unspent, Allowed, j, Finished
  <2>4. j = JobOf(w)
    BY DEF j
  <2> QED BY <1>3, <1>7, <2>1, <2>2, <2>3, <2>4, CallBefore, CallCounts
<1>8. CASE GetJob(w) /\ pc'[w] = "setRunning"
  <2>1. /\ pc[w] = "fetch" /\ ~ctxDone[w] /\ ctxDone' = ctxDone /\ msg' = msg
        /\ UNCHANGED <<status, retries, failures>> /\ status[j] \notin Finished
        /\ attempts'[w] = retries[j]
    BY <1>2, <1>8 DEF GetJob, CallWorks, Goto, Return, storeVars, localVars
  <2>2. pc[w] \in Processing
    BY <2>1 DEF Processing
  <2>3. \A i : i = j =>
          /\ status[i] # Absent /\ failures[i] \in Nat /\ retries[i] \in Nat
          /\ Allowed(i) \in Nat
    BY <2>2, OwnJob
  <2> HIDE DEF Lost, Unspent, Allowed, j, Finished
  <2>4. j = JobOf(w)
    BY DEF j
  <2> QED BY <1>3, <1>8, <2>1, <2>2, <2>3, <2>4, CallBefore, CallCounts
<1>9. CASE RunHandler(w)
  <2>1. /\ pc[w] = "handle" /\ ctxDone' = ctxDone /\ msg' = msg /\ attempts' = attempts
        /\ UNCHANGED <<status, retries>>
        /\ \/ pc'[w] = "setCompleted" /\ failures' = failures
           \/ /\ pc'[w] = "increment" /\ failures'[j] = failures[j] + 1
              /\ \A i \in Jobs \ {j} : failures'[i] = failures[i]
    <3>1. j \in Jobs
      BY <1>1, <1>9, EntryNamesJob DEF RunHandler, TypeOK, Processing
    <3> QED BY <1>2, <1>9, <3>1 DEF RunHandler, Goto, storeVars
  <2>2. pc[w] \in Processing
    BY <2>1 DEF Processing
  <2>3. \A i : i = j =>
          /\ i \in Jobs /\ status[i] # Absent /\ failures[i] \in Nat /\ retries[i] \in Nat
          /\ Allowed(i) \in Nat
    BY <2>2, OwnJob
  <2> HIDE DEF Lost, Unspent, Allowed, j, Finished
  <2>4. j = JobOf(w)
    BY DEF j
  <2> QED BY <1>2, <1>3, <2>1, <2>2, <2>3, <2>4, CallBefore, CallCounts
<1>10. CASE CountFailure(w)
  <2>1. /\ pc[w] = "increment" /\ ctxDone' = ctxDone /\ msg' = msg
        /\ UNCHANGED <<status, failures>> /\ attempts'[w] = attempts[w] + 1
        /\ pc'[w] = IF attempts[w] + 1 >= maxRetries[j] THEN "setFailed" ELSE "setRetrying"
        /\ \/ ~ctxDone[w] /\ retries'[j] = retries[j] + 1
           \/ (ctxDone[w] \/ Fault("db")) /\ retries'[j] = retries[j]
        /\ \A i \in Jobs \ {j} : retries'[i] = retries[i]
    <3>1. j \in Jobs
      BY <1>1, <1>10, EntryNamesJob DEF CountFailure, TypeOK, Processing
    <3> QED BY <1>2, <1>10, <3>1
            DEF CountFailure, CallWorks, CallFails, IncrementJobRetry, Goto, storeVars
  <2>2. pc[w] \in Processing
    BY <2>1 DEF Processing
  <2>3. \A i : i = j =>
          /\ status[i] # Absent /\ failures[i] \in Nat /\ retries[i] \in Nat
          /\ Allowed(i) \in Nat /\ maxRetries[i] \in Int /\ attempts[w] \in Nat
          /\ maxRetries[i] > 1 => Allowed(i) = maxRetries[i]
    BY <2>2, OwnJob
  <2> HIDE DEF Lost, Unspent, Allowed, j, Finished
  <2>4. j = JobOf(w)
    BY DEF j
  <2> QED BY <1>2, <1>3, <2>1, <2>2, <2>3, <2>4, CallBefore, CallCounts
<1>11. ASSUME NEW s \in {"RUNNING", "FAILED", "RETRYING", "COMPLETED"}, WriteState(w, s),
              UNCHANGED <<ctxDone, failures>>, pc[w] \in Working,
              s = "RUNNING" => /\ pc[w] = "setRunning" /\ pc'[w] \in {"handle", "setFailed"}
                               /\ msg' = msg /\ attempts' = attempts,
              s = "FAILED" => pc[w] = "setFailed" /\ pc'[w] \notin Working,
              s = "RETRYING" => pc[w] = "setRetrying" /\ pc'[w] \notin Working,
              s = "COMPLETED" => pc[w] = "setCompleted" /\ pc'[w] \notin Working
       PROVE  AllCount'
  <2>1. pc[w] \in Processing
    BY <1>11 DEF Processing
  <2>2. /\ retries' = retries
        /\ \/ ~ctxDone[w] /\ status'[j] = s
           \/ (ctxDone[w] \/ Fault("db")) /\ status'[j] = status[j]
        /\ \A i \in Jobs \ {j} : status'[i] = status[i]
    <3>1. j \in Jobs
      BY <1>1, <2>1, EntryNamesJob DEF TypeOK
    <3> QED BY <1>2, <1>11, <3>1 DEF WriteState, CallWorks, CallFails, UpdateJobState, storeVars
  <2>3. \A i : i = j =>
          /\ status[i] # Absent /\ failures[i] \in Nat /\ retries[i] \in Nat
          /\ Allowed(i) \in Nat
    BY <2>1, OwnJob
  <2> HIDE DEF Lost, Unspent, Allowed, j, Finished
  <2>4. j = JobOf(w)
    BY DEF j
  <2> QED BY <1>2, <1>3, <1>4, <1>5, <1>11, <2>1, <2>2, <2>3, <2>4, CallBefore, CallCounts
<1>12. CASE MarkRunning(w)
  <2>1. /\ WriteState(w, "RUNNING") /\ UNCHANGED <<ctxDone, failures, msg, attempts>>
        /\ pc[w] = "setRunning" /\ pc'[w] \in {"handle", "setFailed"}
    BY <1>2, <1>12 DEF MarkRunning, Goto, localVars
  <2> QED BY <1>11, <2>1
<1>13. CASE MarkFailed(w) \/ MarkRetrying(w) \/ MarkCompleted(w)
  BY <1>2, <1>11, <1>13 DEF MarkFailed, MarkRetrying, MarkCompleted, Return, Goto, localVars
<1> QED BY <1>6, <1>7, <1>8, <1>9, <1>10, <1>12, <1>13
-----------------------------------------------------------------------------
\* Submissions, time and Redis.

LEMMA OwedStays ==
    ASSUME TypeOK, UNCHANGED workerVars,
           \A e \in 1..Len(stream) : stream'[e] = stream[e],
           NEW j, NEW P, P \subseteq Processing
    PROVE  Owed(j, P)' = Owed(j, P)
<1>1. \A w \in Workers : pc[w] \in P => msg[w] \in 1..Len(stream)
  BY EntryNamesJob DEF TypeOK
<1>2. \A w \in Workers : pc[w] \in P => JobOf(w)' = JobOf(w)
  BY <1>1 DEF JobOf, workerVars
<1>3. pc' = pc /\ ctxDone' = ctxDone
  BY DEF workerVars
<1> HIDE DEF JobOf
<1> QED BY <1>2, <1>3 DEF Owed

LEMMA EnvironmentCounts ==
    ASSUME SoloInv, [Next]_vars, Solo', UNCHANGED workerVars,
           \A e \in 1..Len(stream) : stream'[e] = stream[e],
           \/ UNCHANGED storeVars
           \/ \E i \in Jobs, t \in Types, m \in Int : CreateJob(i, t, m)
    PROVE  AllCount'
<1>1. TypeOK /\ WithinBudget /\ EntriesHaveRows
  BY DEF SoloInv, HoldInv, VerdictInv
<1>2. Lost \in Nat /\ Lost' \in Nat /\ Lost <= Lost' /\ (Unspent("db")' => Unspent("db"))
  BY <1>1, LostGrows, SoloBefore
<1>3. failures' = failures /\ pc' = pc /\ attempts' = attempts /\ ctxDone' = ctxDone
  BY DEF workerVars
<1>4. \A i \in Jobs : \/ status'[i] = status[i] /\ retries'[i] = retries[i] /\ maxRetries'[i] = maxRetries[i]
                      \/ status[i] = Absent /\ status'[i] = "PENDING" /\ retries'[i] = 0
  BY <1>1 DEF storeVars, CreateJob, TypeOK, StoreTypeOK
<1>5. \A i \in Jobs : /\ failures[i] \in Nat /\ retries[i] \in Nat /\ maxRetries[i] \in Int
                      /\ maxRetries'[i] \in Int
  BY <1>1, StepType DEF TypeOK, StoreTypeOK, WorkersTypeOK
<1>6. ASSUME NEW i \in Jobs PROVE JobCounts(i)'
  <2>1. /\ Owed(i, {"increment"})' = Owed(i, {"increment"})
        /\ Owed(i, {"increment", "setFailed"})' = Owed(i, {"increment", "setFailed"})
    BY <1>1, OwedStays DEF Processing
  <2>2. /\ Owed(i, {"increment"}) \in Nat /\ Owed(i, {"increment", "setFailed"}) \in Nat
        /\ JobCounts(i)
    BY SoloBefore DEF Owed
  <2>3. /\ Allowed(i) \in Nat /\ Allowed(i)' \in Nat /\ Allowed(i)' > 0
        /\ maxRetries'[i] = maxRetries[i] => Allowed(i)' = Allowed(i)
    BY <1>5 DEF Allowed
  <2>4. "PENDING" \notin Finished /\ "PENDING" # Absent /\ "PENDING" # "RETRYING"
        /\ Absent \notin Finished
    BY DEF Finished, Absent
  <2> HIDE DEF Owed, Lost, Unspent, Allowed, Finished
  <2>5. CASE /\ status'[i] = status[i] /\ retries'[i] = retries[i]
             /\ maxRetries'[i] = maxRetries[i]
    BY <1>2, <1>3, <1>5, <2>1, <2>2, <2>3, <2>5 DEF JobCounts
  <2>6. CASE status[i] = Absent /\ status'[i] = "PENDING" /\ retries'[i] = 0
    BY <1>2, <1>3, <2>1, <2>2, <2>3, <2>4, <2>6 DEF JobCounts
  <2> QED BY <1>4, <2>5, <2>6
<1>7. ASSUME NEW w \in Workers PROVE WorkerCounts(w)'
  <2> SUFFICES ASSUME pc[w] \in Working PROVE WorkerCounts(w)'
    BY <1>3 DEF WorkerCounts
  <2>1. msg[w] \in 1..Len(stream) /\ JobOf(w) \in Jobs
    BY <1>1, EntryNamesJob DEF TypeOK, Working, Copying, Processing
  <2>2. JobOf(w)' = JobOf(w) /\ status[JobOf(w)] # Absent
    BY <1>1, <2>1 DEF JobOf, workerVars, EntriesHaveRows
  <2>3. WorkerCounts(w)
    BY SoloBefore
  <2>4. /\ status'[JobOf(w)] = status[JobOf(w)] /\ retries'[JobOf(w)] = retries[JobOf(w)]
        /\ maxRetries'[JobOf(w)] = maxRetries[JobOf(w)]
        /\ failures[JobOf(w)] \in Nat /\ retries[JobOf(w)] \in Nat /\ maxRetries[JobOf(w)] \in Int
    BY <1>4, <1>5, <2>1, <2>2
  <2> HIDE DEF Lost, Unspent, JobOf
  <2> QED BY <1>2, <1>3, <2>2, <2>3, <2>4 DEF WorkerCounts, Allowed
<1> HIDE DEF JobCounts, WorkerCounts
<1> QED BY <1>6, <1>7 DEF AllCount

LEMMA SoloStep == SoloInv /\ [Next]_vars => SoloInv'
<1> SUFFICES ASSUME SoloInv, [Next]_vars PROVE SoloInv'
  OBVIOUS
<1>1. VerdictInv' /\ HoldInv' /\ TypeOK
  BY StepVerdict, StepHolds DEF SoloInv, HoldInv
<1>2. ASSUME Solo' PROVE AllCount'
  <2>1. CASE Work
    <3>1. PICK w \in Workers : WorkerStep(w)
      BY <2>1 DEF Work, WorkerNext, WorkerStep
    <3>2. CASE \/ Boot(w) \/ Exit(w) \/ Crash(w) \/ CreateGroup(w) \/ SelectDone(w)
               \/ HandleAbandonedMessages(w) \/ DequeueMessages(w) \/ Ack(w)
               \/ (GetJob(w) /\ pc'[w] # "setRunning")
      BY <1>2, <3>1, <3>2, LeaveSteps
    <3>3. CASE \/ Signal(w) \/ (GetJob(w) /\ pc'[w] = "setRunning")
               \/ MarkRunning(w) \/ RunHandler(w) \/ CountFailure(w)
               \/ MarkFailed(w) \/ MarkRetrying(w) \/ MarkCompleted(w)
      BY <1>2, <3>1, <3>3, CallSteps
    <3>4. CASE GetJob(w)
      BY <3>2, <3>3, <3>4
    <3> QED BY <3>1, <3>2, <3>3, <3>4 DEF WorkerStep, LoopStep
  <2>2. CASE Submission
    <3>1. UNCHANGED workerVars
      BY <2>2 DEF Submission
    <3>2. \A e \in 1..Len(stream) : stream'[e] = stream[e]
      <4>1. stream' = stream \/ \E j \in Jobs : stream' = Append(stream, j)
        BY <2>2 DEF Submission, ApiNext, HandleCreateJob, Enqueue, AbortRequest, XAdd, streamVars
      <4> QED BY <1>1, <4>1 DEF TypeOK, StreamTypeOK
    <3>3. \/ UNCHANGED storeVars
          \/ \E i \in Jobs, t \in Types, m \in RequestedRetries :
                CreateJob(i, t, EffectiveRetries(m))
      BY <2>2 DEF Submission, ApiNext, HandleCreateJob, Enqueue, AbortRequest
    <3>4. CASE UNCHANGED storeVars
      BY <1>2, <3>1, <3>2, <3>4, EnvironmentCounts
    <3>5. ASSUME NEW i \in Jobs, NEW t \in Types, NEW m \in RequestedRetries,
                 CreateJob(i, t, EffectiveRetries(m))
          PROVE  AllCount'
      <4>1. EffectiveRetries(m) \in Int
        BY RetriesAssumption DEF EffectiveRetries, DefaultRetries
      <4>2. \E l \in Jobs, u \in Types, n \in Int : CreateJob(l, u, n)
        BY <3>5, <4>1
      <4> QED BY <1>2, <3>1, <3>2, <4>2, EnvironmentCounts
    <3> QED BY <3>3, <3>4, <3>5
  <2>3. CASE (\E e \in pel : Age(e)) \/ RedisRestart \/ UNCHANGED vars
    <3>1. UNCHANGED <<workerVars, storeVars, stream>>
      BY <2>3 DEF Age, GrowIdle, RedisRestart, LoseData, vars, streamVars
    <3>2. \A e \in 1..Len(stream) : stream'[e] = stream[e]
      BY <3>1
    <3> QED BY <1>2, <3>1, <3>2, EnvironmentCounts
  <2> QED BY <2>1, <2>2, <2>3 DEF Next
<1> HIDE DEF Solo, JobCounts, WorkerCounts
<1> QED BY <1>1, <1>2 DEF SoloInv, AllCount

LEMMA SoloInit == Init => SoloInv
<1> SUFFICES ASSUME Init PROVE SoloInv
  OBVIOUS
<1>1. VerdictInv /\ HoldInv
  BY InitVerdict, InitHolds
<1>2. /\ \A j \in Jobs : status[j] = Absent /\ failures[j] = 0 /\ retries[j] = 0 /\ maxRetries[j] = 0
      /\ \A w \in Workers : pc[w] = "down"
  BY DEF Init, StoreInit, WorkersInit
<1>3. \A k \in FaultKind : Spent(k) = 0
  BY BudgetAssumption DEF Init, FaultsInit, Spent
<1>4. Lost = 0
  BY <1>3 DEF Lost, FaultKind
<1>5. \A j \in Jobs : JobCounts(j)
  <2> SUFFICES ASSUME NEW j \in Jobs PROVE JobCounts(j)
    OBVIOUS
  <2>1. Owed(j, {"increment"}) = 0 /\ Owed(j, {"increment", "setFailed"}) = 0
    BY <1>2 DEF Owed
  <2> QED BY <1>2, <1>4, <2>1 DEF JobCounts, Allowed, Absent
<1>6. \A w \in Workers : WorkerCounts(w)
  BY <1>2 DEF WorkerCounts, Working, Copying
<1> QED BY <1>1, <1>5, <1>6 DEF SoloInv

LEMMA SoloAlways == Spec => []SoloInv
BY SoloInit, SoloStep, PTL DEF Spec

\* A job is executed at most max_retries times, plus once for each crash,
\* shutdown or failed write, for any number of workers, while none shares it.
THEOREM ExecutionsAreBounded == Spec => []RetryLimit
<1>1. SoloInv => RetryLimit
  <2> SUFFICES ASSUME SoloInv, Solo, NEW j \in Jobs
               PROVE  failures[j] <= Allowed(j) + Spent("crash") + Spent("sigterm") + Spent("db")
    BY DEF RetryLimit, Solo
  <2>1. failures[j] <= Allowed(j) + Lost
    BY DEF SoloInv, JobCounts
  <2>2. Allowed(j) \in Int /\ \A k \in FaultKind : Spent(k) \in Int
    BY BudgetAssumption DEF SoloInv, HoldInv, TypeOK, StoreTypeOK, FaultsTypeOK, Allowed, Spent
  <2>3. {"crash", "sigterm", "db"} \subseteq FaultKind
    BY DEF FaultKind
  <2> HIDE DEF Allowed, Spent
  <2> QED BY <2>1, <2>2, <2>3 DEF Lost
<1> QED BY <1>1, SoloAlways, PTL

\* RETRYING is true of the row: a job left for another attempt has one left,
\* although the worker decided on its copy, while no worker shares the job and
\* no write has failed.
THEOREM RetryingIsTrue == Spec => []RetryingHasRetriesLeft
<1>1. SoloInv => RetryingHasRetriesLeft
  BY DEF SoloInv, Solo, JobCounts, RetryingHasRetriesLeft
<1> QED BY <1>1, SoloAlways, PTL

\* retries_attempted counts the executions that failed: never one too many,
\* for any number of workers on the job; and, while none shares it, none is
\* missing but those about to be counted and those a crash, a shutdown or a
\* failed write has cost.
THEOREM CountsAreTrue == Spec => []FailuresAreCounted
<1>1. ASSUME SoloInv, NEW j \in Jobs
      PROVE  /\ retries[j] + Cardinality(Uncounted(j)) <= failures[j]
             /\ Solo => failures[j] <= retries[j] + Cardinality(Uncounted(j)) + Lost
  <2>1. /\ retries[j] + Cardinality(Uncounted(j)) <= failures[j]
        /\ retries[j] \in Nat /\ failures[j] \in Nat
    BY <1>1 DEF SoloInv, VerdictInv, FailuresCounted, TypeOK, StoreTypeOK, WorkersTypeOK
  <2>2. Solo => failures[j] <= retries[j] + Lost + Owed(j, {"increment"})
    BY <1>1 DEF SoloInv, JobCounts
  <2>3. Owed(j, {"increment"}) <= Cardinality(Uncounted(j))
    <3>1. IsFiniteSet(Uncounted(j)) /\ Cardinality(Uncounted(j)) \in Nat
      BY UncountedFinite
    <3>2. CASE Uncounted(j) = {}
      BY <3>1, <3>2 DEF Owed, Uncounted
    <3>3. CASE Uncounted(j) # {}
      <4>1. Cardinality(Uncounted(j)) # 0
        BY <3>1, <3>3, FS_EmptySet
      <4> QED BY <3>1, <4>1 DEF Owed
    <3> QED BY <3>2, <3>3
  <2>4. Lost \in Nat /\ Cardinality(Uncounted(j)) \in Nat /\ Owed(j, {"increment"}) \in Nat
    BY <1>1, LostIsNat, UncountedFinite DEF Owed
  <2> HIDE DEF Lost, Owed, Uncounted
  <2> QED BY <2>1, <2>2, <2>3, <2>4
<1>2. SoloInv => FailuresAreCounted
  <2> SUFFICES ASSUME SoloInv, NEW j \in Jobs
               PROVE  LET counted == retries[j] + Cardinality(Uncounted(j))
                      IN  /\ counted <= failures[j]
                          /\ Solo => failures[j] <= counted
                                        + Spent("crash") + Spent("sigterm") + Spent("db")
    BY DEF FailuresAreCounted, Solo
  <2>1. /\ retries[j] \in Nat /\ Cardinality(Uncounted(j)) \in Nat
        /\ \A k \in {"crash", "sigterm", "db"} : Spent(k) \in Nat
    BY LostIsNat, UncountedFinite DEF SoloInv, HoldInv, TypeOK, StoreTypeOK
  <2> HIDE DEF Uncounted, Solo, Spent
  <2> QED BY <1>1, <2>1 DEF Lost
<1> QED BY <1>2, SoloAlways, PTL

\* No step changes the outcome of a finished job while no entry is duplicated
\* and none is claimed from a live worker: the worker that is about to write
\* has the job to itself since its guard saw it unfinished.
THEOREM OutcomesStay == Spec => OutcomesAreFinal
<1>1. ASSUME SoloInv, [Next]_vars, Solo', NEW j \in Jobs, status[j] \in Finished
      PROVE  status'[j] = status[j]
  <2>1. TypeOK /\ (\A w \in Workers : WorkerCounts(w))
    BY <1>1, SoloBefore DEF SoloInv, HoldInv
  <2>2. CASE Work
    <3>1. PICK w \in Workers : WorkerStep(w)
      BY <2>2 DEF Work, WorkerNext, WorkerStep
    <3>2. pc[w] \in Working => JobOf(w) # j
      BY <1>1, <2>1 DEF WorkerCounts
    <3> QED BY <2>1, <3>1, <3>2, StatusWrites DEF Working, Copying, TypeOK, StoreTypeOK
  <2>3. CASE Submission
    <3>1. \/ UNCHANGED storeVars
          \/ \E i \in Jobs, t \in Types, m \in RequestedRetries :
                CreateJob(i, t, EffectiveRetries(m))
      BY <2>3 DEF Submission, ApiNext, HandleCreateJob, Enqueue, AbortRequest
    <3> QED BY <1>1, <2>1, <3>1
            DEF storeVars, CreateJob, Finished, Absent, TypeOK, StoreTypeOK
  <2>4. CASE ~Work /\ ~Submission
    BY <1>1, <2>4 DEF Next, Age, RedisRestart, vars, storeVars
  <2> QED BY <2>2, <2>3, <2>4
<1>2. SoloInv /\ [Next]_vars =>
        [Unspent("dup")' /\ Unspent("late")' =>
            \A j \in Jobs : status[j] \in Finished => status'[j] = status[j]]_vars
  BY <1>1 DEF Solo
<1> QED BY <1>2, SoloAlways, PTL DEF Spec, OutcomesAreFinal
-----------------------------------------------------------------------------
(***************************************************************************)
(* The life cycle.  SoloInv says that a worker writes to an unfinished     *)
(* row; what it writes is justified by what its program counter remembers. *)
(***************************************************************************)

Earned(w) ==
    /\ pc[w] \in {"handle", "increment", "setCompleted"} => jobType[JobOf(w)] \in HandledTypes
    /\ pc[w] = "setFailed" => jobType[JobOf(w)] \notin HandledTypes \/ failures[JobOf(w)] > 0
    /\ pc[w] = "setRetrying" => failures[JobOf(w)] > 0 /\ maxRetries[JobOf(w)] > 1

AllEarned == \A w \in Workers : Earned(w)

Judging == {"handle", "increment", "setCompleted", "setFailed", "setRetrying"}

\* Only three of a worker's steps lead to a call that Earned speaks of.
LEMMA JudgingSteps ==
    ASSUME TypeOK, NEW w \in Workers, WorkerStep(w)
    PROVE  \/ pc'[w] \notin Judging
           \/ Signal(w) \/ MarkRunning(w) \/ RunHandler(w) \/ CountFailure(w)
<1> USE DEF TypeOK, WorkersTypeOK, Goto, Judging
<1>1. CASE Boot(w) \/ Exit(w) \/ Crash(w)
  BY <1>1 DEF Boot, Exit, Crash, Die
<1>2. CASE CreateGroup(w) \/ SelectDone(w)
  BY <1>2 DEF CreateGroup, SelectDone
<1>3. CASE HandleAbandonedMessages(w) \/ DequeueMessages(w)
  BY <1>3 DEF HandleAbandonedMessages, DequeueMessages, Process
<1>4. CASE MarkFailed(w) \/ MarkCompleted(w)
  BY <1>4 DEF MarkFailed, MarkCompleted
<1>5. CASE MarkRetrying(w) \/ Ack(w) \/ GetJob(w)
  BY <1>5 DEF MarkRetrying, Ack, GetJob, Return
<1> QED BY <1>1, <1>2, <1>3, <1>4, <1>5 DEF WorkerStep, LoopStep

LEMMA OwnEarned ==
    ASSUME VerdictInv, AllEarned, NEW w \in Workers, WorkerStep(w)
    PROVE  Earned(w)'
<1> DEFINE j == JobOf(w)
<1>1. TypeOK /\ Earned(w) /\ CopyLags(w)
  BY DEF VerdictInv, AllEarned
<1>2. stream' = stream /\ maxRetries' = maxRetries /\ jobType' = jobType
  BY <1>1, WorkerFrame
<1>3. CASE pc'[w] \notin Judging
  BY <1>3 DEF Earned, Judging
<1>4. CASE Signal(w)
  BY <1>1, <1>2, <1>4 DEF Signal, Earned, JobOf
<1>5. CASE MarkRunning(w)
  <2>1. /\ msg' = msg
        /\ pc'[w] = IF jobType[j] \in HandledTypes THEN "handle" ELSE "setFailed"
    BY <1>1, <1>5 DEF MarkRunning, Goto, localVars, TypeOK, WorkersTypeOK
  <2> QED BY <1>2, <2>1 DEF Earned, JobOf
<1>6. CASE RunHandler(w)
  <2>1. /\ msg' = msg /\ pc'[w] \in {"setCompleted", "increment"}
        /\ jobType[j] \in HandledTypes
    BY <1>1, <1>6 DEF RunHandler, Goto, Earned, TypeOK, WorkersTypeOK
  <2> QED BY <1>2, <2>1 DEF Earned, JobOf
<1>7. CASE CountFailure(w)
  <2>1. j \in Jobs
    BY <1>1, <1>7, EntryNamesJob DEF CountFailure, Processing, TypeOK
  <2>2. /\ msg' = msg /\ failures' = failures /\ attempts[w] < failures[j]
        /\ \/ pc'[w] = "setFailed"
           \/ pc'[w] = "setRetrying" /\ ~(attempts[w] + 1 >= maxRetries[j])
    BY <1>1, <1>7 DEF CountFailure, Goto, CopyLags, TypeOK, WorkersTypeOK
  <2>3. attempts[w] \in Nat /\ failures[j] \in Nat /\ maxRetries[j] \in Int
    BY <1>1, <2>1 DEF TypeOK, StoreTypeOK, WorkersTypeOK
  <2>4. failures[j] > 0 /\ (pc'[w] = "setRetrying" => maxRetries[j] > 1)
    BY <2>2, <2>3
  <2> QED BY <1>2, <2>2, <2>4 DEF Earned, JobOf
<1> QED BY <1>1, <1>3, <1>4, <1>5, <1>6, <1>7, JudgingSteps

LEMMA OthersEarned ==
    ASSUME VerdictInv, AllEarned, NEW w \in Workers, WorkerStep(w), NEW v \in Workers \ {w}
    PROVE  Earned(v)'
<1>1. TypeOK /\ Earned(v)
  BY DEF VerdictInv, AllEarned
<1>2. /\ pc'[v] = pc[v] /\ JobOf(v)' = JobOf(v)
      /\ maxRetries' = maxRetries /\ jobType' = jobType
  BY <1>1, WorkerFrame DEF JobOf
<1>3. CASE pc[v] \in Judging
  <2>1. JobOf(v) \in Jobs
    BY <1>1, <1>3, EntryNamesJob DEF Judging, Processing, TypeOK
  <2>2. /\ failures'[JobOf(v)] >= failures[JobOf(v)]
        /\ failures[JobOf(v)] \in Nat /\ failures'[JobOf(v)] \in Nat
    BY <1>1, <2>1, FailuresGrow DEF TypeOK, WorkersTypeOK
  <2> QED BY <1>1, <1>2, <2>2 DEF Earned
<1>4. CASE pc[v] \notin Judging
  BY <1>2, <1>4 DEF Earned, Judging
<1> QED BY <1>3, <1>4

\* Requests, time and Redis leave the rows of entries as they are.
LEMMA EnvironmentEarned ==
    ASSUME VerdictInv, AllEarned, [Next]_vars, ~Work
    PROVE  AllEarned'
<1>1. TypeOK /\ EntriesHaveRows
  BY DEF VerdictInv
<1>2. UNCHANGED workerVars
  BY DEF Next, Submission, Age, RedisRestart, vars
<1>3. \A e \in 1..Len(stream) : stream'[e] = stream[e]
  <2>1. stream' = stream \/ \E j \in Jobs : stream' = Append(stream, j)
    BY DEF Next, Submission, ApiNext, HandleCreateJob, Enqueue, AbortRequest, XAdd,
           Age, GrowIdle, RedisRestart, LoseData, vars, streamVars
  <2> QED BY <1>1, <2>1 DEF TypeOK, StreamTypeOK
<1>4. \A i \in Jobs : status[i] # Absent =>
          maxRetries'[i] = maxRetries[i] /\ jobType'[i] = jobType[i]
  <2>1. \/ UNCHANGED storeVars
        \/ \E i \in Jobs, t \in Types, m \in RequestedRetries :
              CreateJob(i, t, EffectiveRetries(m))
    BY DEF Next, Submission, ApiNext, HandleCreateJob, Enqueue, AbortRequest,
           Age, RedisRestart, vars
  <2> QED BY <1>1, <2>1 DEF storeVars, CreateJob, TypeOK, StoreTypeOK
<1> SUFFICES ASSUME NEW w \in Workers, pc[w] \in Judging PROVE Earned(w)'
  BY <1>2 DEF AllEarned, Earned, Judging, workerVars
<1>5. msg[w] \in 1..Len(stream) /\ JobOf(w) \in Jobs
  BY <1>1, EntryNamesJob DEF TypeOK, Judging, Processing
<1>6. JobOf(w)' = JobOf(w) /\ status[JobOf(w)] # Absent
  BY <1>1, <1>2, <1>3, <1>5 DEF JobOf, workerVars, EntriesHaveRows
<1> QED BY <1>2, <1>4, <1>5, <1>6 DEF Earned, AllEarned, workerVars

LEMMA EarnedStep == VerdictInv /\ AllEarned /\ [Next]_vars => AllEarned'
<1> SUFFICES ASSUME VerdictInv, AllEarned, [Next]_vars PROVE AllEarned'
  OBVIOUS
<1>1. CASE Work
  <2>1. PICK w \in Workers : WorkerStep(w)
    BY <1>1 DEF Work, WorkerNext, WorkerStep
  <2> QED BY <2>1, OwnEarned, OthersEarned DEF AllEarned
<1> QED BY <1>1, EnvironmentEarned

\* Whatever a worker writes, at the call it writes it.
LEMMA WorkKeepsLifecycle ==
    ASSUME SoloInv, AllEarned, Solo, NEW w \in Workers, WorkerStep(w)
    PROVE  Lifecycle!Next \/ UNCHANGED Lifecycle!vars
<1> DEFINE j == JobOf(w)
<1>1. TypeOK /\ EntriesHaveRows /\ VerdictEarned(w) /\ Earned(w) /\ WorkerCounts(w)
  BY DEF SoloInv, VerdictInv, AllEarned
<1>2. ASSUME pc[w] \in Working
      PROVE  j \in Jobs /\ status[j] \in Lifecycle!Unfinished
  <2>1. j \in Jobs /\ msg[w] \in 1..Len(stream)
    BY <1>1, <1>2, EntryNamesJob DEF Working, Copying, Processing, TypeOK
  <2>2. status[j] # Absent /\ status[j] \notin Finished
    BY <1>1, <1>2, <2>1 DEF EntriesHaveRows, WorkerCounts, JobOf
  <2> QED BY <1>1, <2>1, <2>2 DEF TypeOK, StoreTypeOK, Status, Finished, Lifecycle!Unfinished
<1> USE DEF Lifecycle!Next, Lifecycle!vars, Lifecycle!request, Lifecycle!SetStatus
<1>3. CASE \/ Boot(w) \/ Signal(w) \/ Exit(w) \/ Crash(w) \/ CreateGroup(w) \/ SelectDone(w)
           \/ HandleAbandonedMessages(w) \/ DequeueMessages(w) \/ GetJob(w)
           \/ CountFailure(w) \/ Ack(w)
  BY <1>3 DEF Boot, Signal, Exit, Crash, Die, CreateGroup, SelectDone,
       HandleAbandonedMessages, DequeueMessages, Process, GetJob, CountFailure,
       IncrementJobRetry, Ack, Return, localVars, storeVars
<1>4. ASSUME NEW s, WriteState(w, s), UNCHANGED failures
      PROVE  \/ UNCHANGED Lifecycle!vars
             \/ /\ status' = [status EXCEPT ![j] = s]
                /\ UNCHANGED <<maxRetries, jobType, failures>>
  BY <1>4 DEF WriteState, UpdateJobState, storeVars
<1>5. CASE MarkRunning(w)
  <2>1. pc[w] \in Working /\ WriteState(w, "RUNNING") /\ UNCHANGED failures
    BY <1>5 DEF MarkRunning, Working, Copying, localVars
  <2> QED BY <1>2, <1>4, <2>1 DEF Lifecycle!Begin
<1>6. CASE RunHandler(w)
  <2>1. pc[w] \in Working /\ jobType[j] \in HandledTypes
    BY <1>1, <1>6 DEF RunHandler, Working, Copying, Earned
  <2> QED BY <1>2, <1>6, <2>1 DEF RunHandler, storeVars, Lifecycle!Fail
<1>7. CASE MarkCompleted(w)
  <2>1. /\ pc[w] \in Working /\ jobType[j] \in HandledTypes
        /\ WriteState(w, "COMPLETED") /\ UNCHANGED failures
    BY <1>1, <1>7 DEF MarkCompleted, Working, Earned, localVars
  <2> QED BY <1>2, <1>4, <2>1 DEF Lifecycle!Complete
<1>8. CASE MarkRetrying(w)
  <2>1. /\ pc[w] \in Working /\ failures[j] > 0 /\ maxRetries[j] > 1
        /\ WriteState(w, "RETRYING") /\ UNCHANGED failures
    BY <1>1, <1>8 DEF MarkRetrying, Return, Working, Earned
  <2> QED BY <1>2, <1>4, <2>1 DEF Lifecycle!Defer
<1>9. CASE MarkFailed(w)
  <2>1. /\ pc[w] \in Working
        /\ \/ jobType[j] \notin HandledTypes
           \/ failures[j] > 0 /\ failures[j] >= maxRetries[j]
        /\ WriteState(w, "FAILED") /\ UNCHANGED failures
    BY <1>1, <1>9 DEF MarkFailed, Working, Earned, VerdictEarned, localVars
  <2> QED BY <1>2, <1>4, <2>1 DEF Lifecycle!GiveUp
<1> QED BY <1>3, <1>5, <1>6, <1>7, <1>8, <1>9 DEF WorkerStep, LoopStep

LEMMA SubmissionKeepsLifecycle ==
    ASSUME Submission
    PROVE  Lifecycle!Next \/ UNCHANGED Lifecycle!vars
<1>1. failures' = failures
  BY DEF Submission, workerVars
<1>2. \/ UNCHANGED storeVars
      \/ \E j \in Jobs, t \in Types, m \in RequestedRetries :
            CreateJob(j, t, EffectiveRetries(m))
  BY DEF Submission, ApiNext, HandleCreateJob, Enqueue, AbortRequest
<1>3. ASSUME NEW j \in Jobs, NEW t \in Types, NEW m \in RequestedRetries,
             CreateJob(j, t, EffectiveRetries(m))
      PROVE  Lifecycle!Submit(j)
  BY <1>1, <1>3 DEF CreateJob, Absent, Lifecycle!Submit
<1> QED BY <1>1, <1>2, <1>3 DEF storeVars, Lifecycle!Next, Lifecycle!vars

\* The queue implements the life cycle its owner is promised until an entry is
\* duplicated or claimed from a live worker, through any crashes, shutdowns,
\* failed calls and losses of Redis.
THEOREM LifecycleIsKept == Spec => ImplementsLifecycle
<1>1. Init => Lifecycle!Init
  BY DEF Init, StoreInit, WorkersInit, Lifecycle!Init, Absent, NoType
<1>2. Init => AllEarned
  BY DEF Init, WorkersInit, AllEarned, Earned
<1>3. SoloInv /\ AllEarned /\ [Next]_vars => [Solo' => [Lifecycle!Next]_(Lifecycle!vars)]_vars
  <2> SUFFICES ASSUME SoloInv, AllEarned, [Next]_vars, Solo'
               PROVE  Lifecycle!Next \/ UNCHANGED Lifecycle!vars
    OBVIOUS
  <2>1. CASE Work
    <3>1. PICK w \in Workers : WorkerStep(w)
      BY <2>1 DEF Work, WorkerNext, WorkerStep
    <3> QED BY <3>1, SoloBefore, WorkKeepsLifecycle
  <2>2. CASE ~Work /\ ~Submission
    BY <2>2 DEF Next, Age, RedisRestart, vars, storeVars, workerVars, Lifecycle!vars
  <2> QED BY <2>1, <2>2, SubmissionKeepsLifecycle
<1>4. SoloInv => VerdictInv
  BY DEF SoloInv
<1> QED BY <1>1, <1>2, <1>3, <1>4, SoloAlways, EarnedStep, PTL
        DEF Spec, ImplementsLifecycle
=============================================================================
