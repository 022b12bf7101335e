----------------------------- MODULE MDQProofs -----------------------------
(***************************************************************************)
(* Theorems about MDQ for every set of jobs, job types and retry limits,   *)
(* every finite set of workers and every budget of faults: types, verdicts *)
(* and entries; then exclusivity and delivery.                             *)
(***************************************************************************)
EXTENDS MDQ, FiniteSetTheorems, TLAPS
-----------------------------------------------------------------------------
\* The operations of the stores keep the stores' types.

LEMMA FaultKeepsType ==
    ASSUME FaultsTypeOK, NEW k \in FaultKind, NoFault \/ Fault(k)
    PROVE  FaultsTypeOK'
BY DEF FaultsTypeOK, NoFault, Fault

LEMMA CreateJobKeepsType ==
    ASSUME StoreTypeOK, NEW j \in Jobs, NEW t \in Types, NEW m \in Int,
           CreateJob(j, t, m)
    PROVE  StoreTypeOK'
BY DEF StoreTypeOK, CreateJob, Status

LEMMA StoreIdle ==
    ASSUME StoreTypeOK, UNCHANGED storeVars
    PROVE  StoreTypeOK'
BY DEF StoreTypeOK, storeVars

LEMMA WriteKeepsType ==
    ASSUME StoreTypeOK, FaultsTypeOK, NEW w \in Workers, NEW s \in Status,
           WriteState(w, s)
    PROVE  StoreTypeOK' /\ FaultsTypeOK'
<1>1. CASE CallWorks(w) /\ UpdateJobState(JobOf(w), s)
  BY <1>1 DEF CallWorks, NoFault, UpdateJobState, StoreTypeOK, FaultsTypeOK
<1>2. CASE CallFails(w, "db") /\ UNCHANGED storeVars
  BY <1>2, StoreIdle, FaultKeepsType DEF CallFails, FaultKind
<1> QED BY <1>1, <1>2 DEF WriteState

LEMMA IncrementKeepsType ==
    ASSUME StoreTypeOK, NEW j \in Jobs, IncrementJobRetry(j)
    PROVE  StoreTypeOK'
BY DEF StoreTypeOK, IncrementJobRetry

LEMMA StreamIdle ==
    ASSUME StreamTypeOK(Jobs), UNCHANGED streamVars
    PROVE  StreamTypeOK(Jobs)' /\ Len(stream)' = Len(stream)
BY DEF StreamTypeOK, streamVars

LEMMA XAddKeepsType ==
    ASSUME StreamTypeOK(Jobs), NEW j \in Jobs, XAdd(j)
    PROVE  StreamTypeOK(Jobs)' /\ Len(stream)' = Len(stream) + 1
<1>1. stream' \in Seq(Jobs) /\ Len(stream') = Len(stream) + 1
  BY DEF StreamTypeOK, XAdd
<1> QED BY <1>1 DEF StreamTypeOK, XAdd

\* Only XADD and a data loss are not among a worker's commands.
LEMMA CommandsKeepStreamType ==
    ASSUME StreamTypeOK(Jobs),
           \/ XGroupCreateMkStream
           \/ XReadGroup
           \/ \E e \in Claimable : XAutoClaim(e)
           \/ \E e \in Nat : XAck(e)
           \/ \E e \in pel : GrowIdle(e)
    PROVE  StreamTypeOK(Jobs)' /\ stream' = stream
<1>1. CASE XGroupCreateMkStream
  BY <1>1 DEF StreamTypeOK, XGroupCreateMkStream
<1>2. CASE XReadGroup
  BY <1>2 DEF StreamTypeOK, XReadGroup, HasNewEntry, NewEntry
<1>3. CASE \E e \in Claimable : XAutoClaim(e)
  <2>1. PICK e \in Claimable : XAutoClaim(e)
    BY <1>3
  <2>2. idle' = idle \ {e} /\ UNCHANGED <<stream, lost, group, delivered, pel>>
    BY <2>1 DEF XAutoClaim
  <2> QED BY <2>2 DEF StreamTypeOK
<1>4. CASE \E e \in Nat : XAck(e)
  BY <1>4 DEF StreamTypeOK, XAck
<1>5. CASE \E e \in pel : GrowIdle(e)
  BY <1>5 DEF StreamTypeOK, GrowIdle
<1> QED BY <1>1, <1>2, <1>3, <1>4, <1>5

LEMMA LoseDataKeepsType ==
    ASSUME StreamTypeOK(Jobs), LoseData
    PROVE  StreamTypeOK(Jobs)' /\ stream' = stream
<1>1. Len(stream) \in Nat
  BY DEF StreamTypeOK
<1>2. /\ stream' = stream /\ lost' = Len(stream) /\ delivered' = Len(stream)
      /\ group' = FALSE /\ pel' = {} /\ idle' = {}
  BY DEF LoseData
<1>3. stream' \in Seq(Jobs) /\ Len(stream') = Len(stream)
  BY <1>2 DEF StreamTypeOK
<1>4. lost' \in 0..delivered' /\ delivered' \in 0..Len(stream')
  BY <1>1, <1>2, <1>3
<1>5. pel' \subseteq (lost' + 1)..delivered' /\ idle' \subseteq pel'
  BY <1>2
<1>6. group' \in BOOLEAN /\ (~group' => delivered' = lost')
  BY <1>2
<1> QED BY <1>2, <1>3, <1>4, <1>5, <1>6 DEF StreamTypeOK
-----------------------------------------------------------------------------
\* The ways a worker's own variables change keep their types.

LEMMA GotoKeepsType ==
    ASSUME WorkersTypeOK, stream' = stream,
           NEW w \in Workers, NEW l \in Outside \cup Processing,
           Goto(w, l), l \in Processing <=> pc[w] \in Processing,
           UNCHANGED <<msg, localVars>>
    PROVE  WorkersTypeOK'
BY DEF WorkersTypeOK, Goto, localVars

LEMMA ProcessKeepsType ==
    ASSUME WorkersTypeOK, StreamTypeOK(Jobs), stream' = stream,
           NEW w \in Workers, NEW e \in 1..Len(stream), NEW b \in BOOLEAN,
           Process(w, e, b)
    PROVE  WorkersTypeOK'
<1>1. pc' = [pc EXCEPT ![w] = "fetch"] /\ "fetch" \in Processing
  BY DEF Process, Goto, Processing
<1> QED BY <1>1 DEF WorkersTypeOK, Process

LEMMA ReturnKeepsType ==
    ASSUME WorkersTypeOK, StreamTypeOK(Jobs), stream' = stream,
           NEW w \in Workers, Return(w)
    PROVE  WorkersTypeOK'
<1>1. PICK l \in {"dequeue", "loop"} : pc' = [pc EXCEPT ![w] = l]
  BY DEF Return, Goto
<1>2. l \in Outside /\ l \notin Processing
  BY DEF Outside, Processing
<1>3. 0 \in 0..Len(stream)
  BY DEF StreamTypeOK
<1> QED BY <1>1, <1>2, <1>3 DEF WorkersTypeOK, Return

LEMMA DieKeepsType ==
    ASSUME WorkersTypeOK, StreamTypeOK(Jobs), stream' = stream,
           NEW w \in Workers, Die(w)
    PROVE  WorkersTypeOK'
<1>1. "down" \in Outside /\ "down" \notin Processing
  BY DEF Outside, Processing
<1>2. 0 \in 0..Len(stream)
  BY DEF StreamTypeOK
<1> QED BY <1>1, <1>2 DEF WorkersTypeOK, Die, Goto

\* Inside processMessage a worker holds an entry, and the entry names a job.
LEMMA EntryNamesJob ==
    ASSUME WorkersTypeOK, StreamTypeOK(Jobs),
           NEW w \in Workers, pc[w] \in Processing
    PROVE  msg[w] \in 1..Len(stream) /\ JobOf(w) \in Jobs
<1>1. msg[w] \in 1..Len(stream)
  BY DEF WorkersTypeOK, StreamTypeOK
<1> QED BY <1>1 DEF StreamTypeOK, JobOf

LEMMA StayKeepsType ==
    ASSUME WorkersTypeOK, StreamTypeOK(Jobs), UNCHANGED workerVars,
           Len(stream) <= Len(stream'), Len(stream') \in Nat
    PROVE  WorkersTypeOK'
BY DEF WorkersTypeOK, workerVars, StreamTypeOK
-----------------------------------------------------------------------------
\* Type correctness.

LEMMA InitType == Init => TypeOK
<1> SUFFICES ASSUME Init PROVE TypeOK
  OBVIOUS
<1>1. StoreTypeOK
  BY DEF Init, StoreInit, StoreTypeOK
<1>2. StreamTypeOK(Jobs)
  <2>1. stream = <<>> /\ stream \in Seq(Jobs) /\ Len(stream) = 0
    BY DEF Init, StreamInit
  <2>2. lost = 0 /\ delivered = 0 /\ group = FALSE /\ pel = {} /\ idle = {}
    BY DEF Init, StreamInit
  <2>3. 0 \in 0..0 /\ {} \subseteq (0 + 1)..0
    OBVIOUS
  <2>4. /\ lost \in 0..delivered /\ delivered \in 0..Len(stream)
        /\ pel \subseteq (lost + 1)..delivered /\ idle \subseteq pel
        /\ group \in BOOLEAN /\ (~group => delivered = lost)
    BY <2>1, <2>2, <2>3
  <2> QED BY <2>1, <2>4 DEF StreamTypeOK
<1>3. FaultsTypeOK
  BY BudgetAssumption DEF Init, FaultsInit, FaultsTypeOK
<1>4. RequestsTypeOK
  BY DEF Init, ApiInit, RequestsTypeOK, ReqState
<1>5. WorkersTypeOK
  <2>1. 0 \in 0..Len(stream)
    BY DEF Init, StreamInit
  <2>2. "down" \in Outside /\ "down" \notin Processing
    BY DEF Outside, Processing
  <2>3. /\ pc = [w \in Workers |-> "down"]
        /\ msg = [w \in Workers |-> 0]
        /\ claimed = [w \in Workers |-> FALSE]
        /\ attempts = [w \in Workers |-> 0]
        /\ ctxDone = [w \in Workers |-> FALSE]
        /\ failures = [j \in Jobs |-> 0]
    BY DEF Init, WorkersInit
  <2> QED BY <2>1, <2>2, <2>3 DEF WorkersTypeOK
<1> QED BY <1>1, <1>2, <1>3, <1>4, <1>5 DEF TypeOK

LEMMA SubmissionType == TypeOK /\ Submission => TypeOK'
<1> SUFFICES ASSUME TypeOK, NEW j \in Jobs, UNCHANGED workerVars,
                    HandleCreateJob(j) \/ Enqueue(j) \/ AbortRequest(j)
             PROVE  TypeOK'
  BY DEF Submission, ApiNext
<1> USE DEF TypeOK
<1>1. Len(stream) \in Nat
  BY DEF StreamTypeOK
<1>2. \A r \in ReqState : Answer(j, r) => RequestsTypeOK'
  BY DEF Answer, RequestsTypeOK
<1>3. {"enqueue", "accepted", "error"} \subseteq ReqState
  BY DEF ReqState
<1>4. CASE HandleCreateJob(j)
  <2>1. \A m \in RequestedRetries : EffectiveRetries(m) \in Int
    BY RetriesAssumption DEF EffectiveRetries, DefaultRetries
  <2>2. StoreTypeOK'
    BY <1>4, <2>1, CreateJobKeepsType, StoreIdle DEF HandleCreateJob
  <2>3. RequestsTypeOK'
    BY <1>2, <1>3, <1>4 DEF HandleCreateJob
  <2>4. FaultsTypeOK'
    BY <1>4, FaultKeepsType DEF HandleCreateJob, FaultKind
  <2>5. UNCHANGED streamVars
    BY <1>4 DEF HandleCreateJob
  <2>6. StreamTypeOK(Jobs)' /\ WorkersTypeOK'
    BY <1>1, <2>5, StreamIdle, StayKeepsType DEF streamVars
  <2> QED BY <2>2, <2>3, <2>4, <2>6
<1>5. CASE Enqueue(j)
  <2>1. StoreTypeOK'
    BY <1>5, StoreIdle DEF Enqueue
  <2>2. RequestsTypeOK'
    BY <1>2, <1>3, <1>5 DEF Enqueue, RequestsTypeOK
  <2>3. FaultsTypeOK'
    BY <1>5, FaultKeepsType DEF Enqueue, FaultKind
  <2>4. /\ StreamTypeOK(Jobs)'
        /\ Len(stream') \in {Len(stream), Len(stream) + 1}
    BY <1>5, StreamIdle, XAddKeepsType DEF Enqueue
  <2>5. WorkersTypeOK'
    BY <1>1, <2>4, StayKeepsType
  <2> QED BY <2>1, <2>2, <2>3, <2>4, <2>5
<1>6. CASE AbortRequest(j)
  <2>1. UNCHANGED <<storeVars, streamVars>> /\ Fault("abort") /\ Answer(j, "error")
    BY <1>6 DEF AbortRequest
  <2>2. StoreTypeOK' /\ StreamTypeOK(Jobs)' /\ FaultsTypeOK' /\ RequestsTypeOK'
    BY <1>2, <1>3, <2>1, StoreIdle, StreamIdle, FaultKeepsType DEF FaultKind
  <2>3. WorkersTypeOK'
    BY <1>1, <2>1, StayKeepsType DEF streamVars
  <2> QED BY <2>2, <2>3
<1> QED BY <1>4, <1>5, <1>6

LEMMA ProcessStateType ==
    ASSUME TypeOK, NEW w \in Workers,
           Boot(w) \/ Signal(w) \/ Exit(w) \/ Crash(w)
    PROVE  StoreTypeOK' /\ StreamTypeOK(Jobs)' /\ FaultsTypeOK' /\ WorkersTypeOK'
<1> USE DEF TypeOK
<1>1. UNCHANGED <<storeVars, streamVars>>
  BY DEF Boot, Signal, Exit, Crash, Die
<1>2. StoreTypeOK' /\ StreamTypeOK(Jobs)' /\ stream' = stream
  BY <1>1, StoreIdle, StreamIdle DEF streamVars
<1>3. FaultsTypeOK'
  <2>1. UNCHANGED faultsLeft \/ Fault("sigterm") \/ Fault("crash")
    BY DEF Boot, Signal, Exit, Crash, NoFault
  <2> QED BY <2>1, FaultKeepsType DEF NoFault, FaultKind
<1>4. WorkersTypeOK'
  <2>1. CASE Boot(w)
    <3>1. "boot" \in Outside /\ "down" \notin Processing /\ "boot" \notin Processing
      BY DEF Outside, Processing
    <3> QED BY <1>2, <2>1, <3>1, GotoKeepsType DEF Boot
  <2>2. CASE Signal(w)
    BY <1>2, <2>2 DEF Signal, WorkersTypeOK
  <2>3. CASE Exit(w) \/ Crash(w)
    BY <1>2, <2>3, DieKeepsType DEF Exit, Crash
  <2> QED BY <2>1, <2>2, <2>3
<1> QED BY <1>2, <1>3, <1>4

LEMMA CallKeepsFaults ==
    ASSUME FaultsTypeOK, NEW w \in Workers, NEW k \in FaultKind,
           CallWorks(w) \/ CallFails(w, k)
    PROVE  FaultsTypeOK'
BY FaultKeepsType DEF CallWorks, CallFails

\* The steps outside processMessage.
LEMMA LoopType ==
    ASSUME TypeOK, NEW w \in Workers,
           \/ CreateGroup(w) \/ SelectDone(w)
           \/ HandleAbandonedMessages(w) \/ DequeueMessages(w)
    PROVE  StoreTypeOK' /\ StreamTypeOK(Jobs)' /\ FaultsTypeOK' /\ WorkersTypeOK'
<1> USE DEF TypeOK
<1>1. UNCHANGED storeVars /\ StoreTypeOK'
  <2>1. UNCHANGED storeVars
    BY DEF CreateGroup, SelectDone, HandleAbandonedMessages, DequeueMessages
  <2> QED BY <2>1, StoreIdle
<1>2. StreamTypeOK(Jobs)' /\ stream' = stream
  <2>1. \/ UNCHANGED streamVars
        \/ XGroupCreateMkStream
        \/ \E e \in Claimable : XAutoClaim(e)
        \/ XReadGroup
    BY DEF CreateGroup, SelectDone, HandleAbandonedMessages, DequeueMessages
  <2> QED BY <2>1, StreamIdle, CommandsKeepStreamType DEF streamVars
<1>3. FaultsTypeOK'
  <2>1. NoFault \/ CallWorks(w) \/ CallFails(w, "redis")
    BY DEF CreateGroup, SelectDone, HandleAbandonedMessages, DequeueMessages, NoFault
  <2> QED BY <2>1, CallKeepsFaults, FaultKeepsType DEF FaultKind
<1>4. WorkersTypeOK'
  <2> DEFINE Phases == {"boot", "loop", "claim", "dequeue", "stopped"}
  <2>1. pc[w] \in Phases /\ Phases \subseteq Outside /\ Phases \cap Processing = {}
    BY DEF CreateGroup, SelectDone, HandleAbandonedMessages, DequeueMessages,
           Outside, Processing
  <2>2. CASE \E l \in Phases : Goto(w, l) /\ UNCHANGED <<msg, localVars>>
    BY <1>2, <2>1, <2>2, GotoKeepsType
  <2>3. CASE \E e \in pel : Process(w, e, TRUE)
    <3>1. pel \subseteq 1..Len(stream)
      BY DEF StreamTypeOK
    <3> QED BY <1>2, <2>3, <3>1, ProcessKeepsType
  <2>4. CASE HasNewEntry /\ Process(w, NewEntry, FALSE)
    <3>1. NewEntry \in 1..Len(stream)
      BY <2>4 DEF StreamTypeOK, HasNewEntry
    <3> QED BY <1>2, <2>4, <3>1, ProcessKeepsType
  <2>5. Claimable \subseteq pel
    BY DEF Claimable, Scanned
  <2>6. \/ \E l \in Phases : Goto(w, l) /\ UNCHANGED <<msg, localVars>>
        \/ \E e \in pel : Process(w, e, TRUE)
        \/ HasNewEntry /\ Process(w, NewEntry, FALSE)
    <3>1. CASE CreateGroup(w)
      BY <3>1 DEF CreateGroup
    <3>2. CASE SelectDone(w)
      BY <3>2 DEF SelectDone
    <3>3. CASE HandleAbandonedMessages(w)
      BY <2>5, <3>3 DEF HandleAbandonedMessages
    <3>4. CASE DequeueMessages(w)
      BY <3>4 DEF DequeueMessages, XReadGroup
    <3> QED BY <3>1, <3>2, <3>3, <3>4
  <2> QED BY <2>2, <2>3, <2>4, <2>6
<1> QED BY <1>1, <1>2, <1>3, <1>4

\* The steps of processMessage.
LEMMA MessageType ==
    ASSUME TypeOK, NEW w \in Workers,
           \/ GetJob(w) \/ MarkRunning(w) \/ RunHandler(w) \/ CountFailure(w)
           \/ MarkFailed(w) \/ MarkRetrying(w) \/ MarkCompleted(w) \/ Ack(w)
    PROVE  StoreTypeOK' /\ StreamTypeOK(Jobs)' /\ FaultsTypeOK' /\ WorkersTypeOK'
<1> USE DEF TypeOK
<1>1. pc[w] \in Processing
  BY DEF GetJob, MarkRunning, RunHandler, CountFailure, MarkFailed, MarkRetrying,
         MarkCompleted, Ack, Processing
<1>2. msg[w] \in 1..Len(stream) /\ JobOf(w) \in Jobs
  BY <1>1, EntryNamesJob
<1>3. StoreTypeOK' /\ FaultsTypeOK'
  <2>1. \/ UNCHANGED storeVars
           /\ (NoFault \/ CallWorks(w) \/ CallFails(w, "db") \/ CallFails(w, "redis"))
        \/ \E s \in {"RUNNING", "FAILED", "RETRYING", "COMPLETED"} : WriteState(w, s)
        \/ CallWorks(w) /\ IncrementJobRetry(JobOf(w))
    BY DEF GetJob, MarkRunning, RunHandler, CountFailure, MarkFailed, MarkRetrying,
           MarkCompleted, Ack, NoFault
  <2>2. {"RUNNING", "FAILED", "RETRYING", "COMPLETED"} \subseteq Status
    BY DEF Status
  <2> QED
    BY <1>2, <2>1, <2>2, StoreIdle, FaultKeepsType, CallKeepsFaults, WriteKeepsType,
       IncrementKeepsType DEF FaultKind
<1>4. StreamTypeOK(Jobs)' /\ stream' = stream
  <2>1. UNCHANGED streamVars \/ XAck(msg[w])
    BY DEF GetJob, MarkRunning, RunHandler, CountFailure, MarkFailed, MarkRetrying,
           MarkCompleted, Ack
  <2>2. msg[w] \in Nat
    BY <1>2
  <2> QED BY <2>1, <2>2, StreamIdle, CommandsKeepStreamType DEF streamVars
<1>5. WorkersTypeOK'
  <2>1. CASE \E l \in Processing : Goto(w, l) /\ UNCHANGED <<msg, localVars>>
    BY <1>1, <1>4, <2>1, GotoKeepsType
  <2>2. CASE Return(w)
    BY <1>4, <2>2, ReturnKeepsType
  <2>3. CASE /\ \E l \in Processing : Goto(w, l)
             /\ \E n \in Nat : attempts' = [attempts EXCEPT ![w] = n]
             /\ UNCHANGED <<msg, claimed, ctxDone, failures>>
    BY <1>1, <1>4, <2>3 DEF WorkersTypeOK, Goto
  <2>4. CASE RunHandler(w)
    <3>1. \E l \in Processing : pc' = [pc EXCEPT ![w] = l]
      BY <2>4 DEF RunHandler, Goto, Processing
    <3>2. failures' \in [Jobs -> Nat]
      <4>1. failures \in [Jobs -> Nat]
        BY DEF WorkersTypeOK
      <4>2. \/ failures' = failures
            \/ failures' = [failures EXCEPT ![JobOf(w)] = failures[JobOf(w)] + 1]
        BY <2>4 DEF RunHandler
      <4>3. failures[JobOf(w)] + 1 \in Nat
        BY <1>2, <4>1
      <4> QED BY <4>1, <4>2, <4>3
    <3> QED BY <1>1, <1>4, <2>4, <3>1, <3>2 DEF RunHandler, WorkersTypeOK
  <2>5. CASE GetJob(w)
    <3>1. retries[JobOf(w)] \in Nat
      BY <1>2 DEF StoreTypeOK
    <3> QED BY <2>1, <2>2, <2>3, <2>5, <3>1 DEF GetJob, Processing
  <2>6. CASE CountFailure(w)
    <3>1. attempts[w] + 1 \in Nat
      BY DEF WorkersTypeOK
    <3> QED BY <2>3, <2>6, <3>1 DEF CountFailure, Processing
  <2>7. CASE MarkRetrying(w) \/ Ack(w)
    BY <2>2, <2>7 DEF MarkRetrying, Ack
  <2>8. CASE MarkRunning(w) \/ MarkFailed(w) \/ MarkCompleted(w)
    BY <2>1, <2>8 DEF MarkRunning, MarkFailed, MarkCompleted, Processing
  <2> QED BY <2>4, <2>5, <2>6, <2>7, <2>8
<1> QED BY <1>3, <1>4, <1>5

WorkerStep(w) == LoopStep(w) \/ Boot(w) \/ Signal(w) \/ Exit(w) \/ Crash(w)

LEMMA WorkerStepType ==
    ASSUME TypeOK, NEW w \in Workers, WorkerStep(w), UNCHANGED req
    PROVE  TypeOK'
<1>1. StoreTypeOK' /\ StreamTypeOK(Jobs)' /\ FaultsTypeOK' /\ WorkersTypeOK'
  BY ProcessStateType, LoopType, MessageType DEF LoopStep, WorkerStep
<1>2. RequestsTypeOK'
  BY DEF TypeOK, RequestsTypeOK
<1> QED BY <1>1, <1>2 DEF TypeOK

\* Time and Redis.
LEMMA EnvironmentType ==
    ASSUME TypeOK, (\E e \in pel : Age(e)) \/ RedisRestart
    PROVE  TypeOK'
<1> USE DEF TypeOK
<1>1. UNCHANGED <<storeVars, req, workerVars>>
  BY DEF Age, RedisRestart
<1>2. StreamTypeOK(Jobs)' /\ stream' = stream
  BY CommandsKeepStreamType, LoseDataKeepsType DEF Age, RedisRestart
<1>3. FaultsTypeOK'
  <2>1. NoFault \/ Fault("late") \/ Fault("redisLoss")
    BY DEF Age, RedisRestart
  <2> QED BY <2>1, FaultKeepsType DEF FaultKind
<1>4. StoreTypeOK' /\ RequestsTypeOK'
  BY <1>1, StoreIdle DEF RequestsTypeOK
<1>5. WorkersTypeOK'
  BY <1>1, <1>2, StayKeepsType DEF StreamTypeOK
<1> QED BY <1>2, <1>3, <1>4, <1>5

LEMMA StutterType == TypeOK /\ UNCHANGED vars => TypeOK'
<1> SUFFICES ASSUME TypeOK, UNCHANGED vars PROVE TypeOK'
  OBVIOUS
<1>1. UNCHANGED <<storeVars, streamVars, faultsLeft, req, workerVars>>
  BY DEF vars
<1>2. StoreTypeOK' /\ StreamTypeOK(Jobs)' /\ stream' = stream
  BY <1>1, StoreIdle, StreamIdle DEF TypeOK, streamVars
<1>3. FaultsTypeOK' /\ RequestsTypeOK'
  BY <1>1 DEF TypeOK, FaultsTypeOK, RequestsTypeOK
<1>4. WorkersTypeOK'
  BY <1>1, <1>2, StayKeepsType DEF TypeOK, StreamTypeOK
<1> QED BY <1>2, <1>3, <1>4 DEF TypeOK

LEMMA StepType == TypeOK /\ [Next]_vars => TypeOK'
<1> SUFFICES ASSUME TypeOK, Next \/ UNCHANGED vars PROVE TypeOK'
  OBVIOUS
<1>1. CASE Work
  <2>1. PICK w \in Workers : WorkerStep(w)
    BY <1>1 DEF Work, WorkerNext, WorkerStep
  <2>2. UNCHANGED req
    BY <1>1 DEF Work
  <2> QED BY <2>1, <2>2, WorkerStepType
<1> QED BY <1>1, SubmissionType, EnvironmentType, StutterType DEF Next

\* The stores, the requests and the workers keep their types; in particular a
\* worker inside processMessage always holds an entry that names a job, and
\* only entries delivered since the last data loss are pending.
THEOREM TypeCorrect == Spec => []TypeOK
BY InitType, StepType, PTL DEF Spec
-----------------------------------------------------------------------------
(***************************************************************************)
(* NeverGivesUpEarly.  The verdict is drawn from a worker's copy of the    *)
(* retry counter, so the invariant has to say how far a copy, the row's    *)
(* counter and the executions that really failed can be apart, for every   *)
(* number of workers inside processMessage at once.                        *)
(***************************************************************************)

FailuresCounted ==
    \A j \in Jobs : retries[j] + Cardinality(Uncounted(j)) <= failures[j]

\* A worker's copy never runs ahead of the executions that failed, and lags
\* behind by one between the handler's error and the increment.
CopyLags(w) ==
    /\ pc[w] \in {"setRunning", "handle"} => attempts[w] <= failures[JobOf(w)]
    /\ pc[w] = "increment" => attempts[w] < failures[JobOf(w)]

VerdictEarned(w) ==
    pc[w] = "setFailed" =>
        \/ jobType[JobOf(w)] \notin HandledTypes
        \/ failures[JobOf(w)] >= maxRetries[JobOf(w)]

VerdictInv ==
    /\ TypeOK
    /\ EntriesHaveRows
    /\ FailuresCounted
    /\ \A w \in Workers : CopyLags(w) /\ VerdictEarned(w)
    /\ NeverGivesUpEarly

\* The calls after which a worker holds a copy that VerdictInv speaks of.
Deciding == {"setRunning", "handle", "increment", "setFailed"}

LEMMA WorkerFrame ==
    ASSUME TypeOK, NEW w \in Workers, WorkerStep(w)
    PROVE  /\ stream' = stream
           /\ \A v \in Workers \ {w} :
                 /\ pc'[v] = pc[v] /\ msg'[v] = msg[v]
                 /\ attempts'[v] = attempts[v] /\ ctxDone'[v] = ctxDone[v]
           /\ maxRetries' = maxRetries /\ jobType' = jobType
<1>1. CASE Boot(w) \/ Signal(w) \/ Exit(w) \/ Crash(w)
  BY <1>1 DEF Boot, Signal, Exit, Crash, Die, Goto, localVars, storeVars, streamVars,
              TypeOK, WorkersTypeOK
<1>2. CASE CreateGroup(w) \/ SelectDone(w)
  BY <1>2 DEF CreateGroup, SelectDone, XGroupCreateMkStream, Goto, localVars,
              storeVars, streamVars, TypeOK, WorkersTypeOK
<1>3. CASE HandleAbandonedMessages(w) \/ DequeueMessages(w)
  BY <1>3 DEF HandleAbandonedMessages, DequeueMessages, XAutoClaim, XReadGroup,
              Process, Goto, localVars, storeVars, streamVars, TypeOK, WorkersTypeOK
<1>4. CASE GetJob(w) \/ RunHandler(w) \/ Ack(w)
  BY <1>4 DEF GetJob, RunHandler, Ack, XAck, Return, Goto, localVars,
              storeVars, streamVars, TypeOK, WorkersTypeOK
<1>5. CASE CountFailure(w)
  BY <1>5 DEF CountFailure, IncrementJobRetry, Goto, localVars,
              storeVars, streamVars, TypeOK, WorkersTypeOK
<1>6. CASE MarkRunning(w) \/ MarkFailed(w) \/ MarkRetrying(w) \/ MarkCompleted(w)
  BY <1>6 DEF MarkRunning, MarkFailed, MarkRetrying, MarkCompleted, WriteState,
              UpdateJobState, Return, Goto, localVars, storeVars, streamVars,
              TypeOK, WorkersTypeOK
<1> QED BY <1>1, <1>2, <1>3, <1>4, <1>5, <1>6 DEF WorkerStep, LoopStep

\* Which of a worker's steps write a status, and which.
LEMMA StatusWrites ==
    ASSUME TypeOK, NEW w \in Workers, WorkerStep(w)
    PROVE  \/ status' = status
           \/ \E s \in Status :
                 /\ pc[w] \in {"setRunning", "setFailed", "setRetrying", "setCompleted"}
                 /\ status' = [status EXCEPT ![JobOf(w)] = s]
                 /\ s = "FAILED" => pc[w] = "setFailed"
                 /\ UNCHANGED streamVars
<1>1. CASE MarkRunning(w) \/ MarkFailed(w) \/ MarkRetrying(w) \/ MarkCompleted(w)
  BY <1>1 DEF MarkRunning, MarkFailed, MarkRetrying, MarkCompleted, WriteState,
              UpdateJobState, storeVars, Status, Processing
<1>2. CASE \/ Boot(w) \/ Signal(w) \/ Exit(w) \/ Crash(w) \/ CreateGroup(w)
           \/ SelectDone(w) \/ HandleAbandonedMessages(w) \/ DequeueMessages(w)
           \/ GetJob(w) \/ RunHandler(w) \/ CountFailure(w) \/ Ack(w)
  BY <1>2 DEF Boot, Signal, Exit, Crash, Die, CreateGroup, SelectDone,
              HandleAbandonedMessages, DequeueMessages, GetJob, RunHandler,
              CountFailure, IncrementJobRetry, Ack, storeVars
<1> QED BY <1>1, <1>2 DEF WorkerStep, LoopStep

LEMMA FailuresGrow ==
    ASSUME TypeOK, NEW w \in Workers, WorkerStep(w)
    PROVE  /\ failures' \in [Jobs -> Nat]
           /\ \A j \in Jobs : failures'[j] >= failures[j]
           /\ RunHandler(w) \/ failures' = failures
<1>1. failures \in [Jobs -> Nat]
  BY DEF TypeOK, WorkersTypeOK
<1>2. CASE RunHandler(w)
  <2>1. JobOf(w) \in Jobs
    BY <1>2, EntryNamesJob DEF RunHandler, Processing, TypeOK
  <2>2. \/ failures' = failures
        \/ failures' = [failures EXCEPT ![JobOf(w)] = failures[JobOf(w)] + 1]
    BY <1>2 DEF RunHandler
  <2>3. failures[JobOf(w)] + 1 \in Nat
    BY <1>1, <2>1
  <2> QED BY <1>1, <1>2, <2>2, <2>3
<1>3. CASE ~RunHandler(w)
  <2>1. failures' = failures
    BY <1>3 DEF WorkerStep, LoopStep, Boot, Signal, Exit, Crash, Die, CreateGroup,
           SelectDone, HandleAbandonedMessages, DequeueMessages, Process, GetJob,
           MarkRunning, CountFailure, MarkFailed, MarkRetrying, MarkCompleted, Ack,
           Return, localVars
  <2> QED BY <1>1, <2>1
<1> QED BY <1>2, <1>3

\* Only four of a worker's steps lead to a call VerdictInv speaks of.
LEMMA DecidingSteps ==
    ASSUME TypeOK, NEW w \in Workers, WorkerStep(w)
    PROVE  \/ pc'[w] \notin Deciding
           \/ Signal(w)
           \/ GetJob(w) \/ MarkRunning(w) \/ RunHandler(w) \/ CountFailure(w)
<1> USE DEF TypeOK, WorkersTypeOK, Goto, Deciding
<1>1. CASE Boot(w) \/ Exit(w) \/ Crash(w)
  BY <1>1 DEF Boot, Exit, Crash, Die
<1>2. CASE CreateGroup(w) \/ SelectDone(w)
  BY <1>2 DEF CreateGroup, SelectDone
<1>3. CASE HandleAbandonedMessages(w) \/ DequeueMessages(w)
  BY <1>3 DEF HandleAbandonedMessages, DequeueMessages, Process
<1>4. CASE MarkFailed(w) \/ MarkCompleted(w)
  BY <1>4 DEF MarkFailed, MarkCompleted
<1>5. CASE MarkRetrying(w) \/ Ack(w)
  BY <1>5 DEF MarkRetrying, Ack, Return
<1> QED BY <1>1, <1>2, <1>3, <1>4, <1>5 DEF WorkerStep, LoopStep

LEMMA UncountedFinite ==
    ASSUME NEW j
    PROVE  IsFiniteSet(Uncounted(j)) /\ Cardinality(Uncounted(j)) \in Nat
<1>1. Uncounted(j) \subseteq Workers
  BY DEF Uncounted
<1> QED BY <1>1, WorkersAssumption, FS_Subset, FS_CardinalityType

\* The row's counter and the failures not counted yet, over a worker's step.
LEMMA CountingStep ==
    ASSUME TypeOK, FailuresCounted, NEW w \in Workers, WorkerStep(w)
    PROVE  FailuresCounted'
<1> SUFFICES ASSUME NEW j \in Jobs
             PROVE  retries'[j] + Cardinality(Uncounted(j)') <= failures'[j]
  BY DEF FailuresCounted
<1> DEFINE U == Uncounted(j)
           UU == Uncounted(j)'
<1>1. /\ retries[j] \in Nat /\ failures[j] \in Nat
      /\ retries[j] + Cardinality(U) <= failures[j]
      /\ IsFiniteSet(U) /\ Cardinality(U) \in Nat
  BY UncountedFinite DEF TypeOK, StoreTypeOK, WorkersTypeOK, FailuresCounted
<1>2. \A v \in Workers \ {w} : v \in UU <=> v \in U
  BY WorkerFrame DEF Uncounted, JobOf
<1>3. CASE RunHandler(w)
  <2>1. retries' = retries /\ w \notin U /\ JobOf(w) \in Jobs
    BY <1>3, EntryNamesJob DEF RunHandler, storeVars, Uncounted, TypeOK, Processing
  <2>2. UU = U \/ (UU = U \cup {w} /\ failures'[j] = failures[j] + 1)
    <3>1. CASE Goto(w, "setCompleted")
      BY <1>2, <2>1, <3>1 DEF Uncounted, Goto, TypeOK, WorkersTypeOK
    <3>2. CASE /\ Goto(w, "increment")
               /\ failures' = [failures EXCEPT ![JobOf(w)] = failures[JobOf(w)] + 1]
      <4>1. JobOf(w)' = JobOf(w)
        BY <1>3, WorkerFrame DEF RunHandler, JobOf
      <4>2. w \in UU <=> JobOf(w) = j
        BY <3>2, <4>1 DEF Uncounted, Goto, TypeOK, WorkersTypeOK
      <4>3. JobOf(w) = j => failures'[j] = failures[j] + 1
        BY <3>2 DEF TypeOK, WorkersTypeOK
      <4>4. UU \subseteq Workers /\ U \subseteq Workers
        BY DEF Uncounted
      <4> QED BY <1>2, <2>1, <4>2, <4>3, <4>4
    <3> QED BY <1>3, <3>1, <3>2 DEF RunHandler
  <2>3. failures'[j] \in Nat /\ failures'[j] >= failures[j]
    BY <1>1, FailuresGrow
  <2>4. CASE UU = U
    BY <1>1, <2>1, <2>3, <2>4
  <2>5. CASE UU = U \cup {w} /\ failures'[j] = failures[j] + 1
    <3>1. Cardinality(UU) = Cardinality(U) + 1
      BY <1>1, <2>1, <2>5, FS_AddElement
    <3> QED BY <1>1, <2>1, <2>5, <3>1
  <2> QED BY <2>2, <2>4, <2>5
<1>4. CASE CountFailure(w)
  <2>1. failures' = failures /\ w \in Workers /\ JobOf(w) \in Jobs
    BY <1>4, EntryNamesJob DEF CountFailure, TypeOK, Processing
  <2>2. w \in U <=> JobOf(w) = j
    BY <1>4 DEF CountFailure, Uncounted
  <2>3. UU = U \ {w}
    <3>1. w \notin UU
      BY <1>4 DEF CountFailure, Uncounted, Goto, TypeOK, WorkersTypeOK
    <3> QED BY <1>2, <3>1 DEF Uncounted
  <2>4. retries' = retries \/ retries' = [retries EXCEPT ![JobOf(w)] = retries[JobOf(w)] + 1]
    BY <1>4 DEF CountFailure, IncrementJobRetry, storeVars
  <2>5. retries'[j] <= retries[j] + (IF w \in U THEN 1 ELSE 0) /\ retries'[j] \in Nat
    BY <1>1, <2>1, <2>2, <2>4 DEF TypeOK, StoreTypeOK
  <2>6. Cardinality(UU) = Cardinality(U) - (IF w \in U THEN 1 ELSE 0)
    <3>1. Cardinality(U \ {w}) =
             IF w \in U THEN Cardinality(U) - 1 ELSE Cardinality(U)
      BY <1>1, FS_RemoveElement
    <3> QED BY <1>1, <2>3, <3>1
  <2> QED BY <1>1, <2>1, <2>5, <2>6
<1>5. CASE ~RunHandler(w) /\ ~CountFailure(w)
  <2>1. failures' = failures
    BY <1>5, FailuresGrow
  <2>2. retries' = retries
    BY <1>5 DEF WorkerStep, LoopStep, Boot, Signal, Exit, Crash, Die, CreateGroup,
           SelectDone, HandleAbandonedMessages, DequeueMessages, GetJob,
           MarkRunning, MarkFailed, MarkRetrying, MarkCompleted, Ack,
           WriteState, UpdateJobState, storeVars
  <2>3. w \in UU => w \in U
    <3>1. CASE pc'[w] \notin Deciding
      BY <3>1 DEF Uncounted, Deciding
    <3>2. CASE Signal(w)
      BY <3>2 DEF Signal, Uncounted, JobOf, streamVars
    <3>3. CASE GetJob(w) \/ MarkRunning(w)
      BY <3>3 DEF GetJob, MarkRunning, Return, Goto, Uncounted, TypeOK, WorkersTypeOK
    <3> QED BY <1>5, <3>1, <3>2, <3>3, DecidingSteps
  <2>4. UU \subseteq U
    BY <1>2, <2>3 DEF Uncounted
  <2>5. Cardinality(UU) <= Cardinality(U) /\ Cardinality(UU) \in Nat
    BY <1>1, <2>4, FS_Subset, FS_CardinalityType
  <2> QED BY <1>1, <2>1, <2>2, <2>5
<1> QED BY <1>3, <1>4, <1>5

\* What a worker's step leaves alone of another worker's part of VerdictInv.
LEMMA OthersKeepVerdict ==
    ASSUME VerdictInv, NEW w \in Workers, WorkerStep(w),
           NEW v \in Workers \ {w}
    PROVE  CopyLags(v)' /\ VerdictEarned(v)'
<1>1. TypeOK /\ CopyLags(v) /\ VerdictEarned(v)
  BY DEF VerdictInv
<1>2. /\ pc'[v] = pc[v] /\ attempts'[v] = attempts[v] /\ JobOf(v)' = JobOf(v)
      /\ maxRetries' = maxRetries /\ jobType' = jobType
  BY <1>1, WorkerFrame DEF JobOf
<1>3. CASE pc[v] \in Deciding
  <2>1. JobOf(v) \in Jobs
    BY <1>1, <1>3, EntryNamesJob DEF Deciding, Processing, TypeOK
  <2>2. /\ failures'[JobOf(v)] >= failures[JobOf(v)]
        /\ failures[JobOf(v)] \in Nat /\ failures'[JobOf(v)] \in Int
        /\ attempts[v] \in Nat /\ maxRetries[JobOf(v)] \in Int
    BY <1>1, <2>1, FailuresGrow DEF TypeOK, StoreTypeOK, WorkersTypeOK
  <2> QED BY <1>1, <1>2, <2>2 DEF CopyLags, VerdictEarned
<1>4. CASE pc[v] \notin Deciding
  BY <1>2, <1>4 DEF CopyLags, VerdictEarned, Deciding
<1> QED BY <1>3, <1>4

\* The worker's own part, after each of the calls that concern it.
LEMMA OwnVerdict ==
    ASSUME VerdictInv, NEW w \in Workers, WorkerStep(w)
    PROVE  CopyLags(w)' /\ VerdictEarned(w)'
<1> DEFINE j == JobOf(w)
<1>1. TypeOK /\ CopyLags(w) /\ VerdictEarned(w) /\ FailuresCounted
  BY DEF VerdictInv
<1>2. stream' = stream /\ maxRetries' = maxRetries /\ jobType' = jobType
  BY <1>1, WorkerFrame
<1> USE DEF TypeOK, WorkersTypeOK
<1>3. CASE pc'[w] \notin Deciding
  BY <1>3 DEF CopyLags, VerdictEarned, Deciding
<1>4. CASE Signal(w)
  BY <1>1, <1>2, <1>4 DEF Signal, CopyLags, VerdictEarned, JobOf
<1>5. CASE GetJob(w) /\ pc'[w] \in Deciding
  <2>1. JobOf(w) \in Jobs
    BY <1>1, <1>5, EntryNamesJob DEF GetJob, Processing
  <2>2. /\ pc'[w] = "setRunning" /\ attempts'[w] = retries[j]
        /\ msg' = msg /\ failures' = failures
    BY <1>1, <1>5 DEF GetJob, Return, Goto, Deciding, localVars
  <2>3. retries[j] <= failures[j]
    BY <1>1, <2>1, UncountedFinite DEF FailuresCounted, StoreTypeOK
  <2> QED BY <1>2, <2>2, <2>3 DEF CopyLags, VerdictEarned, JobOf
<1>6. CASE MarkRunning(w)
  <2>1. /\ msg' = msg /\ failures' = failures /\ attempts' = attempts
        /\ pc'[w] = IF jobType[j] \in HandledTypes THEN "handle" ELSE "setFailed"
    BY <1>1, <1>6 DEF MarkRunning, Goto, localVars
  <2> QED BY <1>1, <1>2, <1>6, <2>1 DEF MarkRunning, CopyLags, VerdictEarned, JobOf
<1>7. CASE RunHandler(w)
  <2>1. j \in Jobs
    BY <1>1, <1>7, EntryNamesJob DEF RunHandler, Processing
  <2>2. msg' = msg /\ attempts' = attempts /\ attempts[w] <= failures[j]
    BY <1>1, <1>7 DEF RunHandler, CopyLags
  <2>3. \/ pc'[w] = "setCompleted"
        \/ pc'[w] = "increment" /\ failures'[j] = failures[j] + 1
    BY <1>1, <1>7, <2>1 DEF RunHandler, Goto
  <2>4. attempts[w] \in Nat /\ failures[j] \in Nat
    BY <1>1, <2>1
  <2> QED BY <1>2, <2>2, <2>3, <2>4 DEF CopyLags, VerdictEarned, JobOf
<1>8. CASE CountFailure(w)
  <2>1. j \in Jobs
    BY <1>1, <1>8, EntryNamesJob DEF CountFailure, Processing
  <2>2. msg' = msg /\ failures' = failures /\ attempts[w] < failures[j]
    BY <1>1, <1>8 DEF CountFailure, CopyLags
  <2>3. \/ pc'[w] = "setRetrying"
        \/ pc'[w] = "setFailed" /\ attempts[w] + 1 >= maxRetries[j]
    BY <1>1, <1>8 DEF CountFailure, Goto
  <2>4. attempts[w] \in Nat /\ failures[j] \in Nat /\ maxRetries[j] \in Int
    BY <1>1, <2>1 DEF StoreTypeOK
  <2> QED BY <1>2, <2>2, <2>3, <2>4 DEF CopyLags, VerdictEarned, JobOf
<1> QED BY <1>1, <1>3, <1>4, <1>5, <1>6, <1>7, <1>8, DecidingSteps

\* A row, once inserted, keeps its type and limit, and FAILED is only written
\* with an earned verdict.
LEMMA WorkVerdict ==
    ASSUME VerdictInv, NEW w \in Workers, WorkerStep(w), UNCHANGED req
    PROVE  VerdictInv'
<1>1. TypeOK /\ TypeOK'
  BY WorkerStepType DEF VerdictInv
<1>2. stream' = stream /\ maxRetries' = maxRetries /\ jobType' = jobType
  BY <1>1, WorkerFrame
<1>3. \A j \in Jobs : status[j] # Absent => status'[j] # Absent
  <2>1. Absent \notin Status
    BY DEF Absent, Status
  <2> QED BY <1>1, <2>1, StatusWrites DEF TypeOK, StoreTypeOK
<1>4. EntriesHaveRows'
  BY <1>1, <1>2, <1>3 DEF VerdictInv, EntriesHaveRows, TypeOK, StreamTypeOK
<1>5. FailuresCounted'
  BY <1>1, CountingStep DEF VerdictInv
<1>6. ASSUME NEW v \in Workers PROVE CopyLags(v)' /\ VerdictEarned(v)'
  BY OthersKeepVerdict, OwnVerdict
<1>7. NeverGivesUpEarly'
  <2> SUFFICES ASSUME NEW j \in Jobs, status'[j] = "FAILED"
               PROVE  jobType[j] \notin HandledTypes \/ failures'[j] >= maxRetries[j]
    BY <1>2 DEF NeverGivesUpEarly
  <2>1. /\ failures[j] \in Nat /\ failures'[j] \in Nat /\ maxRetries[j] \in Int
        /\ failures'[j] >= failures[j]
    BY <1>1, FailuresGrow DEF TypeOK, StoreTypeOK, WorkersTypeOK
  <2>2. CASE status[j] = "FAILED"
    <3>1. jobType[j] \notin HandledTypes \/ failures[j] >= maxRetries[j]
      BY <2>2 DEF VerdictInv, NeverGivesUpEarly
    <3> QED BY <2>1, <3>1
  <2>3. CASE pc[w] = "setFailed" /\ JobOf(w) = j
    <3>1. jobType[j] \notin HandledTypes \/ failures[j] >= maxRetries[j]
      BY <2>3 DEF VerdictInv, VerdictEarned
    <3> QED BY <2>1, <3>1
  <2>4. status[j] = "FAILED" \/ (pc[w] = "setFailed" /\ JobOf(w) = j)
    BY <1>1, StatusWrites DEF TypeOK, StoreTypeOK
  <2> QED BY <2>2, <2>3, <2>4
<1> QED BY <1>1, <1>4, <1>5, <1>6, <1>7 DEF VerdictInv

\* What the steps that are not a worker's leave alone.
LEMMA UnmovedVerdict ==
    ASSUME VerdictInv, TypeOK', UNCHANGED workerVars,
           \A e \in 1..Len(stream) : stream'[e] = stream[e],
           \A j \in Jobs :
              /\ retries'[j] <= retries[j]
              /\ status[j] # Absent =>
                    /\ status'[j] = status[j]
                    /\ maxRetries'[j] = maxRetries[j] /\ jobType'[j] = jobType[j]
              /\ status[j] = Absent => status'[j] # "FAILED",
           EntriesHaveRows'
    PROVE  VerdictInv'
<1>1. TypeOK /\ pc' = pc /\ msg' = msg /\ attempts' = attempts /\ failures' = failures
  BY DEF VerdictInv, workerVars
<1>2. \A w \in Workers : pc[w] \in Processing =>
         /\ JobOf(w)' = JobOf(w) /\ JobOf(w) \in Jobs
         /\ status[JobOf(w)] # Absent
  BY <1>1, EntryNamesJob DEF VerdictInv, EntriesHaveRows, JobOf, TypeOK
<1>3. \A w \in Workers : CopyLags(w)' /\ VerdictEarned(w)'
  <2> SUFFICES ASSUME NEW w \in Workers PROVE CopyLags(w)' /\ VerdictEarned(w)'
    OBVIOUS
  <2>1. CopyLags(w) /\ VerdictEarned(w)
    BY DEF VerdictInv
  <2>2. CASE pc[w] \in Processing
    <3>1. /\ maxRetries'[JobOf(w)] = maxRetries[JobOf(w)]
          /\ jobType'[JobOf(w)] = jobType[JobOf(w)]
      BY <1>2, <2>2
    <3> QED BY <1>1, <1>2, <2>1, <2>2, <3>1 DEF CopyLags, VerdictEarned
  <2>3. CASE pc[w] \notin Processing
    BY <1>1, <2>3 DEF CopyLags, VerdictEarned, Processing
  <2> QED BY <2>2, <2>3
<1>4. FailuresCounted'
  <2> SUFFICES ASSUME NEW j \in Jobs
               PROVE  retries'[j] + Cardinality(Uncounted(j)') <= failures[j]
    BY <1>1 DEF FailuresCounted
  <2>1. Uncounted(j)' = Uncounted(j)
    BY <1>1, <1>2 DEF Uncounted, Processing
  <2>2. retries[j] + Cardinality(Uncounted(j)) <= failures[j]
    BY DEF VerdictInv, FailuresCounted
  <2>3. /\ retries[j] \in Nat /\ retries'[j] \in Nat /\ failures[j] \in Nat
        /\ Cardinality(Uncounted(j)) \in Nat
    BY <1>1, UncountedFinite DEF TypeOK, StoreTypeOK, WorkersTypeOK
  <2> QED BY <2>1, <2>2, <2>3
<1>5. NeverGivesUpEarly'
  BY <1>1 DEF VerdictInv, NeverGivesUpEarly, Absent
<1> QED BY <1>3, <1>4, <1>5 DEF VerdictInv

LEMMA SubmissionVerdict ==
    ASSUME VerdictInv, NEW j \in Jobs, UNCHANGED workerVars,
           HandleCreateJob(j) \/ Enqueue(j) \/ AbortRequest(j)
    PROVE  VerdictInv'
<1>1. TypeOK /\ TypeOK' /\ EntriesHaveRows
  BY SubmissionType DEF VerdictInv, Submission, ApiNext
<1>2. stream \in Seq(Jobs) /\ req \in [Jobs -> ReqState] /\ Len(stream) \in Nat
  BY <1>1 DEF TypeOK, StreamTypeOK, RequestsTypeOK
<1>3. CASE UNCHANGED storeVars
  <2>1. \/ stream' = stream
        \/ stream' = Append(stream, j) /\ req[j] = "enqueue"
    BY <1>3 DEF HandleCreateJob, Enqueue, AbortRequest, XAdd, streamVars
  <2>2. \A e \in 1..Len(stream) : stream'[e] = stream[e]
    BY <1>2, <2>1
  <2>3. \A e \in 1..Len(stream') : status[stream'[e]] # Absent
    BY <1>1, <1>2, <2>1 DEF EntriesHaveRows
  <2>4. \A i \in Jobs : req'[i] = "enqueue" => req[i] = "enqueue"
    <3>1. req' = req \/ \E r \in {"accepted", "error"} : Answer(j, r)
      BY <1>1, <1>3 DEF HandleCreateJob, Enqueue, AbortRequest, CreateJob, storeVars,
                        TypeOK, StoreTypeOK, Absent
    <3> QED BY <1>2, <3>1 DEF Answer
  <2>5. EntriesHaveRows'
    BY <1>1, <1>3, <2>3, <2>4 DEF EntriesHaveRows, storeVars
  <2>6. \A i \in Jobs : retries[i] \in Nat
    BY <1>1 DEF TypeOK, StoreTypeOK
  <2> QED BY <1>1, <1>3, <2>2, <2>5, <2>6, UnmovedVerdict DEF storeVars, Absent
<1>4. CASE \E t \in Types, m \in Int : CreateJob(j, t, m)
  <2>1. stream' = stream /\ \E r \in ReqState : Answer(j, r)
    BY <1>1, <1>4 DEF HandleCreateJob, Enqueue, AbortRequest, CreateJob, storeVars,
                      streamVars, ReqState, TypeOK, StoreTypeOK, Absent
  <2>2. \A i \in Jobs :
           /\ i # j => /\ status'[i] = status[i] /\ retries'[i] = retries[i]
                       /\ maxRetries'[i] = maxRetries[i] /\ jobType'[i] = jobType[i]
                       /\ req'[i] = req[i]
           /\ status[j] = Absent /\ status'[j] = "PENDING" /\ retries'[j] = 0
    BY <1>1, <1>2, <1>4, <2>1 DEF CreateJob, Answer, TypeOK, StoreTypeOK
  <2>3. EntriesHaveRows'
    BY <1>1, <1>2, <2>1, <2>2 DEF EntriesHaveRows, Absent
  <2>4. \A i \in Jobs : retries[i] \in Nat
    BY <1>1 DEF TypeOK, StoreTypeOK
  <2>5. \A i \in Jobs :
           /\ retries'[i] <= retries[i]
           /\ status[i] # Absent =>
                 /\ status'[i] = status[i]
                 /\ maxRetries'[i] = maxRetries[i] /\ jobType'[i] = jobType[i]
           /\ status[i] = Absent => status'[i] # "FAILED"
    <3> SUFFICES ASSUME NEW i \in Jobs
                 PROVE  /\ retries'[i] <= retries[i]
                        /\ status[i] # Absent =>
                              /\ status'[i] = status[i]
                              /\ maxRetries'[i] = maxRetries[i]
                              /\ jobType'[i] = jobType[i]
                        /\ status[i] = Absent => status'[i] # "FAILED"
      OBVIOUS
    <3>1. CASE i = j
      BY <2>2, <2>4, <3>1
    <3>2. CASE i # j
      BY <2>2, <2>4, <3>2 DEF Absent
    <3> QED BY <3>1, <3>2
  <2>6. \A e \in 1..Len(stream) : stream'[e] = stream[e]
    BY <2>1
  <2> QED BY <1>1, <2>3, <2>5, <2>6, UnmovedVerdict
<1>5. \A m \in RequestedRetries : EffectiveRetries(m) \in Int
  BY RetriesAssumption DEF EffectiveRetries, DefaultRetries
<1> QED BY <1>3, <1>4, <1>5 DEF HandleCreateJob, Enqueue, AbortRequest

LEMMA InitVerdict == Init => VerdictInv
<1> SUFFICES ASSUME Init PROVE VerdictInv
  OBVIOUS
<1>1. TypeOK
  BY InitType
<1>2. /\ stream = <<>> /\ Len(stream) = 0
      /\ status = [j \in Jobs |-> Absent] /\ retries = [j \in Jobs |-> 0]
      /\ req = [j \in Jobs |-> "none"] /\ failures = [j \in Jobs |-> 0]
      /\ pc = [w \in Workers |-> "down"]
  BY DEF Init, StreamInit, StoreInit, ApiInit, WorkersInit
<1>3. EntriesHaveRows
  BY <1>2 DEF EntriesHaveRows
<1>4. FailuresCounted
  <2> SUFFICES ASSUME NEW j \in Jobs
               PROVE  retries[j] + Cardinality(Uncounted(j)) <= failures[j]
    BY DEF FailuresCounted
  <2>1. Uncounted(j) = {}
    BY <1>2 DEF Uncounted
  <2>2. Cardinality(Uncounted(j)) = 0
    BY <2>1, FS_EmptySet
  <2>3. retries[j] = 0 /\ failures[j] = 0
    BY <1>2
  <2> QED BY <2>2, <2>3
<1>5. \A w \in Workers : CopyLags(w) /\ VerdictEarned(w)
  BY <1>2 DEF CopyLags, VerdictEarned
<1>6. NeverGivesUpEarly
  BY <1>2 DEF NeverGivesUpEarly, Absent
<1> QED BY <1>1, <1>3, <1>4, <1>5, <1>6 DEF VerdictInv

LEMMA StepVerdict == VerdictInv /\ [Next]_vars => VerdictInv'
<1> SUFFICES ASSUME VerdictInv, Next \/ UNCHANGED vars PROVE VerdictInv'
  OBVIOUS
<1>1. TypeOK /\ TypeOK'
  BY StepType DEF VerdictInv
<1>2. CASE Submission
  BY <1>2, SubmissionVerdict DEF Submission, ApiNext
<1>3. CASE Work
  BY <1>3, WorkVerdict DEF Work, WorkerNext, WorkerStep
<1>4. CASE (\E e \in pel : Age(e)) \/ RedisRestart \/ UNCHANGED vars
  <2>1. UNCHANGED <<storeVars, stream, req, workerVars>>
    BY <1>4 DEF Age, GrowIdle, RedisRestart, LoseData, vars, streamVars
  <2>2. EntriesHaveRows'
    BY <2>1 DEF VerdictInv, EntriesHaveRows, storeVars
  <2>3. \A j \in Jobs : retries[j] \in Nat
    BY <1>1 DEF TypeOK, StoreTypeOK
  <2>4. /\ status' = status /\ retries' = retries
        /\ maxRetries' = maxRetries /\ jobType' = jobType /\ stream' = stream
    BY <2>1 DEF storeVars
  <2>5. UNCHANGED workerVars
    BY <2>1
  <2>6. \A j \in Jobs :
           /\ retries'[j] <= retries[j]
           /\ status[j] = Absent => status'[j] # "FAILED"
    BY <2>3, <2>4 DEF Absent
  <2> QED BY <1>1, <2>2, <2>4, <2>5, <2>6, UnmovedVerdict
<1> QED BY <1>2, <1>3, <1>4 DEF Next

\* No worker is handed an entry whose job the database does not have, for any
\* number of submissions, re-sent entries, data losses and failed calls.
THEOREM EntriesNameRows == Spec => []EntriesHaveRows
<1>1. VerdictInv => EntriesHaveRows
  BY DEF VerdictInv
<1> QED BY <1>1, InitVerdict, StepVerdict, PTL DEF Spec

\* A job with a registered handler is FAILED only after its handler failed
\* max_retries times: for any number of workers on the job at once, whatever
\* their copies of retries_attempted and whatever crashes or writes that fail.
THEOREM VerdictsAreEarned == Spec => []NeverGivesUpEarly
<1>1. VerdictInv => NeverGivesUpEarly
  BY DEF VerdictInv
<1> QED BY <1>1, InitVerdict, StepVerdict, PTL DEF Spec
-----------------------------------------------------------------------------
\* Budgets are only spent, so a fault that has not struck had not before.

WithinBudget == \A k \in FaultKind : faultsLeft[k] <= FaultBudget[k]

LEMMA FaultSpends ==
    ASSUME FaultsTypeOK, NEW l \in FaultKind, NoFault \/ Fault(l)
    PROVE  \A k \in FaultKind : faultsLeft'[k] <= faultsLeft[k]
BY DEF FaultsTypeOK, NoFault, Fault

LEMMA StepSpends ==
    ASSUME TypeOK, [Next]_vars
    PROVE  \A k \in FaultKind : faultsLeft'[k] <= faultsLeft[k]
<1> SUFFICES \E l \in FaultKind : NoFault \/ Fault(l)
  BY FaultSpends DEF TypeOK
<1>1. \A k \in FaultKind, w \in Workers :
         CallWorks(w) \/ CallFails(w, k) => NoFault \/ Fault(k)
  BY DEF CallWorks, CallFails
<1>3. CASE Submission
  BY <1>3 DEF Submission, ApiNext, HandleCreateJob, Enqueue, AbortRequest, FaultKind
<1>4. ASSUME NEW w \in Workers, WorkerStep(w)
      PROVE  \E l \in FaultKind : NoFault \/ Fault(l)
  <2>1. CASE \/ Boot(w) \/ Signal(w) \/ Exit(w) \/ Crash(w) \/ SelectDone(w)
             \/ RunHandler(w)
    BY <2>1 DEF Boot, Signal, Exit, Crash, SelectDone, RunHandler, NoFault, FaultKind
  <2>2. CASE CreateGroup(w) \/ HandleAbandonedMessages(w) \/ DequeueMessages(w) \/ Ack(w)
    BY <1>1, <2>2 DEF CreateGroup, HandleAbandonedMessages, DequeueMessages, Ack, FaultKind
  <2>3. CASE GetJob(w) \/ CountFailure(w)
    BY <1>1, <2>3 DEF GetJob, CountFailure, FaultKind
  <2>4. CASE MarkRunning(w) \/ MarkFailed(w) \/ MarkRetrying(w) \/ MarkCompleted(w)
    BY <1>1, <2>4 DEF MarkRunning, MarkFailed, MarkRetrying, MarkCompleted, WriteState,
                      FaultKind
  <2> QED BY <1>4, <2>1, <2>2, <2>3, <2>4 DEF WorkerStep, LoopStep
<1>5. CASE Work
  BY <1>4, <1>5 DEF Work, WorkerNext, WorkerStep
<1>6. CASE (\E e \in pel : Age(e)) \/ RedisRestart \/ UNCHANGED vars
  BY <1>6 DEF Age, RedisRestart, NoFault, vars, FaultKind
<1> QED BY <1>3, <1>5, <1>6 DEF Next

LEMMA UnspentBefore ==
    ASSUME TypeOK, WithinBudget, [Next]_vars, NEW k \in FaultKind
    PROVE  /\ Unspent(k)' => Unspent(k) /\ faultsLeft'[k] = faultsLeft[k]
           /\ WithinBudget'
<1>1. \A l \in FaultKind :
         /\ faultsLeft'[l] <= faultsLeft[l] /\ faultsLeft[l] <= FaultBudget[l]
         /\ faultsLeft[l] \in Nat /\ faultsLeft'[l] \in Nat /\ FaultBudget[l] \in Nat
  BY StepSpends, StepType, BudgetAssumption DEF WithinBudget, TypeOK, FaultsTypeOK
<1> QED BY <1>1 DEF Unspent, Spent, WithinBudget

LEMMA FaultStrikes ==
    ASSUME FaultsTypeOK, NEW k \in FaultKind, Fault(k)
    PROVE  faultsLeft'[k] # faultsLeft[k]
BY DEF FaultsTypeOK, Fault
-----------------------------------------------------------------------------
(***************************************************************************)
(* What a worker's step does to the stream and to the entries held.        *)
(***************************************************************************)

Keeps == UNCHANGED <<streamVars, msg>>

Releases(w) == msg' = [msg EXCEPT ![w] = 0] /\ pc'[w] \notin Processing

Takes(w, e) == msg' = [msg EXCEPT ![w] = e] /\ pc'[w] = "fetch"

QueueStep(w) ==
    \/ Keeps
    \/ UNCHANGED streamVars /\ Releases(w)
    \/ XAck(msg[w]) /\ Releases(w) /\ pc[w] = "ack" /\ ~ctxDone[w]
    \/ XGroupCreateMkStream /\ UNCHANGED msg
    \/ \E e \in Claimable : XAutoClaim(e) /\ (UNCHANGED msg \/ Takes(w, e))
    \/ XReadGroup /\ (UNCHANGED msg \/ Takes(w, NewEntry))

LEMMA ReturnReleases ==
    ASSUME TypeOK, NEW w \in Workers, Return(w)
    PROVE  Releases(w)
BY DEF Return, Releases, Goto, Processing, TypeOK, WorkersTypeOK

LEMMA QueueSteps ==
    ASSUME TypeOK, NEW w \in Workers, WorkerStep(w)
    PROVE  QueueStep(w)
<1>1. CASE Boot(w) \/ Signal(w) \/ SelectDone(w) \/ RunHandler(w)
  BY <1>1 DEF Boot, Signal, SelectDone, RunHandler, QueueStep, Keeps
<1>2. CASE Exit(w) \/ Crash(w)
  BY <1>2 DEF Exit, Crash, Die, Goto, QueueStep, Releases, Processing, TypeOK,
              WorkersTypeOK
<1>3. CASE MarkRunning(w) \/ MarkFailed(w) \/ MarkCompleted(w) \/ CountFailure(w)
  BY <1>3 DEF MarkRunning, MarkFailed, MarkCompleted, CountFailure, QueueStep, Keeps
<1>4. CASE GetJob(w) \/ MarkRetrying(w)
  BY <1>4, ReturnReleases DEF GetJob, MarkRetrying, QueueStep, Keeps
<1>5. CASE Ack(w)
  BY <1>5, ReturnReleases DEF Ack, CallWorks, QueueStep
<1>6. CASE CreateGroup(w)
  BY <1>6 DEF CreateGroup, QueueStep, Keeps
<1>7. CASE HandleAbandonedMessages(w)
  <2>1. \A e : Process(w, e, TRUE) => Takes(w, e)
    BY DEF Process, Takes, Goto, TypeOK, WorkersTypeOK
  <2>2. CASE UNCHANGED <<streamVars, msg>>
    BY <2>2 DEF QueueStep, Keeps
  <2>3. CASE \E e \in Claimable : XAutoClaim(e) /\ (UNCHANGED msg \/ Takes(w, e))
    BY <2>3 DEF QueueStep
  <2> QED BY <1>7, <2>1, <2>2, <2>3 DEF HandleAbandonedMessages
<1>8. CASE DequeueMessages(w)
  <2>1. Process(w, NewEntry, FALSE) => Takes(w, NewEntry)
    BY DEF Process, Takes, Goto, TypeOK, WorkersTypeOK
  <2>2. CASE UNCHANGED <<streamVars, msg>>
    BY <2>2 DEF QueueStep, Keeps
  <2>3. CASE XReadGroup /\ (UNCHANGED msg \/ Takes(w, NewEntry))
    BY <2>3 DEF QueueStep
  <2> QED BY <1>8, <2>1, <2>2, <2>3 DEF DequeueMessages
<1> QED BY <1>1, <1>2, <1>3, <1>4, <1>5, <1>6, <1>7, <1>8 DEF WorkerStep, LoopStep
-----------------------------------------------------------------------------
(***************************************************************************)
(* OneWorkerPerJob: an entry has one holder, because it is handed out once *)
(* by XREADGROUP and again by XAUTOCLAIM only when it is idle, which an    *)
(* entry in a live worker's hands is not; and a job has one entry.         *)
(***************************************************************************)

HeldWereDelivered == \A w \in Workers : msg[w] <= delivered

OneHolder ==
    \A w \in Workers :
        msg[w] # 0 =>
            /\ msg[w] \notin idle
            /\ \A v \in Workers \ {w} : msg[v] # msg[w]

OneEntry ==
    /\ \A d, e \in 1..Len(stream) : stream[d] = stream[e] => d = e
    /\ \A e \in 1..Len(stream) : req[stream[e]] \in {"accepted", "error"}

HoldInv ==
    /\ TypeOK
    /\ WithinBudget
    /\ HeldWereDelivered
    /\ Unspent("late") => OneHolder
    /\ Unspent("dup") => OneEntry

LEMMA WorkHolds ==
    ASSUME TypeOK, HeldWereDelivered, OneHolder, NEW w \in Workers, QueueStep(w)
    PROVE  OneHolder'
<1>1. /\ msg \in [Workers -> Nat] /\ pel \subseteq 1..delivered /\ idle \subseteq pel
      /\ delivered \in Nat /\ lost \in Nat /\ Len(stream) \in Nat
  BY DEF TypeOK, WorkersTypeOK, StreamTypeOK
<1>2. \A v \in Workers : msg[v] <= delivered
  BY DEF HeldWereDelivered
<1>3. \A v \in Workers : msg[v] # 0 => msg[v] \notin idle /\ \A u \in Workers \ {v} : msg[u] # msg[v]
  BY DEF OneHolder
<1>4. CASE idle' \subseteq idle /\ (msg' = msg \/ msg' = [msg EXCEPT ![w] = 0])
  BY <1>1, <1>3, <1>4 DEF OneHolder
<1>5. CASE \E e \in Claimable : XAutoClaim(e) /\ (UNCHANGED msg \/ Takes(w, e))
  <2>1. PICK e \in Claimable : XAutoClaim(e) /\ (UNCHANGED msg \/ Takes(w, e))
    BY <1>5
  <2>2. e \in idle /\ e \in Nat /\ idle' = idle \ {e}
    <3>1. e \in idle
      BY DEF Claimable
    <3>2. e \in 1..delivered
      BY <1>1, <3>1
    <3>3. idle' = idle \ {e}
      BY <2>1 DEF XAutoClaim
    <3> QED BY <1>1, <3>1, <3>2, <3>3
  <2>3. \A v \in Workers : msg[v] # e \/ e = 0
    BY <1>3, <2>2
  <2>4. e # 0
    BY <1>1, <2>2
  <2>5. \A v \in Workers : msg'[v] = msg[v] \/ (v = w /\ msg'[v] = e)
    BY <1>1, <2>1 DEF Takes
  <2>6. msg' \in [Workers -> Nat]
    BY <1>1, <2>1, <2>2 DEF Takes
  <2> QED BY <1>3, <2>2, <2>3, <2>4, <2>5, <2>6 DEF OneHolder
<1>6. CASE XReadGroup /\ (UNCHANGED msg \/ Takes(w, NewEntry))
  <2>1. idle' = idle /\ NewEntry \in Nat /\ NewEntry # 0 /\ NewEntry > delivered
    BY <1>1, <1>6 DEF XReadGroup, NewEntry
  <2>2. NewEntry \notin idle /\ \A v \in Workers : msg[v] # NewEntry
    BY <1>1, <1>2, <2>1
  <2> QED BY <1>1, <1>3, <1>6, <2>1, <2>2 DEF OneHolder, Takes
<1> QED
  BY <1>4, <1>5, <1>6 DEF QueueStep, Keeps, Releases, XAck, XGroupCreateMkStream,
                          streamVars

LEMMA WorkDelivers ==
    ASSUME TypeOK, HeldWereDelivered, NEW w \in Workers, QueueStep(w)
    PROVE  HeldWereDelivered'
<1>1. /\ msg \in [Workers -> Nat] /\ pel \subseteq 1..delivered
      /\ delivered \in Nat /\ (~group => delivered = lost)
  BY DEF TypeOK, WorkersTypeOK, StreamTypeOK
<1>2. delivered' >= delivered /\ delivered' \in Nat
  BY <1>1 DEF QueueStep, Keeps, streamVars, XAck, XGroupCreateMkStream, XAutoClaim,
              XReadGroup, NewEntry
<1>3. \A v \in Workers : msg[v] <= delivered
  BY DEF HeldWereDelivered
<1>4. CASE msg' = msg \/ msg' = [msg EXCEPT ![w] = 0]
  BY <1>1, <1>2, <1>3, <1>4 DEF HeldWereDelivered
<1>5. CASE \E e \in 1..delivered' : msg' = [msg EXCEPT ![w] = e]
  BY <1>1, <1>2, <1>3, <1>5 DEF HeldWereDelivered
<1>6. Claimable \subseteq 1..delivered
  BY <1>1 DEF Claimable, Scanned
<1>7. XReadGroup => NewEntry \in 1..delivered'
  BY <1>1 DEF XReadGroup, NewEntry
<1> QED
  BY <1>1, <1>2, <1>4, <1>5, <1>6, <1>7 DEF QueueStep, Keeps, Releases, Takes

LEMMA SubmissionEntries ==
    ASSUME TypeOK, OneEntry, NEW j \in Jobs, faultsLeft'["dup"] = faultsLeft["dup"],
           HandleCreateJob(j) \/ Enqueue(j) \/ AbortRequest(j)
    PROVE  OneEntry'
<1>1. /\ stream \in Seq(Jobs) /\ Len(stream) \in Nat
      /\ req \in [Jobs -> ReqState] /\ FaultsTypeOK
  BY DEF TypeOK, StreamTypeOK, RequestsTypeOK
<1>2. ~Fault("dup")
  BY <1>1, FaultStrikes DEF FaultKind
<1>3. CASE stream' = stream
  <2>1. \/ req' = req
        \/ req[j] \in {"none", "enqueue"} /\ \E r \in ReqState : Answer(j, r)
    BY <1>1 DEF HandleCreateJob, Enqueue, AbortRequest, ReqState
  <2>2. \A e \in 1..Len(stream) : stream[e] \in Jobs /\ req[stream[e]] \in {"accepted", "error"}
    BY <1>1 DEF OneEntry
  <2>3. \A e \in 1..Len(stream) : req'[stream[e]] = req[stream[e]]
    BY <1>1, <2>1, <2>2 DEF Answer
  <2> QED BY <1>3, <2>2, <2>3 DEF OneEntry
<1>4. CASE stream' = Append(stream, j) /\ req[j] = "enqueue" /\ Answer(j, "accepted")
  <2>1. \A e \in 1..Len(stream) :
           stream[e] \in Jobs /\ stream[e] # j /\ stream'[e] = stream[e]
    BY <1>1, <1>4 DEF OneEntry
  <2>2. /\ Len(stream') = Len(stream) + 1 /\ stream'[Len(stream) + 1] = j
        /\ req' = [req EXCEPT ![j] = "accepted"]
    BY <1>1, <1>4 DEF Answer
  <2>3. \A e \in 1..Len(stream') : req'[stream'[e]] \in {"accepted", "error"}
    BY <1>1, <2>1, <2>2 DEF OneEntry
  <2>4. \A d, e \in 1..Len(stream') : stream'[d] = stream'[e] => d = e
    BY <1>1, <2>1, <2>2 DEF OneEntry
  <2> QED BY <2>3, <2>4 DEF OneEntry
<1> QED BY <1>2, <1>3, <1>4 DEF HandleCreateJob, Enqueue, AbortRequest, XAdd, streamVars

LEMMA StepHolds == HoldInv /\ [Next]_vars => HoldInv'
<1> SUFFICES ASSUME HoldInv, Next \/ UNCHANGED vars PROVE HoldInv'
  OBVIOUS
<1>1. TypeOK /\ TypeOK' /\ WithinBudget /\ HeldWereDelivered
  BY StepType DEF HoldInv
<1>2. /\ Unspent("late")' => OneHolder /\ faultsLeft'["late"] = faultsLeft["late"]
      /\ Unspent("dup")' => OneEntry /\ faultsLeft'["dup"] = faultsLeft["dup"]
      /\ WithinBudget'
  BY <1>1, UnspentBefore DEF HoldInv, FaultKind
<1>3. CASE Submission
  <2>1. UNCHANGED <<msg, idle, delivered>>
    BY <1>3 DEF Submission, ApiNext, HandleCreateJob, Enqueue, AbortRequest, XAdd,
                streamVars, workerVars
  <2>2. HeldWereDelivered' /\ (OneHolder => OneHolder')
    BY <1>1, <2>1 DEF HeldWereDelivered, OneHolder
  <2>3. Unspent("dup")' => OneEntry'
    BY <1>1, <1>2, <1>3, SubmissionEntries DEF Submission, ApiNext
  <2> QED BY <1>1, <1>2, <2>2, <2>3 DEF HoldInv
<1>4. CASE Work
  <2>1. PICK w \in Workers : WorkerStep(w)
    BY <1>4 DEF Work, WorkerNext, WorkerStep
  <2>2. QueueStep(w) /\ stream' = stream /\ req' = req
    BY <1>1, <1>4, <2>1, QueueSteps, WorkerFrame DEF Work
  <2>3. HeldWereDelivered' /\ (OneHolder => OneHolder')
    BY <1>1, <2>2, WorkHolds, WorkDelivers
  <2>4. OneEntry => OneEntry'
    BY <2>2 DEF OneEntry
  <2> QED BY <1>1, <1>2, <2>3, <2>4 DEF HoldInv
<1>5. CASE (\E e \in pel : Age(e)) \/ RedisRestart \/ UNCHANGED vars
  <2>1. stream' = stream /\ req' = req /\ msg' = msg
    BY <1>5 DEF Age, GrowIdle, RedisRestart, LoseData, vars, streamVars, workerVars
  <2>2. OneEntry => OneEntry'
    BY <2>1 DEF OneEntry
  <2>3. delivered' >= delivered /\ delivered' \in Nat /\ delivered \in Nat
    BY <1>1, <1>5 DEF Age, GrowIdle, RedisRestart, LoseData, vars, streamVars, TypeOK,
                      StreamTypeOK
  <2>4. HeldWereDelivered'
    BY <1>1, <2>1, <2>3 DEF HeldWereDelivered, TypeOK, WorkersTypeOK
  <2>5. ASSUME Unspent("late")' PROVE OneHolder'
    <3>1. CASE idle' \subseteq idle
      BY <1>2, <2>1, <2>5, <3>1 DEF OneHolder
    <3>2. CASE \E e \in pel : Age(e)
      <4>1. PICK e \in pel : Age(e)
        BY <3>2
      <4>2. Holders(e) = {}
        BY <1>1, <1>2, <2>5, <4>1, FaultStrikes DEF Age, TypeOK, FaultKind
      <4>3. \A w \in Workers : msg[w] # e
        BY <4>2 DEF Holders
      <4>4. idle' = idle \cup {e}
        BY <4>1 DEF Age, GrowIdle
      <4> QED BY <1>2, <2>1, <2>5, <4>3, <4>4 DEF OneHolder
    <3> QED BY <1>5, <3>1, <3>2 DEF RedisRestart, LoseData, vars, streamVars
  <2> QED BY <1>1, <1>2, <2>2, <2>4, <2>5 DEF HoldInv
<1> QED BY <1>3, <1>4, <1>5 DEF Next

LEMMA InitHolds == Init => HoldInv
<1> SUFFICES ASSUME Init PROVE HoldInv
  OBVIOUS
<1>1. TypeOK
  BY InitType
<1>2. WithinBudget
  BY BudgetAssumption DEF Init, FaultsInit, WithinBudget
<1>3. /\ stream = <<>> /\ Len(stream) = 0 /\ delivered = 0
      /\ msg = [w \in Workers |-> 0]
  BY DEF Init, StreamInit, WorkersInit
<1>4. HeldWereDelivered /\ OneHolder /\ OneEntry
  BY <1>3 DEF HeldWereDelivered, OneHolder, OneEntry
<1> QED BY <1>1, <1>2, <1>4 DEF HoldInv

LEMMA HoldInvariant == Spec => []HoldInv
BY InitHolds, StepHolds, PTL DEF Spec

\* As long as no entry was duplicated and none was claimed from a live worker,
\* no two workers are inside processMessage for the same job, for any number of
\* workers and jobs and through any crashes, shutdowns and lost replies.
THEOREM OneWorkerAtATime == Spec => []OneWorkerPerJob
<1>1. HoldInv => OneWorkerPerJob
  <2> SUFFICES ASSUME HoldInv, Unspent("dup"), Unspent("late"),
                      NEW v \in Workers, NEW w \in Workers,
                      v # w, msg[v] # 0, msg[w] # 0
               PROVE  JobOf(v) # JobOf(w)
    BY DEF OneWorkerPerJob
  <2>1. msg[v] \in 1..Len(stream) /\ msg[w] \in 1..Len(stream)
    BY EntryNamesJob DEF HoldInv, TypeOK, WorkersTypeOK
  <2>2. msg[v] # msg[w]
    BY DEF HoldInv, OneHolder
  <2> QED BY <2>1, <2>2 DEF HoldInv, OneEntry, JobOf
<1> QED BY <1>1, HoldInvariant, PTL
-----------------------------------------------------------------------------
(***************************************************************************)
(* NothingLost.  A job that is accepted and unfinished has a live entry    *)
(* that no worker is about to acknowledge.  The entry may change: with a   *)
(* duplicate, the job can be finished through one entry and reopened       *)
(* through the other, which is then the one that survives.                 *)
(***************************************************************************)

FourUnspent == \A k \in {"db", "enqueue", "redisLoss", "late"} : Unspent(k)

HeldArePending == \A w \in Workers : msg[w] # 0 => msg[w] \in pel

\* The worker's next step may remove the entry it holds.
AtAck(w) == pc[w] = "ack" /\ ~ctxDone[w]

Safe(e) == e \in LiveEntries /\ \A w \in Workers : msg[w] = e => ~AtAck(w)

SafeEntries ==
    \A j \in Jobs :
        req[j] = "accepted" /\ status[j] \notin Finished =>
            \E e \in 1..Len(stream) : stream[e] = j /\ Safe(e)

DeliveryInv ==
    /\ HoldInv
    /\ FourUnspent => HeldArePending /\ SafeEntries

LEMMA CallsWork ==
    ASSUME FaultsTypeOK, NEW w \in Workers, NEW k \in FaultKind,
           CallFails(w, k), faultsLeft'[k] = faultsLeft[k]
    PROVE  ctxDone[w]
BY FaultStrikes DEF CallFails

\* A worker comes to a call of XACK that can work only with a finished job.
LEMMA AcksFinished ==
    ASSUME TypeOK, NEW w \in Workers, WorkerStep(w), AtAck(w)',
           faultsLeft'["db"] = faultsLeft["db"]
    PROVE  msg'[w] = msg[w] /\ status'[JobOf(w)] \in Finished
<1> USE DEF TypeOK, WorkersTypeOK, Goto
<1>1. pc'[w] = "ack" /\ ~ctxDone'[w]
  BY DEF AtAck
<1>2. CASE Boot(w) \/ Signal(w) \/ Exit(w) \/ Crash(w)
  BY <1>1, <1>2 DEF Boot, Signal, Exit, Crash, Die
<1>3. CASE CreateGroup(w) \/ SelectDone(w) \/ RunHandler(w) \/ CountFailure(w)
  BY <1>1, <1>3 DEF CreateGroup, SelectDone, RunHandler, CountFailure
<1>4. CASE HandleAbandonedMessages(w) \/ DequeueMessages(w)
  BY <1>1, <1>4 DEF HandleAbandonedMessages, DequeueMessages, Process
<1>5. CASE MarkRunning(w) \/ MarkRetrying(w) \/ Ack(w)
  BY <1>1, <1>5 DEF MarkRunning, MarkRetrying, Ack, Return
<1>6. CASE GetJob(w)
  <2>1. status[JobOf(w)] \in Finished /\ msg' = msg /\ status' = status
    BY <1>1, <1>6 DEF GetJob, Return, storeVars
  <2> QED BY <2>1
<1>7. CASE MarkFailed(w) \/ MarkCompleted(w)
  <2>1. msg' = msg /\ ctxDone' = ctxDone /\ pc[w] \in Processing
    BY <1>7 DEF MarkFailed, MarkCompleted, localVars, Processing
  <2>2. PICK s \in Finished : WriteState(w, s)
    BY <1>7 DEF MarkFailed, MarkCompleted, Finished
  <2>3. UpdateJobState(JobOf(w), s)
    BY <1>1, <2>1, <2>2, CallsWork DEF WriteState, FaultKind
  <2>4. JobOf(w) \in Jobs
    BY <2>1, EntryNamesJob
  <2> QED BY <2>1, <2>2, <2>3, <2>4 DEF UpdateJobState, StoreTypeOK
<1> QED BY <1>2, <1>3, <1>4, <1>5, <1>6, <1>7 DEF WorkerStep, LoopStep

LEMMA PendingStep ==
    ASSUME TypeOK, OneHolder, HeldArePending, NEW w \in Workers, QueueStep(w)
    PROVE  HeldArePending'
<1>1. msg \in [Workers -> Nat] /\ Claimable \subseteq pel
  BY DEF TypeOK, WorkersTypeOK, Claimable, Scanned
<1>2. CASE pel \subseteq pel' /\ (msg' = msg \/ msg' = [msg EXCEPT ![w] = 0])
  BY <1>1, <1>2 DEF HeldArePending
<1>3. CASE XAck(msg[w]) /\ Releases(w)
  BY <1>1, <1>3 DEF HeldArePending, OneHolder, XAck, Releases
<1>4. CASE pel \subseteq pel' /\ \E e \in pel' : msg' = [msg EXCEPT ![w] = e]
  BY <1>1, <1>4 DEF HeldArePending
<1>5. CASE \E e \in Claimable : XAutoClaim(e) /\ (UNCHANGED msg \/ Takes(w, e))
  BY <1>1, <1>2, <1>4, <1>5 DEF XAutoClaim, Takes
<1>6. CASE XReadGroup /\ (UNCHANGED msg \/ Takes(w, NewEntry))
  <2>1. pel' = pel \cup {NewEntry}
    BY <1>6 DEF XReadGroup
  <2> QED BY <1>2, <1>4, <1>6, <2>1 DEF Takes
<1> QED
  BY <1>2, <1>3, <1>5, <1>6 DEF QueueStep, Keeps, Releases, XGroupCreateMkStream, streamVars

\* No step of a worker but an effective XACK takes an entry out of reach.
LEMMA LiveStep ==
    ASSUME TypeOK, NEW w \in Workers, QueueStep(w), stream' = stream,
           NEW e \in LiveEntries, msg[w] = e => ~AtAck(w)
    PROVE  e \in LiveEntries'
<1>1. /\ (~group => delivered = lost) /\ delivered \in Nat
      /\ stream \in Seq(Jobs) /\ DOMAIN stream = 1..Len(stream)
  BY DEF TypeOK, StreamTypeOK
<1>2. CASE delivered' = delivered /\ pel' = pel
  BY <1>2 DEF LiveEntries
<1>3. CASE XAck(msg[w]) /\ pc[w] = "ack" /\ ~ctxDone[w]
  BY <1>3 DEF LiveEntries, XAck, AtAck
<1>4. CASE XReadGroup
  BY <1>1, <1>4 DEF LiveEntries, XReadGroup, NewEntry
<1> QED
  BY <1>1, <1>2, <1>3, <1>4 DEF QueueStep, Keeps, XGroupCreateMkStream, XAutoClaim, streamVars

LEMMA WorkSafe ==
    ASSUME TypeOK, OneHolder, HeldArePending, SafeEntries,
           NEW w \in Workers, WorkerStep(w), UNCHANGED req,
           faultsLeft'["db"] = faultsLeft["db"]
    PROVE  SafeEntries'
<1>1. /\ QueueStep(w) /\ stream' = stream
      /\ \A v \in Workers \ {w} :
            pc'[v] = pc[v] /\ msg'[v] = msg[v] /\ ctxDone'[v] = ctxDone[v]
  BY QueueSteps, WorkerFrame
<1> SUFFICES ASSUME NEW j \in Jobs, req[j] = "accepted", status'[j] \notin Finished
             PROVE  \E e \in 1..Len(stream) : stream[e] = j /\ Safe(e)'
  BY <1>1 DEF SafeEntries
<1>2. ASSUME NEW e \in 1..Len(stream), stream[e] = j, msg'[w] = e PROVE ~AtAck(w)'
  <2> SUFFICES ASSUME AtAck(w)' PROVE FALSE
    OBVIOUS
  <2>1. msg[w] = e /\ status'[JobOf(w)] \in Finished
    BY <1>2, AcksFinished
  <2> QED BY <1>2, <2>1 DEF JobOf
<1>3. \A v \in Workers \ {w} : AtAck(v)' <=> AtAck(v)
  BY <1>1 DEF AtAck
<1>4. CASE status[j] \notin Finished
  <2>1. PICK e \in 1..Len(stream) : stream[e] = j /\ Safe(e)
    BY <1>4 DEF SafeEntries
  <2>2. e \in LiveEntries'
    BY <1>1, <2>1, LiveStep DEF Safe
  <2>3. \A v \in Workers : msg'[v] = e => ~AtAck(v)'
    BY <1>1, <1>2, <1>3, <2>1 DEF Safe
  <2> QED BY <2>1, <2>2, <2>3 DEF Safe
<1>5. CASE status[j] \in Finished
  <2> DEFINE e == msg[w]
  <2>1. pc[w] \in Processing /\ JobOf(w) = j /\ UNCHANGED streamVars
    BY <1>5, StatusWrites DEF TypeOK, StoreTypeOK, Processing
  <2>2. e \in 1..Len(stream) /\ stream[e] = j /\ e # 0
    BY <2>1, EntryNamesJob DEF TypeOK, JobOf
  <2>3. e \in LiveEntries'
    BY <2>1, <2>2 DEF HeldArePending, LiveEntries, streamVars
  <2>4. \A v \in Workers \ {w} : msg'[v] # e
    BY <1>1, <2>2 DEF OneHolder
  <2>5. \A v \in Workers : msg'[v] = e => ~AtAck(v)'
    BY <1>2, <2>2, <2>4
  <2> QED BY <2>2, <2>3, <2>5 DEF Safe
<1> QED BY <1>4, <1>5

LEMMA SubmissionSafe ==
    ASSUME TypeOK, HeldWereDelivered, SafeEntries, UNCHANGED workerVars,
           NEW j \in Jobs, HandleCreateJob(j) \/ Enqueue(j) \/ AbortRequest(j),
           faultsLeft'["enqueue"] = faultsLeft["enqueue"]
    PROVE  SafeEntries'
<1>1. /\ stream \in Seq(Jobs) /\ Len(stream) \in Nat /\ FaultsTypeOK
      /\ req \in [Jobs -> ReqState] /\ status \in [Jobs -> Status \cup {Absent}]
      /\ delivered \in Nat /\ delivered <= Len(stream)
  BY DEF TypeOK, StreamTypeOK, RequestsTypeOK, StoreTypeOK
<1>2. /\ stream' = stream \/ stream' = Append(stream, j)
      /\ delivered' = delivered /\ pel' = pel
      /\ msg' = msg /\ pc' = pc /\ ctxDone' = ctxDone
  BY DEF HandleCreateJob, Enqueue, AbortRequest, XAdd, streamVars, workerVars
<1>3. ASSUME NEW e \in 1..Len(stream), Safe(e)
      PROVE  e \in 1..Len(stream') /\ stream'[e] = stream[e] /\ Safe(e)'
  BY <1>1, <1>2, <1>3 DEF Safe, LiveEntries, AtAck
<1> SUFFICES ASSUME NEW i \in Jobs, req'[i] = "accepted", status'[i] \notin Finished
             PROVE  \E e \in 1..Len(stream') : stream'[e] = i /\ Safe(e)'
  BY DEF SafeEntries
<1>4. CASE req[i] = "accepted" /\ status[i] \notin Finished
  BY <1>3, <1>4 DEF SafeEntries
<1>5. CASE i = j /\ stream' = Append(stream, j)
  <2> DEFINE e == Len(stream) + 1
  <2>1. e \in 1..Len(stream') /\ stream'[e] = i /\ e > delivered
    BY <1>1, <1>5
  <2>2. \A w \in Workers : msg[w] # e
    BY <1>1, <2>1 DEF HeldWereDelivered, TypeOK, WorkersTypeOK
  <2>3. e \in LiveEntries'
    BY <1>1, <1>2, <1>5, <2>1 DEF LiveEntries
  <2> QED BY <1>2, <2>1, <2>2, <2>3 DEF Safe
<1>6. \/ req[i] = "accepted" /\ status[i] \notin Finished
      \/ i = j /\ stream' = Append(stream, j)
  <2>1. ~Fault("enqueue")
    BY <1>1, FaultStrikes DEF FaultKind
  <2>2. CASE HandleCreateJob(j)
    <3>1. /\ req[j] = "none" /\ \E r \in {"enqueue", "error"} : Answer(j, r)
          /\ \A k \in Jobs \ {j} : status'[k] = status[k]
      BY <1>1, <2>2 DEF HandleCreateJob, CreateJob, storeVars
    <3> QED BY <1>1, <3>1 DEF Answer
  <2>3. CASE Enqueue(j)
    <3>1. status' = status
      BY <2>3 DEF Enqueue, storeVars
    <3>2. stream' = Append(stream, j)
      BY <2>1, <2>3 DEF Enqueue, XAdd
    <3>3. req' = req \/ Answer(j, "accepted")
      BY <2>3 DEF Enqueue
    <3> QED BY <1>1, <3>1, <3>2, <3>3 DEF Answer
  <2>4. CASE AbortRequest(j)
    BY <1>1, <2>4 DEF AbortRequest, Answer, storeVars
  <2> QED BY <2>2, <2>3, <2>4
<1> QED BY <1>4, <1>5, <1>6

LEMMA StepDelivers == DeliveryInv /\ [Next]_vars => DeliveryInv'
<1> SUFFICES ASSUME DeliveryInv, Next \/ UNCHANGED vars PROVE DeliveryInv'
  OBVIOUS
<1>1. HoldInv /\ HoldInv' /\ TypeOK /\ TypeOK' /\ WithinBudget /\ HeldWereDelivered
  BY StepHolds DEF DeliveryInv, HoldInv
<1> SUFFICES ASSUME FourUnspent' PROVE HeldArePending' /\ SafeEntries'
  BY <1>1 DEF DeliveryInv
<1>2. \A k \in {"db", "enqueue", "redisLoss", "late"} :
         Unspent(k) /\ faultsLeft'[k] = faultsLeft[k]
  BY <1>1, UnspentBefore DEF FourUnspent, FaultKind
<1>3. HeldArePending /\ SafeEntries /\ OneHolder
  BY <1>2 DEF DeliveryInv, FourUnspent, HoldInv
<1>4. CASE Submission
  <2>1. PICK j \in Jobs : HandleCreateJob(j) \/ Enqueue(j) \/ AbortRequest(j)
    BY <1>4 DEF Submission, ApiNext
  <2>2. UNCHANGED workerVars /\ msg' = msg /\ pel' = pel
    BY <1>4, <2>1 DEF Submission, HandleCreateJob, Enqueue, AbortRequest, XAdd,
                      streamVars, workerVars
  <2> QED BY <1>1, <1>2, <1>3, <2>1, <2>2, SubmissionSafe DEF HeldArePending
<1>5. CASE Work
  <2>1. PICK w \in Workers : WorkerStep(w)
    BY <1>5 DEF Work, WorkerNext, WorkerStep
  <2>2. req' = req
    BY <1>5 DEF Work
  <2> QED BY <1>1, <1>2, <1>3, <2>1, <2>2, QueueSteps, PendingStep, WorkSafe
<1>6. CASE (\E e \in pel : Age(e)) \/ RedisRestart \/ UNCHANGED vars
  <2>1. ~Fault("redisLoss")
    BY <1>1, <1>2, FaultStrikes DEF TypeOK, FaultKind
  <2>2. UNCHANGED <<stream, delivered, pel, status, req, msg, pc, ctxDone>>
    BY <1>6, <2>1 DEF Age, GrowIdle, RedisRestart, vars, storeVars, streamVars, workerVars
  <2> QED
    BY <1>3, <2>2 DEF HeldArePending, SafeEntries, Safe, AtAck, LiveEntries
<1> QED BY <1>4, <1>5, <1>6 DEF Next

\* An accepted unfinished job is always named by an entry some worker will be
\* handed, through every crash, shutdown, lost Redis reply and duplicated
\* entry, until a write or an XADD fails, Redis loses its data or an entry is
\* claimed from a live worker.
THEOREM NothingIsLost == Spec => []NothingLost
<1>1. Init => DeliveryInv
  <2> SUFFICES ASSUME Init PROVE DeliveryInv
    OBVIOUS
  <2>1. /\ msg = [w \in Workers |-> 0] /\ req = [j \in Jobs |-> "none"]
    BY DEF Init, WorkersInit, ApiInit
  <2> QED BY <2>1, InitHolds DEF DeliveryInv, HeldArePending, SafeEntries
<1>2. DeliveryInv => NothingLost
  BY DEF DeliveryInv, FourUnspent, SafeEntries, Safe, NothingLost
<1> QED BY <1>1, <1>2, StepDelivers, PTL DEF Spec
=============================================================================
