---------------------------- MODULE SystemProofs ----------------------------
(***************************************************************************)
(* The back end implements the queue, for any number of replicas, workers, *)
(* users, reads, mishaps and faults and any finite set of jobs.            *)
(*                                                                         *)
(* The workers' steps are the queue's own once it is known that they leave *)
(* alone what the server's requests look like to the queue, which depends  *)
(* on the rows that are there; the server's steps are those of module Api  *)
(* by ServerSubmits, once it is known that the workers keep what that rests *)
(* on.  SystemInv is what the two owe each other.                          *)
(***************************************************************************)
EXTENDS System, ApiServerProofs
-----------------------------------------------------------------------------
\* XADD is the server's: no worker spends the fault that fails it.
CrewFaultsOK ==
    workFaults \in [Kinds -> Nat] /\ workFaults["enqueue"] = WorkBudget["enqueue"]

CrewTypeOK ==
    /\ pc \in [Workers -> Crew!Outside \cup Crew!Processing]
    /\ msg \in [Workers -> 0..Len(stream)]
    /\ \A w \in Workers : pc[w] \in Crew!Processing => msg[w] # 0
    /\ CrewFaultsOK

\* A worker's UPDATE never makes a row: its entry names one.
EntriesNameRows == \A e \in 1..Len(stream) : status[stream[e]] # Absent

SystemInv == ServerInv /\ CrewTypeOK /\ EntriesNameRows

SameRows == \A j \in Jobs : status'[j] = Absent <=> status[j] = Absent
-----------------------------------------------------------------------------
\* What the server's invariant needs of a step that is not the server's.
LEMMA ServerUntouched ==
    ASSUME ServerInv, UNCHANGED serverVars, StoreTypeOK', StreamTypeOK(Jobs)', SameRows
    PROVE  ServerInv'
<1>1. /\ proc' = proc /\ at' = at /\ on' = on /\ call' = call /\ code' = code
      /\ known' = known /\ shown' = shown /\ left' = left
  BY DEF serverVars, requestVars
<1>2. Rows' = Rows
  BY DEF SameRows, Rows
<1>3. RequestsTypeOK'
  BY <1>1, <1>2, TypeOKParts DEF ServerInv, RequestsTypeOK
<1>4. TypeOK'
  BY <1>1, <1>3, TypeOKParts DEF ServerInv, TypeOK, RequestsTypeOK, CallType
<1>5. NoUseAfterClose'
  BY <1>1 DEF ServerInv, NoUseAfterClose, Alive
<1>6. \A j \in Jobs : JobKnows(j)'
  BY <1>1 DEF ServerInv, SameRows, JobKnows
<1>7. \A r \in Reads : ReadKnows(r)' /\ ReadShows(r)'
  BY <1>1, <1>2 DEF ServerInv, ReadKnows, ReadShows, GetJobsByUser, Spent
<1> QED BY <1>1, <1>4, <1>5, <1>6, <1>7 DEF ServerInv

\* To the queue, such a step changes no request and spends none of its mishaps.
LEMMA RequestsUntouched ==
    ASSUME ServerInv, ServerInv', UNCHANGED serverVars, SameRows
    PROVE  req' = req /\ faultsLeft' = faultsLeft
<1>1. at' = at /\ code' = code /\ left' = left
  BY DEF serverVars, requestVars
<1>2. \A j \in Jobs : RequestState(j)' = RequestState(j) /\ Aborted(j)' = Aborted(j)
  BY <1>1 DEF RequestState, Accepted, Aborted, Rows, SameRows
<1>3. req' = req
  <2> HIDE DEF RequestState
  <2> QED BY <1>2 DEF req
<1>4. Unfailed' = Unfailed
  BY <1>1 DEF Unfailed
<1>5. Unaborted' = Unaborted
  <2> HIDE DEF Aborted
  <2> QED BY <1>2 DEF Unaborted
<1> HIDE DEF req, faultsLeft
<1> QED BY <1>1, <1>3, <1>4, <1>5, FaultsKept
-----------------------------------------------------------------------------
\* The workers and the stores.

LEMMA CommandsKeepStream ==
    ASSUME StreamTypeOK(Jobs)
    PROVE  /\ Crew!XGroupCreateMkStream \/ Crew!XReadGroup => StreamTypeOK(Jobs)' /\ stream' = stream
           /\ \A e : Crew!XAutoClaim(e) \/ Crew!XAck(e) \/ GrowIdle(e) =>
                        StreamTypeOK(Jobs)' /\ stream' = stream
           /\ LoseData => StreamTypeOK(Jobs)' /\ stream' = stream
<1>1. /\ stream \in Seq(Jobs) /\ Len(stream) \in Nat
      /\ lost \in Nat /\ delivered \in Nat /\ lost <= delivered /\ delivered <= Len(stream)
      /\ DOMAIN stream = 1..Len(stream)
  BY DEF StreamTypeOK
<1>2. ASSUME Crew!XGroupCreateMkStream PROVE StreamTypeOK(Jobs)' /\ stream' = stream
  BY <1>1, <1>2 DEF StreamTypeOK, Crew!XGroupCreateMkStream
<1>3. ASSUME Crew!XReadGroup PROVE StreamTypeOK(Jobs)' /\ stream' = stream
  <2>1. /\ delivered' = delivered + 1 /\ pel' = pel \cup {delivered + 1} /\ group
        /\ UNCHANGED <<stream, lost, group, idle>> /\ delivered + 1 <= Len(stream)
    BY <1>1, <1>3 DEF Crew!XReadGroup, Crew!HasNewEntry, Crew!NewEntry
  <2> QED BY <1>1, <2>1 DEF StreamTypeOK
<1>4. ASSUME NEW e, Crew!XAutoClaim(e) \/ Crew!XAck(e) \/ GrowIdle(e)
      PROVE  StreamTypeOK(Jobs)' /\ stream' = stream
  BY <1>1, <1>4 DEF StreamTypeOK, Crew!XAutoClaim, Crew!XAck, GrowIdle
<1>5. ASSUME LoseData PROVE StreamTypeOK(Jobs)' /\ stream' = stream
  <2>1. /\ lost' = Len(stream) /\ delivered' = Len(stream) /\ stream' = stream
        /\ group' = FALSE /\ pel' = {} /\ idle' = {}
    BY <1>5 DEF LoseData
  <2>2. lost' \in 0..delivered' /\ delivered' \in 0..Len(stream')
    BY <1>1, <2>1
  <2>3. pel' \subseteq (lost' + 1)..delivered' /\ idle' \subseteq pel'
    BY <2>1
  <2>4. group' \in BOOLEAN /\ (~group' => delivered' = lost')
    BY <2>1
  <2> QED BY <1>1, <2>1, <2>2, <2>3, <2>4 DEF StreamTypeOK
<1> QED BY <1>2, <1>3, <1>4, <1>5

\* The entry a worker holds names a row.
LEMMA HeldRow ==
    ASSUME SystemInv, NEW w \in Workers, pc[w] \in Crew!Processing
    PROVE  Crew!JobOf(w) \in Jobs /\ status[Crew!JobOf(w)] # Absent
<1>1. stream \in Seq(Jobs) /\ msg[w] \in 1..Len(stream)
  BY TypeOKParts DEF SystemInv, ServerInv, StreamTypeOK, CrewTypeOK
<1> QED BY <1>1 DEF SystemInv, EntriesNameRows, Crew!JobOf

\* The table and the stream after a worker's step.
CrewKeeps ==
    /\ StoreTypeOK' /\ StreamTypeOK(Jobs)' /\ SameRows /\ stream' = stream

LEMMA WritesKeep ==
    ASSUME SystemInv, NEW j \in Jobs, status[j] # Absent, stream' = stream,
           StreamTypeOK(Jobs)',
           \/ UNCHANGED storeVars
           \/ \E s \in Status : Crew!UpdateJobState(j, s)
           \/ Crew!IncrementJobRetry(j)
    PROVE  CrewKeeps
<1>1. StoreTypeOK
  BY TypeOKParts DEF SystemInv, ServerInv
<1>2. CASE UNCHANGED storeVars
  BY <1>1, <1>2 DEF CrewKeeps, StoreTypeOK, storeVars, SameRows
<1>3. CASE \E s \in Status : Crew!UpdateJobState(j, s)
  BY <1>1, <1>3 DEF CrewKeeps, StoreTypeOK, Crew!UpdateJobState, SameRows, Status, Absent
<1>4. CASE Crew!IncrementJobRetry(j)
  BY <1>1, <1>4 DEF CrewKeeps, StoreTypeOK, Crew!IncrementJobRetry, SameRows
<1> QED BY <1>2, <1>3, <1>4
-----------------------------------------------------------------------------
\* The workers' own variables.

CrewFaultStep == Crew!NoFault \/ \E k \in Kinds \ {"enqueue"} : Crew!Fault(k)

LEMMA CrewFaultsKeep ==
    ASSUME CrewTypeOK, CrewFaultStep PROVE CrewFaultsOK'
<1>1. CASE Crew!NoFault
  BY <1>1 DEF CrewTypeOK, CrewFaultsOK, Crew!NoFault
<1>2. ASSUME NEW k \in Kinds \ {"enqueue"}, Crew!Fault(k) PROVE CrewFaultsOK'
  <2>1. workFaults[k] > 0 /\ workFaults' = [workFaults EXCEPT ![k] = workFaults[k] - 1]
    BY <1>2 DEF Crew!Fault
  <2>2. workFaults \in [Kinds -> Nat] /\ workFaults[k] - 1 \in Nat
    BY <2>1 DEF CrewTypeOK, CrewFaultsOK
  <2> QED BY <2>1, <2>2 DEF CrewTypeOK, CrewFaultsOK
<1> QED BY <1>1, <1>2 DEF CrewFaultStep

\* A worker's calls fail, work or write a status with at most one fault.
LEMMA CallFaults ==
    ASSUME NEW w \in Workers, NEW k \in {"db", "redis"}, NEW s
    PROVE  /\ Crew!CallWorks(w) => CrewFaultStep
           /\ Crew!CallFails(w, k) => CrewFaultStep
           /\ Crew!WriteState(w, s) => CrewFaultStep
BY DEF Crew!CallWorks, Crew!CallFails, Crew!WriteState, CrewFaultStep, Kinds

LEMMA GotoKeeps ==
    ASSUME SystemInv, CrewFaultStep, stream' = stream, NEW w \in Workers,
           NEW l \in Crew!Outside \cup Crew!Processing, Crew!Goto(w, l), msg' = msg,
           l \in Crew!Processing => pc[w] \in Crew!Processing
    PROVE  CrewTypeOK'
<1>1. pc' = [pc EXCEPT ![w] = l]
  BY DEF Crew!Goto
<1> QED BY <1>1, CrewFaultsKeep DEF SystemInv, CrewTypeOK, Crew!Outside, Crew!Processing

LEMMA TakeKeeps ==
    ASSUME SystemInv, CrewFaultStep, stream' = stream, NEW w \in Workers,
           NEW e \in 1..Len(stream), NEW b, Crew!Process(w, e, b)
    PROVE  CrewTypeOK'
<1>1. pc' = [pc EXCEPT ![w] = "fetch"] /\ msg' = [msg EXCEPT ![w] = e]
  BY DEF Crew!Process, Crew!Goto
<1>2. "fetch" \in Crew!Processing /\ e # 0 /\ e \in 0..Len(stream)
  BY DEF Crew!Processing
<1> QED BY <1>1, <1>2, CrewFaultsKeep DEF SystemInv, CrewTypeOK

LEMMA LeaveKeeps ==
    ASSUME SystemInv, CrewFaultStep, stream' = stream, NEW w \in Workers,
           Crew!Return(w) \/ Crew!Die(w)
    PROVE  CrewTypeOK'
<1>1. PICK l \in {"dequeue", "loop", "down"} :
        pc' = [pc EXCEPT ![w] = l] /\ msg' = [msg EXCEPT ![w] = 0]
  BY DEF Crew!Return, Crew!Die, Crew!Goto
<1>2. l \in Crew!Outside /\ l \notin Crew!Processing
  BY DEF Crew!Outside, Crew!Processing
<1>3. stream \in Seq(Jobs)
  BY TypeOKParts DEF SystemInv, ServerInv, StreamTypeOK
<1>4. 0 \in 0..Len(stream)
  BY <1>3
<1> QED BY <1>1, <1>2, <1>4, CrewFaultsKeep DEF SystemInv, CrewTypeOK

CrewStays == CrewKeeps /\ CrewTypeOK'

\* A step on the stream alone.
LEMMA StreamOnly ==
    ASSUME SystemInv, UNCHANGED storeVars,
           \/ UNCHANGED streamVars
           \/ Crew!XGroupCreateMkStream \/ Crew!XReadGroup
           \/ \E e : Crew!XAutoClaim(e) \/ Crew!XAck(e) \/ GrowIdle(e)
           \/ LoseData
    PROVE  CrewKeeps
<1>1. StoreTypeOK /\ StreamTypeOK(Jobs)
  BY TypeOKParts DEF SystemInv, ServerInv
<1>2. StreamTypeOK(Jobs)' /\ stream' = stream
  BY <1>1, CommandsKeepStream, StoresIdle DEF streamVars
<1> QED BY <1>1, <1>2, StoresIdle DEF CrewKeeps, SameRows, storeVars

\* A step on the row of the entry a worker holds.
LEMMA HeldWrite ==
    ASSUME SystemInv, NEW w \in Workers, pc[w] \in Crew!Processing, UNCHANGED streamVars,
           \/ UNCHANGED storeVars
           \/ \E s \in Status : Crew!WriteState(w, s)
           \/ Crew!IncrementJobRetry(Crew!JobOf(w))
    PROVE  CrewKeeps
<1>1. StreamTypeOK(Jobs)' /\ stream' = stream
  BY TypeOKParts, StoresIdle DEF SystemInv, ServerInv, streamVars
<1>2. \/ UNCHANGED storeVars
      \/ \E s \in Status : Crew!UpdateJobState(Crew!JobOf(w), s)
      \/ Crew!IncrementJobRetry(Crew!JobOf(w))
  BY DEF Crew!WriteState, Crew!storeVars, storeVars
<1> QED BY <1>1, <1>2, HeldRow, WritesKeep

LEMMA ProcessSteps ==
    ASSUME SystemInv, NEW w \in Workers,
           Crew!Boot(w) \/ Crew!Signal(w) \/ Crew!Exit(w) \/ Crew!Crash(w)
    PROVE  CrewStays
<1>1. UNCHANGED <<storeVars, streamVars>> /\ stream' = stream /\ CrewFaultStep
  BY DEF Crew!Boot, Crew!Signal, Crew!Exit, Crew!Crash, Crew!Die, Crew!storeVars,
         Crew!streamVars, storeVars, streamVars, CrewFaultStep, Crew!NoFault, Kinds
<1>2. CrewKeeps
  BY <1>1, StreamOnly
<1>3. CrewTypeOK'
  <2>1. CASE Crew!Boot(w)
    BY <1>1, <2>1, GotoKeeps DEF Crew!Boot, Crew!Outside, Crew!Processing
  <2>2. CASE Crew!Signal(w)
    BY <1>1, <2>2, CrewFaultsKeep DEF Crew!Signal, SystemInv, CrewTypeOK
  <2>3. CASE Crew!Exit(w) \/ Crew!Crash(w)
    BY <1>1, <2>3, LeaveKeeps DEF Crew!Exit, Crew!Crash
  <2> QED BY <2>1, <2>2, <2>3
<1> QED BY <1>2, <1>3 DEF CrewStays

\* The loop outside processMessage.
LEMMA OuterSteps ==
    ASSUME SystemInv, NEW w \in Workers,
           \/ Crew!CreateGroup(w) \/ Crew!SelectDone(w)
           \/ Crew!HandleAbandonedMessages(w) \/ Crew!DequeueMessages(w)
    PROVE  CrewStays
<1>1. {"loop", "stopped", "claim", "dequeue"} \subseteq Crew!Outside \ Crew!Processing
  BY DEF Crew!Outside, Crew!Processing
<1>2. StreamTypeOK(Jobs) /\ stream \in Seq(Jobs) /\ Len(stream) \in Nat
  BY TypeOKParts DEF SystemInv, ServerInv, StreamTypeOK
<1>3. UNCHANGED storeVars
  BY DEF Crew!CreateGroup, Crew!SelectDone, Crew!HandleAbandonedMessages,
         Crew!DequeueMessages, Crew!storeVars, storeVars
<1>4. CrewFaultStep
  BY CallFaults DEF Crew!CreateGroup, Crew!SelectDone, Crew!HandleAbandonedMessages,
         Crew!DequeueMessages, CrewFaultStep, Crew!NoFault
<1>5. \/ UNCHANGED streamVars
      \/ Crew!XGroupCreateMkStream \/ Crew!XReadGroup
      \/ \E e : Crew!XAutoClaim(e) \/ Crew!XAck(e) \/ GrowIdle(e)
  BY DEF Crew!CreateGroup, Crew!SelectDone, Crew!HandleAbandonedMessages,
         Crew!DequeueMessages, Crew!streamVars, streamVars
<1>6. CrewKeeps
  BY <1>3, <1>5, StreamOnly
<1>7. stream' = stream
  BY <1>6 DEF CrewKeeps
<1>8. CrewTypeOK'
  <2>1. CASE Crew!CreateGroup(w)
    BY <1>1, <1>4, <1>7, <2>1, GotoKeeps DEF Crew!CreateGroup
  <2>2. CASE Crew!SelectDone(w)
    BY <1>1, <1>4, <1>7, <2>2, GotoKeeps DEF Crew!SelectDone
  <2>3. CASE Crew!HandleAbandonedMessages(w)
    <3>1. ASSUME NEW e \in Crew!Claimable, Crew!Process(w, e, TRUE) PROVE CrewTypeOK'
      <4>1. e \in 1..Len(stream)
        BY <1>2 DEF StreamTypeOK, Crew!Claimable, Crew!Scanned
      <4> QED BY <1>4, <1>7, <3>1, <4>1, TakeKeeps
    <3>2. ASSUME Crew!Goto(w, "dequeue"), msg' = msg PROVE CrewTypeOK'
      BY <1>1, <1>4, <1>7, <3>2, GotoKeeps
    <3> QED BY <2>3, <3>1, <3>2 DEF Crew!HandleAbandonedMessages
  <2>4. CASE Crew!DequeueMessages(w)
    <3>1. ASSUME Crew!XReadGroup, Crew!Process(w, Crew!NewEntry, FALSE) PROVE CrewTypeOK'
      <4>1. Crew!NewEntry \in 1..Len(stream)
        BY <1>2, <3>1 DEF Crew!XReadGroup, Crew!HasNewEntry
      <4> QED BY <1>4, <1>7, <3>1, <4>1, TakeKeeps
    <3>2. ASSUME NEW l \in {"loop", "stopped"}, Crew!Goto(w, l), msg' = msg PROVE CrewTypeOK'
      BY <1>1, <1>4, <1>7, <3>2, GotoKeeps
    <3> QED BY <2>4, <3>1, <3>2 DEF Crew!DequeueMessages
  <2> QED BY <2>1, <2>2, <2>3, <2>4
<1> QED BY <1>6, <1>8 DEF CrewStays

\* processMessage.
LEMMA InnerSteps ==
    ASSUME SystemInv, NEW w \in Workers,
           \/ Crew!GetJob(w) \/ Crew!MarkRunning(w) \/ Crew!RunHandler(w)
           \/ Crew!CountFailure(w) \/ Crew!MarkFailed(w) \/ Crew!MarkRetrying(w)
           \/ Crew!MarkCompleted(w) \/ Crew!Ack(w)
    PROVE  CrewStays
<1>1. {"setRunning", "handle", "increment", "setFailed", "setRetrying", "setCompleted", "ack"}
        \subseteq Crew!Processing
  BY DEF Crew!Processing
<1>2. pc[w] \in Crew!Processing
  BY DEF Crew!GetJob, Crew!MarkRunning, Crew!RunHandler, Crew!CountFailure, Crew!MarkFailed,
         Crew!MarkRetrying, Crew!MarkCompleted, Crew!Ack, Crew!Processing
<1>3. {"RUNNING", "FAILED", "RETRYING", "COMPLETED"} \subseteq Status
  BY DEF Status
<1>4. CrewFaultStep
  BY CallFaults DEF Crew!GetJob, Crew!MarkRunning, Crew!RunHandler, Crew!CountFailure,
         Crew!MarkFailed, Crew!MarkRetrying, Crew!MarkCompleted, Crew!Ack,
         CrewFaultStep, Crew!NoFault
<1>5. CASE Crew!Ack(w)
  <2>1. CrewKeeps
    BY <1>5, StreamOnly DEF Crew!Ack, Crew!storeVars, storeVars, Crew!streamVars, streamVars
  <2>2. Crew!Return(w) /\ stream' = stream
    BY <1>5, <2>1 DEF Crew!Ack, CrewKeeps
  <2> QED BY <1>4, <2>1, <2>2, LeaveKeeps DEF CrewStays
<1>6. ASSUME ~Crew!Ack(w) PROVE CrewStays
  <2>1. UNCHANGED streamVars
    BY <1>6 DEF Crew!GetJob, Crew!MarkRunning, Crew!RunHandler, Crew!CountFailure,
         Crew!MarkFailed, Crew!MarkRetrying, Crew!MarkCompleted, Crew!streamVars, streamVars
  <2>2. \/ UNCHANGED storeVars
        \/ \E s \in Status : Crew!WriteState(w, s)
        \/ Crew!IncrementJobRetry(Crew!JobOf(w))
    BY <1>3, <1>6 DEF Crew!GetJob, Crew!MarkRunning, Crew!RunHandler, Crew!CountFailure,
         Crew!MarkFailed, Crew!MarkRetrying, Crew!MarkCompleted, Crew!storeVars, storeVars
  <2>3. CrewKeeps /\ stream' = stream
    BY <1>2, <2>1, <2>2, HeldWrite DEF CrewKeeps
  <2>4. ASSUME NEW l \in Crew!Processing, Crew!Goto(w, l), msg' = msg PROVE CrewTypeOK'
    BY <1>2, <1>4, <2>3, <2>4, GotoKeeps
  <2>5. ASSUME Crew!Return(w) PROVE CrewTypeOK'
    BY <1>4, <2>3, <2>5, LeaveKeeps
  <2>6. CrewTypeOK'
    BY <1>1, <1>6, <2>4, <2>5
       DEF Crew!GetJob, Crew!MarkRunning, Crew!RunHandler, Crew!CountFailure,
           Crew!MarkFailed, Crew!MarkRetrying, Crew!MarkCompleted
  <2> QED BY <2>3, <2>6 DEF CrewStays
<1> QED BY <1>5, <1>6
-----------------------------------------------------------------------------
\* The invariant.

LEMMA CrewStaysKeeps ==
    ASSUME SystemInv, UNCHANGED serverVars, CrewStays
    PROVE  SystemInv'
<1>1. ServerInv'
  BY ServerUntouched DEF SystemInv, CrewStays, CrewKeeps
<1>2. EntriesNameRows'
  <2>1. stream \in Seq(Jobs) /\ stream' = stream
    BY TypeOKParts DEF SystemInv, ServerInv, StreamTypeOK, CrewStays, CrewKeeps
  <2>2. \A e \in 1..Len(stream) : stream[e] \in Jobs
    BY <2>1
  <2> QED BY <2>1, <2>2 DEF SystemInv, EntriesNameRows, CrewStays, CrewKeeps, SameRows
<1> QED BY <1>1, <1>2 DEF SystemInv, CrewStays

LEMMA WorkStep == ASSUME SystemInv, Work PROVE CrewStays
<1>1. PICK w \in Workers :
        \/ Crew!LoopStep(w)
        \/ Crew!Boot(w) \/ Crew!Signal(w) \/ Crew!Exit(w) \/ Crew!Crash(w)
  BY DEF Work, Crew!WorkerNext
<1> QED BY <1>1, ProcessSteps, OuterSteps, InnerSteps DEF Crew!LoopStep

LEMMA OtherStep ==
    ASSUME SystemInv, RedisRestart \/ \E e \in pel : Age(e)
    PROVE  CrewStays /\ UNCHANGED serverVars
<1>1. /\ UNCHANGED <<storeVars, serverVars, workerVars>> /\ CrewFaultStep
      /\ LoseData \/ \E e : GrowIdle(e)
  BY DEF RedisRestart, Age, CrewFaultStep, Kinds
<1>2. CrewKeeps
  BY <1>1, StreamOnly
<1>3. CrewTypeOK'
  BY <1>1, <1>2, CrewFaultsKeep DEF SystemInv, CrewTypeOK, CrewKeeps, workerVars
<1> QED BY <1>1, <1>2, <1>3 DEF CrewStays

\* What a step of the server does to the stores, as module Api says it.
LEMMA ServerWrites ==
    ASSUME ServerInv, ServerInv', Serve
    PROVE  /\ \A j \in Jobs : status'[j] = status[j] \/ status'[j] # Absent
           /\ stream' = stream \/ \E j \in Jobs : stream' = Append(stream, j) /\ status[j] # Absent
<1>1. SubmissionStep /\ status \in [Jobs -> Status \cup {Absent}]
  BY SubmissionNext, TypeOKParts DEF Serve, ServerInv, StoreTypeOK
<1>2. CASE UNCHANGED <<storeVars, streamVars>>
  BY <1>2 DEF storeVars, streamVars
<1>3. ASSUME NEW j \in Jobs, Submission!HandleCreateJob(j)
      PROVE  /\ stream' = stream
             /\ \A i \in Jobs : status'[i] = status[i] \/ status'[i] # Absent
  BY <1>1, <1>3 DEF Submission!HandleCreateJob, Submission!CreateJob, Submission!streamVars,
     Submission!storeVars, Absent
<1>4. ASSUME NEW j \in Jobs, Submission!Enqueue(j)
      PROVE  /\ status' = status
             /\ stream' = stream \/ (stream' = Append(stream, j) /\ status[j] # Absent)
  <2>1. req[j] = "enqueue"
    BY <1>4 DEF Submission!Enqueue
  <2>2. at[j] = "enqueue"
    BY <2>1 DEF req, RequestState
  <2>3. status[j] # Absent
    BY <2>2 DEF ServerInv, JobKnows
  <2> QED BY <1>4, <2>3 DEF Submission!Enqueue, Submission!XAdd, Submission!storeVars,
                            Submission!streamVars
<1>5. ASSUME NEW j \in Jobs, Submission!AbortRequest(j)
      PROVE  UNCHANGED <<status, stream>>
  BY <1>5 DEF Submission!AbortRequest, Submission!storeVars, Submission!streamVars
<1> QED BY <1>1, <1>2, <1>3, <1>4, <1>5 DEF SubmissionStep, Submission!ApiNext

LEMMA ServeKeeps == ASSUME SystemInv, Serve PROVE SystemInv'
<1>1. ServerInv'
  BY ServerStep DEF SystemInv, Serve
<1>2. stream \in Seq(Jobs)
  BY TypeOKParts DEF SystemInv, ServerInv, StreamTypeOK
<1>3. /\ \A j \in Jobs : status'[j] = status[j] \/ status'[j] # Absent
      /\ stream' = stream \/ \E j \in Jobs : stream' = Append(stream, j) /\ status[j] # Absent
  BY <1>1, ServerWrites DEF SystemInv
<1>4. Len(stream) \in Nat /\ Len(stream') \in Nat /\ Len(stream) <= Len(stream')
  BY <1>2, <1>3
<1>5. CrewTypeOK'
  <2>1. msg \in [Workers -> 0..Len(stream')]
    BY <1>4 DEF SystemInv, CrewTypeOK
  <2> QED BY <2>1 DEF SystemInv, CrewTypeOK, CrewFaultsOK, Serve, crewVars, workerVars
<1>6. EntriesNameRows'
  <2>1. \A e \in 1..Len(stream) : stream[e] \in Jobs /\ status[stream[e]] # Absent
    BY <1>2 DEF SystemInv, EntriesNameRows
  <2>2. CASE stream' = stream
    BY <1>3, <2>1, <2>2 DEF EntriesNameRows
  <2>3. ASSUME NEW j \in Jobs, stream' = Append(stream, j), status[j] # Absent
        PROVE  EntriesNameRows'
    <3>1. \A e \in 1..Len(stream') : stream'[e] \in Jobs /\ status[stream'[e]] # Absent
      BY <1>2, <2>1, <2>3
    <3> QED BY <1>3, <3>1 DEF EntriesNameRows
  <2> QED BY <1>3, <2>2, <2>3
<1> QED BY <1>1, <1>5, <1>6 DEF SystemInv

LEMMA SystemStep == SystemInv /\ [SystemNext]_systemVars => SystemInv'
<1> SUFFICES ASSUME SystemInv, [SystemNext]_systemVars PROVE SystemInv'
  OBVIOUS
<1>1. CASE UNCHANGED systemVars
  <2>1. ServerInv'
    BY <1>1, ServerStutters DEF SystemInv, systemVars
  <2> QED BY <1>1, <2>1 DEF SystemInv, CrewTypeOK, CrewFaultsOK, EntriesNameRows, systemVars, vars,
                            crewVars, workerVars, storeVars, streamVars
<1>2. CASE Serve
  BY <1>2, ServeKeeps
<1>3. CASE Work
  BY <1>3, WorkStep, CrewStaysKeeps DEF Work
<1>4. CASE RedisRestart \/ \E e \in pel : Age(e)
  BY <1>4, OtherStep, CrewStaysKeeps
<1> QED BY <1>1, <1>2, <1>3, <1>4 DEF SystemNext

LEMMA SystemStarts == SystemInit => SystemInv
<1> SUFFICES ASSUME SystemInit PROVE SystemInv
  OBVIOUS
<1>1. ServerInv
  BY ServerInit DEF SystemInit
<1>2. stream = <<>>
  BY DEF SystemInit, Init, StreamInit
<1>3. CrewTypeOK
  BY <1>2, SystemAssumption DEF SystemInit, Crew!WorkersInit, Crew!FaultsInit, CrewTypeOK,
     CrewFaultsOK, Kinds, Crew!Outside, Crew!Processing
<1> QED BY <1>1, <1>2, <1>3 DEF SystemInv, EntriesNameRows

LEMMA SystemAlways == SystemSpec => []SystemInv
BY SystemStarts, SystemStep, PTL DEF SystemSpec
-----------------------------------------------------------------------------
\* The stock of faults the queue sees is the server's and the workers' together.

LEMMA ServerFaultsType == ServerInv => faultsLeft \in [Kinds -> Nat]
<1> SUFFICES ASSUME ServerInv PROVE faultsLeft \in [Kinds -> Nat]
  OBVIOUS
<1>1. left \in [MishapKind -> Nat] /\ {"enqueue", "dup"} \subseteq MishapKind
  BY TypeOKParts DEF ServerInv, MishapKind
<1>2. Cardinality(Unfailed) \in Nat /\ Cardinality(Unaborted) \in Nat
  BY ApiServerAssumption, FS_Subset, FS_CardinalityType DEF Unfailed, Unaborted
<1> HIDE DEF faultsLeft, Unfailed, Unaborted
<1> QED BY <1>1, <1>2, FaultsNow DEF FaultsAre, FaultsOf

LEMMA CrewFaultLifts ==
    ASSUME SystemInv, faultsLeft' = faultsLeft
    PROVE  /\ Crew!NoFault => Queue!NoFault
           /\ \A k \in Kinds : Crew!Fault(k) => Queue!Fault(k)
<1>1. faultsLeft \in [Kinds -> Nat] /\ workFaults \in [Kinds -> Nat]
  BY ServerFaultsType DEF SystemInv, CrewTypeOK, CrewFaultsOK
<1> HIDE DEF faultsLeft
<1>2. Crew!NoFault => Queue!NoFault
  BY DEF Crew!NoFault, Queue!NoFault
<1>3. ASSUME NEW k \in Kinds, Crew!Fault(k) PROVE Queue!Fault(k)
  <2>1. workFaults[k] > 0 /\ workFaults' = [workFaults EXCEPT ![k] = workFaults[k] - 1]
    BY <1>3 DEF Crew!Fault
  <2> DEFINE all == [l \in Kinds |-> faultsLeft[l] + workFaults[l]]
  <2>2. \A l \in Kinds : /\ all[l] = faultsLeft[l] + workFaults[l]
                         /\ all'[l] = faultsLeft'[l] + workFaults'[l]
    OBVIOUS
  <2>3. all \in [Kinds -> Int] /\ all' \in [Kinds -> Int]
    BY <1>1, <2>1
  <2>4. \A l \in Kinds : /\ all[l] = workFaults[l] + faultsLeft[l]
                         /\ all'[l] = workFaults'[l] + faultsLeft[l]
    BY <1>1, <2>1, <2>2
  <2>5. all[k] > 0 /\ \A l \in Kinds : all'[l] = IF l = k THEN all[k] - 1 ELSE all[l]
    <3> HIDE DEF all
    <3> QED BY <1>1, <2>1, <2>4
  <2>6. all' = [all EXCEPT ![k] = all[k] - 1]
    <3> HIDE DEF all
    <3> QED BY <2>3, <2>5
  <2> QED BY <2>5, <2>6 DEF Queue!Fault
<1> QED BY <1>2, <1>3

LEMMA ServerFaultLifts ==
    ASSUME SystemInv, workFaults' = workFaults
    PROVE  /\ Submission!NoFault => Queue!NoFault
           /\ \A k \in Kinds : Submission!Fault(k) => Queue!Fault(k)
<1>1. faultsLeft \in [Kinds -> Nat] /\ workFaults \in [Kinds -> Nat]
  BY ServerFaultsType DEF SystemInv, CrewTypeOK, CrewFaultsOK
<1> HIDE DEF faultsLeft
<1>2. Submission!NoFault => Queue!NoFault
  BY DEF Submission!NoFault, Queue!NoFault
<1>3. ASSUME NEW k \in Kinds, Submission!Fault(k) PROVE Queue!Fault(k)
  <2>1. faultsLeft[k] > 0 /\ faultsLeft' = [faultsLeft EXCEPT ![k] = faultsLeft[k] - 1]
    BY <1>3 DEF Submission!Fault
  <2> DEFINE all == [l \in Kinds |-> faultsLeft[l] + workFaults[l]]
  <2>2. \A l \in Kinds : /\ all[l] = faultsLeft[l] + workFaults[l]
                         /\ all'[l] = faultsLeft'[l] + workFaults'[l]
    OBVIOUS
  <2>3. all \in [Kinds -> Int] /\ all' \in [Kinds -> Int]
    BY <1>1, <2>1
  <2>4. \A l \in Kinds : /\ all[l] = faultsLeft[l] + workFaults[l]
                         /\ all'[l] = faultsLeft'[l] + workFaults[l]
    BY <1>1, <2>1, <2>2
  <2>5. all[k] > 0 /\ \A l \in Kinds : all'[l] = IF l = k THEN all[k] - 1 ELSE all[l]
    <3> HIDE DEF all
    <3> QED BY <1>1, <2>1, <2>4
  <2>6. all' = [all EXCEPT ![k] = all[k] - 1]
    <3> HIDE DEF all
    <3> QED BY <2>3, <2>5
  <2> QED BY <2>5, <2>6 DEF Queue!Fault
<1> QED BY <1>2, <1>3
-----------------------------------------------------------------------------
\* The server's steps are submissions.
LEMMA ServeIsSubmission ==
    ASSUME SystemInv, SystemInv', Serve PROVE [Queue!Next]_(Queue!vars)
<1>1. /\ SubmissionStep /\ workFaults' = workFaults
      /\ UNCHANGED <<pc, msg, claimed, attempts, ctxDone, failures>>
  BY SubmissionNext DEF SystemInv, Serve, crewVars, workerVars
<1>2. /\ Submission!NoFault => Queue!NoFault
      /\ \A k \in Kinds : Submission!Fault(k) => Queue!Fault(k)
  BY <1>1, ServerFaultLifts
<1>3. {"insert", "dup", "enqueue", "abort"} \subseteq Kinds
  BY DEF Kinds
<1> HIDE DEF req, faultsLeft
<1>4. CASE UNCHANGED <<storeVars, streamVars, req, faultsLeft>>
  BY <1>1, <1>4 DEF Queue!vars, Queue!storeVars, Queue!streamVars, Queue!workerVars,
     storeVars, streamVars
<1>5. ASSUME NEW j \in Jobs, Submission!HandleCreateJob(j) PROVE Queue!HandleCreateJob(j)
  BY <1>2, <1>3, <1>5
     DEF Submission!HandleCreateJob, Queue!HandleCreateJob, Submission!Answer, Queue!Answer,
         Submission!CreateJob, Queue!CreateJob, Submission!EffectiveRetries,
         Queue!EffectiveRetries, Submission!DefaultRetries, Queue!DefaultRetries,
         Submission!storeVars, Submission!streamVars, Queue!storeVars, Queue!streamVars,
         Submission!Absent, Queue!Absent
<1>6. ASSUME NEW j \in Jobs, Submission!Enqueue(j) PROVE Queue!Enqueue(j)
  BY <1>2, <1>3, <1>6
     DEF Submission!Enqueue, Queue!Enqueue, Submission!Answer, Queue!Answer,
         Submission!XAdd, Queue!XAdd, Submission!storeVars, Submission!streamVars,
         Queue!storeVars, Queue!streamVars
<1>7. ASSUME NEW j \in Jobs, Submission!AbortRequest(j) PROVE Queue!AbortRequest(j)
  BY <1>2, <1>3, <1>7
     DEF Submission!AbortRequest, Queue!AbortRequest, Submission!Answer, Queue!Answer,
         Submission!storeVars, Submission!streamVars, Queue!storeVars, Queue!streamVars
<1>8. CASE Submission!ApiNext
  <2>1. Queue!Submission
    BY <1>1, <1>5, <1>6, <1>7, <1>8
       DEF Submission!ApiNext, Queue!ApiNext, Queue!Submission, Queue!workerVars
  <2> QED BY <2>1 DEF Queue!Next
<1> QED BY <1>1, <1>4, <1>8 DEF SubmissionStep
-----------------------------------------------------------------------------
\* A worker's steps are the queue's.

LiftsCalls(w) ==
    /\ Crew!NoFault => Queue!NoFault
    /\ \A k \in Kinds : Crew!Fault(k) => Queue!Fault(k)
    /\ Crew!CallWorks(w) => Queue!CallWorks(w)
    /\ \A k \in {"db", "redis"} : Crew!CallFails(w, k) => Queue!CallFails(w, k)
    /\ \A s : Crew!WriteState(w, s) => Queue!WriteState(w, s)

LEMMA CallsLift ==
    ASSUME SystemInv, faultsLeft' = faultsLeft, NEW w \in Workers
    PROVE  LiftsCalls(w)
<1>1. /\ Crew!NoFault => Queue!NoFault
      /\ \A k \in Kinds : Crew!Fault(k) => Queue!Fault(k)
  BY CrewFaultLifts
<1>2. Crew!CallWorks(w) => Queue!CallWorks(w)
  BY <1>1 DEF Crew!CallWorks, Queue!CallWorks
<1>3. \A k \in {"db", "redis"} : Crew!CallFails(w, k) => Queue!CallFails(w, k)
  BY <1>1 DEF Crew!CallFails, Queue!CallFails, Kinds
<1>4. \A s : Crew!WriteState(w, s) => Queue!WriteState(w, s)
  BY <1>2, <1>3 DEF Crew!WriteState, Queue!WriteState, Crew!UpdateJobState,
     Queue!UpdateJobState, Crew!JobOf, Queue!JobOf, Crew!storeVars, Queue!storeVars
<1> QED BY <1>1, <1>2, <1>3, <1>4 DEF LiftsCalls

LEMMA MovesLift ==
    ASSUME NEW w \in Workers
    PROVE  /\ \A l : Crew!Goto(w, l) => Queue!Goto(w, l)
           /\ \A e, b : Crew!Process(w, e, b) => Queue!Process(w, e, b)
           /\ Crew!Return(w) => Queue!Return(w)
           /\ Crew!Die(w) => Queue!Die(w)
BY DEF Crew!Goto, Queue!Goto, Crew!Process, Queue!Process, Crew!Return, Queue!Return,
       Crew!Die, Queue!Die, Crew!storeVars, Queue!storeVars, Crew!streamVars, Queue!streamVars

LEMMA LoopLifts ==
    ASSUME NEW w \in Workers, LiftsCalls(w), Crew!LoopStep(w)
    PROVE  Queue!LoopStep(w)
<1>1. ASSUME Crew!CreateGroup(w) PROVE Queue!CreateGroup(w)
  BY <1>1, MovesLift DEF LiftsCalls, Crew!CreateGroup, Queue!CreateGroup,
     Crew!XGroupCreateMkStream, Queue!XGroupCreateMkStream, Crew!storeVars, Queue!storeVars,
     Crew!streamVars, Queue!streamVars, Crew!localVars, Queue!localVars
<1>2. ASSUME Crew!SelectDone(w) PROVE Queue!SelectDone(w)
  BY <1>2, MovesLift DEF LiftsCalls, Crew!SelectDone, Queue!SelectDone, Crew!storeVars,
     Queue!storeVars, Crew!streamVars, Queue!streamVars, Crew!localVars, Queue!localVars,
     Crew!NoFault, Queue!NoFault
<1>3. ASSUME Crew!HandleAbandonedMessages(w) PROVE Queue!HandleAbandonedMessages(w)
  <2>1. Crew!Claimable = Queue!Claimable
    <3>1. \A S : Crew!Cardinality(S) = Queue!Cardinality(S)
      BY DEF Crew!Cardinality, Queue!Cardinality
    <3>2. Crew!Scanned = Queue!Scanned
      BY <3>1 DEF Crew!Scanned, Queue!Scanned
    <3> QED BY <3>2 DEF Crew!Claimable, Queue!Claimable
  <2>2. \A e : Crew!XAutoClaim(e) => Queue!XAutoClaim(e)
    BY <2>1 DEF Crew!XAutoClaim, Queue!XAutoClaim
  <2> QED BY <1>3, <2>1, <2>2, MovesLift
          DEF LiftsCalls, Crew!HandleAbandonedMessages, Queue!HandleAbandonedMessages,
              Crew!storeVars, Queue!storeVars, Crew!streamVars, Queue!streamVars,
              Crew!localVars, Queue!localVars
<1>4. ASSUME Crew!DequeueMessages(w) PROVE Queue!DequeueMessages(w)
  BY <1>4, MovesLift DEF LiftsCalls, Crew!DequeueMessages, Queue!DequeueMessages, Crew!XReadGroup,
     Queue!XReadGroup, Crew!HasNewEntry, Queue!HasNewEntry, Crew!NewEntry, Queue!NewEntry,
     Crew!storeVars, Queue!storeVars, Crew!streamVars, Queue!streamVars, Crew!localVars,
     Queue!localVars
<1>5. ASSUME Crew!GetJob(w) PROVE Queue!GetJob(w)
  BY <1>5, MovesLift DEF LiftsCalls, Crew!GetJob, Queue!GetJob, Crew!JobOf, Queue!JobOf,
     Crew!Finished, Queue!Finished, Crew!storeVars, Queue!storeVars, Crew!streamVars,
     Queue!streamVars, Crew!localVars, Queue!localVars
<1>6. ASSUME Crew!MarkRunning(w) PROVE Queue!MarkRunning(w)
  BY <1>6, MovesLift DEF LiftsCalls, Crew!MarkRunning, Queue!MarkRunning, Crew!JobOf, Queue!JobOf,
     Crew!storeVars, Queue!storeVars, Crew!streamVars, Queue!streamVars, Crew!localVars,
     Queue!localVars
<1>7. ASSUME Crew!RunHandler(w) PROVE Queue!RunHandler(w)
  BY <1>7, MovesLift DEF LiftsCalls, Crew!RunHandler, Queue!RunHandler, Crew!JobOf, Queue!JobOf,
     Crew!storeVars, Queue!storeVars, Crew!streamVars, Queue!streamVars, Crew!localVars,
     Queue!localVars, Crew!NoFault, Queue!NoFault
<1>8. ASSUME Crew!CountFailure(w) PROVE Queue!CountFailure(w)
  BY <1>8, MovesLift DEF LiftsCalls, Crew!CountFailure, Queue!CountFailure, Crew!JobOf,
     Queue!JobOf, Crew!IncrementJobRetry, Queue!IncrementJobRetry, Crew!storeVars,
     Queue!storeVars, Crew!streamVars, Queue!streamVars, Crew!localVars, Queue!localVars
<1>9. ASSUME Crew!MarkFailed(w) PROVE Queue!MarkFailed(w)
  BY <1>9, MovesLift DEF LiftsCalls, Crew!MarkFailed, Queue!MarkFailed, Crew!storeVars,
     Queue!storeVars, Crew!streamVars, Queue!streamVars, Crew!localVars, Queue!localVars
<1>10. ASSUME Crew!MarkRetrying(w) PROVE Queue!MarkRetrying(w)
  BY <1>10, MovesLift DEF LiftsCalls, Crew!MarkRetrying, Queue!MarkRetrying, Crew!storeVars,
     Queue!storeVars, Crew!streamVars, Queue!streamVars, Crew!localVars, Queue!localVars
<1>11. ASSUME Crew!MarkCompleted(w) PROVE Queue!MarkCompleted(w)
  BY <1>11, MovesLift DEF LiftsCalls, Crew!MarkCompleted, Queue!MarkCompleted, Crew!storeVars,
     Queue!storeVars, Crew!streamVars, Queue!streamVars, Crew!localVars, Queue!localVars
<1>12. ASSUME Crew!Ack(w) PROVE Queue!Ack(w)
  BY <1>12, MovesLift DEF LiftsCalls, Crew!Ack, Queue!Ack, Crew!XAck, Queue!XAck, Crew!storeVars,
     Queue!storeVars, Crew!streamVars, Queue!streamVars, Crew!localVars, Queue!localVars
<1> QED BY <1>1, <1>2, <1>3, <1>4, <1>5, <1>6, <1>7, <1>8, <1>9, <1>10, <1>11, <1>12
        DEF Crew!LoopStep, Queue!LoopStep

LEMMA ProcessLifts ==
    ASSUME NEW w \in Workers, LiftsCalls(w),
           Crew!Boot(w) \/ Crew!Signal(w) \/ Crew!Exit(w) \/ Crew!Crash(w)
    PROVE  Queue!Boot(w) \/ Queue!Signal(w) \/ Queue!Exit(w) \/ Queue!Crash(w)
<1>1. {"sigterm", "crash"} \subseteq Kinds
  BY DEF Kinds
<1>2. ASSUME Crew!Boot(w) PROVE Queue!Boot(w)
  BY <1>2, MovesLift DEF LiftsCalls, Crew!Boot, Queue!Boot, Crew!NoFault, Queue!NoFault,
     Crew!storeVars, Queue!storeVars, Crew!streamVars, Queue!streamVars, Crew!localVars,
     Queue!localVars
<1>3. ASSUME Crew!Signal(w) PROVE Queue!Signal(w)
  BY <1>1, <1>3 DEF LiftsCalls, Crew!Signal, Queue!Signal, Crew!storeVars, Queue!storeVars,
     Crew!streamVars, Queue!streamVars
<1>4. ASSUME Crew!Exit(w) PROVE Queue!Exit(w)
  BY <1>4, MovesLift DEF LiftsCalls, Crew!Exit, Queue!Exit
<1>5. ASSUME Crew!Crash(w) PROVE Queue!Crash(w)
  BY <1>1, <1>5, MovesLift DEF LiftsCalls, Crew!Crash, Queue!Crash
<1> QED BY <1>2, <1>3, <1>4, <1>5

LEMMA WorkIsWork == ASSUME SystemInv, Work PROVE Queue!Work
<1>1. SystemInv' /\ req' = req /\ faultsLeft' = faultsLeft
  BY WorkStep, CrewStaysKeeps, RequestsUntouched DEF SystemInv, Work, CrewStays, CrewKeeps
<1> HIDE DEF req, faultsLeft
<1>2. PICK w \in Workers :
        \/ Crew!LoopStep(w)
        \/ Crew!Boot(w) \/ Crew!Signal(w) \/ Crew!Exit(w) \/ Crew!Crash(w)
  BY DEF Work, Crew!WorkerNext
<1>3. LiftsCalls(w)
  BY <1>1, CallsLift
<1> QED BY <1>1, <1>2, <1>3, LoopLifts, ProcessLifts DEF Queue!Work, Queue!WorkerNext

LEMMA OthersAreOthers ==
    ASSUME SystemInv, RedisRestart \/ \E e \in pel : Age(e)
    PROVE  Queue!RedisRestart \/ \E e \in pel : Queue!Age(e)
<1>1. UNCHANGED workerVars /\ req' = req /\ faultsLeft' = faultsLeft
  BY OtherStep, CrewStaysKeeps, RequestsUntouched
     DEF SystemInv, CrewStays, CrewKeeps, RedisRestart, Age
<1> HIDE DEF req, faultsLeft
<1>2. /\ Crew!NoFault => Queue!NoFault
      /\ \A k \in Kinds : Crew!Fault(k) => Queue!Fault(k)
  BY <1>1, CrewFaultLifts
<1>3. {"redisLoss", "late"} \subseteq Kinds
  BY DEF Kinds
<1>4. ASSUME RedisRestart PROVE Queue!RedisRestart
  BY <1>1, <1>2, <1>3, <1>4 DEF RedisRestart, Queue!RedisRestart, LoseData, Queue!LoseData,
     storeVars, Queue!storeVars, workerVars, Queue!workerVars
<1>5. ASSUME NEW e \in pel, Age(e) PROVE Queue!Age(e)
  BY <1>1, <1>2, <1>3, <1>5 DEF Age, Queue!Age, GrowIdle, Queue!GrowIdle, Crew!Holders,
     Queue!Holders, storeVars, Queue!storeVars, workerVars, Queue!workerVars
<1> QED BY <1>4, <1>5

LEMMA QueueSteps ==
    SystemInv /\ SystemInv' /\ [SystemNext]_systemVars => [Queue!Next]_(Queue!vars)
<1> SUFFICES ASSUME SystemInv, SystemInv', [SystemNext]_systemVars
             PROVE  [Queue!Next]_(Queue!vars)
  OBVIOUS
<1>1. CASE UNCHANGED systemVars
  <2>1. UNCHANGED serverVars /\ SameRows
    BY <1>1 DEF systemVars, vars, serverVars, SameRows, storeVars
  <2>2. req' = req /\ faultsLeft' = faultsLeft
    BY <2>1, RequestsUntouched DEF SystemInv
  <2> HIDE DEF req, faultsLeft
  <2> QED BY <1>1, <2>2 DEF systemVars, vars, crewVars, workerVars, storeVars, streamVars,
             Queue!vars, Queue!storeVars, Queue!streamVars, Queue!workerVars
<1>2. CASE Serve
  BY <1>2, ServeIsSubmission
<1>3. CASE Work
  BY <1>3, WorkIsWork DEF Queue!Next
<1>4. CASE RedisRestart \/ \E e \in pel : Age(e)
  BY <1>4, OthersAreOthers DEF Queue!Next
<1> QED BY <1>1, <1>2, <1>3, <1>4 DEF SystemNext

LEMMA QueueStarts == SystemInit => Queue!Init
<1> SUFFICES ASSUME SystemInit PROVE Queue!Init
  OBVIOUS
<1>1. StoreInit /\ StreamInit /\ Submission!FaultsInit /\ Submission!ApiInit
  BY SubmissionStarts DEF SystemInit
<1>2. faultsLeft = budget /\ workFaults = WorkBudget
  BY <1>1 DEF SystemInit, Crew!FaultsInit, Submission!FaultsInit
<1> HIDE DEF req, faultsLeft, budget
<1>3. Queue!FaultsInit
  BY <1>2 DEF Queue!FaultsInit
<1>4. Queue!StoreInit /\ Queue!StreamInit /\ Queue!ApiInit /\ Queue!WorkersInit
  BY <1>1 DEF SystemInit, StoreInit, Queue!StoreInit, Queue!Absent, Absent, Queue!NoType,
     NoType, StreamInit, Queue!StreamInit, Submission!ApiInit, Queue!ApiInit,
     Crew!WorkersInit, Queue!WorkersInit
<1> QED BY <1>3, <1>4 DEF Queue!Init

\* The back end with real replicas in front of the stream is a queue as module
\* MDQ describes it: every step of a server process, a handler, a client, a
\* worker or Redis is a step of MDQ or changes nothing MDQ knows, so that no
\* job is lost, run twice or given up because of where in its life a replica
\* is stopped, killed or left by its client.
THEOREM SystemIsTheQueue == SystemSpec => ImplementsQueue
BY QueueStarts, QueueSteps, SystemAlways, PTL DEF SystemSpec, ImplementsQueue, Queue!Spec
-----------------------------------------------------------------------------
(***************************************************************************)
(* What is proved of the queue holds of the system.  Proven is Queue once  *)
(* more, with the theorems about it.                                       *)
(***************************************************************************)

Proven ==
    INSTANCE RetryProofs
        WITH FaultBudget <- [k \in Kinds |-> budget[k] + WorkBudget[k]],
             faultsLeft <- [k \in Kinds |-> faultsLeft[k] + workFaults[k]]

LEMMA ProvenAssumptions ==
    /\ Proven!BudgetAssumption /\ Proven!TypesAssumption /\ Proven!ScanAssumption
    /\ Proven!RetriesAssumption /\ Proven!WorkersAssumption
<1>1. budget \in [Kinds -> Nat]
  <2>1. Cardinality(Jobs) \in Nat
    BY ApiServerAssumption, FS_CardinalityType
  <2>2. MishapBudget["enqueue"] \in Nat /\ MishapBudget["dup"] \in Nat
    BY ApiServerAssumption DEF MishapKind
  <2> QED BY <2>1, <2>2 DEF budget, Allowance
<1>2. Proven!BudgetAssumption
  <2> HIDE DEF budget
  <2> QED BY <1>1, SystemAssumption DEF Proven!BudgetAssumption, Proven!FaultKind, Kinds
<1>3. Proven!TypesAssumption
  BY TypesAssumption DEF Proven!TypesAssumption
<1>4. Proven!ScanAssumption
  BY ScanAssumption DEF Proven!ScanAssumption
<1>5. Proven!RetriesAssumption
  BY ApiServerAssumption DEF Proven!RetriesAssumption
<1>6. Proven!WorkersAssumption
  BY SystemAssumption DEF Proven!WorkersAssumption, Proven!IsFiniteSet, IsFiniteSet
<1> QED BY <1>2, <1>3, <1>4, <1>5, <1>6

\* The two instances are the same specification, definition by definition.
LEMMA ProvenStarts == Queue!Init => Proven!Init
<1> HIDE DEF req, faultsLeft, budget
<1> QED BY DEF Queue!Init, Proven!Init, Queue!StoreInit, Proven!StoreInit, Queue!Absent,
               Proven!Absent, Queue!NoType, Proven!NoType, Queue!StreamInit, Proven!StreamInit,
               Queue!FaultsInit, Proven!FaultsInit, Queue!ApiInit, Proven!ApiInit,
               Queue!WorkersInit, Proven!WorkersInit

LEMMA ProvenStutters == UNCHANGED Queue!vars => UNCHANGED Proven!vars
<1> HIDE DEF req, faultsLeft, budget
<1> QED
  BY DEF Queue!vars, Proven!vars, Queue!storeVars, Proven!storeVars, Queue!streamVars,
         Proven!streamVars, Queue!workerVars, Proven!workerVars

LEMMA ProvenSteps == Queue!Next => Proven!Next
<1> HIDE DEF req, faultsLeft, budget
<1> QED
  BY Zenon
  DEF Queue!Next, Proven!Next, Queue!Submission, Proven!Submission, Queue!Work,
      Proven!Work, Queue!Age, Proven!Age, Queue!RedisRestart, Proven!RedisRestart,
      Queue!ApiNext, Proven!ApiNext, Queue!HandleCreateJob, Proven!HandleCreateJob,
      Queue!Enqueue, Proven!Enqueue, Queue!AbortRequest, Proven!AbortRequest,
      Queue!Answer, Proven!Answer, Queue!CreateJob, Proven!CreateJob,
      Queue!EffectiveRetries, Proven!EffectiveRetries, Queue!DefaultRetries,
      Proven!DefaultRetries, Queue!XAdd, Proven!XAdd, Queue!WorkerNext,
      Proven!WorkerNext, Queue!LoopStep, Proven!LoopStep, Queue!Boot, Proven!Boot,
      Queue!Signal, Proven!Signal, Queue!Exit, Proven!Exit, Queue!Crash,
      Proven!Crash, Queue!Die, Proven!Die, Queue!CreateGroup, Proven!CreateGroup,
      Queue!SelectDone, Proven!SelectDone, Queue!HandleAbandonedMessages,
      Proven!HandleAbandonedMessages, Queue!DequeueMessages, Proven!DequeueMessages,
      Queue!GetJob, Proven!GetJob, Queue!MarkRunning, Proven!MarkRunning,
      Queue!RunHandler, Proven!RunHandler, Queue!CountFailure, Proven!CountFailure,
      Queue!MarkFailed, Proven!MarkFailed, Queue!MarkRetrying, Proven!MarkRetrying,
      Queue!MarkCompleted, Proven!MarkCompleted, Queue!Ack, Proven!Ack, Queue!Goto,
      Proven!Goto, Queue!Process, Proven!Process, Queue!Return, Proven!Return,
      Queue!CallFails, Proven!CallFails, Queue!CallWorks, Proven!CallWorks,
      Queue!WriteState, Proven!WriteState, Queue!JobOf, Proven!JobOf, Queue!Holders,
      Proven!Holders, Queue!Finished, Proven!Finished, Queue!UpdateJobState,
      Proven!UpdateJobState, Queue!IncrementJobRetry, Proven!IncrementJobRetry,
      Queue!XGroupCreateMkStream, Proven!XGroupCreateMkStream, Queue!XReadGroup,
      Proven!XReadGroup, Queue!XAutoClaim, Proven!XAutoClaim, Queue!XAck,
      Proven!XAck, Queue!GrowIdle, Proven!GrowIdle, Queue!LoseData, Proven!LoseData,
      Queue!NewEntry, Proven!NewEntry, Queue!HasNewEntry, Proven!HasNewEntry,
      Queue!Claimable, Proven!Claimable, Queue!Scanned, Proven!Scanned,
      Queue!Cardinality, Proven!Cardinality, Queue!Fault, Proven!Fault,
      Queue!NoFault, Proven!NoFault, Queue!storeVars, Proven!storeVars,
      Queue!streamVars, Proven!streamVars, Queue!workerVars, Proven!workerVars,
      Queue!localVars, Proven!localVars, Queue!Absent, Proven!Absent, Queue!Status,
      Proven!Status

LEMMA QueueIsProven == SystemSpec => Proven!Spec
<1>1. Queue!Spec => Proven!Spec
  BY ProvenStarts, ProvenStutters, ProvenSteps, PTL DEF Queue!Spec, Proven!Spec
<1> QED BY <1>1, SystemIsTheQueue DEF ImplementsQueue

\* With XADD and the workers untroubled, the faults that break a delivery have
\* not struck the queue.
LEMMA FaultsUnspent ==
    ASSUME SystemInv, left["enqueue"] = MishapBudget["enqueue"],
           \A k \in {"db", "redisLoss", "late"} : workFaults[k] = WorkBudget[k]
    PROVE  \A k \in {"db", "enqueue", "redisLoss", "late"} : Proven!Unspent(k)
<1>1. left \in [MishapKind -> Nat]
  BY TypeOKParts DEF SystemInv, ServerInv
<1>2. \A k \in {"db", "redisLoss", "late"} : budget[k] = 0 /\ faultsLeft[k] = 0
  <2>1. \A k \in {"db", "redisLoss", "late"} : budget[k] = 0
    BY DEF budget, Allowance, Kinds
  <2> HIDE DEF budget, faultsLeft, Unfailed, Unaborted
  <2> QED BY <1>1, <2>1, FaultsNow DEF FaultsAre, FaultsOf, Kinds
<1>3. budget["enqueue"] = faultsLeft["enqueue"] /\ budget["enqueue"] \in Nat
  <2>1. budget["enqueue"] = MishapBudget["enqueue"] /\ MishapBudget["enqueue"] \in Nat
    BY ApiServerAssumption DEF budget, Allowance, Kinds, MishapKind
  <2> HIDE DEF budget, faultsLeft, Unfailed, Unaborted
  <2> QED BY <1>1, <2>1, FaultsNow DEF FaultsAre, FaultsOf, Kinds
<1>4. \A k \in {"db", "enqueue", "redisLoss", "late"} :
        workFaults[k] = WorkBudget[k] /\ WorkBudget[k] \in Nat /\ k \in Kinds
  BY SystemAssumption DEF SystemInv, CrewTypeOK, CrewFaultsOK, Kinds
<1> HIDE DEF budget, faultsLeft
<1> QED BY <1>2, <1>3, <1>4 DEF Proven!Unspent, Proven!Spent

LEMMA AnsweredIsDelivered ==
    SystemInv /\ Proven!NothingLost => AnsweredJobsAreQueued
<1> SUFFICES ASSUME SystemInv, Proven!NothingLost, left["enqueue"] = MishapBudget["enqueue"],
                    \A k \in {"db", "redisLoss", "late"} : workFaults[k] = WorkBudget[k],
                    NEW j \in Jobs, at[j] = "done", code[j] = 202,
                    status[j] \notin Crew!Finished
             PROVE  \E e \in LiveEntries : stream[e] = j
  BY DEF AnsweredJobsAreQueued
<1>1. \A k \in {"db", "enqueue", "redisLoss", "late"} : Proven!Unspent(k)
  BY FaultsUnspent
<1>2. req[j] = "accepted"
  BY DEF req, RequestState, Accepted
<1>3. status[j] \notin Proven!Finished
  BY DEF Crew!Finished, Proven!Finished
<1> HIDE DEF req, faultsLeft, budget
<1> QED BY <1>1, <1>2, <1>3 DEF Proven!NothingLost, Proven!LiveEntries, LiveEntries

\* No drain, kill or departed client comes between a 202 and the entry that
\* will have the job executed: NothingLost, seen by the client of a replica.
THEOREM AnsweredJobsAreDelivered == SystemSpec => []AnsweredJobsAreQueued
<1>1. SystemSpec => []Proven!NothingLost
  BY QueueIsProven, ProvenAssumptions, Proven!NothingIsLost
<1> QED BY <1>1, SystemAlways, AnsweredIsDelivered, PTL

\* What else is proved of the queue, with replicas that start, drain and die in
\* front of it: verdicts are earned, no two workers share a job, executions are
\* bounded and counted, an outcome stays, and while no entry is duplicated or
\* claimed from a live worker a job lives the life its owner is promised.
THEOREM SystemKeepsPromises ==
    SystemSpec => /\ []Proven!NeverGivesUpEarly
                  /\ []Proven!OneWorkerPerJob
                  /\ []Proven!RetryLimit
                  /\ []Proven!FailuresAreCounted
                  /\ Proven!OutcomesAreFinal
                  /\ Proven!ImplementsLifecycle
BY QueueIsProven, ProvenAssumptions, Proven!VerdictsAreEarned, Proven!OneWorkerAtATime,
   Proven!ExecutionsAreBounded, Proven!CountsAreTrue, Proven!OutcomesStay,
   Proven!LifecycleIsKept
-----------------------------------------------------------------------------
(***************************************************************************)
(* What the server owes its clients, with workers and a Redis behind it    *)
(* that the module of the server knows nothing of.                         *)
(***************************************************************************)

\* Stranded jobs are the server's doing: a worker adds no row, takes no entry
\* out of the stream and has no part in a request.
LEMMA CrewStrandsNone ==
    ASSUME SystemInv, GracefulStopStrandsNoJob, UNCHANGED serverVars, SameRows,
           stream' = stream
    PROVE  GracefulStopStrandsNoJob'
<1>1. at' = at /\ on' = on /\ left' = left /\ Rows' = Rows
  BY DEF serverVars, requestVars, SameRows, Rows
<1>2. Stranded' = Stranded
  BY <1>1 DEF Stranded, Alive
<1> QED BY <1>1, <1>2 DEF GracefulStopStrandsNoJob, Spent

LEMMA SystemStrandsNone ==
    SystemInv /\ GracefulStopStrandsNoJob /\ [SystemNext]_systemVars
        => GracefulStopStrandsNoJob'
<1> SUFFICES ASSUME SystemInv, GracefulStopStrandsNoJob, [SystemNext]_systemVars
             PROVE  GracefulStopStrandsNoJob'
  OBVIOUS
<1>1. CASE Serve \/ UNCHANGED systemVars
  BY <1>1, StopsStrandNone DEF SystemInv, Serve, systemVars
<1>2. CASE Work
  BY <1>2, WorkStep, CrewStrandsNone DEF Work, CrewStays, CrewKeeps
<1>3. CASE RedisRestart \/ \E e \in pel : Age(e)
  BY <1>3, OtherStep, CrewStrandsNone DEF CrewStays, CrewKeeps
<1> QED BY <1>1, <1>2, <1>3 DEF SystemNext

\* Whatever workers and Redis do, no handler uses a closed connection, a
\* graceful stop strands no job, and a later read shows what was accepted:
\* the workers' UPDATEs neither hide a row from its owner nor make one.
THEOREM SystemKeepsServing ==
    SystemSpec => [](NoUseAfterClose /\ GracefulStopStrandsNoJob /\ ReadsShowWhatWasAccepted)
<1>1. SystemInv => NoUseAfterClose /\ ReadsShowWhatWasAccepted
  BY DEF SystemInv, ServerInv, ReadShows, ReadsShowWhatWasAccepted
<1>2. SystemInit => GracefulStopStrandsNoJob
  BY NothingStranded DEF SystemInit
<1> QED BY <1>1, <1>2, SystemStrandsNone, SystemAlways, PTL DEF SystemSpec
=============================================================================
