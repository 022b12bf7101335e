-------------------------- MODULE ApiServerProofs --------------------------
(***************************************************************************)
(* Theorems about the API server for any number of replicas, users, reads  *)
(* and mishaps, and any finite set of jobs.                                *)
(***************************************************************************)
EXTENDS ApiServer, FiniteSetTheorems, TLAPS
-----------------------------------------------------------------------------
CallType == [route : {"none", "create", "list", "get"},
             user : Users \cup {"none"}, job : Jobs \cup {"none"}]

\* How far the handler of a submission has come decides whether there is a row.
JobKnows(j) ==
    /\ at[j] \in {"none", "insert", "enqueue", "answer", "done", "cut"}
    /\ at[j] \in {"none", "insert"} => status[j] = Absent
    /\ at[j] \in {"none", "insert", "enqueue"} => code[j] = 0
    /\ at[j] = "insert" => call[j].route = "create"
    /\ at[j] = "enqueue" \/ code[j] = 202 => status[j] # Absent

\* A read has a route once it is past the middleware, and was sent by a user
\* whose jobs are still there.
ReadKnows(r) ==
    /\ at[r] \notin {"insert", "enqueue"}
    /\ at[r] \in {"none", "select", "lookup"} => code[r] = 0
    /\ at[r] \in {"none", "lookup"} => call[r].route = "none"
    /\ known[r] \subseteq GetJobsByUser(call[r].user)

ReadShows(r) ==
    /\ call[r].route = "list" /\ code[r] = 200 =>
          known[r] \subseteq shown[r] /\ shown[r] \subseteq GetJobsByUser(call[r].user)
    /\ call[r].route = "get" /\ code[r] # 0 /\ call[r].job \in known[r] =>
          code[r] = 200 \/ Spent("postgres") > 0

ServerInv ==
    /\ TypeOK /\ NoUseAfterClose
    /\ \A k \in MishapKind : left[k] <= MishapBudget[k]
    /\ \A j \in Jobs : JobKnows(j)
    /\ \A r \in Reads : ReadKnows(r) /\ ReadShows(r)

RequestsTypeOK ==
    /\ at \in [Requests -> Handling \cup {"none", "done", "cut"}]
    /\ on \in [Requests -> Replicas \cup {NoReplica}]
    /\ call \in [Requests -> CallType]
    /\ code \in [Requests -> Codes \cup {0}]
    /\ known \in [Requests -> SUBSET Jobs] /\ shown \in [Requests -> SUBSET Jobs]
    /\ \A r \in Requests : at[r] \in {"answer", "done"} => code[r] # 0
    /\ \A j \in Rows : call[j].route = "create"

LEMMA TypeOKParts ==
    TypeOK <=>
      /\ StoreTypeOK /\ StreamTypeOK(Jobs)
      /\ proc \in [Replicas -> ProcState]
      /\ RequestsTypeOK
      /\ left \in [MishapKind -> Nat]
BY DEF TypeOK, RequestsTypeOK, CallType

\* Jobs and reads are different requests.
LEMMA RequestKinds == /\ Jobs \subseteq Requests /\ Reads \subseteq Requests
                      /\ \A r \in Reads : r \notin Jobs
BY ApiServerAssumption DEF Requests
-----------------------------------------------------------------------------
\* The budget of mishaps.

LeftStep == Smooth \/ \E k \in MishapKind : Mishap(k)

LEMMA LeftKeeps ==
    ASSUME left \in [MishapKind -> Nat], LeftStep,
           \A k \in MishapKind : left[k] <= MishapBudget[k]
    PROVE  /\ left' \in [MishapKind -> Nat]
           /\ \A k \in MishapKind : left'[k] <= left[k] /\ left'[k] <= MishapBudget[k]
<1>1. CASE Smooth
  BY <1>1 DEF Smooth
<1>2. ASSUME NEW l \in MishapKind, Mishap(l)
      PROVE  /\ left' \in [MishapKind -> Nat]
             /\ \A k \in MishapKind : left'[k] <= left[k] /\ left'[k] <= MishapBudget[k]
  <2>1. left[l] > 0 /\ left' = [left EXCEPT ![l] = left[l] - 1]
    BY <1>2 DEF Mishap
  <2>2. \A k \in MishapKind : left[k] \in Nat /\ MishapBudget[k] \in Nat
    BY ApiServerAssumption
  <2>3. left[l] - 1 \in Nat /\ left[l] - 1 <= left[l]
    BY <2>1, <2>2
  <2>4. \A k \in MishapKind : left'[k] = IF k = l THEN left[l] - 1 ELSE left[k]
    BY <2>1
  <2>5. left' \in [MishapKind -> Nat]
    BY <2>1, <2>3
  <2> QED BY <2>2, <2>3, <2>4, <2>5
<1> QED BY <1>1, <1>2 DEF LeftStep

LEMMA MishapSpends ==
    ASSUME left \in [MishapKind -> Nat], NEW l \in MishapKind, Mishap(l),
           left[l] <= MishapBudget[l]
    PROVE  Spent(l)' = Spent(l) + 1 /\ Spent(l)' > 0
           /\ \A k \in MishapKind \ {l} : Spent(k)' = Spent(k)
<1>1. left[l] > 0 /\ left' = [left EXCEPT ![l] = left[l] - 1]
  BY DEF Mishap
<1>2. \A k \in MishapKind : left[k] \in Nat /\ MishapBudget[k] \in Nat
  BY ApiServerAssumption
<1>3. \A k \in MishapKind : left'[k] = IF k = l THEN left[l] - 1 ELSE left[k]
  BY <1>1
<1> QED BY <1>2, <1>3 DEF Spent
-----------------------------------------------------------------------------
\* Steps of a process.

Quiet(p) == \A r \in Requests : at[r] \in Handling /\ Alive(r) => on[r] # p

LEMMA ProcessKeeps ==
    ASSUME ServerInv, NEW p \in Replicas, NEW s \in ProcState, Become(p, s), LeftStep,
           s \in {"running", "draining"} \/ Quiet(p),
           UNCHANGED <<storeVars, streamVars, requestVars>>
    PROVE  ServerInv'
<1>1. left' \in [MishapKind -> Nat]
      /\ \A k \in MishapKind : left'[k] <= left[k] /\ left'[k] <= MishapBudget[k]
  BY LeftKeeps, TypeOKParts DEF ServerInv
<1>2. proc' = [proc EXCEPT ![p] = s]
  BY DEF Become
<1>3. TypeOK'
  <2>1. proc' \in [Replicas -> ProcState]
    BY <1>2, TypeOKParts DEF ServerInv
  <2>2. StoreTypeOK' /\ StreamTypeOK(Jobs)' /\ RequestsTypeOK'
    BY TypeOKParts DEF ServerInv, storeVars, streamVars, requestVars, StoreTypeOK,
       StreamTypeOK, RequestsTypeOK, Rows
  <2> QED BY <1>1, <2>1, <2>2, TypeOKParts DEF TypeOK, RequestsTypeOK, CallType
<1>4. NoUseAfterClose'
  <2> SUFFICES ASSUME NEW r \in Requests, at[r] \in Handling, Alive(r)
               PROVE  proc'[on[r]] \in {"running", "draining"}
    BY DEF NoUseAfterClose, requestVars, Alive
  <2>1. on[r] \in Replicas /\ proc[on[r]] \in {"running", "draining"}
    BY TypeOKParts DEF ServerInv, NoUseAfterClose, RequestsTypeOK, Alive
  <2> QED BY <1>2, <2>1, TypeOKParts DEF ServerInv, Quiet
<1>5. \A j \in Jobs : JobKnows(j)'
  BY DEF ServerInv, JobKnows, storeVars, requestVars
<1>6. \A r \in Reads : ReadKnows(r)' /\ ReadShows(r)'
  <2>1. "postgres" \in MishapKind
    BY DEF MishapKind
  <2>2. Spent("postgres") > 0 => Spent("postgres")' > 0
    BY <1>1, <2>1, ApiServerAssumption, TypeOKParts DEF ServerInv, Spent
  <2> QED BY <2>2 DEF ServerInv, ReadKnows, ReadShows, storeVars, requestVars, GetJobsByUser, Rows
<1> QED BY <1>1, <1>3, <1>4, <1>5, <1>6 DEF ServerInv

LEMMA DieKeeps ==
    ASSUME ServerInv, NEW p \in Replicas, LeftStep, Die(p) PROVE ServerInv'
<1>1. left' \in [MishapKind -> Nat]
      /\ \A k \in MishapKind : left'[k] <= left[k] /\ left'[k] <= MishapBudget[k]
  BY LeftKeeps, TypeOKParts DEF ServerInv
<1>2. /\ proc' = [proc EXCEPT ![p] = "down"]
      /\ on' = [r \in Requests |-> IF on[r] = p THEN NoReplica ELSE on[r]]
      /\ UNCHANGED <<storeVars, streamVars, at, call, code, known, shown>>
  BY DEF Die, Become
<1>3. TypeOK'
  <2>1. proc' \in [Replicas -> ProcState] /\ on' \in [Requests -> Replicas \cup {NoReplica}]
    BY <1>2, TypeOKParts DEF ServerInv, RequestsTypeOK, ProcState
  <2>2. StoreTypeOK' /\ StreamTypeOK(Jobs)'
    BY <1>2, TypeOKParts DEF ServerInv, storeVars, streamVars, StoreTypeOK, StreamTypeOK
  <2>3. RequestsTypeOK'
    BY <1>2, <2>1, TypeOKParts DEF ServerInv, RequestsTypeOK, Rows, storeVars
  <2> QED BY <1>1, <2>1, <2>2, <2>3 DEF TypeOK, RequestsTypeOK, CallType
<1>4. NoUseAfterClose'
  <2> SUFFICES ASSUME NEW r \in Requests, at[r] \in Handling, on'[r] # NoReplica
               PROVE  proc'[on'[r]] \in {"running", "draining"}
    BY <1>2 DEF NoUseAfterClose, Alive
  <2>1. on'[r] = on[r] /\ on[r] # p /\ on[r] \in Replicas
    BY <1>2, TypeOKParts DEF ServerInv, RequestsTypeOK
  <2>2. proc[on[r]] \in {"running", "draining"}
    BY <2>1 DEF ServerInv, NoUseAfterClose, Alive
  <2> QED BY <1>2, <2>1, <2>2, TypeOKParts DEF ServerInv
<1>5. \A j \in Jobs : JobKnows(j)'
  BY <1>2 DEF ServerInv, JobKnows, storeVars
<1>6. \A r \in Reads : ReadKnows(r)' /\ ReadShows(r)'
  <2>1. "postgres" \in MishapKind
    BY DEF MishapKind
  <2>2. Spent("postgres") > 0 => Spent("postgres")' > 0
    BY <1>1, <2>1, ApiServerAssumption, TypeOKParts DEF ServerInv, Spent
  <2> QED BY <1>2, <2>2 DEF ServerInv, ReadKnows, ReadShows, storeVars, GetJobsByUser, Rows
<1> QED BY <1>1, <1>3, <1>4, <1>5, <1>6 DEF ServerInv

\* No handler runs in a process that does not serve.
LEMMA ServingOnly ==
    ASSUME ServerInv, NEW p \in Replicas,
           proc[p] \notin {"running", "draining"} \/ InFlight(p) = {}
    PROVE  Quiet(p)
BY DEF ServerInv, NoUseAfterClose, Quiet, InFlight

LEMMA ReplicaSteps ==
    ASSUME ServerInv, NEW p \in Replicas,
           Boot(p) \/ Stop(p) \/ Probe(p) \/ Signal(p) \/ ForceExit(p) \/ Kill(p)
    PROVE  ServerInv'
<1>1. {"kill", "sigterm", "postgres", "redis", "listen", "slow"} \subseteq MishapKind
  BY DEF MishapKind
<1>2. {"down", "postgres", "redis", "listen", "running", "deaf", "draining", "closing"} \subseteq ProcState
  BY DEF ProcState
<1>3. CASE Start(p)
  BY <1>2, <1>3, ProcessKeeps, ServingOnly DEF Start, LeftStep
<1>4. ASSUME NEW store \in {"postgres", "redis"}, NEW next \in {"redis", "listen"},
             Connect(p, store, next)
      PROVE  ServerInv'
  BY <1>1, <1>2, <1>4, ProcessKeeps, ServingOnly DEF Connect, LeftStep
<1>5. CASE Listen(p)
  BY <1>1, <1>2, <1>5, ProcessKeeps, ServingOnly DEF Listen, LeftStep
<1>6. CASE Probe(p)
  BY <1>2, <1>6, ProcessKeeps DEF Probe, LeftStep
<1>7. CASE Signal(p)
  BY <1>1, <1>2, <1>7, ProcessKeeps, ServingOnly DEF Signal, LeftStep
<1>8. CASE Drained(p)
  BY <1>2, <1>8, ProcessKeeps, ServingOnly DEF Drained, LeftStep
<1>9. CASE ForceExit(p) \/ ClosePools(p) \/ Kill(p)
  BY <1>1, <1>9, DieKeeps DEF ForceExit, ClosePools, Kill, LeftStep
<1> QED BY <1>3, <1>4, <1>5, <1>6, <1>7, <1>8, <1>9
        DEF Boot, Stop, ConnectPostgres, ConnectRedis
-----------------------------------------------------------------------------
\* Steps of a handler: one request changes, rows are added and never removed.

Touched(r) ==
    /\ at' \in [Requests -> Handling \cup {"none", "done", "cut"}]
    /\ on' \in [Requests -> Replicas \cup {NoReplica}]
    /\ call' \in [Requests -> CallType]
    /\ code' \in [Requests -> Codes \cup {0}]
    /\ known' \in [Requests -> SUBSET Jobs] /\ shown' \in [Requests -> SUBSET Jobs]
    /\ \A q \in Requests \ {r} :
          /\ at'[q] = at[q] /\ on'[q] = on[q] /\ call'[q] = call[q]
          /\ code'[q] = code[q] /\ known'[q] = known[q] /\ shown'[q] = shown[q]

LEMMA RequestKeeps ==
    ASSUME ServerInv, NEW r \in Requests, Touched(r), LeftStep, UNCHANGED proc,
           StoreTypeOK', StreamTypeOK(Jobs)',
           \A j \in Jobs : status'[j] = status[j] \/ (j = r /\ status'[j] # Absent),
           r \in Rows => call'[r] = call[r],
           r \in Rows' => call'[r].route = "create",
           at'[r] \in {"answer", "done"} => code'[r] # 0,
           at'[r] \in Handling /\ on'[r] # NoReplica => proc[on'[r]] \in {"running", "draining"},
           r \in Jobs => JobKnows(r)',
           r \in Reads => ReadKnows(r)' /\ ReadShows(r)'
    PROVE  ServerInv'
<1>1. left' \in [MishapKind -> Nat]
      /\ \A k \in MishapKind : left'[k] <= left[k] /\ left'[k] <= MishapBudget[k]
  BY LeftKeeps, TypeOKParts DEF ServerInv
<1>2. RequestsTypeOK'
  <2>1. \A q \in Requests : at'[q] \in {"answer", "done"} => code'[q] # 0
    BY TypeOKParts DEF ServerInv, RequestsTypeOK, Touched
  <2>2. \A j \in Rows' : call'[j].route = "create"
    <3> SUFFICES ASSUME NEW j \in Jobs, status'[j] # Absent, j # r PROVE call'[j].route = "create"
      BY DEF Rows
    <3>1. j \in Rows /\ call'[j] = call[j]
      BY RequestKinds DEF Touched, Rows
    <3> QED BY <3>1, TypeOKParts DEF ServerInv, RequestsTypeOK
  <2> QED BY <2>1, <2>2 DEF Touched, RequestsTypeOK, CallType
<1>3. TypeOK'
  BY <1>1, <1>2, TypeOKParts DEF ServerInv, TypeOK, RequestsTypeOK, CallType
<1>4. NoUseAfterClose'
  <2> SUFFICES ASSUME NEW q \in Requests, q # r, at'[q] \in Handling, on'[q] # NoReplica
               PROVE  proc[on'[q]] \in {"running", "draining"}
    BY DEF NoUseAfterClose, Alive
  <2> QED BY DEF ServerInv, NoUseAfterClose, Touched, Alive
<1>5. \A j \in Jobs : JobKnows(j)'
  <2> SUFFICES ASSUME NEW j \in Jobs, j # r PROVE JobKnows(j)'
    OBVIOUS
  <2>1. JobKnows(j) /\ status'[j] = status[j] /\ j \in Requests \ {r}
    BY RequestKinds DEF ServerInv
  <2>2. at'[j] = at[j] /\ call'[j] = call[j] /\ code'[j] = code[j]
    BY <2>1 DEF Touched
  <2> QED BY <2>1, <2>2 DEF JobKnows
<1>6. \A j \in Rows : j \in Rows' /\ call'[j] = call[j]
  <2> SUFFICES ASSUME NEW j \in Rows PROVE j \in Rows' /\ call'[j] = call[j]
    OBVIOUS
  <2>1. j \in Jobs /\ j \in Requests /\ status'[j] # Absent
    BY RequestKinds DEF Rows
  <2>2. CASE j = r
    BY <2>1, <2>2 DEF Rows
  <2>3. CASE j \in Requests \ {r}
    BY <2>1, <2>3 DEF Rows, Touched
  <2> QED BY <2>1, <2>2, <2>3
<1>7. \A q \in Reads : ReadKnows(q)' /\ ReadShows(q)'
  <2> SUFFICES ASSUME NEW q \in Reads, q # r PROVE ReadKnows(q)' /\ ReadShows(q)'
    OBVIOUS
  <2>1. /\ ReadKnows(q) /\ ReadShows(q) /\ at'[q] = at[q] /\ call'[q] = call[q]
        /\ code'[q] = code[q] /\ known'[q] = known[q] /\ shown'[q] = shown[q]
    BY RequestKinds DEF ServerInv, Touched
  <2>2. GetJobsByUser(call[q].user) \subseteq {j \in Rows' : call'[j].user = call'[q].user}
    BY <1>6, <2>1 DEF GetJobsByUser
  <2>3. "postgres" \in MishapKind
    BY DEF MishapKind
  <2>4. Spent("postgres") > 0 => Spent("postgres")' > 0
    BY <1>1, <2>3, ApiServerAssumption, TypeOKParts DEF ServerInv, Spent
  <2>5. ReadKnows(q)'
    <3>1. known[q] \subseteq GetJobsByUser(call[q].user)
      BY <2>1 DEF ReadKnows
    <3>2. known'[q] \subseteq {j \in Rows' : call'[j].user = call'[q].user}
      BY <2>1, <2>2, <3>1
    <3> QED BY <2>1, <3>2 DEF ReadKnows, GetJobsByUser
  <2>6. ReadShows(q)'
    <3>1. call[q].route = "list" /\ code[q] = 200 =>
            /\ known'[q] \subseteq shown'[q]
            /\ shown'[q] \subseteq {j \in Rows' : call'[j].user = call'[q].user}
      BY <2>1, <2>2 DEF ReadShows
    <3> QED BY <2>1, <2>4, <3>1 DEF ReadShows, GetJobsByUser
  <2> QED BY <2>5, <2>6
<1> QED BY <1>1, <1>3, <1>4, <1>5, <1>7 DEF ServerInv
-----------------------------------------------------------------------------
\* The stores.

LEMMA StoresIdle ==
    /\ StoreTypeOK /\ UNCHANGED storeVars => StoreTypeOK'
    /\ StreamTypeOK(Jobs) /\ UNCHANGED streamVars => StreamTypeOK(Jobs)'
BY DEF StoreTypeOK, storeVars, StreamTypeOK, streamVars

LEMMA RowIsAdded ==
    ASSUME StoreTypeOK, NEW j \in Jobs, NEW t \in Types, NEW m \in RequestedRetries,
           CreateJob(j, t, EffectiveRetries(m))
    PROVE  /\ StoreTypeOK' /\ status'[j] # Absent
           /\ \A i \in Jobs \ {j} : status'[i] = status[i]
<1>1. EffectiveRetries(m) \in Int
  BY ApiServerAssumption DEF EffectiveRetries
<1> QED BY <1>1 DEF StoreTypeOK, CreateJob, Status, Absent

LEMMA EntryIsAdded ==
    ASSUME StreamTypeOK(Jobs), NEW j \in Jobs, XAdd(j)
    PROVE  StreamTypeOK(Jobs)'
<1>1. stream' \in Seq(Jobs) /\ Len(stream') = Len(stream) + 1
  BY DEF StreamTypeOK, XAdd
<1> QED BY <1>1 DEF StreamTypeOK, XAdd
-----------------------------------------------------------------------------
\* Each action on a request keeps the invariant.

LEMMA ArriveKeeps ==
    ASSUME ServerInv, NEW r \in Requests, NEW p \in Replicas, Arrive(r, p)
    PROVE  ServerInv'
<1>1. RequestsTypeOK /\ StoreTypeOK /\ StreamTypeOK(Jobs)
  BY TypeOKParts DEF ServerInv
<1>2. /\ at[r] = "none" /\ proc[p] = "running" /\ on' = [on EXCEPT ![r] = p]
      /\ UNCHANGED <<storeVars, streamVars, proc, shown>> /\ LeftStep
  BY DEF Arrive, LeftStep
<1>3. StoreTypeOK' /\ StreamTypeOK(Jobs)' /\ status' = status
  BY <1>1, <1>2, StoresIdle DEF storeVars
<1>4. r \in Jobs => r \notin Rows
  BY <1>2 DEF ServerInv, JobKnows, Rows
<1>5. ASSUME NEW u \in Users, r \in Jobs, Proceed(r, "insert"), UNCHANGED known,
             call' = [call EXCEPT ![r] = Call("create", u, r)]
      PROVE  ServerInv'
  <2>1. Touched(r)
    BY <1>1, <1>2, <1>5 DEF Touched, RequestsTypeOK, Proceed, Call, CallType, Handling
  <2>2. JobKnows(r)'
    BY <1>1, <1>2, <1>3, <1>5 DEF ServerInv, JobKnows, RequestsTypeOK, Proceed, Call
  <2>3. at'[r] = "insert" /\ on'[r] = p /\ r \notin Reads /\ r \notin Rows /\ r \notin Rows'
    BY <1>1, <1>2, <1>3, <1>4, <1>5, RequestKinds DEF Proceed, RequestsTypeOK, Rows
  <2> QED BY <1>2, <1>3, <2>1, <2>2, <2>3, RequestKeeps
<1>6. ASSUME NEW u \in Users, r \in Reads, Proceed(r, "select"),
             known' = [known EXCEPT ![r] = ToldOf(u)],
             \/ call' = [call EXCEPT ![r] = Call("list", u, "none")]
             \/ \E j \in Jobs : call' = [call EXCEPT ![r] = Call("get", u, j)]
      PROVE  ServerInv'
  <2>1. PICK c \in CallType : call' = [call EXCEPT ![r] = c] /\ c.user = u
    <3>1. /\ Call("list", u, "none") \in CallType /\ Call("list", u, "none").user = u
          /\ \A j \in Jobs : Call("get", u, j) \in CallType /\ Call("get", u, j).user = u
      BY DEF Call, CallType
    <3>2. CASE call' = [call EXCEPT ![r] = Call("list", u, "none")]
      BY <3>1, <3>2
    <3>3. ASSUME NEW j \in Jobs, call' = [call EXCEPT ![r] = Call("get", u, j)]
          PROVE  \E c \in CallType : call' = [call EXCEPT ![r] = c] /\ c.user = u
      BY <3>1, <3>3
    <3> QED BY <1>6, <3>2, <3>3
  <2>2. Touched(r)
    BY <1>1, <1>2, <1>6, <2>1 DEF Touched, RequestsTypeOK, Proceed, Handling, ToldOf
  <2>3. /\ at'[r] = "select" /\ on'[r] = p /\ r \notin Jobs /\ code'[r] = 0
        /\ known'[r] = ToldOf(u) /\ call'[r].user = u
    BY <1>1, <1>2, <1>6, <2>1, RequestKinds DEF Proceed, RequestsTypeOK, ServerInv, ReadKnows
  <2>4. ToldOf(u) \subseteq {j \in Rows' : call'[j].user = u}
    <3> SUFFICES ASSUME NEW j \in ToldOf(u) PROVE j \in Rows' /\ call'[j].user = u
      OBVIOUS
    <3>1. j \in Jobs /\ code[j] = 202 /\ call[j].user = u
      BY DEF ToldOf
    <3>2. status[j] # Absent
      BY <3>1 DEF ServerInv, JobKnows
    <3>3. j \in Requests \ {r}
      BY <3>1, <1>6, RequestKinds
    <3> QED BY <1>3, <2>2, <3>1, <3>2, <3>3 DEF Touched, Rows
  <2>5. ReadKnows(r)'
    BY <2>3, <2>4 DEF ReadKnows, GetJobsByUser
  <2>6. ReadShows(r)'
    BY <2>3 DEF ReadShows
  <2>7. r \notin Rows /\ r \notin Rows'
    BY <2>3 DEF Rows
  <2> QED BY <1>2, <1>3, <2>2, <2>3, <2>5, <2>6, <2>7, RequestKeeps
<1>7. ASSUME UNCHANGED <<call, known>>,
             \/ r \in Reads /\ Proceed(r, "lookup")
             \/ Decide(r, 401) \/ Decide(r, 400)
      PROVE  ServerInv'
  <2>1. Touched(r)
    BY <1>1, <1>2, <1>7 DEF Touched, RequestsTypeOK, Proceed, Decide, Handling, Codes
  <2>2. /\ on'[r] = p /\ r \notin Rows'
        /\ \/ r \in Reads /\ at'[r] = "lookup" /\ code'[r] = code[r]
           \/ at'[r] = "answer" /\ code'[r] \in {400, 401}
    BY <1>1, <1>2, <1>3, <1>4, <1>7 DEF Proceed, Decide, RequestsTypeOK, Rows
  <2>3. r \in Jobs => JobKnows(r)'
    BY <1>1, <1>2, <1>3, <1>7, <2>2, RequestKinds DEF ServerInv, JobKnows
  <2>4. r \in Reads => ReadKnows(r)' /\ ReadShows(r)'
    <3> SUFFICES ASSUME r \in Reads PROVE ReadKnows(r)' /\ ReadShows(r)'
      OBVIOUS
    <3>1. ReadKnows(r) /\ call[r].route = "none" /\ code[r] = 0
      BY <1>2 DEF ServerInv, ReadKnows
    <3> QED BY <1>2, <1>3, <1>7, <2>2, <3>1 DEF ReadKnows, ReadShows, GetJobsByUser, Rows
  <2>5. at'[r] \in {"answer", "done"} => code'[r] # 0
    BY <2>2
  <2> QED BY <1>2, <1>3, <1>4, <2>1, <2>2, <2>3, <2>4, <2>5, RequestKeeps, RequestKinds DEF Rows
<1> QED BY <1>5, <1>6, <1>7 DEF Arrive

LEMMA InsertKeeps ==
    ASSUME ServerInv, NEW r \in Jobs, Insert(r) PROVE ServerInv'
<1>1. RequestsTypeOK /\ StoreTypeOK /\ StreamTypeOK(Jobs) /\ r \in Requests
  BY TypeOKParts, RequestKinds DEF ServerInv
<1>2. /\ at[r] = "insert" /\ UNCHANGED <<streamVars, proc, on, call, known, shown>>
      /\ LeftStep /\ Alive(r) /\ r \notin Reads
  BY RequestKinds DEF Insert, LeftStep, MishapKind
<1>3. call[r].route = "create" /\ code[r] = 0 /\ proc[on[r]] \in {"running", "draining"}
  BY <1>1, <1>2 DEF ServerInv, JobKnows, NoUseAfterClose, Handling
<1>4. \/ /\ \E t \in Types, m \in RequestedRetries : CreateJob(r, t, EffectiveRetries(m))
         /\ Proceed(r, "enqueue")
      \/ /\ \/ \E t \in Types, m \in RequestedRetries : CreateJob(r, t, EffectiveRetries(m))
            \/ UNCHANGED storeVars
         /\ Decide(r, 500)
  BY DEF Insert
<1>5. /\ StoreTypeOK' /\ StreamTypeOK(Jobs)'
      /\ \A j \in Jobs : status'[j] = status[j] \/ (j = r /\ status'[j] # Absent)
  BY <1>1, <1>2, <1>4, RowIsAdded, StoresIdle DEF storeVars
<1>6. /\ at' \in [Requests -> Handling \cup {"none", "done", "cut"}]
      /\ code' \in [Requests -> Codes \cup {0}]
      /\ \A q \in Requests \ {r} : at'[q] = at[q] /\ code'[q] = code[q]
  BY <1>1, <1>4 DEF RequestsTypeOK, Proceed, Decide, Handling, Codes
<1>7. Touched(r)
  BY <1>1, <1>2, <1>6 DEF Touched, RequestsTypeOK
<1>8. \/ at'[r] = "enqueue" /\ code'[r] = 0 /\ status'[r] # Absent
      \/ at'[r] = "answer" /\ code'[r] = 500
  BY <1>1, <1>3, <1>4, RowIsAdded DEF RequestsTypeOK, Proceed, Decide
<1>9. JobKnows(r)' /\ call'[r].route = "create"
  BY <1>2, <1>3, <1>8 DEF JobKnows
<1>10. on'[r] # NoReplica => proc[on'[r]] \in {"running", "draining"}
  BY <1>2, <1>3
<1>11. at'[r] \in {"answer", "done"} => code'[r] # 0
  BY <1>8
<1> QED BY <1>1, <1>2, <1>5, <1>7, <1>9, <1>10, <1>11, RequestKeeps

LEMMA EnqueueKeeps ==
    ASSUME ServerInv, NEW r \in Jobs, Enqueue(r) PROVE ServerInv'
<1>1. RequestsTypeOK /\ StoreTypeOK /\ StreamTypeOK(Jobs) /\ r \in Requests
  BY TypeOKParts, RequestKinds DEF ServerInv
<1>2. /\ at[r] = "enqueue" /\ UNCHANGED <<storeVars, proc, on, call, known, shown>>
      /\ LeftStep /\ Alive(r) /\ r \notin Reads
  BY RequestKinds DEF Enqueue, LeftStep, MishapKind
<1>3. status[r] # Absent /\ code[r] = 0 /\ proc[on[r]] \in {"running", "draining"}
  BY <1>1, <1>2 DEF ServerInv, JobKnows, NoUseAfterClose, Handling
<1>4. (XAdd(r) \/ UNCHANGED streamVars) /\ (Decide(r, 202) \/ UNCHANGED <<at, code>>)
  BY DEF Enqueue
<1>5. StoreTypeOK' /\ StreamTypeOK(Jobs)' /\ status' = status
  BY <1>1, <1>2, <1>4, EntryIsAdded, StoresIdle DEF storeVars
<1>6. Touched(r)
  BY <1>1, <1>2, <1>4 DEF Touched, RequestsTypeOK, Decide, Handling, Codes
<1>7. \/ at'[r] = "answer" /\ code'[r] = 202
      \/ at'[r] = "enqueue" /\ code'[r] = 0
  BY <1>1, <1>2, <1>3, <1>4 DEF RequestsTypeOK, Decide
<1>8. JobKnows(r)' /\ call'[r] = call[r]
  BY <1>2, <1>3, <1>5, <1>7 DEF JobKnows
<1>9. r \in Rows' => call'[r].route = "create"
  BY <1>1, <1>3, <1>8 DEF RequestsTypeOK, Rows
<1>10. on'[r] # NoReplica => proc[on'[r]] \in {"running", "draining"}
  BY <1>2, <1>3
<1>11. at'[r] \in {"answer", "done"} => code'[r] # 0
  BY <1>7
<1> QED BY <1>1, <1>2, <1>5, <1>6, <1>8, <1>9, <1>10, <1>11, RequestKeeps

LEMMA SelectKeeps ==
    ASSUME ServerInv, NEW r \in Requests, Select(r) PROVE ServerInv'
<1>1. RequestsTypeOK /\ StoreTypeOK /\ StreamTypeOK(Jobs)
  BY TypeOKParts DEF ServerInv
<1>2. /\ at[r] = "select" /\ Alive(r) /\ LeftStep
      /\ UNCHANGED <<storeVars, streamVars, proc, on, call, known>>
  BY DEF Select, LeftStep, MishapKind
<1>3. r \notin Jobs /\ r \in Reads /\ proc[on[r]] \in {"running", "draining"}
  BY <1>1, <1>2 DEF ServerInv, JobKnows, NoUseAfterClose, Handling, Requests
<1>4. StoreTypeOK' /\ StreamTypeOK(Jobs)' /\ status' = status
  BY <1>1, <1>2, StoresIdle DEF storeVars
<1>5. /\ at'[r] = "answer" /\ code'[r] # 0 /\ Touched(r)
      /\ \/ /\ call[r].route = "list" /\ code'[r] = 200
            /\ shown'[r] = GetJobsByUser(call[r].user)
         \/ /\ call[r].route = "get"
            /\ call[r].job \in Rows => code'[r] = 200
         \/ code'[r] = 500 /\ Mishap("postgres")
  <2>1. CASE /\ call[r].route = "list" /\ Decide(r, 200)
             /\ shown' = [shown EXCEPT ![r] = GetJobsByUser(call[r].user)]
    <3>1. GetJobsByUser(call[r].user) \in SUBSET Jobs
      BY DEF GetJobsByUser, Rows
    <3> QED BY <1>1, <1>2, <2>1, <3>1 DEF Touched, RequestsTypeOK, Decide, Handling, Codes
  <2>2. CASE /\ call[r].route = "get"
             /\ Decide(r, IF GetJobByID(call[r].job) = {} THEN 500 ELSE 200)
             /\ shown' = [shown EXCEPT ![r] = GetJobByID(call[r].job)]
    <3>1. GetJobByID(call[r].job) \in SUBSET Jobs
      BY DEF GetJobByID, Rows
    <3>2. call[r].job \in Rows => GetJobByID(call[r].job) # {}
      BY DEF GetJobByID
    <3> QED BY <1>1, <1>2, <2>2, <3>1, <3>2 DEF Touched, RequestsTypeOK, Decide, Handling, Codes
  <2>3. CASE Mishap("postgres") /\ Decide(r, 500) /\ UNCHANGED shown
    BY <1>1, <1>2, <2>3 DEF Touched, RequestsTypeOK, Decide, Handling, Codes
  <2> QED BY <2>1, <2>2, <2>3 DEF Select
<1>6. Mishap("postgres") => Spent("postgres")' > 0
  BY MishapSpends, TypeOKParts DEF ServerInv, MishapKind
<1>7. known[r] \subseteq GetJobsByUser(call[r].user) /\ ReadKnows(r)
  BY <1>3 DEF ServerInv, ReadKnows
<1>8. ReadKnows(r)'
  <2>1. known'[r] \subseteq {j \in Rows' : call'[j].user = call'[r].user}
    BY <1>2, <1>4, <1>7 DEF GetJobsByUser, Rows
  <2> QED BY <1>5, <2>1 DEF ReadKnows, GetJobsByUser
<1>9. ReadShows(r)'
  <2>1. {j \in Rows' : call'[j].user = call'[r].user} = GetJobsByUser(call[r].user)
    BY <1>2, <1>4 DEF GetJobsByUser, Rows
  <2>2. call'[r].route = "list" /\ code'[r] = 200 =>
          known'[r] \subseteq shown'[r] /\ shown'[r] \subseteq GetJobsByUser(call[r].user)
    BY <1>2, <1>5, <1>7
  <2>3. call'[r].route = "get" /\ call'[r].job \in known'[r] =>
          code'[r] = 200 \/ Spent("postgres")' > 0
    BY <1>2, <1>5, <1>6, <1>7 DEF GetJobsByUser
  <2> QED BY <2>1, <2>2, <2>3 DEF ReadShows, GetJobsByUser
<1>10. r \notin Rows /\ r \notin Rows'
  BY <1>3 DEF Rows
<1> QED BY <1>2, <1>3, <1>4, <1>5, <1>8, <1>9, <1>10, RequestKeeps

\* A handler that moves on without a row, an entry or a list.
LEMMA AnswerKeeps ==
    ASSUME ServerInv, NEW r \in Requests, LeftStep,
           UNCHANGED <<storeVars, streamVars, proc, on, call, known, shown>>,
           \/ /\ at[r] = "lookup" /\ Alive(r)
              /\ Decide(r, 200) \/ Decide(r, 401) \/ Decide(r, 500)
           \/ at[r] = "answer" /\ Proceed(r, "done")
           \/ at[r] \in Handling /\ Proceed(r, "cut")
    PROVE  ServerInv'
<1>1. RequestsTypeOK /\ StoreTypeOK /\ StreamTypeOK(Jobs)
  BY TypeOKParts DEF ServerInv
<1>2. StoreTypeOK' /\ StreamTypeOK(Jobs)' /\ status' = status
  BY <1>1, StoresIdle DEF storeVars
<1>3. Touched(r)
  BY <1>1 DEF Touched, RequestsTypeOK, Decide, Proceed, Handling, Codes
<1>4. \/ at[r] = "lookup" /\ at'[r] = "answer" /\ code'[r] \in {200, 401, 500} /\ Alive(r)
      \/ at[r] = "answer" /\ at'[r] = "done" /\ code'[r] = code[r]
      \/ at[r] \in Handling /\ at'[r] = "cut" /\ code'[r] = code[r]
  BY <1>1 DEF RequestsTypeOK, Decide, Proceed
<1>5. r \in Jobs => JobKnows(r)'
  BY <1>2, <1>4 DEF ServerInv, JobKnows
<1>6. r \in Reads => ReadKnows(r)' /\ ReadShows(r)'
  <2> SUFFICES ASSUME r \in Reads PROVE ReadKnows(r)' /\ ReadShows(r)'
    OBVIOUS
  <2>1. ReadKnows(r) /\ ReadShows(r)
    BY DEF ServerInv
  <2>2. known[r] \subseteq GetJobsByUser(call[r].user)
    BY <2>1 DEF ReadKnows
  <2>3. \A u : GetJobsByUser(u)' = GetJobsByUser(u)
    BY <1>2 DEF GetJobsByUser, Rows
  <2>4. Spent("postgres") > 0 => Spent("postgres")' > 0
    <3>1. "postgres" \in MishapKind
      BY DEF MishapKind
    <3>2. left \in [MishapKind -> Nat] /\ left' \in [MishapKind -> Nat]
          /\ left'["postgres"] <= left["postgres"]
      BY <3>1, LeftKeeps, TypeOKParts DEF ServerInv
    <3> QED BY <3>1, <3>2, ApiServerAssumption DEF Spent
  <2>5. CASE at[r] = "lookup" /\ at'[r] = "answer"
    BY <1>2, <1>4, <2>1, <2>5 DEF ReadKnows, ReadShows, GetJobsByUser, Rows
  <2>6. CASE at'[r] \in {"done", "cut"} /\ code'[r] = code[r]
    BY <1>2, <2>1, <2>4, <2>6 DEF ReadKnows, ReadShows, GetJobsByUser, Rows
  <2> QED BY <1>4, <2>5, <2>6
<1>7. at'[r] \in {"answer", "done"} => code'[r] # 0
  BY <1>1, <1>4 DEF RequestsTypeOK
<1>8. r \in Rows' => call'[r].route = "create"
  BY <1>1, <1>2 DEF RequestsTypeOK, Rows
<1>9. at'[r] \in Handling /\ on'[r] # NoReplica => proc[on'[r]] \in {"running", "draining"}
  BY <1>4 DEF ServerInv, NoUseAfterClose, Alive, Handling
<1> QED BY <1>2, <1>3, <1>5, <1>6, <1>7, <1>8, <1>9, RequestKeeps
-----------------------------------------------------------------------------
LEMMA ServerInit == Init => ServerInv
<1> SUFFICES ASSUME Init PROVE ServerInv
  OBVIOUS
<1>1. StoreTypeOK /\ StreamTypeOK(Jobs)
  <2>1. StoreTypeOK
    BY DEF Init, StoreInit, StoreTypeOK
  <2>2. stream = <<>> /\ stream \in Seq(Jobs) /\ Len(stream) = 0
    BY DEF Init, StreamInit
  <2>3. lost = 0 /\ delivered = 0 /\ group = FALSE /\ pel = {} /\ idle = {}
    BY DEF Init, StreamInit
  <2>4. 0 \in 0..0 /\ {} \subseteq (0 + 1)..0
    OBVIOUS
  <2>5. /\ lost \in 0..delivered /\ delivered \in 0..Len(stream)
        /\ pel \subseteq (lost + 1)..delivered /\ idle \subseteq pel
    BY <2>2, <2>3, <2>4
  <2>6. StreamTypeOK(Jobs)
    BY <2>2, <2>3, <2>5 DEF StreamTypeOK
  <2> QED BY <2>1, <2>6
<1>2. Rows = {} /\ \A r \in Requests : at[r] = "none" /\ code[r] = 0 /\ on[r] = NoReplica
  BY RequestKinds DEF Init, StoreInit, Rows
<1>3. RequestsTypeOK
  BY <1>2 DEF Init, RequestsTypeOK, CallType, NoCall, Handling, Codes
<1>4. TypeOK
  BY <1>1, <1>3, ApiServerAssumption, TypeOKParts DEF Init, ProcState
<1>5. NoUseAfterClose
  BY <1>2 DEF NoUseAfterClose, Alive
<1>6. \A k \in MishapKind : left[k] <= MishapBudget[k]
  BY ApiServerAssumption DEF Init
<1>7. \A j \in Jobs : JobKnows(j)
  BY <1>2, RequestKinds DEF JobKnows, Rows
<1>8. \A r \in Reads : ReadKnows(r) /\ ReadShows(r)
  BY <1>2, RequestKinds DEF Init, ReadKnows, ReadShows, NoCall
<1> QED BY <1>4, <1>5, <1>6, <1>7, <1>8 DEF ServerInv

LEMMA ServerStutters == ServerInv /\ UNCHANGED vars => ServerInv'
<1> SUFFICES ASSUME ServerInv, UNCHANGED vars PROVE ServerInv'
  OBVIOUS
<1>1. RequestsTypeOK' /\ StoreTypeOK' /\ StreamTypeOK(Jobs)'
  BY StoresIdle, TypeOKParts DEF ServerInv, vars, requestVars, storeVars, RequestsTypeOK, Rows
<1>2. TypeOK'
  BY <1>1, TypeOKParts DEF ServerInv, vars, TypeOK, RequestsTypeOK, CallType
<1>3. NoUseAfterClose' /\ \A k \in MishapKind : left'[k] <= MishapBudget[k]
  BY DEF ServerInv, vars, requestVars, NoUseAfterClose, Alive
<1>4. \A j \in Jobs : JobKnows(j)'
  BY DEF ServerInv, vars, requestVars, storeVars, JobKnows
<1>5. \A r \in Reads : ReadKnows(r)' /\ ReadShows(r)'
  BY DEF ServerInv, vars, requestVars, storeVars, ReadKnows, ReadShows, GetJobsByUser, Rows, Spent
<1> QED BY <1>2, <1>3, <1>4, <1>5 DEF ServerInv

LEMMA ServerStep == ServerInv /\ [Next]_vars => ServerInv'
<1> SUFFICES ASSUME ServerInv, [Next]_vars PROVE ServerInv'
  OBVIOUS
<1>1. ASSUME NEW r \in Requests, Lookup(r) \/ Respond(r) \/ GiveUp(r) \/ Reset(r)
      PROVE  ServerInv'
  BY <1>1, AnswerKeeps DEF Lookup, Respond, GiveUp, Reset, LeftStep, MishapKind
<1>2. ASSUME NEW r \in Requests, Handle(r) PROVE ServerInv'
  BY <1>1, <1>2, InsertKeeps, EnqueueKeeps, SelectKeeps DEF Handle
<1> QED BY <1>1, <1>2, ReplicaSteps, ArriveKeeps, ServerStutters DEF Next

LEMMA ServerAlways == Spec => []ServerInv
BY ServerInit, ServerStep, PTL DEF Spec

\* At every moment each replica is at one place in main, each request at one
\* call of its handler, a request being answered has a status, and every row
\* belongs to a request AuthMiddleware let through.
THEOREM ServerTypes == Spec => []TypeOK
<1>1. ServerInv => TypeOK
  BY DEF ServerInv
<1> QED BY <1>1, ServerAlways, PTL

\* Shutdown before the deferred Close calls: no handler is left to use a
\* connection that main closes, whatever else goes wrong.
THEOREM PoolsOutliveHandlers == Spec => []NoUseAfterClose
<1>1. ServerInv => NoUseAfterClose
  BY DEF ServerInv
<1> QED BY <1>1, ServerAlways, PTL

\* A list or a lookup asked for after a creation was answered 202 shows that job,
\* and a list no other user's (repository/job.go: the SELECTs).
THEOREM AcceptedJobsAreShown == Spec => []ReadsShowWhatWasAccepted
<1>1. ServerInv => ReadsShowWhatWasAccepted
  BY DEF ServerInv, ReadShows, ReadsShowWhatWasAccepted
<1> QED BY <1>1, ServerAlways, PTL
-----------------------------------------------------------------------------
\* Stranded jobs.

LEMMA SpentGrows ==
    ASSUME ServerInv, LeftStep, NEW k \in MishapKind
    PROVE  /\ Spent(k) \in Nat /\ Spent(k)' \in Nat /\ Spent(k) <= Spent(k)'
           /\ Mishap(k) => Spent(k)' = Spent(k) + 1
<1>1. /\ left[k] \in Nat /\ left'[k] \in Nat /\ MishapBudget[k] \in Nat
      /\ left'[k] <= left[k] /\ left[k] <= MishapBudget[k]
  BY LeftKeeps, TypeOKParts, ApiServerAssumption DEF ServerInv
<1>2. Mishap(k) => Spent(k)' = Spent(k) + 1
  BY MishapSpends, TypeOKParts DEF ServerInv
<1> QED BY <1>1, <1>2 DEF Spent

LEMMA NoMoreStranded ==
    ASSUME ServerInv, LeftStep, Stranded' \subseteq Stranded, GracefulStopStrandsNoJob
    PROVE  GracefulStopStrandsNoJob'
<1>1. Cardinality(Stranded') <= Cardinality(Stranded) /\ Cardinality(Stranded) \in Nat
      /\ Cardinality(Stranded') \in Nat
  BY ApiServerAssumption, FS_Subset, FS_CardinalityType DEF Stranded, Rows
<1>2. {"kill", "slow", "postgres", "enqueue", "gone"} \subseteq MishapKind
  BY DEF MishapKind
<1> HIDE DEF Stranded, Spent
<1> QED BY <1>1, <1>2, SpentGrows DEF GracefulStopStrandsNoJob

LEMMA OneMoreStranded ==
    ASSUME ServerInv, NEW k \in {"postgres", "enqueue", "gone"}, Mishap(k),
           NEW r, Stranded' \subseteq Stranded \cup {r}, GracefulStopStrandsNoJob
    PROVE  GracefulStopStrandsNoJob'
<1>1. Stranded \subseteq Jobs /\ IsFiniteSet(Stranded)
  BY ApiServerAssumption, FS_Subset DEF Stranded, Rows
<1>2. /\ Cardinality(Stranded) \in Nat /\ IsFiniteSet(Stranded \cup {r})
      /\ Cardinality(Stranded \cup {r}) <= Cardinality(Stranded) + 1
  BY <1>1, FS_AddElement, FS_CardinalityType
<1>3. /\ Cardinality(Stranded') <= Cardinality(Stranded \cup {r})
      /\ Cardinality(Stranded') \in Nat /\ Cardinality(Stranded \cup {r}) \in Nat
  BY <1>2, FS_Subset, FS_CardinalityType
<1>4. {"kill", "slow", "postgres", "enqueue", "gone"} \subseteq MishapKind /\ LeftStep
  BY DEF MishapKind, LeftStep
<1> HIDE DEF Stranded, Spent
<1> QED BY <1>2, <1>3, <1>4, SpentGrows DEF GracefulStopStrandsNoJob

\* A job is stranded by steps of its own handler only.
LEMMA StrandedByItself ==
    ASSUME ServerInv, NEW r \in Requests,
           \A j \in Jobs \ {r} : status'[j] = status[j] /\ at'[j] = at[j] /\ on'[j] = on[j],
           stream' = stream
    PROVE  Stranded' \subseteq Stranded \cup {r}
BY DEF Stranded, Rows, Alive

LEMMA ProcessStrandsNone ==
    ASSUME ServerInv, NEW p \in Replicas, GracefulStopStrandsNoJob,
           Boot(p) \/ Stop(p) \/ Probe(p) \/ Signal(p) \/ ForceExit(p) \/ Kill(p)
    PROVE  GracefulStopStrandsNoJob'
<1>1. {"kill", "slow", "sigterm", "postgres", "redis", "listen"} \subseteq MishapKind
  BY DEF MishapKind
<1>2. CASE UNCHANGED <<storeVars, streamVars, requestVars>> /\ LeftStep
  <2>1. Stranded' \subseteq Stranded
    BY <1>2 DEF Stranded, Rows, Alive, storeVars, streamVars, requestVars
  <2> QED BY <1>2, <2>1, NoMoreStranded
<1>3. CASE ClosePools(p)
  <2>1. Quiet(p)
    BY <1>3, ServingOnly DEF ClosePools
  <2>2. \A j \in Jobs : at[j] = "enqueue" /\ Alive(j) => on'[j] = on[j]
    BY <1>3, <2>1, RequestKinds, TypeOKParts
       DEF ClosePools, Die, Quiet, Handling, ServerInv, RequestsTypeOK
  <2>3. Stranded' \subseteq Stranded
    BY <1>3, <2>2 DEF ClosePools, Die, Stranded, Rows, Alive, storeVars, streamVars
  <2> QED BY <1>3, <2>3, NoMoreStranded DEF ClosePools, LeftStep
<1>4. ASSUME NEW k \in {"kill", "slow"}, Mishap(k) PROVE GracefulStopStrandsNoJob'
  <2>1. Spent("kill")' \in Nat /\ Spent("slow")' \in Nat /\ Spent(k)' > 0
    BY <1>1, <1>4, SpentGrows DEF LeftStep
  <2>2. Spent("kill")' + Spent("slow")' # 0
    BY <1>4, <2>1
  <2> QED BY <2>2 DEF GracefulStopStrandsNoJob
<1>5. CASE Boot(p) \/ Drained(p) \/ Probe(p) \/ Signal(p)
  BY <1>1, <1>2, <1>5
     DEF Boot, Start, ConnectPostgres, ConnectRedis, Connect, Listen, Drained, Probe, Signal, LeftStep
<1> QED BY <1>3, <1>4, <1>5 DEF Stop, ForceExit, Kill

LEMMA HandlerStrandsNone ==
    ASSUME ServerInv, NEW r \in Requests, GracefulStopStrandsNoJob,
           Handle(r) \/ GiveUp(r) \/ Reset(r) \/ \E p \in Replicas : Arrive(r, p)
    PROVE  GracefulStopStrandsNoJob'
<1>1. RequestsTypeOK /\ StoreTypeOK /\ StreamTypeOK(Jobs)
  BY TypeOKParts DEF ServerInv
<1>2. \A j \in Jobs \ {r} : j \in Requests
  BY RequestKinds
<1>3. ASSUME LeftStep, UNCHANGED <<storeVars, streamVars>>,
             \A j \in Jobs \ {r} : at'[j] = at[j] /\ on'[j] = on[j],
             \/ at[r] = "none" \/ at[r] # "enqueue" \/ ~Alive(r)
      PROVE  GracefulStopStrandsNoJob'
  <2>1. r \in Jobs /\ at[r] = "none" => r \notin Rows
    BY DEF ServerInv, JobKnows, Rows
  <2>2. Stranded' \subseteq Stranded
    BY <1>3, <2>1 DEF Stranded, Rows, storeVars, streamVars, Alive
  <2> QED BY <1>3, <2>2, NoMoreStranded
<1>4. CASE \E p \in Replicas : Arrive(r, p)
  BY <1>1, <1>2, <1>3, <1>4 DEF Arrive, RequestsTypeOK, Proceed, Decide, LeftStep
<1>5. CASE Select(r) \/ Lookup(r) \/ Respond(r) \/ Reset(r)
  BY <1>1, <1>2, <1>3, <1>5
     DEF Select, Lookup, Respond, Reset, RequestsTypeOK, Proceed, Decide, LeftStep, MishapKind
<1>6. CASE GiveUp(r)
  <2>1. Stranded' \subseteq Stranded \cup {r}
    BY <1>1, <1>2, <1>6, StrandedByItself DEF GiveUp, Proceed, RequestsTypeOK, storeVars, streamVars
  <2> QED BY <1>6, <2>1, OneMoreStranded DEF GiveUp
<1>7. ASSUME r \in Jobs, Insert(r) PROVE GracefulStopStrandsNoJob'
  <2>1. /\ \A j \in Jobs \ {r} : status'[j] = status[j] /\ at'[j] = at[j] /\ on'[j] = on[j]
        /\ stream' = stream
    BY <1>1, <1>2, <1>7, RowIsAdded
       DEF Insert, Proceed, Decide, RequestsTypeOK, storeVars, streamVars
  <2>2. CASE Mishap("postgres")
    BY <2>1, <2>2, StrandedByItself, OneMoreStranded
  <2>3. CASE Smooth /\ Proceed(r, "enqueue")
    <3>1. at'[r] = "enqueue" /\ Alive(r)'
      BY <1>1, <1>7, <2>3 DEF Insert, Proceed, RequestsTypeOK, Alive
    <3>2. r \notin Stranded'
      BY <3>1 DEF Stranded
    <3>3. Stranded' \subseteq Stranded
      BY <2>1, <3>2, StrandedByItself
    <3> QED BY <2>3, <3>3, NoMoreStranded DEF LeftStep
  <2>4. CASE UNCHANGED storeVars /\ Smooth
    <3>1. status[r] = Absent /\ status' = status
      BY <1>7, <2>4 DEF ServerInv, JobKnows, Insert, storeVars
    <3>2. r \notin Stranded'
      BY <3>1 DEF Stranded, Rows
    <3>3. Stranded' \subseteq Stranded
      BY <2>1, <3>2, StrandedByItself
    <3> QED BY <2>4, <3>3, NoMoreStranded DEF LeftStep
  <2> QED BY <1>7, <2>2, <2>3, <2>4 DEF Insert
<1>8. ASSUME r \in Jobs, Enqueue(r) PROVE GracefulStopStrandsNoJob'
  <2>1. \A j \in Jobs \ {r} : status'[j] = status[j] /\ at'[j] = at[j] /\ on'[j] = on[j]
    BY <1>1, <1>2, <1>8 DEF Enqueue, Decide, RequestsTypeOK, storeVars
  <2>2. CASE UNCHANGED streamVars /\ Mishap("enqueue")
    BY <2>1, <2>2, StrandedByItself, OneMoreStranded DEF streamVars
  <2>3. CASE XAdd(r)
    <3>1. /\ Len(stream) \in Nat /\ Len(stream') = Len(stream) + 1
          /\ stream'[Len(stream) + 1] = r
          /\ \A e \in DOMAIN stream : e \in DOMAIN stream' /\ stream'[e] = stream[e]
          /\ Len(stream) + 1 \in DOMAIN stream'
      BY <1>1, <1>8, <2>3 DEF XAdd, StreamTypeOK
    <3>2. Stranded' \subseteq Stranded
      BY <2>1, <3>1 DEF Stranded, Rows, Alive
    <3> QED BY <1>8, <3>2, NoMoreStranded DEF Enqueue, LeftStep, MishapKind
  <2> QED BY <1>8, <2>2, <2>3 DEF Enqueue
<1> QED BY <1>4, <1>5, <1>6, <1>7, <1>8 DEF Handle

LEMMA NothingStranded == Init => GracefulStopStrandsNoJob
<1> SUFFICES ASSUME Init PROVE GracefulStopStrandsNoJob
  OBVIOUS
<1>1. Stranded = {} /\ Cardinality(Stranded) = 0
  BY FS_EmptySet DEF Init, StoreInit, Stranded, Rows
<1>2. \A k \in MishapKind : Spent(k) = 0
  BY ApiServerAssumption DEF Init, Spent
<1>3. {"postgres", "enqueue", "gone"} \subseteq MishapKind
  BY DEF MishapKind
<1> QED BY <1>1, <1>2, <1>3 DEF GracefulStopStrandsNoJob

LEMMA StopsStrandNone ==
    ServerInv /\ GracefulStopStrandsNoJob /\ [Next]_vars => GracefulStopStrandsNoJob'
<1> SUFFICES ASSUME ServerInv, GracefulStopStrandsNoJob, [Next]_vars
             PROVE  GracefulStopStrandsNoJob'
  OBVIOUS
<1>1. CASE UNCHANGED vars
  BY <1>1 DEF vars, requestVars, storeVars, streamVars, GracefulStopStrandsNoJob,
     Stranded, Rows, Alive, Spent
<1> QED BY <1>1, ProcessStrandsNone, HandlerStrandsNone DEF Next

\* As long as no replica is killed or forced out, every stranded job has a
\* mishap of its own: stopping replicas gracefully strands none.
THEOREM GracefulStops == Spec => []GracefulStopStrandsNoJob
BY NothingStranded, StopsStrandNone, ServerAlways, PTL DEF Spec
-----------------------------------------------------------------------------
(***************************************************************************)
(* The API server implements module Api: every step of a replica, a        *)
(* handler or a client is one of Api's steps on a request, or none.  First *)
(* the refinement mapping, taken apart.                                    *)
(***************************************************************************)

Unfailed == {j \in Jobs : code[j] # 500}
Unaborted == {j \in Jobs : ~Aborted(j)}

FaultsOf(insert, abort, enqueue, dup) ==
    [k \in Kinds |-> IF k = "insert" THEN insert ELSE IF k = "abort" THEN abort
                     ELSE IF k = "enqueue" THEN enqueue
                     ELSE IF k = "dup" THEN dup ELSE 0]

LEMMA FaultCounts ==
    ASSUME left \in [MishapKind -> Nat], NEW unfailed, NEW unaborted,
           unfailed \in Nat, unaborted \in Nat
    PROVE  [k \in Kinds |->
              (CASE k = "insert" -> unfailed
                 [] k = "abort" -> unaborted
                 [] k \in {"enqueue", "dup"} -> MishapBudget[k]
                 [] OTHER -> 0)
              - (IF k \in {"enqueue", "dup"} THEN Spent(k) ELSE 0)]
           = FaultsOf(unfailed, unaborted, left["enqueue"], left["dup"])
<1>1. \A k \in {"enqueue", "dup"} :
        left[k] \in Nat /\ MishapBudget[k] \in Nat /\ MishapBudget[k] - Spent(k) = left[k]
  BY ApiServerAssumption DEF MishapKind, Spent
<1> SUFFICES ASSUME NEW k \in Kinds
             PROVE  (CASE k = "insert" -> unfailed
                       [] k = "abort" -> unaborted
                       [] k \in {"enqueue", "dup"} -> MishapBudget[k]
                       [] OTHER -> 0)
                    - (IF k \in {"enqueue", "dup"} THEN Spent(k) ELSE 0)
                    = FaultsOf(unfailed, unaborted, left["enqueue"], left["dup"])[k]
  BY DEF FaultsOf
<1> HIDE DEF Spent
<1>2. FaultsOf(unfailed, unaborted, left["enqueue"], left["dup"])[k] =
        IF k = "insert" THEN unfailed ELSE IF k = "abort" THEN unaborted
        ELSE IF k = "enqueue" THEN left["enqueue"]
        ELSE IF k = "dup" THEN left["dup"] ELSE 0
  BY DEF FaultsOf
<1>3. CASE k = "insert"
  BY <1>2, <1>3
<1>4. CASE k = "abort"
  BY <1>2, <1>4
<1>5. CASE k \in {"enqueue", "dup"}
  BY <1>1, <1>2, <1>5
<1>6. CASE k \notin {"insert", "abort", "enqueue", "dup"}
  BY <1>2, <1>6
<1> QED BY <1>3, <1>4, <1>5, <1>6

FaultsAre ==
    left \in [MishapKind -> Nat] =>
        faultsLeft = FaultsOf(Cardinality(Unfailed), Cardinality(Unaborted),
                              left["enqueue"], left["dup"])

LEMMA FaultsNow == FaultsAre
<1>1. Cardinality(Unfailed) \in Nat /\ Cardinality(Unaborted) \in Nat
  BY ApiServerAssumption, FS_Subset, FS_CardinalityType DEF Unfailed, Unaborted
<1> QED BY <1>1, FaultCounts DEF FaultsAre, faultsLeft, Allowance, Unfailed, Unaborted

LEMMA FaultsWillBe == FaultsAre'
BY FaultsNow, PTL

LEMMA FaultsKept ==
    ASSUME ServerInv, ServerInv', left'["enqueue"] = left["enqueue"],
           left'["dup"] = left["dup"], Unfailed' = Unfailed, Unaborted' = Unaborted
    PROVE  faultsLeft' = faultsLeft
<1>1. left \in [MishapKind -> Nat] /\ left' \in [MishapKind -> Nat]
  BY TypeOKParts DEF ServerInv, TypeOK
<1> HIDE DEF faultsLeft, Unfailed, Unaborted
<1> QED BY <1>1, FaultsNow, FaultsWillBe DEF FaultsAre

\* A mishap of XADD is a fault of Api of the same kind.
LEMMA XAddFaults ==
    ASSUME ServerInv, ServerInv', NEW k \in {"enqueue", "dup"}, Mishap(k),
           Unfailed' = Unfailed, Unaborted' = Unaborted
    PROVE  Submission!Fault(k)
<1>1. left \in [MishapKind -> Nat] /\ left' \in [MishapKind -> Nat]
  BY TypeOKParts DEF ServerInv, TypeOK
<1>2. left[k] > 0 /\ left' = [left EXCEPT ![k] = left[k] - 1]
  BY DEF Mishap
<1>3. \A l \in {"enqueue", "dup"} : left'[l] = IF l = k THEN left[l] - 1 ELSE left[l]
  BY <1>1, <1>2 DEF MishapKind
<1>4. /\ faultsLeft[k] = left[k]
      /\ faultsLeft' = [faultsLeft EXCEPT ![k] = left[k] - 1]
  <2> HIDE DEF faultsLeft, Unfailed, Unaborted
  <2>1. faultsLeft[k] = left[k]
    BY <1>1, FaultsNow DEF FaultsAre, FaultsOf, Kinds
  <2>2. k = "enqueue" \/ k = "dup"
    OBVIOUS
  <2> QED BY <1>1, <1>3, <2>1, <2>2, FaultsNow, FaultsWillBe DEF FaultsAre, FaultsOf
<1> HIDE DEF faultsLeft
<1> QED BY <1>2, <1>4 DEF Submission!Fault

\* So is the first time a request is answered 500, or abandoned with its row
\* inserted.
LEMMA OneFewer ==
    ASSUME NEW S, S \subseteq Jobs, NEW r \in S
    PROVE  /\ Cardinality(S) \in Nat /\ Cardinality(S) > 0
           /\ Cardinality(S \ {r}) = Cardinality(S) - 1
<1>1. IsFiniteSet(S)
  BY ApiServerAssumption, FS_Subset
<1>2. Cardinality(S) \in Nat /\ Cardinality(S \ {r}) \in Nat
      /\ Cardinality(S \ {r}) = Cardinality(S) - 1
  BY <1>1, FS_RemoveElement, FS_CardinalityType, FS_Subset
<1> QED BY <1>2

LEMMA InsertFaults ==
    ASSUME ServerInv, ServerInv', NEW r \in Unfailed, Unfailed' = Unfailed \ {r},
           left'["enqueue"] = left["enqueue"], left'["dup"] = left["dup"],
           Unaborted' = Unaborted
    PROVE  Submission!Fault("insert")
<1>1. left \in [MishapKind -> Nat] /\ left' \in [MishapKind -> Nat]
  BY TypeOKParts DEF ServerInv, TypeOK
<1>2. /\ Cardinality(Unfailed) > 0
      /\ Cardinality(Unfailed') = Cardinality(Unfailed) - 1
  BY OneFewer DEF Unfailed
<1> HIDE DEF faultsLeft, Unfailed, Unaborted
<1>3. /\ faultsLeft["insert"] = Cardinality(Unfailed)
      /\ faultsLeft' = [faultsLeft EXCEPT !["insert"] = Cardinality(Unfailed) - 1]
  BY <1>1, <1>2, FaultsNow, FaultsWillBe DEF FaultsAre, FaultsOf, Kinds
<1> QED BY <1>2, <1>3 DEF Submission!Fault

LEMMA AbortFaults ==
    ASSUME ServerInv, ServerInv', NEW r \in Unaborted, Unaborted' = Unaborted \ {r},
           left'["enqueue"] = left["enqueue"], left'["dup"] = left["dup"],
           Unfailed' = Unfailed
    PROVE  Submission!Fault("abort")
<1>1. left \in [MishapKind -> Nat] /\ left' \in [MishapKind -> Nat]
  BY TypeOKParts DEF ServerInv, TypeOK
<1>2. /\ Cardinality(Unaborted) > 0
      /\ Cardinality(Unaborted') = Cardinality(Unaborted) - 1
  BY OneFewer DEF Unaborted
<1> HIDE DEF faultsLeft, Unfailed, Unaborted
<1>3. /\ faultsLeft["abort"] = Cardinality(Unaborted)
      /\ faultsLeft' = [faultsLeft EXCEPT !["abort"] = Cardinality(Unaborted) - 1]
  BY <1>1, <1>2, FaultsNow, FaultsWillBe DEF FaultsAre, FaultsOf, Kinds
<1> QED BY <1>2, <1>3 DEF Submission!Fault
-----------------------------------------------------------------------------
\* Steps of one request.

SubmissionStep ==
    [Submission!ApiNext]_<<storeVars, streamVars, req, faultsLeft>>

\* A request changes alone: what Api sees of the others stays as it is.
LEMMA OthersStay ==
    ASSUME ServerInv, NEW r \in Jobs,
           \A j \in Jobs \ {r} :
               at'[j] = at[j] /\ code'[j] = code[j] /\ status'[j] = status[j]
    PROVE  /\ req' = [req EXCEPT ![r] = RequestState(r)']
           /\ Unfailed' \ {r} = Unfailed \ {r}
           /\ Unaborted' \ {r} = Unaborted \ {r}
<1>1. \A j \in Jobs \ {r} : RequestState(j)' = RequestState(j) /\ Aborted(j)' = Aborted(j)
  BY DEF RequestState, Accepted, Aborted, Rows
<1>2. req' = [req EXCEPT ![r] = RequestState(r)']
  <2> HIDE DEF RequestState
  <2> QED BY <1>1 DEF req
<1>3. Unfailed' \ {r} = Unfailed \ {r}
  BY DEF Unfailed
<1>4. Unaborted' \ {r} = Unaborted \ {r}
  <2> HIDE DEF Aborted
  <2> QED BY <1>1 DEF Unaborted
<1> QED BY <1>2, <1>3, <1>4

\* Nothing Api knows of changes.
LEMMA NothingSeen ==
    ASSUME ServerInv, ServerInv', UNCHANGED <<storeVars, streamVars>>,
           left'["enqueue"] = left["enqueue"], left'["dup"] = left["dup"],
           \A j \in Jobs : at'[j] = at[j] /\ code'[j] = code[j]
    PROVE  SubmissionStep
<1>1. \A j \in Jobs : RequestState(j)' = RequestState(j) /\ Aborted(j)' = Aborted(j)
  BY DEF RequestState, Accepted, Aborted, Rows, storeVars
<1>2. req' = req
  <2> HIDE DEF RequestState
  <2> QED BY <1>1 DEF req
<1>3. Unfailed' = Unfailed
  BY DEF Unfailed
<1>4. Unaborted' = Unaborted
  <2> HIDE DEF Aborted
  <2> QED BY <1>1 DEF Unaborted
<1>5. faultsLeft' = faultsLeft
  BY <1>3, <1>4, FaultsKept
<1> HIDE DEF req, faultsLeft
<1> QED BY <1>2, <1>5 DEF SubmissionStep
-----------------------------------------------------------------------------
\* The actions.

LEMMA OtherMishap ==
    ASSUME ServerInv, Smooth \/ \E k \in MishapKind \ {"enqueue", "dup"} : Mishap(k)
    PROVE  left'["enqueue"] = left["enqueue"] /\ left'["dup"] = left["dup"]
<1>1. left \in [MishapKind -> Nat] /\ {"enqueue", "dup"} \subseteq MishapKind
  BY TypeOKParts DEF ServerInv, MishapKind
<1> QED BY <1>1 DEF Smooth, Mishap

LEMMA ReplicaUnseen ==
    ASSUME ServerInv, ServerInv', NEW p \in Replicas,
           Boot(p) \/ Stop(p) \/ Probe(p) \/ Signal(p) \/ ForceExit(p) \/ Kill(p)
    PROVE  SubmissionStep
<1>1. /\ UNCHANGED <<storeVars, streamVars, at, code>>
      /\ Smooth \/ \E k \in MishapKind \ {"enqueue", "dup"} : Mishap(k)
  <2>1. {"kill", "sigterm", "postgres", "redis", "listen", "slow"}
          \subseteq MishapKind \ {"enqueue", "dup"}
    BY DEF MishapKind
  <2> QED BY <2>1
          DEF Boot, Stop, Start, ConnectPostgres, ConnectRedis, Connect, Listen, Drained,
              ClosePools, Probe, Signal, ForceExit, Kill, Die, requestVars
<1> QED BY <1>1, NothingSeen, OtherMishap

LEMMA ReadUnseen ==
    ASSUME ServerInv, ServerInv', NEW r \in Reads,
           Handle(r) \/ GiveUp(r) \/ Reset(r) \/ \E p \in Replicas : Arrive(r, p)
    PROVE  SubmissionStep
<1>1. r \notin Jobs /\ RequestsTypeOK /\ \A j \in Jobs : j \in Requests /\ j # r
  BY RequestKinds, TypeOKParts DEF ServerInv
<1>2. /\ UNCHANGED <<storeVars, streamVars>>
      /\ \A j \in Jobs : at'[j] = at[j] /\ code'[j] = code[j]
  BY <1>1 DEF Handle, Select, Lookup, Respond, GiveUp, Reset, Arrive, Proceed, Decide,
              RequestsTypeOK
<1>3. Smooth \/ \E k \in MishapKind \ {"enqueue", "dup"} : Mishap(k)
  <2>1. {"postgres", "gone"} \subseteq MishapKind \ {"enqueue", "dup"}
    BY DEF MishapKind
  <2> QED BY <1>1, <2>1 DEF Handle, Select, Lookup, Respond, GiveUp, Reset, Arrive
<1> QED BY <1>2, <1>3, NothingSeen, OtherMishap

\* A request refused before its INSERT: Api's "error".
LEMMA RefusedStep ==
    ASSUME ServerInv, ServerInv', NEW r \in Jobs, UNCHANGED <<storeVars, streamVars>>,
           left'["enqueue"] = left["enqueue"], left'["dup"] = left["dup"],
           \A j \in Jobs \ {r} : at'[j] = at[j] /\ code'[j] = code[j],
           RequestState(r) = "none", RequestState(r)' = "error",
           code[r] # 500, code'[r] # 500, ~Aborted(r), ~Aborted(r)'
    PROVE  SubmissionStep
<1>1. /\ req' = [req EXCEPT ![r] = "error"]
      /\ Unfailed' \ {r} = Unfailed \ {r} /\ Unaborted' \ {r} = Unaborted \ {r}
  <2> HIDE DEF req, RequestState, Unfailed, Unaborted
  <2> QED BY OthersStay DEF storeVars
<1>2. r \in Unfailed /\ r \in Unfailed' /\ r \in Unaborted /\ r \in Unaborted'
  BY DEF Unfailed, Unaborted
<1>3. faultsLeft' = faultsLeft
  <2> HIDE DEF Unfailed, Unaborted, faultsLeft
  <2> QED BY <1>1, <1>2, FaultsKept
<1>4. req[r] = "none"
  BY DEF req
<1> HIDE DEF req, faultsLeft
<1>5. Submission!HandleCreateJob(r)
  BY <1>1, <1>3, <1>4 DEF Submission!HandleCreateJob, Submission!NoFault, Submission!Answer,
     Submission!storeVars, Submission!streamVars, storeVars, streamVars
<1> QED BY <1>5 DEF SubmissionStep, Submission!ApiNext

LEMMA ArriveStep ==
    ASSUME ServerInv, ServerInv', NEW r \in Jobs, NEW p \in Replicas, Arrive(r, p)
    PROVE  SubmissionStep
<1>1. /\ r \notin Reads /\ RequestsTypeOK /\ \A j \in Jobs : j \in Requests
      /\ UNCHANGED <<storeVars, streamVars>> /\ Smooth
      /\ at[r] = "none" /\ code[r] = 0 /\ status[r] = Absent
  BY RequestKinds, TypeOKParts DEF ServerInv, JobKnows, Arrive
<1>2. left'["enqueue"] = left["enqueue"] /\ left'["dup"] = left["dup"]
  BY <1>1, OtherMishap
<1>3. /\ \A j \in Jobs \ {r} : at'[j] = at[j] /\ code'[j] = code[j]
      /\ \/ at'[r] = "insert" /\ code'[r] = 0
         \/ at'[r] = "answer" /\ code'[r] \in {400, 401}
  BY <1>1 DEF Arrive, Proceed, Decide, RequestsTypeOK
<1>4. status'[r] = Absent /\ UNCHANGED storeVars
  BY <1>1 DEF storeVars
<1>5. RequestState(r) = "none" /\ ~Aborted(r) /\ ~Aborted(r)'
  BY <1>1, <1>3 DEF RequestState, Accepted, Aborted
<1>6. CASE at'[r] = "insert"
  <2>1. RequestState(r)' = "none"
    BY <1>3, <1>6 DEF RequestState, Accepted
  <2>2. /\ req' = [req EXCEPT ![r] = "none"]
        /\ Unfailed' \ {r} = Unfailed \ {r} /\ Unaborted' \ {r} = Unaborted \ {r}
    <3> HIDE DEF req, RequestState, Unfailed, Unaborted
    <3> QED BY <1>1, <1>3, <2>1, OthersStay DEF storeVars
  <2>3. r \in Unfailed /\ r \in Unfailed' /\ r \in Unaborted /\ r \in Unaborted'
    BY <1>1, <1>3, <1>5, <1>6 DEF Unfailed, Unaborted
  <2>4. faultsLeft' = faultsLeft
    <3> HIDE DEF Unfailed, Unaborted, faultsLeft
    <3> QED BY <1>2, <2>2, <2>3, FaultsKept
  <2>5. req' = req
    BY <1>5, <2>2 DEF req
  <2> HIDE DEF req, faultsLeft
  <2> QED BY <1>1, <2>4, <2>5 DEF SubmissionStep
<1>7. CASE at'[r] = "answer"
  <2>1. RequestState(r)' = "error" /\ code'[r] # 500 /\ code[r] # 500
    BY <1>1, <1>3, <1>7 DEF RequestState, Accepted
  <2> HIDE DEF RequestState, Aborted
  <2> QED BY <1>1, <1>2, <1>3, <1>5, <2>1, RefusedStep
<1> QED BY <1>3, <1>6, <1>7

LEMMA InsertStep ==
    ASSUME ServerInv, ServerInv', NEW r \in Jobs, Insert(r) PROVE SubmissionStep
<1>1. /\ RequestsTypeOK /\ StoreTypeOK /\ \A j \in Jobs : j \in Requests
      /\ UNCHANGED streamVars /\ at[r] = "insert" /\ code[r] = 0 /\ status[r] = Absent
  BY RequestKinds, TypeOKParts DEF ServerInv, JobKnows, Insert
<1>2. left'["enqueue"] = left["enqueue"] /\ left'["dup"] = left["dup"]
  BY OtherMishap DEF Insert, MishapKind
<1>3. \A j \in Jobs \ {r} : at'[j] = at[j] /\ code'[j] = code[j] /\ status'[j] = status[j]
  BY <1>1, RowIsAdded DEF Insert, Proceed, Decide, RequestsTypeOK, storeVars
<1>4. RequestState(r) = "none" /\ ~Aborted(r) /\ r \in Unfailed /\ r \in Unaborted
  BY <1>1 DEF RequestState, Accepted, Aborted, Unfailed, Unaborted
<1>5. /\ req' = [req EXCEPT ![r] = RequestState(r)']
      /\ Unfailed' \ {r} = Unfailed \ {r} /\ Unaborted' \ {r} = Unaborted \ {r}
  <2> HIDE DEF req, RequestState, Unfailed, Unaborted
  <2> QED BY <1>3, OthersStay
<1>6. req[r] = "none"
  BY <1>4 DEF req
<1>7. CASE /\ \E t \in Types, m \in RequestedRetries : CreateJob(r, t, EffectiveRetries(m))
           /\ Proceed(r, "enqueue")
  <2>1. at'[r] = "enqueue" /\ code'[r] = 0
    BY <1>1, <1>7 DEF Proceed, RequestsTypeOK
  <2>2. RequestState(r)' = "enqueue" /\ r \in Unfailed' /\ r \in Unaborted'
    BY <2>1 DEF RequestState, Accepted, Aborted, Unfailed, Unaborted
  <2>3. faultsLeft' = faultsLeft
    <3> HIDE DEF Unfailed, Unaborted, faultsLeft
    <3> QED BY <1>2, <1>4, <1>5, <2>2, FaultsKept
  <2> HIDE DEF req, faultsLeft, RequestState
  <2>4. Submission!HandleCreateJob(r)
    BY <1>1, <1>5, <1>6, <1>7, <2>2, <2>3
       DEF Submission!HandleCreateJob, Submission!NoFault, Submission!Answer,
           Submission!storeVars, Submission!streamVars, streamVars, Submission!CreateJob,
           CreateJob, Submission!EffectiveRetries, EffectiveRetries, Submission!DefaultRetries,
           Submission!Absent, Absent
  <2> QED BY <2>4 DEF SubmissionStep, Submission!ApiNext
<1>8. CASE /\ \/ \E t \in Types, m \in RequestedRetries : CreateJob(r, t, EffectiveRetries(m))
              \/ UNCHANGED storeVars
           /\ Decide(r, 500)
  <2>1. at'[r] = "answer" /\ code'[r] = 500
    BY <1>1, <1>8 DEF Decide, RequestsTypeOK
  <2>2. RequestState(r)' = "error" /\ r \notin Unfailed' /\ r \in Unaborted'
    BY <2>1 DEF RequestState, Accepted, Aborted, Unfailed, Unaborted
  <2>3. Submission!Fault("insert")
    <3> HIDE DEF Unfailed, Unaborted, faultsLeft
    <3> QED BY <1>2, <1>4, <1>5, <2>2, InsertFaults
  <2> HIDE DEF req, faultsLeft, RequestState
  <2>4. Submission!HandleCreateJob(r)
    BY <1>1, <1>5, <1>6, <1>8, <2>2, <2>3
       DEF Submission!HandleCreateJob, Submission!Answer,
           Submission!storeVars, Submission!streamVars, storeVars, streamVars,
           Submission!CreateJob, CreateJob, Submission!EffectiveRetries, EffectiveRetries,
           Submission!DefaultRetries, Submission!Absent, Absent
  <2> QED BY <2>4 DEF SubmissionStep, Submission!ApiNext
<1> QED BY <1>7, <1>8 DEF Insert

LEMMA EnqueueStep ==
    ASSUME ServerInv, ServerInv', NEW r \in Jobs, Enqueue(r) PROVE SubmissionStep
<1>1. /\ RequestsTypeOK /\ \A j \in Jobs : j \in Requests
      /\ UNCHANGED storeVars /\ at[r] = "enqueue" /\ code[r] = 0
  BY RequestKinds, TypeOKParts DEF ServerInv, JobKnows, Enqueue
<1>2. /\ \A j \in Jobs \ {r} : at'[j] = at[j] /\ code'[j] = code[j] /\ status'[j] = status[j]
      /\ \/ at'[r] = "answer" /\ code'[r] = 202
         \/ at'[r] = "enqueue" /\ code'[r] = 0
  BY <1>1 DEF Enqueue, Decide, RequestsTypeOK, storeVars
<1>3. /\ RequestState(r) = "enqueue" /\ r \in Unfailed /\ r \in Unaborted
      /\ r \in Unfailed' /\ r \in Unaborted'
  BY <1>1, <1>2 DEF RequestState, Accepted, Aborted, Unfailed, Unaborted
<1>4. /\ req' = [req EXCEPT ![r] = RequestState(r)']
      /\ Unfailed' = Unfailed /\ Unaborted' = Unaborted
  <2> HIDE DEF req, RequestState, Unfailed, Unaborted
  <2> QED BY <1>2, <1>3, OthersStay
<1>5. req[r] = "enqueue"
  BY <1>3 DEF req
<1>6. Decide(r, 202) => RequestState(r)' = "accepted"
  BY <1>1 DEF Decide, RequestState, Accepted, RequestsTypeOK
<1>7. UNCHANGED <<at, code>> => req' = req
  BY <1>1 DEF req, RequestState, Accepted
<1>8. Smooth => faultsLeft' = faultsLeft
  <2> HIDE DEF Unfailed, Unaborted, faultsLeft
  <2> QED BY <1>4, FaultsKept, OtherMishap
<1>9. \A k \in {"enqueue", "dup"} : Mishap(k) => Submission!Fault(k)
  <2> HIDE DEF Unfailed, Unaborted, faultsLeft
  <2> QED BY <1>4, XAddFaults
<1> HIDE DEF req, faultsLeft, RequestState
<1>10. Submission!Enqueue(r)
  BY <1>1, <1>4, <1>5, <1>6, <1>7, <1>8, <1>9
     DEF Enqueue, Submission!Enqueue, Submission!Answer, Submission!NoFault, Submission!XAdd,
         XAdd, Submission!storeVars, Submission!streamVars, storeVars, streamVars
<1> QED BY <1>10 DEF SubmissionStep, Submission!ApiNext

LEMMA EndStep ==
    ASSUME ServerInv, ServerInv', NEW r \in Jobs, Respond(r) \/ GiveUp(r) \/ Reset(r)
    PROVE  SubmissionStep
<1>1. /\ RequestsTypeOK /\ \A j \in Jobs : j \in Requests
      /\ UNCHANGED <<storeVars, streamVars>> /\ code' = code
  BY RequestKinds, TypeOKParts DEF ServerInv, Respond, GiveUp, Reset, Proceed
<1>2. /\ \A j \in Jobs \ {r} : at'[j] = at[j] /\ code'[j] = code[j] /\ status'[j] = status[j]
      /\ \/ at[r] = "answer" /\ at'[r] \in {"done", "cut"}
         \/ at[r] \in {"insert", "enqueue"} /\ at'[r] = "cut"
  BY <1>1 DEF ServerInv, JobKnows, Respond, GiveUp, Reset, Proceed, RequestsTypeOK,
              Handling, storeVars
<1>3. left'["enqueue"] = left["enqueue"] /\ left'["dup"] = left["dup"]
  BY OtherMishap DEF Respond, GiveUp, Reset, MishapKind
<1>4. /\ req' = [req EXCEPT ![r] = RequestState(r)']
      /\ Unfailed' \ {r} = Unfailed \ {r} /\ Unaborted' \ {r} = Unaborted \ {r}
  <2> HIDE DEF req, RequestState, Unfailed, Unaborted
  <2> QED BY <1>1, <1>2, OthersStay
<1>5. Unfailed' = Unfailed /\ req[r] = RequestState(r)
  BY <1>1 DEF Unfailed, req
<1>6. CASE at[r] = "answer"
  <2>1. code[r] # 0
    BY <1>1, <1>6 DEF RequestsTypeOK
  <2>2. RequestState(r)' = RequestState(r)
    BY <1>1, <1>2, <1>6, <2>1 DEF RequestState, Accepted
  <2>3. r \in Unaborted /\ r \in Unaborted'
    BY <1>1, <2>1 DEF Unaborted, Aborted
  <2>4. faultsLeft' = faultsLeft
    <3> HIDE DEF Unfailed, Unaborted, faultsLeft
    <3> QED BY <1>3, <1>4, <1>5, <2>3, FaultsKept
  <2>5. req' = req
    <3> HIDE DEF RequestState
    <3> QED BY <1>4, <1>5, <2>2 DEF req
  <2> HIDE DEF req, faultsLeft
  <2> QED BY <1>1, <2>4, <2>5 DEF SubmissionStep
<1>7. CASE at[r] = "insert"
  <2>1. code[r] = 0 /\ status[r] = Absent /\ status' = status
    BY <1>1, <1>7 DEF ServerInv, JobKnows, storeVars
  <2>2. RequestState(r) = "none" /\ RequestState(r)' = "error" /\ ~Aborted(r) /\ ~Aborted(r)'
    BY <1>1, <1>2, <1>7, <2>1 DEF RequestState, Accepted, Aborted, Rows
  <2> HIDE DEF RequestState, Aborted
  <2> QED BY <1>1, <1>2, <1>3, <2>1, <2>2, RefusedStep
<1>8. CASE at[r] = "enqueue"
  <2>1. code[r] = 0 /\ status[r] # Absent /\ status' = status
    BY <1>1, <1>8 DEF ServerInv, JobKnows, storeVars
  <2>2. /\ RequestState(r) = "enqueue" /\ RequestState(r)' = "error"
        /\ r \in Unaborted /\ r \notin Unaborted'
    BY <1>1, <1>2, <1>8, <2>1 DEF RequestState, Accepted, Aborted, Rows, Unaborted
  <2>3. Submission!Fault("abort")
    <3> HIDE DEF Unfailed, Unaborted, faultsLeft
    <3> QED BY <1>3, <1>4, <1>5, <2>2, AbortFaults
  <2> HIDE DEF req, faultsLeft, RequestState
  <2>4. Submission!AbortRequest(r)
    BY <1>1, <1>4, <1>5, <2>2, <2>3
       DEF Submission!AbortRequest, Submission!Answer, Submission!storeVars,
           Submission!streamVars, storeVars, streamVars
  <2> QED BY <2>4 DEF SubmissionStep, Submission!ApiNext
<1> QED BY <1>2, <1>6, <1>7, <1>8
-----------------------------------------------------------------------------
LEMMA SubmissionNext == ServerInv /\ ServerInv' /\ [Next]_vars => SubmissionStep
<1> SUFFICES ASSUME ServerInv, ServerInv', [Next]_vars PROVE SubmissionStep
  OBVIOUS
<1>1. CASE UNCHANGED vars
  BY <1>1, NothingSeen DEF vars, requestVars
<1>2. ASSUME NEW r \in Requests,
             Handle(r) \/ GiveUp(r) \/ Reset(r) \/ \E p \in Replicas : Arrive(r, p)
      PROVE  SubmissionStep
  <2>1. CASE r \in Reads
    BY <1>2, <2>1, ReadUnseen
  <2>2. CASE r \in Jobs
    <3>1. ~Select(r) /\ ~Lookup(r)
      BY <2>2 DEF ServerInv, JobKnows, Select, Lookup
    <3> QED BY <1>2, <2>2, <3>1, ArriveStep, InsertStep, EnqueueStep, EndStep DEF Handle
  <2> QED BY <2>1, <2>2 DEF Requests
<1> QED BY <1>1, <1>2, ReplicaUnseen DEF Next

LEMMA SubmissionStarts ==
    Init => StoreInit /\ StreamInit /\ Submission!FaultsInit /\ Submission!ApiInit
<1> SUFFICES ASSUME Init
             PROVE  StoreInit /\ StreamInit /\ Submission!FaultsInit /\ Submission!ApiInit
  OBVIOUS
<1>1. \A j \in Jobs : code[j] = 0 /\ at[j] = "none"
  BY RequestKinds DEF Init
<1>2. Unfailed = Jobs /\ Unaborted = Jobs
  BY <1>1 DEF Unfailed, Unaborted, Aborted
<1>3. left = MishapBudget /\ left \in [MishapKind -> Nat]
  BY ApiServerAssumption DEF Init
<1>4. faultsLeft = budget
  <2>1. budget = FaultsOf(Cardinality(Jobs), Cardinality(Jobs),
                          MishapBudget["enqueue"], MishapBudget["dup"])
    BY DEF budget, Allowance, FaultsOf, Kinds
  <2> HIDE DEF faultsLeft, Unfailed, Unaborted, budget
  <2> QED BY <1>2, <1>3, <2>1, FaultsNow DEF FaultsAre
<1>5. req = [j \in Jobs |-> "none"]
  BY <1>1 DEF req, RequestState, Accepted
<1> HIDE DEF req, faultsLeft, budget
<1> QED BY <1>4, <1>5 DEF Init, Submission!FaultsInit, Submission!ApiInit

\* The server implements the two calls of module Api: whatever happens to
\* replicas, handlers and clients, the table and the stream change as
\* HandleCreateJob, Enqueue and AbortRequest say, so that what is proved about
\* a queue with Api in front of it holds with the server there.
THEOREM ServerSubmits == Spec => ImplementsSubmission
BY SubmissionStarts, SubmissionNext, ServerAlways, PTL
   DEF Spec, ImplementsSubmission, SubmissionStep
=============================================================================
