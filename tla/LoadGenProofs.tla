--------------------------- MODULE LoadGenProofs ---------------------------
(***************************************************************************)
(* Theorems about the load generator for every finite swarm and number of  *)
(* jobs: no send on the closed channel, no id lost, counters that add up.  *)
(***************************************************************************)
EXTENDS LoadGen, FiniteSetTheorems, TLAPS
-----------------------------------------------------------------------------
\* The WaitGroup counts the goroutines that were started and have not left.

Live == {u \in Users : user[u] \notin {"unborn", "gone"}}

Phase == {"login", "exited", "spawn", "wait", "collect", "poll", "done"}

SwarmInv ==
    /\ user \in [Users -> {"unborn", "range", "post", "send", "gone"}]
    /\ main \in Phase
    /\ wg = Cardinality(Live)
    /\ main \in {"wait", "collect", "poll", "done"} =>
          \A u \in Users : user[u] # "unborn"
    /\ main \in {"login", "exited"} => \A u \in Users : user[u] = "unborn"
    /\ closed <=> main \in {"collect", "poll", "done"}
    /\ closed => \A u \in Users : user[u] = "gone"

LEMMA LiveFinite == IsFiniteSet(Live) /\ Cardinality(Live) \in Nat
<1>1. Live \subseteq Users
  BY DEF Live
<1> QED BY <1>1, SwarmAssumption, FS_Subset, FS_CardinalityType

LEMMA InitSwarm == Init => SwarmInv
<1> SUFFICES ASSUME Init PROVE SwarmInv
  OBVIOUS
<1>1. user = [u \in Users |-> "unborn"] /\ main = "login" /\ closed = FALSE /\ wg = 0
  BY DEF Init
<1>2. Live = {}
  BY <1>1 DEF Live
<1>3. Cardinality(Live) = 0
  BY <1>2, FS_EmptySet
<1> QED BY <1>1, <1>3 DEF SwarmInv, Phase

LEMMA StepSwarm == SwarmInv /\ [Next]_vars => SwarmInv'
<1> SUFFICES ASSUME SwarmInv, [Next]_vars PROVE SwarmInv'
  OBVIOUS
<1>1. CASE user' = user /\ wg' = wg /\ main' = main /\ closed' = closed
  BY <1>1 DEF SwarmInv, Live
<1>2. CASE Login
  <2>1. user' = user /\ wg' = wg /\ closed' = closed /\ Live' = Live
    BY <1>2 DEF Login, swarmVars, Live
  <2> QED BY <1>2, <2>1 DEF Login, SwarmInv, Phase
<1>3. ASSUME NEW u \in Users, Spawn(u) PROVE SwarmInv'
  <2>1. user' = [user EXCEPT ![u] = "range"] /\ user[u] = "unborn" /\ closed' = closed
    BY <1>3 DEF Spawn, At
  <2>2. Live' = Live \cup {u} /\ u \notin Live
    BY <2>1 DEF Live, SwarmInv
  <2>3. Cardinality(Live') = Cardinality(Live) + 1
    BY <2>2, LiveFinite, FS_AddElement
  <2>4. main' \in {"spawn", "wait"} /\ main = "spawn"
        /\ (main' = "wait" => \A v \in Users : user'[v] # "unborn")
    BY <1>3, <2>1 DEF Spawn, SwarmInv
  <2> QED BY <1>3, <2>1, <2>3, <2>4 DEF Spawn, SwarmInv, Phase
<1>4. CASE WaitAndClose
  <2>1. Live = {}
    BY <1>4, LiveFinite, FS_EmptySet DEF WaitAndClose, SwarmInv
  <2>2. \A u \in Users : user[u] = "gone"
    BY <1>4, <2>1 DEF WaitAndClose, SwarmInv, Live
  <2>3. user' = user /\ wg' = wg /\ closed' = TRUE /\ main' = "collect" /\ Live' = Live
    BY <1>4 DEF WaitAndClose, swarmVars, Live
  <2> QED BY <2>2, <2>3 DEF SwarmInv, Phase
<1>5. CASE CollectIds \/ CheckStatus \/ EndOfPass
  <2>1. user' = user /\ wg' = wg /\ closed' = closed /\ Live' = Live
    BY <1>5 DEF CollectIds, CheckStatus, EndOfPass, swarmVars, Live
  <2>2. main \in {"collect", "poll"} /\ main' \in {"poll", "done"}
    BY <1>5 DEF CollectIds, CheckStatus, EndOfPass
  <2> QED BY <2>1, <2>2 DEF SwarmInv, Phase
<1>6. ASSUME NEW u \in Users, Take(u) \/ Answered(u) \/ Refused(u) \/ SendId(u)
      PROVE  SwarmInv'
  <2>1. PICK l \in {"range", "post", "send"} : user' = [user EXCEPT ![u] = l]
    BY <1>6 DEF Take, Answered, Refused, SendId, At
  <2>2. user[u] \in {"range", "post", "send"} /\ UNCHANGED <<wg, main, closed>>
    BY <1>6 DEF Take, Answered, Refused, SendId
  <2>3. Live' = Live
    BY <2>1, <2>2 DEF Live, SwarmInv
  <2> QED BY <2>1, <2>2, <2>3 DEF SwarmInv
<1>7. ASSUME NEW u \in Users, Leave(u) PROVE SwarmInv'
  <2>1. /\ user' = [user EXCEPT ![u] = "gone"] /\ user[u] = "range"
        /\ wg' = wg - 1 /\ UNCHANGED <<main, closed>>
    BY <1>7 DEF Leave, At
  <2>2. Live' = Live \ {u} /\ u \in Live
    BY <2>1 DEF Live, SwarmInv
  <2>3. Cardinality(Live') = Cardinality(Live) - 1
    BY <2>2, LiveFinite, FS_RemoveElement
  <2> QED BY <2>1, <2>3 DEF SwarmInv
<1>8. CASE (\E j \in Jobs : CreateOnServer(j) \/ Finish(j)) \/ UNCHANGED vars
  BY <1>1, <1>8 DEF CreateOnServer, Finish, vars, swarmVars
<1> QED BY <1>2, <1>3, <1>4, <1>5, <1>6, <1>7, <1>8 DEF Next, MainStep, UserStep

\* For every finite swarm: when main closes jobIDs, no goroutine is left that
\* could still send on it.
THEOREM ClosedAfterLastSend == Spec => []NoSendOnClosedChannel
<1>1. SwarmInv => NoSendOnClosedChannel
  BY DEF SwarmInv, NoSendOnClosedChannel
<1> QED BY <1>1, InitSwarm, StepSwarm, PTL DEF Spec
-----------------------------------------------------------------------------
(***************************************************************************)
(* AllJobsProcessed: an id read from a 202 is in a goroutine's hands, in   *)
(* the channel or in one of main's lists until its job is finished.        *)
(***************************************************************************)

In(j, s) == \E i \in 1..Len(s) : s[i] = j

Tracked(j) ==
    \/ j \in finished
    \/ \E u \in Users : user[u] = "send" /\ request[u] = j
    \/ In(j, jobIDs) \/ In(j, pending) \/ In(j, remaining)

IdInv ==
    /\ SwarmInv
    /\ request \in [Users -> Jobs \cup {NoJob}]
    /\ \A u \in Users : user[u] \in {"post", "send"} => request[u] \in Jobs
    /\ jobIDs \in Seq(Jobs) /\ pending \in Seq(Jobs) /\ remaining \in Seq(Jobs)
    /\ requested \subseteq Jobs /\ created \subseteq requested
    /\ main \in {"poll", "done"} => jobIDs = <<>>
    /\ main # "poll" => pending = <<>> /\ remaining = <<>>
    /\ \A j \in acked : Tracked(j)

LEMMA InAppend ==
    ASSUME NEW s \in Seq(Jobs), NEW k \in Jobs
    PROVE  /\ Append(s, k) \in Seq(Jobs) /\ In(k, Append(s, k))
           /\ \A j : In(j, s) => In(j, Append(s, k))
BY DEF In

LEMMA InTail ==
    ASSUME NEW s \in Seq(Jobs), s # <<>>
    PROVE  /\ Head(s) \in Jobs /\ Tail(s) \in Seq(Jobs)
           /\ \A j : In(j, s) => j = Head(s) \/ In(j, Tail(s))
<1>1. /\ Head(s) = s[1] /\ Head(s) \in Jobs /\ Tail(s) \in Seq(Jobs)
      /\ Len(Tail(s)) = Len(s) - 1 /\ Len(s) \in Nat
      /\ \A i \in 1..(Len(s) - 1) : Tail(s)[i] = s[i + 1]
  OBVIOUS
<1>2. ASSUME NEW j, In(j, s) PROVE j = Head(s) \/ In(j, Tail(s))
  <2>1. PICK i \in 1..Len(s) : s[i] = j
    BY <1>2 DEF In
  <2>2. CASE i = 1
    BY <1>1, <2>1, <2>2
  <2>3. CASE i # 1
    <3>1. i - 1 \in 1..(Len(s) - 1) /\ Tail(s)[i - 1] = j
      BY <1>1, <2>1, <2>3
    <3> QED BY <1>1, <3>1 DEF In
  <2> QED BY <2>2, <2>3
<1> QED BY <1>1, <1>2

LEMMA InitIds == Init => IdInv
BY InitSwarm DEF Init, IdInv, NoJob

LEMMA SendTracks ==
    ASSUME IdInv, SwarmInv', NEW u \in Users, SendId(u)
    PROVE  IdInv'
<1>1. /\ user[u] = "send" /\ jobIDs' = Append(jobIDs, request[u])
      /\ user' = [user EXCEPT ![u] = "range"] /\ request' = [request EXCEPT ![u] = NoJob]
      /\ UNCHANGED <<main, mainVars, requested, acked, serverVars>>
  BY DEF SendId, At
<1>2. request[u] \in Jobs
  BY <1>1 DEF IdInv
<1>3. main \notin {"poll", "done"}
  BY <1>1 DEF IdInv, SwarmInv
<1>4. jobIDs' \in Seq(Jobs) /\ \A j : In(j, jobIDs) => In(j, jobIDs')
  BY <1>1, <1>2, InAppend DEF IdInv
<1>5. ASSUME NEW j \in acked PROVE Tracked(j)'
  <2>1. In(request[u], jobIDs')
    BY <1>1, <1>2, InAppend DEF IdInv
  <2>2. Tracked(j)
    BY DEF IdInv
  <2>3. \A v \in Users \ {u} : user'[v] = user[v] /\ request'[v] = request[v]
    BY <1>1 DEF IdInv, SwarmInv
  <2> QED BY <1>1, <1>4, <2>1, <2>2, <2>3 DEF Tracked, mainVars, serverVars, In
<1>6. /\ request' \in [Users -> Jobs \cup {NoJob}]
      /\ \A v \in Users : user'[v] \in {"post", "send"} => request'[v] \in Jobs
  BY <1>1 DEF IdInv, SwarmInv
<1> QED BY <1>1, <1>3, <1>4, <1>5, <1>6 DEF IdInv, mainVars, serverVars

LEMMA UserTracks ==
    ASSUME IdInv, SwarmInv', NEW u \in Users,
           Take(u) \/ Answered(u) \/ Refused(u) \/ Leave(u)
    PROVE  IdInv'
<1>1. UNCHANGED <<main, mainVars, jobIDs, serverVars>>
  BY DEF Take, Answered, Refused, Leave
<1>2. user \in [Users -> {"unborn", "range", "post", "send", "gone"}]
  BY DEF IdInv, SwarmInv
<1>3. CASE Take(u)
  <2>1. PICK j \in Jobs \ requested :
           /\ request' = [request EXCEPT ![u] = j] /\ requested' = requested \cup {j}
           /\ user' = [user EXCEPT ![u] = "post"] /\ user[u] = "range"
           /\ acked' = acked
    BY <1>3 DEF Take, At
  <2>2. \A v \in Users : user[v] = "send" => user'[v] = "send" /\ request'[v] = request[v]
    BY <1>2, <2>1 DEF IdInv
  <2>3. \A i \in acked : Tracked(i)'
    BY <1>1, <2>2 DEF IdInv, Tracked, mainVars, serverVars, In
  <2> QED BY <1>1, <1>2, <2>1, <2>3 DEF IdInv, mainVars, serverVars
<1>4. CASE Answered(u)
  <2>1. /\ request' = request /\ requested' = requested
        /\ user' = [user EXCEPT ![u] = "send"] /\ user[u] = "post"
        /\ acked' = acked \cup {request[u]}
    BY <1>4 DEF Answered, At
  <2>2. \A v \in Users : user[v] = "send" => user'[v] = "send"
    BY <1>2, <2>1
  <2>3. Tracked(request[u])'
    BY <1>2, <2>1 DEF Tracked
  <2>4. \A i \in acked : Tracked(i)'
    BY <1>1, <2>1, <2>2 DEF IdInv, Tracked, mainVars, serverVars, In
  <2> QED BY <1>1, <1>2, <2>1, <2>3, <2>4 DEF IdInv, mainVars, serverVars
<1>5. CASE Refused(u) \/ Leave(u)
  <2>1. /\ requested' = requested /\ acked' = acked
        /\ user[u] \in {"post", "range"}
        /\ \E l \in {"range", "gone"} : user' = [user EXCEPT ![u] = l]
        /\ request' = request \/ request' = [request EXCEPT ![u] = NoJob]
    BY <1>5 DEF Refused, Leave, At
  <2>2. \A v \in Users : user[v] = "send" => user'[v] = "send" /\ request'[v] = request[v]
    BY <1>2, <2>1 DEF IdInv
  <2>3. \A i \in acked : Tracked(i)'
    BY <1>1, <2>1, <2>2 DEF IdInv, Tracked, mainVars, serverVars, In
  <2>4. /\ request' \in [Users -> Jobs \cup {NoJob}]
        /\ \A v \in Users : user'[v] \in {"post", "send"} => request'[v] \in Jobs
    BY <1>2, <2>1 DEF IdInv
  <2> QED BY <1>1, <2>1, <2>3, <2>4 DEF IdInv, mainVars, serverVars
<1> QED BY <1>3, <1>4, <1>5

LEMMA MainTracks ==
    ASSUME IdInv, SwarmInv', CollectIds \/ CheckStatus \/ EndOfPass
    PROVE  IdInv'
<1>1. UNCHANGED <<user, request, requested, acked, serverVars>>
  BY DEF CollectIds, CheckStatus, EndOfPass, swarmVars
<1>2. ASSUME \A j \in acked : In(j, jobIDs) \/ In(j, pending) \/ In(j, remaining) =>
                j \in finished \/ In(j, jobIDs') \/ In(j, pending') \/ In(j, remaining'),
             jobIDs' \in Seq(Jobs), pending' \in Seq(Jobs), remaining' \in Seq(Jobs),
             main' \in {"poll", "done"} => jobIDs' = <<>>,
             main' # "poll" => pending' = <<>> /\ remaining' = <<>>
      PROVE  IdInv'
  BY <1>1, <1>2 DEF IdInv, Tracked, serverVars
<1>3. CASE CollectIds
  <2>1. /\ pending' = jobIDs /\ jobIDs' = <<>> /\ main' = "poll" /\ remaining' = remaining
        /\ pending = <<>>
    BY <1>3 DEF CollectIds, IdInv
  <2>2. \A j : ~In(j, pending)
    BY <2>1 DEF In
  <2>3. pending' \in Seq(Jobs) /\ jobIDs' \in Seq(Jobs) /\ remaining' \in Seq(Jobs)
    BY <2>1 DEF IdInv
  <2> QED BY <1>2, <2>1, <2>2, <2>3
<1>4. CASE CheckStatus
  <2>1. /\ main = "poll" /\ main' = main /\ jobIDs' = jobIDs
        /\ pending # <<>> /\ pending' = Tail(pending)
        /\ \/ remaining' = Append(remaining, Head(pending))
           \/ remaining' = remaining /\ Head(pending) \in finished
    BY <1>4 DEF CheckStatus, swarmVars
  <2>2. /\ pending \in Seq(Jobs) /\ remaining \in Seq(Jobs) /\ jobIDs \in Seq(Jobs)
        /\ jobIDs = <<>>
    BY <2>1 DEF IdInv
  <2>3. /\ Head(pending) \in Jobs /\ pending' \in Seq(Jobs)
        /\ \A j : In(j, pending) => j = Head(pending) \/ In(j, pending')
    BY <2>1, <2>2, InTail
  <2>4. /\ remaining' \in Seq(Jobs)
        /\ \A j : In(j, remaining) => In(j, remaining')
        /\ Head(pending) \in finished \/ In(Head(pending), remaining')
    BY <2>1, <2>2, <2>3, InAppend
  <2> QED BY <1>2, <2>1, <2>2, <2>3, <2>4
<1>5. CASE EndOfPass
  <2>1. /\ main = "poll" /\ pending = <<>> /\ pending' = remaining /\ remaining' = <<>>
        /\ main' = (IF remaining = <<>> THEN "done" ELSE "poll") /\ jobIDs' = jobIDs
    BY <1>5 DEF EndOfPass, swarmVars
  <2>2. \A j : ~In(j, pending)
    BY <2>1 DEF In
  <2>3. pending' \in Seq(Jobs) /\ jobIDs' \in Seq(Jobs) /\ remaining' \in Seq(Jobs)
    BY <2>1 DEF IdInv
  <2>4. jobIDs' = <<>> /\ (main' # "poll" => pending' = <<>>)
    BY <2>1 DEF IdInv
  <2> QED BY <1>2, <2>1, <2>2, <2>3, <2>4
<1> QED BY <1>3, <1>4, <1>5

LEMMA StepIds == IdInv /\ [Next]_vars => IdInv'
<1> SUFFICES ASSUME IdInv, [Next]_vars PROVE IdInv'
  OBVIOUS
<1>1. SwarmInv'
  BY StepSwarm DEF IdInv
<1>2. CASE \/ Login \/ (\E u \in Users : Spawn(u)) \/ WaitAndClose
           \/ (\E j \in Jobs : CreateOnServer(j) \/ Finish(j)) \/ UNCHANGED vars
  <2>1. /\ UNCHANGED <<request, requested, acked, jobIDs, mainVars>>
        /\ finished \subseteq finished' /\ created' \subseteq requested'
        /\ \A u \in Users : user'[u] = user[u] \/ (user[u] = "unborn" /\ user'[u] = "range")
    BY <1>2 DEF Login, Spawn, At, WaitAndClose, CreateOnServer, Finish, vars, swarmVars,
                serverVars, IdInv, SwarmInv
  <2>2. main \in {"poll", "done"} <=> main' \in {"poll", "done"}
    BY <1>2 DEF Login, Spawn, WaitAndClose, CreateOnServer, Finish, vars
  <2>3. main = "poll" <=> main' = "poll"
    BY <1>2 DEF Login, Spawn, WaitAndClose, CreateOnServer, Finish, vars
  <2>4. \A j \in acked : Tracked(j)'
    BY <2>1 DEF IdInv, Tracked, mainVars, In
  <2> QED BY <1>1, <2>1, <2>2, <2>3, <2>4 DEF IdInv, mainVars
<1>3. CASE \E u \in Users : UserStep(u)
  BY <1>1, <1>3, SendTracks, UserTracks DEF UserStep
<1>4. CASE CollectIds \/ CheckStatus \/ EndOfPass
  BY <1>1, <1>4, MainTracks
<1> QED BY <1>2, <1>3, <1>4 DEF Next, MainStep

\* "All jobs processed!": for every swarm and every number of failing checks,
\* the polling loop ends only when each job answered 202 is finished.
THEOREM NoIdIsLost == Spec => []AllJobsProcessed
<1>1. IdInv => AllJobsProcessed
  <2> SUFFICES ASSUME IdInv, main = "done", NEW j \in acked PROVE j \in finished
    BY DEF AllJobsProcessed
  <2>1. Tracked(j) /\ jobIDs = <<>> /\ pending = <<>> /\ remaining = <<>>
    BY DEF IdInv
  <2>2. \A u \in Users : user[u] = "gone"
    BY DEF IdInv, SwarmInv
  <2>3. ~In(j, <<>>)
    BY DEF In
  <2> QED BY <2>1, <2>2, <2>3 DEF Tracked
<1> QED BY <1>1, InitIds, StepIds, PTL DEF Spec
-----------------------------------------------------------------------------
(***************************************************************************)
(* Tally: every item of work is still to be taken, being asked for, counted *)
(* as created or counted as failed, and no two goroutines ask for one job. *)
(***************************************************************************)

Posting == {u \in Users : user[u] = "post"}

Requests ==
    /\ acked \subseteq created /\ finished \subseteq created
    /\ \A u \in Posting : request[u] \in requested \ acked
    /\ \A u, v \in Posting : u # v => request[u] # request[v]
    /\ (\E u \in Users : user[u] = "gone") => work = 0

Books ==
    /\ work \in Nat /\ success \in Nat /\ failed \in Nat
    /\ work + Cardinality(requested) = TotalJobs
    /\ success = Cardinality(acked)
    /\ Cardinality(requested) = success + failed + Cardinality(Posting)

TallyInv ==
    IdInv /\ Requests /\ Books /\ errorsLeft \in 0..CheckErrors /\ closed \in BOOLEAN

LEMMA TallyFinite ==
    ASSUME IdInv, Requests
    PROVE  /\ IsFiniteSet(requested) /\ IsFiniteSet(acked) /\ IsFiniteSet(Posting)
           /\ Cardinality(requested) \in Nat /\ Cardinality(acked) \in Nat
           /\ Cardinality(Posting) \in Nat
           /\ acked \subseteq requested
<1>1. requested \subseteq Jobs /\ acked \subseteq requested /\ Posting \subseteq Users
  BY DEF IdInv, Requests, Posting
<1>2. IsFiniteSet(requested) /\ IsFiniteSet(Posting)
  BY <1>1, SwarmAssumption, FS_Subset
<1>3. IsFiniteSet(acked)
  BY <1>1, <1>2, FS_Subset
<1> QED BY <1>1, <1>2, <1>3, FS_CardinalityType

LEMMA InitTally == Init => TallyInv
<1> SUFFICES ASSUME Init PROVE TallyInv
  OBVIOUS
<1>1. TotalJobs \in Nat
  BY SwarmAssumption, FS_CardinalityType DEF TotalJobs
<1>2. Posting = {} /\ Cardinality({}) = 0
  BY FS_EmptySet DEF Init, Posting
<1>3. Requests /\ Books
  BY <1>1, <1>2 DEF Init, Requests, Books
<1>4. errorsLeft \in 0..CheckErrors
  BY SwarmAssumption DEF Init
<1>5. closed \in BOOLEAN
  BY DEF Init
<1> QED BY <1>3, <1>4, <1>5, InitIds DEF TallyInv

LEMMA UserTally ==
    ASSUME TallyInv, IdInv', NEW u \in Users, UserStep(u)
    PROVE  TallyInv'
<1>1. user \in [Users -> {"unborn", "range", "post", "send", "gone"}]
      /\ request \in [Users -> Jobs \cup {NoJob}]
  BY DEF TallyInv, IdInv, SwarmInv
<1>2. /\ errorsLeft' \in 0..CheckErrors /\ closed' \in BOOLEAN
      /\ finished' = finished /\ created' = created
  BY DEF TallyInv, UserStep, Take, Answered, Refused, SendId, Leave, mainVars, serverVars
<1>3. /\ IsFiniteSet(requested) /\ IsFiniteSet(acked) /\ IsFiniteSet(Posting)
      /\ Cardinality(requested) \in Nat /\ Cardinality(acked) \in Nat
      /\ Cardinality(Posting) \in Nat /\ acked \subseteq requested
  BY TallyFinite DEF TallyInv
<1>4. Requests /\ Books
  BY DEF TallyInv
<1>5. CASE Take(u)
  <2>1. PICK j \in Jobs \ requested :
           /\ request' = [request EXCEPT ![u] = j] /\ requested' = requested \cup {j}
           /\ user' = [user EXCEPT ![u] = "post"] /\ user[u] = "range"
           /\ work > 0 /\ work' = work - 1
           /\ acked' = acked /\ success' = success /\ failed' = failed
    BY <1>5 DEF Take, At
  <2>2. Posting' = Posting \cup {u} /\ u \notin Posting
    BY <1>1, <2>1 DEF Posting
  <2>3. /\ Cardinality(Posting') = Cardinality(Posting) + 1
        /\ Cardinality(requested') = Cardinality(requested) + 1
    BY <1>3, <2>1, <2>2, FS_AddElement
  <2>4. Requests'
    <3>1. \A v \in Posting : request'[v] = request[v] /\ request'[u] = j
      BY <1>1, <2>1, <2>2 DEF Posting
    <3>2. request'[u] = j
      BY <1>1, <2>1
    <3>3. ~\E v \in Users : user'[v] = "gone"
      BY <1>1, <1>4, <2>1 DEF Requests, Books
    <3> QED BY <1>2, <1>3, <1>4, <2>1, <2>2, <3>1, <3>2, <3>3 DEF Requests
  <2>5. TotalJobs \in Nat
    BY SwarmAssumption, FS_CardinalityType DEF TotalJobs
  <2>6. Books'
    BY <1>3, <1>4, <2>1, <2>3, <2>5 DEF Books, TotalJobs
  <2> QED BY <1>2, <2>4, <2>6 DEF TallyInv
<1>6. CASE Answered(u)
  <2>1. /\ request' = request /\ requested' = requested /\ work' = work
        /\ user' = [user EXCEPT ![u] = "send"] /\ user[u] = "post" /\ request[u] \in created
        /\ acked' = acked \cup {request[u]} /\ success' = success + 1 /\ failed' = failed
    BY <1>6 DEF Answered, At
  <2>2. Posting' = Posting \ {u} /\ u \in Posting
    BY <1>1, <2>1 DEF Posting
  <2>3. request[u] \in requested \ acked
    BY <1>4, <2>2 DEF Requests
  <2>4. /\ Cardinality(Posting') = Cardinality(Posting) - 1
        /\ Cardinality(acked') = Cardinality(acked) + 1
    BY <1>3, <2>1, <2>2, <2>3, FS_AddElement, FS_RemoveElement
  <2>5. Requests'
    <3>1. \A v \in Users : user'[v] = "gone" => user[v] = "gone"
      BY <1>1, <2>1
    <3> QED BY <1>2, <1>4, <2>1, <2>2, <3>1 DEF Requests
  <2>6. Books'
    BY <1>3, <1>4, <2>1, <2>4 DEF Books, TotalJobs
  <2> QED BY <1>2, <2>5, <2>6 DEF TallyInv
<1>7. CASE Refused(u)
  <2>1. /\ request' = [request EXCEPT ![u] = NoJob] /\ requested' = requested /\ work' = work
        /\ user' = [user EXCEPT ![u] = "range"] /\ user[u] = "post"
        /\ acked' = acked /\ success' = success /\ failed' = failed + 1
    BY <1>7 DEF Refused, At
  <2>2. Posting' = Posting \ {u} /\ u \in Posting
    BY <1>1, <2>1 DEF Posting
  <2>3. Cardinality(Posting') = Cardinality(Posting) - 1
    BY <1>3, <2>2, FS_RemoveElement
  <2>4. Requests'
    <3>1. /\ \A v \in Users : user'[v] = "gone" => user[v] = "gone"
          /\ \A v \in Posting' : request'[v] = request[v]
      BY <1>1, <2>1, <2>2 DEF Posting
    <3> QED BY <1>2, <1>4, <2>1, <2>2, <3>1 DEF Requests
  <2>5. Books'
    BY <1>3, <1>4, <2>1, <2>3 DEF Books, TotalJobs
  <2> QED BY <1>2, <2>4, <2>5 DEF TallyInv
<1>8. CASE SendId(u) \/ Leave(u)
  <2>1. /\ requested' = requested /\ work' = work /\ user[u] # "post"
        /\ acked' = acked /\ success' = success /\ failed' = failed
        /\ \A v \in Users \ {u} : user'[v] = user[v] /\ request'[v] = request[v]
        /\ user'[u] # "post" /\ (user'[u] = "gone" => work = 0)
    BY <1>1, <1>8 DEF SendId, Leave, At
  <2>2. Posting' = Posting /\ u \notin Posting
    BY <2>1 DEF Posting
  <2>3. Requests'
    <3>1. (\E v \in Users : user'[v] = "gone") => work' = 0
      BY <1>4, <2>1 DEF Requests
    <3>2. \A v \in Posting : request'[v] = request[v]
      BY <2>1, <2>2 DEF Posting
    <3> QED BY <1>2, <1>4, <2>1, <2>2, <3>1, <3>2 DEF Requests
  <2>4. Books'
    BY <1>4, <2>1, <2>2 DEF Books, TotalJobs
  <2> QED BY <1>2, <2>3, <2>4 DEF TallyInv
<1> QED BY <1>5, <1>6, <1>7, <1>8 DEF UserStep

LEMMA StepTally == TallyInv /\ [Next]_vars => TallyInv'
<1> SUFFICES ASSUME TallyInv, [Next]_vars PROVE TallyInv'
  OBVIOUS
<1>1. IdInv' /\ IdInv
  BY StepIds DEF TallyInv
<1>2. CASE \E u \in Users : UserStep(u)
  BY <1>1, <1>2, UserTally
<1>3. CASE Login \/ MainStep \/ (\E j \in Jobs : CreateOnServer(j) \/ Finish(j)) \/ UNCHANGED vars
  <2>1. UNCHANGED <<request, work, success, failed, requested, acked>>
    BY <1>3 DEF MainStep, Login, Spawn, WaitAndClose, CollectIds, CheckStatus, EndOfPass,
           CreateOnServer, Finish, vars, swarmVars
  <2>2. created \subseteq created' /\ finished' \subseteq created'
    BY <1>3 DEF MainStep, Login, Spawn, WaitAndClose, CollectIds, CheckStatus, EndOfPass,
           CreateOnServer, Finish, vars, serverVars, TallyInv, Requests
  <2>3. \A v \in Users : \/ user'[v] = user[v]
                         \/ user[v] = "unborn" /\ user'[v] = "range"
    <3>1. user \in [Users -> {"unborn", "range", "post", "send", "gone"}]
      BY <1>1 DEF IdInv, SwarmInv
    <3>2. ASSUME NEW u \in Users, Spawn(u)
          PROVE  user' = [user EXCEPT ![u] = "range"] /\ user[u] = "unborn"
      BY <3>2 DEF Spawn, At
    <3>3. user' = user \/ \E u \in Users : Spawn(u)
      BY <1>3 DEF MainStep, Login, WaitAndClose, CollectIds, CheckStatus,
         EndOfPass, CreateOnServer, Finish, vars, swarmVars
    <3>4. CASE \E u \in Users : Spawn(u)
      <4>1. PICK u \in Users : user' = [user EXCEPT ![u] = "range"] /\ user[u] = "unborn"
        BY <3>2, <3>4
      <4> QED BY <3>1, <4>1
    <3> QED BY <3>3, <3>4
  <2>4. Posting' = Posting
    BY <2>3 DEF Posting
  <2>5. errorsLeft' \in 0..CheckErrors
    <3>1. \/ errorsLeft' = errorsLeft
          \/ errorsLeft > 0 /\ errorsLeft' = errorsLeft - 1
      BY <1>3 DEF MainStep, Login, Spawn, WaitAndClose, CollectIds, CheckStatus,
         EndOfPass, CreateOnServer, Finish, vars, mainVars
    <3>2. errorsLeft \in 0..CheckErrors
      BY DEF TallyInv
    <3> QED BY <3>1, <3>2, SwarmAssumption
  <2>6. closed' \in BOOLEAN
    <3>1. closed' = closed \/ closed' = TRUE
      BY <1>3 DEF MainStep, Login, Spawn, WaitAndClose, CollectIds, CheckStatus,
         EndOfPass, CreateOnServer, Finish, vars
    <3>2. closed \in BOOLEAN
      BY DEF TallyInv
    <3> QED BY <3>1, <3>2
  <2>7. Requests'
    BY <2>1, <2>2, <2>3, <2>4 DEF TallyInv, Requests
  <2>8. Books'
    BY <2>1, <2>4 DEF TallyInv, Books, TotalJobs
  <2> QED BY <1>1, <2>5, <2>6, <2>7, <2>8 DEF TallyInv
<1> QED BY <1>2, <1>3 DEF Next

LEMMA TallyAlways == Spec => []TallyInv
BY InitTally, StepTally, PTL DEF Spec

\* For every finite swarm the generator's variables keep their types: neither
\* counter leaves the range of the work there is.
THEOREM SwarmTypes == Spec => []TypeOK
<1>1. TallyInv => TypeOK
  <2> SUFFICES ASSUME TallyInv PROVE TypeOK
    OBVIOUS
  <2>1. IdInv /\ SwarmInv /\ Requests /\ Books
    BY DEF TallyInv, IdInv
  <2>2. TotalJobs \in Nat /\ Cardinality(Users) \in Nat
    BY SwarmAssumption, FS_CardinalityType DEF TotalJobs
  <2>3. Cardinality(requested) \in Nat /\ Cardinality(Posting) \in Nat
    BY <2>1, TallyFinite
  <2>4. work \in 0..TotalJobs /\ success \in 0..TotalJobs /\ failed \in 0..TotalJobs
    BY <2>1, <2>2, <2>3 DEF Books
  <2>5. wg \in 0..Cardinality(Users)
    <3>1. Live \subseteq Users
      BY DEF Live
    <3>2. Cardinality(Live) <= Cardinality(Users)
      BY <3>1, SwarmAssumption, FS_Subset
    <3> QED BY <2>1, <2>2, <3>2, LiveFinite DEF SwarmInv
  <2> QED BY <2>1, <2>4, <2>5 DEF TypeOK, TallyInv, IdInv, SwarmInv, Phase, Requests
<1> QED BY <1>1, TallyAlways, PTL

\* The report at the end is right for every swarm: the created and the failed
\* requests are all there were, and no more jobs run unobserved than failed.
THEOREM CountersAddUp == Spec => []Tally
<1>1. TallyInv => Tally
  <2> SUFFICES ASSUME TallyInv, main \in {"collect", "poll", "done"}
               PROVE  /\ success = Cardinality(acked) /\ success + failed = TotalJobs
                      /\ Cardinality(created \ acked) <= failed
    BY DEF Tally
  <2>1. IdInv /\ SwarmInv /\ Requests /\ Books
    BY DEF TallyInv, IdInv
  <2>2. \A u \in Users : user[u] = "gone"
    BY <2>1 DEF SwarmInv
  <2>3. work = 0 /\ Posting = {}
    BY <2>1, <2>2, SwarmAssumption DEF Requests, Posting
  <2>4. /\ IsFiniteSet(requested) /\ IsFiniteSet(acked)
        /\ Cardinality(requested) \in Nat /\ Cardinality(acked) \in Nat
        /\ acked \subseteq requested
    BY <2>1, TallyFinite
  <2>5. Cardinality(Posting) = 0
    BY <2>3, FS_EmptySet
  <2>6. success = Cardinality(acked) /\ success + failed = TotalJobs
        /\ Cardinality(requested) = success + failed
    BY <2>1, <2>3, <2>4, <2>5 DEF Books
  <2>7. Cardinality(requested \ acked) = failed
    <3>1. requested \cap acked = acked
      BY <2>4
    <3>2. Cardinality(requested \ acked) = Cardinality(requested) - Cardinality(requested \cap acked)
      BY <2>4, FS_Difference
    <3>3. Cardinality(requested \cap acked) = Cardinality(acked)
      BY <3>1
    <3>4. failed \in Nat /\ success \in Nat
      BY <2>1 DEF Books
    <3> QED BY <2>4, <2>6, <3>2, <3>3, <3>4
  <2>8. created \ acked \subseteq requested \ acked /\ IsFiniteSet(requested \ acked)
    BY <2>1, <2>4, FS_Difference DEF IdInv
  <2> QED BY <2>6, <2>7, <2>8, FS_Subset
<1> QED BY <1>1, TallyAlways, PTL
-----------------------------------------------------------------------------
(***************************************************************************)
(* SendNeverBlocks.  The channel holds ids read from a 202, and so do the  *)
(* goroutines about to send; together they are at most the ids there are.  *)
(***************************************************************************)

Sending == {u \in Users : user[u] = "send"}

RoomInv == TallyInv /\ Len(jobIDs) + Cardinality(Sending) <= Cardinality(acked)

LEMMA SendingFinite == IsFiniteSet(Sending) /\ Cardinality(Sending) \in Nat
<1>1. Sending \subseteq Users
  BY DEF Sending
<1> QED BY <1>1, SwarmAssumption, FS_Subset, FS_CardinalityType

LEMMA RoomStep == RoomInv /\ [Next]_vars => RoomInv'
<1> SUFFICES ASSUME RoomInv, [Next]_vars PROVE RoomInv'
  OBVIOUS
<1>1. /\ user \in [Users -> {"unborn", "range", "post", "send", "gone"}]
      /\ jobIDs \in Seq(Jobs) /\ Len(jobIDs) \in Nat
      /\ IsFiniteSet(acked) /\ Cardinality(acked) \in Nat /\ Requests
  BY TallyFinite DEF RoomInv, TallyInv, IdInv, SwarmInv
<1>2. /\ IsFiniteSet(Sending) /\ Cardinality(Sending) \in Nat
      /\ Len(jobIDs) + Cardinality(Sending) <= Cardinality(acked)
  BY SendingFinite DEF RoomInv
<1>3. TallyInv'
  BY StepTally DEF RoomInv
<1>4. ASSUME NEW u \in Users, Answered(u)
      PROVE  Len(jobIDs') + Cardinality(Sending') <= Cardinality(acked')
  <2>1. /\ user[u] = "post" /\ user' = [user EXCEPT ![u] = "send"] /\ jobIDs' = jobIDs
        /\ acked' = acked \cup {request[u]} /\ request[u] \notin acked
    BY <1>1, <1>4 DEF Answered, At, Requests, Posting
  <2>2. Sending' = Sending \cup {u} /\ u \notin Sending
    BY <1>1, <2>1 DEF Sending
  <2>3. /\ Cardinality(Sending') = Cardinality(Sending) + 1
        /\ Cardinality(acked') = Cardinality(acked) + 1
    BY <1>1, <1>2, <2>1, <2>2, FS_AddElement
  <2> QED BY <1>1, <1>2, <2>1, <2>3
<1>5. ASSUME NEW u \in Users, SendId(u)
      PROVE  Len(jobIDs') + Cardinality(Sending') <= Cardinality(acked')
  <2>1. /\ user[u] = "send" /\ user' = [user EXCEPT ![u] = "range"] /\ acked' = acked
        /\ Len(jobIDs') = Len(jobIDs) + 1
    BY <1>1, <1>5 DEF SendId, At
  <2>2. Sending' = Sending \ {u} /\ u \in Sending
    BY <1>1, <2>1 DEF Sending
  <2>3. Cardinality(Sending') = Cardinality(Sending) - 1
    BY <1>2, <2>2, FS_RemoveElement
  <2> QED BY <1>1, <1>2, <2>1, <2>3
<1>6. ASSUME NEW u \in Users, Take(u) \/ Refused(u) \/ Leave(u) \/ Spawn(u)
      PROVE  Len(jobIDs') + Cardinality(Sending') <= Cardinality(acked')
  <2>1. /\ jobIDs' = jobIDs /\ acked' = acked /\ user[u] # "send"
        /\ \E l \in {"post", "range", "gone"} : user' = [user EXCEPT ![u] = l]
    BY <1>6 DEF Take, Refused, Leave, Spawn, At
  <2>2. Sending' = Sending
    BY <1>1, <2>1 DEF Sending
  <2> QED BY <1>2, <2>1, <2>2
<1>7. CASE CollectIds
  <2>1. Len(jobIDs') = 0 /\ user' = user /\ acked' = acked
    BY <1>7 DEF CollectIds
  <2>2. Sending' = Sending
    BY <2>1 DEF Sending
  <2> QED BY <1>1, <1>2, <1>3, <2>1, <2>2 DEF RoomInv
<1>8. CASE \/ Login \/ WaitAndClose \/ CheckStatus \/ EndOfPass \/ UNCHANGED vars
           \/ \E j \in Jobs : CreateOnServer(j) \/ Finish(j)
  <2>1. jobIDs' = jobIDs /\ user' = user /\ acked' = acked
    BY <1>8 DEF Login, WaitAndClose, CheckStatus, EndOfPass, CreateOnServer, Finish,
       vars, swarmVars
  <2> QED BY <1>2, <1>3, <2>1 DEF RoomInv, Sending
<1> QED BY <1>3, <1>4, <1>5, <1>6, <1>7, <1>8 DEF RoomInv, Next, MainStep, UserStep

\* No goroutine ever waits for room in jobIDs, for any numbers of goroutines
\* and jobs: main, which receives only after the last of them, is not needed.
THEOREM NoSendBlocks == Spec => []SendNeverBlocks
<1>1. Init => RoomInv
  <2> SUFFICES ASSUME Init PROVE RoomInv
    OBVIOUS
  <2>1. Sending = {} /\ acked = {} /\ Len(jobIDs) = 0
    BY DEF Init, Sending
  <2> QED BY <2>1, InitTally, FS_EmptySet DEF RoomInv
<1>2. RoomInv => SendNeverBlocks
  <2> SUFFICES ASSUME RoomInv, NEW u \in Users, user[u] = "send"
               PROVE  Len(jobIDs) < TotalJobs
    BY DEF SendNeverBlocks, Capacity
  <2>1. /\ acked \subseteq Jobs /\ Len(jobIDs) \in Nat
        /\ Len(jobIDs) + Cardinality(Sending) <= Cardinality(acked)
    BY TallyFinite DEF RoomInv, TallyInv, IdInv, Requests
  <2>2. Cardinality(acked) <= TotalJobs /\ Cardinality(acked) \in Nat /\ TotalJobs \in Nat
    BY <2>1, SwarmAssumption, FS_Subset, FS_CardinalityType DEF TotalJobs
  <2>3. Cardinality(Sending) \in Nat /\ Cardinality(Sending) # 0
    <3>1. u \in Sending
      BY DEF Sending
    <3> QED BY <3>1, SendingFinite, FS_EmptySet
  <2> QED BY <2>1, <2>2, <2>3
<1> QED BY <1>1, <1>2, RoomStep, PTL DEF Spec
=============================================================================
