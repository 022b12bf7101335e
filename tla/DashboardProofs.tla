-------------------------- MODULE DashboardProofs --------------------------
(***************************************************************************)
(* Theorems about the dashboard for any number of overlapping requests,    *)
(* submissions, mounts and changes.                                        *)
(***************************************************************************)
EXTENDS Dashboard, TLAPS
-----------------------------------------------------------------------------
GetType == [at : {"idle", "sent", "served"}, mount : 0..MaxMounts,
            after : Posts \cup {NoPost}, list : {NoList} \cup 0..MaxVersion]
PostType == [at : {"idle", "sent", "stored", "accepted", "failed"},
             mount : 0..MaxMounts, list : {NoList} \cup 0..MaxVersion]

\* A list request comes from this instance of the component or an earlier one;
\* one sent by this instance is read after it was mounted, one that follows a
\* submission is read after the submission's job was stored.
GetKnows(r) ==
    /\ r.mount <= mount
    /\ r.at = "served" => r.list \in 0..version
    /\ r.at = "served" /\ mounted /\ r.mount = mount => r.list >= since
    /\ r.after # NoPost =>
          /\ post[r.after].at = "accepted"
          /\ r.at = "served" => r.list >= post[r.after].list

\* A submission whose job is stored knows a list that has it.
PostKnows(q) ==
    /\ q.mount <= mount
    /\ q.at \in {"stored", "accepted"} => q.list \in 0..version

DashboardInv ==
    /\ TypeOK
    /\ since <= version /\ NothingFromBeforeMount
    /\ \A g \in Gets : GetKnows(get[g])
    /\ \A p \in Posts : PostKnows(post[p])

\* The type invariant with the record sets under a name of their own.
LEMMA TypeOKParts ==
    TypeOK <=>
      /\ version \in 0..MaxVersion
      /\ get \in [Gets -> GetType] /\ post \in [Posts -> PostType]
      /\ mounted \in BOOLEAN /\ mount \in 0..MaxMounts
      /\ shown \in {NoList} \cup 0..MaxVersion /\ since \in 0..MaxVersion
      /\ failures \in 0..MaxFailures
      /\ timers = (IF mounted THEN 1 ELSE 0)
BY DEF TypeOK, GetType, PostType

LEMMA DashboardInit == Init => DashboardInv
<1> SUFFICES ASSUME Init PROVE DashboardInv
  OBVIOUS
<1>1. TypeOK
  <2>1. get \in [Gets -> GetType] /\ post \in [Posts -> PostType]
    BY DashboardAssumption DEF Init, Idle, GetType, PostType
  <2>2. 0 \in 0..MaxVersion /\ 0 \in 0..MaxMounts /\ 0 \in 0..MaxFailures
    BY DashboardAssumption
  <2> QED BY <2>1, <2>2, TypeOKParts DEF Init
<1>2. \A g \in Gets : GetKnows(get[g])
  BY DEF Init, Idle, GetKnows
<1>3. \A p \in Posts : PostKnows(post[p])
  BY DEF Init, PostKnows
<1> QED BY <1>1, <1>2, <1>3 DEF Init, DashboardInv, NothingFromBeforeMount

\* What is left to show of a step that leaves the screen alone.
LEMMA SameScreen ==
    ASSUME DashboardInv, UNCHANGED screen,
           version' \in 0..MaxVersion, version <= version',
           get' \in [Gets -> GetType], post' \in [Posts -> PostType],
           failures' \in 0..MaxFailures,
           shown' \in {NoList} \cup 0..MaxVersion, NothingFromBeforeMount',
           \A g \in Gets : GetKnows(get[g])',
           \A p \in Posts : PostKnows(post[p])'
    PROVE  DashboardInv'
<1>1. TypeOK'
  <2>1. mounted' \in BOOLEAN /\ mount' \in 0..MaxMounts /\ since' \in 0..MaxVersion
        /\ timers' = (IF mounted' THEN 1 ELSE 0)
    BY TypeOKParts DEF DashboardInv, screen
  <2> QED BY <2>1 DEF TypeOK, GetType, PostType
<1>2. since' <= version'
  BY TypeOKParts DEF DashboardInv, screen
<1> QED BY <1>1, <1>2 DEF DashboardInv
-----------------------------------------------------------------------------
LEMMA MountKeeps == DashboardInv /\ Mount => DashboardInv'
<1> SUFFICES ASSUME DashboardInv, Mount PROVE DashboardInv'
  OBVIOUS
<1> DEFINE fresh == [at |-> "sent", mount |-> mount + 1, after |-> NoPost, list |-> NoList]
<1>1. PICK first \in Free, second \in Free :
        get' = [g \in Gets |-> IF g \in {first, second}
                               THEN FetchJobs(g, mount + 1, NoPost)[g] ELSE get[g]]
  BY DEF Mount
<1>2. \A g \in Gets : get'[g] = get[g] \/ get'[g] = fresh
  BY <1>1, TypeOKParts DEF DashboardInv, FetchJobs
<1>3. mount' = mount + 1 /\ mount' \in 0..MaxMounts /\ mounted' = TRUE /\ shown' = NoList
      /\ since' = version /\ timers' = timers + 1 /\ ~mounted
      /\ UNCHANGED <<version, post, failures>>
  BY DashboardAssumption, TypeOKParts DEF DashboardInv, Mount
<1>4. get' \in [Gets -> GetType]
  <2>1. fresh \in GetType
    BY <1>3 DEF GetType
  <2> QED BY <1>1, <1>2, <2>1, TypeOKParts DEF DashboardInv
<1>5. TypeOK'
  <2>1. timers' = 1
    BY <1>3, TypeOKParts DEF DashboardInv
  <2> QED BY <1>3, <1>4, <2>1, TypeOKParts DEF DashboardInv, TypeOK, GetType, PostType
<1>6. \A g \in Gets : GetKnows(get[g])'
  <2> SUFFICES ASSUME NEW g \in Gets PROVE GetKnows(get[g])'
    OBVIOUS
  <2>1. CASE get'[g] = fresh
    BY <1>3, <2>1, TypeOKParts DEF DashboardInv, GetKnows
  <2>2. CASE get'[g] = get[g]
    BY <1>3, <2>2, TypeOKParts DEF DashboardInv, GetKnows, GetType
  <2> QED BY <1>2, <2>1, <2>2
<1>7. \A p \in Posts : PostKnows(post[p])'
  BY <1>3, TypeOKParts DEF DashboardInv, PostKnows, PostType
<1> QED BY <1>3, <1>5, <1>6, <1>7, TypeOKParts DEF DashboardInv, NothingFromBeforeMount

LEMMA UnmountKeeps == DashboardInv /\ Unmount => DashboardInv'
<1> SUFFICES ASSUME DashboardInv, Unmount PROVE DashboardInv'
  OBVIOUS
<1>1. mounted /\ mounted' = FALSE /\ timers' = timers - 1
      /\ UNCHANGED <<version, get, post, mount, shown, since, failures>>
  BY DEF Unmount
<1>2. TypeOK'
  <2>1. timers' = 0
    BY <1>1, TypeOKParts DEF DashboardInv
  <2> QED BY <1>1, <2>1, TypeOKParts DEF DashboardInv, TypeOK, GetType, PostType
<1> QED BY <1>1, <1>2 DEF DashboardInv, GetKnows, PostKnows, NothingFromBeforeMount

\* A fetch by an instance that has been mounted keeps the invariant.
LEMMA FetchKeeps ==
    ASSUME DashboardInv, NEW g \in Gets, NEW m \in 0..mount, NEW p \in Posts \cup {NoPost},
           get' = FetchJobs(g, m, p), post' \in [Posts -> PostType],
           \A q \in Posts : PostKnows(post[q])',
           \A q \in Posts : post[q].at = "accepted" => post'[q] = post[q],
           p # NoPost => post'[p].at = "accepted",
           UNCHANGED <<version, screen, shown, failures>>
    PROVE  DashboardInv'
<1> DEFINE fresh == [at |-> "sent", mount |-> m, after |-> p, list |-> NoList]
<1>1. get' = [get EXCEPT ![g] = fresh]
  BY DEF FetchJobs
<1>2. fresh \in GetType
  BY DashboardAssumption, TypeOKParts DEF DashboardInv, GetType
<1>3. get' \in [Gets -> GetType]
  BY <1>1, <1>2, TypeOKParts DEF DashboardInv
<1>4. \A h \in Gets : GetKnows(get[h])'
  <2> SUFFICES ASSUME NEW h \in Gets PROVE GetKnows(get[h])'
    OBVIOUS
  <2>1. CASE h = g
    <3>1. get'[h] = fresh
      BY <1>1, <2>1, TypeOKParts DEF DashboardInv
    <3> QED BY <3>1 DEF GetKnows, screen
  <2>2. CASE h # g
    <3>1. get'[h] = get[h]
      BY <1>1, <2>2, TypeOKParts DEF DashboardInv
    <3>2. get[h].after # NoPost => get[h].after \in Posts
      BY TypeOKParts DEF DashboardInv, GetType
    <3> QED BY <3>1, <3>2 DEF DashboardInv, GetKnows, screen
  <2> QED BY <2>1, <2>2
<1> QED
  BY <1>3, <1>4, SameScreen, TypeOKParts DEF DashboardInv, NothingFromBeforeMount, screen

LEMMA TickKeeps == DashboardInv /\ Tick => DashboardInv'
<1> SUFFICES ASSUME DashboardInv, Tick PROVE DashboardInv'
  OBVIOUS
<1>1. PICK g \in Gets : get' = FetchJobs(g, mount, NoPost)
  BY DEF Tick, Free
<1>2. mount \in 0..mount
  BY DashboardAssumption, TypeOKParts DEF DashboardInv
<1>3. UNCHANGED <<version, post, screen, shown, failures>>
  BY DEF Tick
<1>4. post' \in [Posts -> PostType] /\ \A q \in Posts : PostKnows(post[q])'
  BY <1>3, TypeOKParts DEF DashboardInv, PostKnows, screen
<1> QED BY <1>1, <1>2, <1>3, <1>4, FetchKeeps

LEMMA ReceiveKeeps == ASSUME DashboardInv, NEW g \in Gets, Receive(g) \/ FetchFails(g)
                      PROVE  DashboardInv'
<1>1. get' = [get EXCEPT ![g] = Idle] /\ UNCHANGED <<version, post, screen>>
  BY DEF Receive, FetchFails
<1>2. Idle \in GetType
  BY DashboardAssumption DEF Idle, GetType
<1>3. get' \in [Gets -> GetType]
  BY <1>1, <1>2, TypeOKParts DEF DashboardInv
<1>4. \A h \in Gets : GetKnows(get[h])'
  <2> SUFFICES ASSUME NEW h \in Gets PROVE GetKnows(get[h])'
    OBVIOUS
  <2>1. CASE h = g
    <3>1. get'[h] = Idle
      BY <1>1, <2>1, TypeOKParts DEF DashboardInv
    <3> QED BY <1>1, <3>1, DashboardAssumption, TypeOKParts DEF DashboardInv, GetKnows, screen, Idle
  <2>2. CASE h # g
    <3>1. get'[h] = get[h]
      BY <1>1, <2>2, TypeOKParts DEF DashboardInv
    <3> QED BY <1>1, <3>1 DEF DashboardInv, GetKnows, screen
  <2> QED BY <2>1, <2>2
<1>5. failures' \in 0..MaxFailures
  BY DashboardAssumption, TypeOKParts DEF DashboardInv, Receive, FetchFails, Failure
<1>6. shown' \in {NoList} \cup 0..MaxVersion /\ NothingFromBeforeMount'
  <2>1. CASE shown' = shown
    BY <1>1, <2>1, TypeOKParts DEF DashboardInv, NothingFromBeforeMount, screen
  <2>2. CASE shown' # shown
    <3>1. shown' = get[g].list /\ get[g].at = "served" /\ mounted /\ get[g].mount = mount
      BY <2>2 DEF Receive, FetchFails
    <3>2. get[g].list \in {NoList} \cup 0..MaxVersion /\ get[g].list >= since
      BY <3>1, TypeOKParts DEF DashboardInv, GetKnows, GetType
    <3> QED BY <1>1, <3>1, <3>2 DEF NothingFromBeforeMount, screen
  <2> QED BY <2>1, <2>2
<1>7. \A q \in Posts : PostKnows(post[q])'
  BY <1>1 DEF DashboardInv, PostKnows, screen
<1>8. version' \in 0..MaxVersion /\ version <= version' /\ post' \in [Posts -> PostType]
  BY <1>1, TypeOKParts DEF DashboardInv
<1> QED BY <1>1, <1>3, <1>4, <1>5, <1>6, <1>7, <1>8, SameScreen

LEMMA ListKeeps == ASSUME DashboardInv, NEW g \in Gets, HandleListJobs(g) PROVE DashboardInv'
<1>1. /\ get[g].at = "sent" /\ get' = [get EXCEPT ![g].at = "served", ![g].list = version]
      /\ UNCHANGED <<version, post, screen, shown, failures>>
  BY DEF HandleListJobs
<1>2. get[g] \in GetType
  BY TypeOKParts DEF DashboardInv
<1> DEFINE answered == [get[g] EXCEPT !.at = "served", !.list = version]
<1>3. /\ answered.at = "served" /\ answered.mount = get[g].mount
      /\ answered.after = get[g].after /\ answered.list = version
      /\ answered \in GetType
  BY <1>2, TypeOKParts DEF DashboardInv, GetType
<1>4. get' = [get EXCEPT ![g] = answered]
  BY <1>1, TypeOKParts DEF DashboardInv
<1>5. get' \in [Gets -> GetType]
  BY <1>3, <1>4, TypeOKParts DEF DashboardInv
<1>6. \A h \in Gets : GetKnows(get[h])'
  <2> SUFFICES ASSUME NEW h \in Gets PROVE GetKnows(get[h])'
    OBVIOUS
  <2>1. CASE h = g
    <3>1. get'[h] = answered
      BY <1>4, <2>1, TypeOKParts DEF DashboardInv
    <3>2. GetKnows(get[g]) /\ since <= version /\ version \in 0..version
      BY TypeOKParts DEF DashboardInv
    <3>3. get[g].after # NoPost => PostKnows(post[get[g].after])
      BY <1>2 DEF DashboardInv, GetType
    <3> HIDE DEF answered
    <3> QED BY <1>1, <1>3, <3>1, <3>2, <3>3, TypeOKParts DEF DashboardInv, GetKnows, PostKnows, screen
  <2>2. CASE h # g
    <3>1. get'[h] = get[h]
      BY <1>4, <2>2, TypeOKParts DEF DashboardInv
    <3> QED BY <1>1, <3>1 DEF DashboardInv, GetKnows, screen
  <2> QED BY <2>1, <2>2
<1> QED
  BY <1>1, <1>5, <1>6, SameScreen, TypeOKParts
     DEF DashboardInv, NothingFromBeforeMount, PostKnows, screen
-----------------------------------------------------------------------------
\* A submission's own step: what was accepted stays as it is, and the list the
\* server has may have grown.
LEMMA PostKeeps ==
    ASSUME DashboardInv, NEW p \in Posts, NEW q \in PostType,
           post' = [post EXCEPT ![p] = q], post[p].at # "accepted", q.at # "accepted",
           version' \in 0..MaxVersion, version <= version',
           failures' \in 0..MaxFailures,
           q.mount <= mount, q.at = "stored" => q.list \in 0..version',
           UNCHANGED <<get, screen, shown>>
    PROVE  DashboardInv'
<1>1. post' \in [Posts -> PostType]
  BY TypeOKParts DEF DashboardInv
<1>2. \A s \in Posts : PostKnows(post[s])'
  <2> SUFFICES ASSUME NEW s \in Posts PROVE PostKnows(post[s])'
    OBVIOUS
  <2>1. CASE s = p
    <3>1. post'[s] = q
      BY <2>1, TypeOKParts DEF DashboardInv
    <3> QED BY <3>1 DEF PostKnows, screen
  <2>2. CASE s # p
    <3>1. post'[s] = post[s]
      BY <2>2, TypeOKParts DEF DashboardInv
    <3> QED BY <3>1, TypeOKParts DEF DashboardInv, PostKnows, screen
  <2> QED BY <2>1, <2>2
<1>3. \A h \in Gets : GetKnows(get[h])'
  <2> SUFFICES ASSUME NEW h \in Gets PROVE GetKnows(get[h])'
    OBVIOUS
  <2>1. GetKnows(get[h]) /\ get[h] \in GetType /\ get'[h] = get[h]
    BY TypeOKParts DEF DashboardInv
  <2>2. get[h].after # NoPost => post'[get[h].after] = post[get[h].after]
    BY <2>1, TypeOKParts DEF DashboardInv, GetKnows, GetType
  <2> QED BY <2>1, <2>2, TypeOKParts DEF DashboardInv, GetKnows, screen
<1> QED
  BY <1>1, <1>2, <1>3, SameScreen, TypeOKParts DEF DashboardInv, NothingFromBeforeMount, screen

LEMMA SubmissionKeeps ==
    ASSUME DashboardInv, NEW p \in Posts, Submit(p) \/ HandleCreateJob(p) \/ SubmitFails(p)
    PROVE  DashboardInv'
<1> USE DashboardAssumption
<1>1. post[p] \in PostType /\ PostKnows(post[p]) /\ version <= version
      /\ version \in 0..MaxVersion /\ failures \in 0..MaxFailures /\ mount \in 0..MaxMounts
  BY TypeOKParts DEF DashboardInv
<1>2. CASE Submit(p)
  <2> DEFINE q == [at |-> "sent", mount |-> mount, list |-> NoList]
  <2>1. q \in PostType /\ q.mount <= mount /\ q.at = "sent"
    BY <1>1 DEF PostType
  <2>2. post' = [post EXCEPT ![p] = q] /\ post[p].at = "idle"
        /\ UNCHANGED <<version, get, screen, shown, failures>>
    BY <1>2 DEF Submit
  <2> HIDE DEF q
  <2> QED BY <1>1, <2>1, <2>2, PostKeeps
<1>3. CASE HandleCreateJob(p)
  <2> DEFINE q == [post[p] EXCEPT !.at = "stored", !.list = version + 1]
  <2>1. version' = version + 1 /\ version' \in 0..MaxVersion /\ version <= version'
        /\ post[p].at = "sent" /\ UNCHANGED <<get, screen, shown, failures>>
    BY <1>1, <1>3 DEF HandleCreateJob, Changed
  <2>2. q \in PostType /\ q.at = "stored" /\ q.mount = post[p].mount /\ q.list = version'
    BY <1>1, <2>1 DEF PostType
  <2>3. post' = [post EXCEPT ![p] = q]
    BY <1>3 DEF HandleCreateJob
  <2> HIDE DEF q
  <2>4. q.mount <= mount /\ q.list \in 0..version'
    BY <1>1, <2>1, <2>2 DEF PostKnows
  <2> QED BY <1>1, <2>1, <2>2, <2>3, <2>4, PostKeeps
<1>4. CASE SubmitFails(p)
  <2> DEFINE q == [post[p] EXCEPT !.at = "failed"]
  <2>1. failures' \in 0..MaxFailures /\ post[p].at \in {"sent", "stored"}
        /\ UNCHANGED <<version, get, screen, shown>>
    BY <1>1, <1>4 DEF SubmitFails, Failure
  <2>2. q \in PostType /\ q.at = "failed" /\ q.mount = post[p].mount
    BY <1>1 DEF PostType
  <2>3. post' = [post EXCEPT ![p] = q]
    BY <1>4 DEF SubmitFails
  <2> HIDE DEF q
  <2>4. q.mount <= mount
    BY <1>1, <2>2 DEF PostKnows
  <2> QED BY <1>1, <2>1, <2>2, <2>3, <2>4, PostKeeps
<1> QED BY <1>2, <1>3, <1>4

LEMMA SubmittedKeeps ==
    ASSUME DashboardInv, NEW p \in Posts, Submitted(p) PROVE DashboardInv'
<1>1. PICK g \in Gets : get' = FetchJobs(g, post[p].mount, p)
  BY DEF Submitted, Free
<1>2. post[p] \in PostType /\ PostKnows(post[p]) /\ post[p].at = "stored"
      /\ post' = [post EXCEPT ![p].at = "accepted"]
      /\ UNCHANGED <<version, screen, shown, failures>>
  BY TypeOKParts DEF DashboardInv, Submitted
<1> DEFINE q == [post[p] EXCEPT !.at = "accepted"]
<1>3. q \in PostType /\ q.at = "accepted" /\ q.mount = post[p].mount /\ q.list = post[p].list
  BY <1>2 DEF PostType
<1>4. post' = [post EXCEPT ![p] = q]
  BY <1>2, TypeOKParts DEF DashboardInv, PostType
<1>5. post[p].mount \in 0..mount
  BY <1>2, DashboardAssumption, TypeOKParts DEF DashboardInv, PostKnows, PostType
<1> HIDE DEF q
<1>6. post' \in [Posts -> PostType] /\ post'[p] = q
  BY <1>3, <1>4, TypeOKParts DEF DashboardInv
<1>7. \A s \in Posts : PostKnows(post[s])'
  <2> SUFFICES ASSUME NEW s \in Posts PROVE PostKnows(post[s])'
    OBVIOUS
  <2>1. CASE s = p
    BY <1>2, <1>3, <1>6, <2>1 DEF PostKnows, screen
  <2>2. CASE s # p
    <3>1. post'[s] = post[s]
      BY <1>4, <2>2, TypeOKParts DEF DashboardInv
    <3> QED BY <1>2, <3>1 DEF DashboardInv, PostKnows, screen
  <2> QED BY <2>1, <2>2
<1>8. \A s \in Posts : post[s].at = "accepted" => post'[s] = post[s]
  BY <1>2, <1>4, TypeOKParts DEF DashboardInv
<1> QED BY <1>1, <1>2, <1>3, <1>5, <1>6, <1>7, <1>8, FetchKeeps

LEMMA ChangeKeeps == DashboardInv /\ StatusChange => DashboardInv'
<1> SUFFICES ASSUME DashboardInv, StatusChange PROVE DashboardInv'
  OBVIOUS
<1>1. version' = version + 1 /\ version' \in 0..MaxVersion
      /\ UNCHANGED <<get, post, screen, shown, failures>>
  BY DashboardAssumption, TypeOKParts DEF DashboardInv, StatusChange, Changed
<1>2. \A h \in Gets : GetKnows(get[h])'
  BY <1>1, TypeOKParts DEF DashboardInv, GetKnows, GetType, screen
<1>3. \A s \in Posts : PostKnows(post[s])'
  BY <1>1, TypeOKParts DEF DashboardInv, PostKnows, PostType, screen
<1> QED
  BY <1>1, <1>2, <1>3, SameScreen, TypeOKParts DEF DashboardInv, NothingFromBeforeMount, screen

LEMMA StutterKeeps == DashboardInv /\ UNCHANGED vars => DashboardInv'
BY DEF vars, screen, DashboardInv, TypeOK, NothingFromBeforeMount, GetKnows, PostKnows

LEMMA DashboardInvariant == Spec => []DashboardInv
<1>1. DashboardInv /\ [Next]_vars => DashboardInv'
  BY MountKeeps, UnmountKeeps, TickKeeps, ChangeKeeps, ReceiveKeeps, ListKeeps,
     SubmissionKeeps, SubmittedKeeps, StutterKeeps DEF Next
<1> QED BY <1>1, DashboardInit, PTL DEF Spec
-----------------------------------------------------------------------------
\* Types, and the interval: it is armed exactly while the component is mounted,
\* however often it comes and goes (useEffect in Dashboard.tsx).
THEOREM DashboardTypes == Spec => []TypeOK
<1>1. DashboardInv => TypeOK
  BY DEF DashboardInv
<1> QED BY <1>1, DashboardInvariant, PTL

\* However many requests overlap and however late they are answered, a mounted
\* dashboard shows no list read before it was mounted (fetchJobs).
THEOREM NothingOldIsShown == Spec => []NothingFromBeforeMount
<1>1. DashboardInv => NothingFromBeforeMount
  BY DEF DashboardInv
<1> QED BY <1>1, DashboardInvariant, PTL

\* The fetch that follows a submission is read after its job was stored,
\* whatever else is in flight (handleSubmit).
THEOREM FollowUpIsFresh == Spec => []FollowUpHasTheJob
<1>1. DashboardInv => FollowUpHasTheJob
  <2> SUFFICES ASSUME DashboardInv, NEW g \in Gets, get[g].at = "served", get[g].after # NoPost
               PROVE  /\ post[get[g].after].list # NoList
                      /\ get[g].list >= post[get[g].after].list
    BY DEF FollowUpHasTheJob
  <2>1. GetKnows(get[g]) /\ get[g].after \in Posts
    BY TypeOKParts DEF DashboardInv, GetType
  <2>2. PostKnows(post[get[g].after])
    BY <2>1 DEF DashboardInv
  <2> QED BY <2>1, <2>2 DEF GetKnows, PostKnows, NoList
<1> QED BY <1>1, DashboardInvariant, PTL
=============================================================================
