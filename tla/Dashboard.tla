----------------------------- MODULE Dashboard -----------------------------
(***************************************************************************)
(* The dashboard of the web frontend (frontend/src/Dashboard.tsx): a       *)
(* component that is mounted and unmounted, polls the user's jobs every    *)
(* five seconds, submits jobs, and shows the list of whichever answer      *)
(* came last.  JavaScript runs one callback at a time, so a callback is a  *)
(* step; requests overlap, are served in any order, and their answers      *)
(* arrive in any order.                                                    *)
(*                                                                         *)
(* A list is the number of changes the user's rows had seen when it was    *)
(* read: a new row, or a status a worker has written.                      *)
(***************************************************************************)
EXTENDS Integers, FiniteSets

CONSTANTS
    Gets,       \* list requests that may be in flight at once
    Posts,      \* submissions of the form
    MaxVersion, \* bound on the changes of the user's rows
    MaxMounts,  \* bound on the times the component is mounted
    MaxFailures \* how many requests may fail

ASSUME DashboardAssumption ==
    /\ IsFiniteSet(Gets) /\ Cardinality(Gets) >= 2
    /\ MaxVersion \in Nat /\ MaxMounts \in Nat /\ MaxFailures \in Nat

VARIABLES
    version,    \* the server's list
    get,        \* each list request: where it is, who sent it, what it read
    post,       \* each submission: where it is, and the list that has its job
    mounted,
    mount,      \* how many times the component has been mounted
    timers,     \* intervals that are armed
    shown,      \* the list in the component's state
    since,      \* the server's list when the component was mounted (history)
    failures

screen == <<mounted, mount, timers, since>>
vars == <<version, get, post, screen, shown, failures>>

NoList == -1
NoPost == "none"
Idle == [at |-> "idle", mount |-> 0, after |-> NoPost, list |-> NoList]

Init ==
    /\ version = 0
    /\ get = [g \in Gets |-> Idle]
    /\ post = [p \in Posts |-> [at |-> "idle", mount |-> 0, list |-> NoList]]
    /\ mounted = FALSE /\ mount = 0 /\ timers = 0
    /\ shown = NoList /\ since = 0
    /\ failures = 0

Free == {g \in Gets : get[g].at = "idle"}

\* fetchJobs up to its await, called by the m-th instance of the component;
\* the submission it follows, if any, is history.
FetchJobs(g, m, p) ==
    [get EXCEPT ![g] = [at |-> "sent", mount |-> m, after |-> p, list |-> NoList]]

Changed == version < MaxVersion /\ version' = version + 1
NoFailure == UNCHANGED failures
Failure == failures < MaxFailures /\ failures' = failures + 1
-----------------------------------------------------------------------------
\* The component and its effect.

\* useState([]), a first fetch and the interval.  StrictMode (main.tsx) runs
\* the effect, its cleanup and the effect again when it is built for
\* development: one more fetch, no more timer.
Mount ==
    /\ ~mounted /\ mount < MaxMounts
    /\ mounted' = TRUE
    /\ mount' = mount + 1
    /\ timers' = timers + 1
    /\ shown' = NoList
    /\ since' = version
    /\ \E first \in Free, second \in Free :
          get' = [g \in Gets |->
                    IF g \in {first, second} THEN FetchJobs(g, mount + 1, NoPost)[g] ELSE get[g]]
    /\ UNCHANGED <<version, post, failures>>

\* Mutant of Unmount: the effect returns no cleanup.
UnmountKeepsTimer ==
    /\ mounted
    /\ mounted' = FALSE
    /\ UNCHANGED <<version, get, post, mount, timers, shown, since, failures>>

\* clearInterval; requests in flight are not cancelled.
Unmount ==
    /\ mounted
    /\ mounted' = FALSE
    /\ timers' = timers - 1
    /\ UNCHANGED <<version, get, post, mount, shown, since, failures>>

\* Mutant of Tick: a poll that waits for the answer to the one before, and so
\* ends for good with the first that fails.
TickOnce ==
    /\ timers > 0
    /\ failures = 0
    /\ \E g \in Free : get' = FetchJobs(g, mount, NoPost)
    /\ UNCHANGED <<version, post, screen, shown, failures>>

\* setInterval fires, whether or not earlier fetches have been answered.
Tick ==
    /\ timers > 0
    /\ \E g \in Free : get' = FetchJobs(g, mount, NoPost)
    /\ UNCHANGED <<version, post, screen, shown, failures>>

\* Mutant of Receive: the list lives in a store all instances share.
ReceiveAlways(g) ==
    /\ get[g].at = "served"
    /\ shown' = get[g].list
    /\ get' = [get EXCEPT ![g] = Idle]
    /\ UNCHANGED <<version, post, screen, failures>>

\* setJobs; React ignores it when the instance that fetched is gone.
Receive(g) ==
    /\ get[g].at = "served"
    /\ shown' = IF mounted /\ get[g].mount = mount THEN get[g].list ELSE shown
    /\ get' = [get EXCEPT ![g] = Idle]
    /\ UNCHANGED <<version, post, screen, failures>>

\* The error is written to the console and the list stays.
FetchFails(g) ==
    /\ get[g].at # "idle"
    /\ Failure
    /\ get' = [get EXCEPT ![g] = Idle]
    /\ UNCHANGED <<version, post, screen, shown>>
-----------------------------------------------------------------------------
\* handleSubmit.  The button is not disabled while a submission is under way.

\* Mutant of Submit: the list is fetched without waiting for the POST.
SubmitAndFetch(p) ==
    /\ mounted /\ post[p].at = "idle"
    /\ post' = [post EXCEPT ![p] = [at |-> "sent", mount |-> mount, list |-> NoList]]
    /\ \E g \in Free : get' = FetchJobs(g, mount, p)
    /\ UNCHANGED <<version, screen, shown, failures>>

Submit(p) ==
    /\ mounted /\ post[p].at = "idle"
    /\ post' = [post EXCEPT ![p] = [at |-> "sent", mount |-> mount, list |-> NoList]]
    /\ UNCHANGED <<version, get, screen, shown, failures>>

\* 202: the list is fetched, by an instance that may be gone by now.
Submitted(p) ==
    /\ post[p].at = "stored"
    /\ post' = [post EXCEPT ![p].at = "accepted"]
    /\ \E g \in Free : get' = FetchJobs(g, post[p].mount, p)
    /\ UNCHANGED <<version, screen, shown, failures>>

\* setError: the job may have been created all the same.
SubmitFails(p) ==
    /\ post[p].at \in {"sent", "stored"}
    /\ Failure
    /\ post' = [post EXCEPT ![p].at = "failed"]
    /\ UNCHANGED <<version, get, screen, shown>>
-----------------------------------------------------------------------------
\* The server: handleListJobs, handleCreateJob, and workers that write statuses.

HandleListJobs(g) ==
    /\ get[g].at = "sent"
    /\ get' = [get EXCEPT ![g].at = "served", ![g].list = version]
    /\ UNCHANGED <<version, post, screen, shown, failures>>

HandleCreateJob(p) ==
    /\ post[p].at = "sent"
    /\ Changed
    /\ post' = [post EXCEPT ![p].at = "stored", ![p].list = version + 1]
    /\ UNCHANGED <<get, screen, shown, failures>>

StatusChange == Changed /\ UNCHANGED <<get, post, screen, shown, failures>>
-----------------------------------------------------------------------------
Next ==
    \/ Mount \/ Unmount \/ Tick \/ StatusChange
    \/ \E g \in Gets : HandleListJobs(g) \/ Receive(g) \/ FetchFails(g)
    \/ \E p \in Posts : Submit(p) \/ HandleCreateJob(p) \/ Submitted(p) \/ SubmitFails(p)

Spec == Init /\ [][Next]_vars

\* The browser fires the interval, and each list request is answered or fails:
\* the server serves it, its answer is delivered.
Fairness ==
    /\ WF_vars(Tick)
    /\ \A g \in Gets : WF_vars(HandleListJobs(g)) /\ WF_vars(Receive(g))

FairSpec == Spec /\ Fairness
-----------------------------------------------------------------------------
\* The type invariant; the interval is armed exactly while the component is
\* mounted.
TypeOK ==
    /\ version \in 0..MaxVersion
    /\ get \in [Gets -> [at : {"idle", "sent", "served"}, mount : 0..MaxMounts,
                         after : Posts \cup {NoPost}, list : {NoList} \cup 0..MaxVersion]]
    /\ post \in [Posts -> [at : {"idle", "sent", "stored", "accepted", "failed"},
                           mount : 0..MaxMounts, list : {NoList} \cup 0..MaxVersion]]
    /\ mounted \in BOOLEAN /\ mount \in 0..MaxMounts
    /\ shown \in {NoList} \cup 0..MaxVersion /\ since \in 0..MaxVersion
    /\ failures \in 0..MaxFailures
    /\ timers = (IF mounted THEN 1 ELSE 0)

\* A list that was read before the component was mounted is never shown in it,
\* however late its answer comes (Dashboard.tsx: setJobs of an old instance).
NothingFromBeforeMount == mounted /\ shown # NoList => shown >= since

\* The list fetched after a submission was read after its job was stored
\* (Dashboard.tsx: await api.post, then fetchJobs).
FollowUpHasTheJob ==
    \A g \in Gets :
        get[g].at = "served" /\ get[g].after # NoPost =>
            /\ post[get[g].after].list # NoList
            /\ get[g].list >= post[get[g].after].list

\* A dashboard that stays open comes to show the server's list, and goes on
\* showing it when the server's list changes no more, although answers
\* overtake one another and some requests fail.
ListCatchesUp == <>[]mounted => <>[](shown = version)

\* After the component is gone its requests stop.
PollingStops == <>[](~mounted) => <>[](Free = Gets)
=============================================================================
