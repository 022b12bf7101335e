------------------------------ MODULE Session ------------------------------
(***************************************************************************)
(* The web session: the token a browser keeps in localStorage, the copy    *)
(* each tab keeps in React state (frontend/src/AuthContext.tsx), the axios *)
(* interceptors that attach the one and drop it on a 401 (api.ts), the     *)
(* login form, the protected route, and the server that issues tokens and  *)
(* checks them (auth_handlers.go, jwt_middleware.go).                      *)
(*                                                                         *)
(* A tab is a document of the application; one that the browser keeps for *)
(* its Back button is a tab of its own.  Tabs share localStorage and       *)
(* nothing else.  A token is the number of the login that issued it.  A    *)
(* callback is a step: JavaScript runs one at a time in a tab, and         *)
(* localStorage serialises the tabs.                                       *)
(***************************************************************************)
EXTENDS Integers

CONSTANTS
    Tabs,
    Calls,          \* requests that may be in flight at once, each of a tab
    MaxTokens,      \* bound on the logins that succeed
    MaxLoads,       \* bound on the loads a user starts or stops
    MaxFailures     \* bound on the requests that fail without an answer

ASSUME SessionAssumption ==
    /\ Calls \subseteq Tabs \X Nat
    /\ MaxTokens \in Nat /\ MaxLoads \in Nat /\ MaxFailures \in Nat

TabOf(c) == c[1]

VARIABLES
    issued,     \* how many tokens the server has issued
    alive,      \* the tokens the server still accepts
    stored,     \* localStorage: jwt_token
    path,       \* each tab's location
    react,      \* each tab's React state: token
    leaving,    \* has a 401 told the tab to load /login, and is it doing so
    list,       \* the token of the request whose jobs the dashboard shows
    sessions,   \* the tokens the dashboard has had since it appeared (history)
    call,       \* the requests in flight
    loads,
    failures

tabVars == <<path, react, leaving, list, sessions>>
bounds == <<loads, failures>>
vars == <<issued, alive, stored, tabVars, call, bounds>>

NoToken == 0
Tokens == 1..issued

NoCall == [at |-> "none", kind |-> "none", token |-> NoToken, mounted |-> FALSE]

Init ==
    /\ issued = 0 /\ alive = {}
    /\ stored = NoToken
    /\ path = [t \in Tabs |-> "closed"]
    /\ react = [t \in Tabs |-> NoToken]
    /\ leaving = [t \in Tabs |-> "no"]
    /\ list = [t \in Tabs |-> NoToken]
    /\ sessions = [t \in Tabs |-> {}]
    /\ call = [c \in Calls |-> NoCall]
    /\ loads = 0 /\ failures = 0

Set(f, t, value) == [f EXCEPT ![t] = value]
Ended(c) == [call EXCEPT ![c] = NoCall]
-----------------------------------------------------------------------------
\* Pages.

\* Mutant of Destination: a route without protection.
DestinationUnprotected(p, token) == p
\* ProtectedRoute sends a visitor without a token in React state to /login.
Destination(p, token) == IF token = NoToken THEN "login" ELSE p

SessionsOn(p, token) == IF p = "dashboard" THEN {token} ELSE {}

\* The document is loaded: AuthProvider reads localStorage, and the requests of
\* the old document are cancelled.
LoadPage(t, p) ==
    /\ path' = Set(path, t, Destination(p, stored))
    /\ react' = Set(react, t, stored)
    /\ leaving' = Set(leaving, t, "no")
    /\ list' = Set(list, t, NoToken)
    /\ sessions' = Set(sessions, t, SessionsOn(Destination(p, stored), stored))
    /\ call' = [c \in Calls |-> IF TabOf(c) = t THEN NoCall ELSE call[c]]
    /\ UNCHANGED <<issued, alive, stored, failures>>

\* A user opens the application, reloads it or enters one of its addresses.
Open(t) ==
    /\ loads < MaxLoads /\ loads' = loads + 1
    /\ LoadPage(t, "dashboard") \/ LoadPage(t, "login")

\* window.location.href = '/login' takes effect.
Reload(t) ==
    /\ leaving[t] = "yes"
    /\ LoadPage(t, "login")
    /\ UNCHANGED loads

\* The user stops that load, or calls it off by going elsewhere.
StopLoad(t) ==
    /\ leaving[t] = "yes"
    /\ loads < MaxLoads /\ loads' = loads + 1
    /\ leaving' = Set(leaving, t, "stopped")
    /\ UNCHANGED <<issued, alive, stored, path, react, list, sessions, call, failures>>

\* The components of the page that is left no longer react to answers.
Unmounted(t) ==
    [c \in Calls |-> IF TabOf(c) = t THEN [call[c] EXCEPT !.mounted = FALSE] ELSE call[c]]

\* The router replaces the dashboard by the login form.
LeaveDashboard(t) ==
    /\ path[t] = "dashboard"
    /\ path' = Set(path, t, "login")
    /\ list' = Set(list, t, NoToken)
    /\ sessions' = Set(sessions, t, {})
    /\ call' = Unmounted(t)

\* Mutant of Logout: only the React state is cleared.
LogoutKeepsStored(t) ==
    /\ LeaveDashboard(t)
    /\ react' = Set(react, t, NoToken)
    /\ UNCHANGED <<issued, alive, stored, leaving, bounds>>

\* logout(); without a token ProtectedRoute renders <Navigate to="/login">.
Logout(t) ==
    /\ LeaveDashboard(t)
    /\ stored' = NoToken
    /\ react' = Set(react, t, NoToken)
    /\ UNCHANGED <<issued, alive, leaving, bounds>>

\* Back and Forward inside the BrowserRouter: the document stays, with its React
\* state and its requests, and the page changes.
Traverse(t) ==
    /\ \/ LeaveDashboard(t)
       \/ LET p == Destination("dashboard", react[t]) IN
          /\ path[t] = "login"
          /\ path' = Set(path, t, p)
          /\ sessions' = Set(sessions, t, SessionsOn(p, react[t]))
          /\ UNCHANGED <<list, call>>
    /\ UNCHANGED <<issued, alive, stored, react, leaving, bounds>>
-----------------------------------------------------------------------------
\* Requests.  The request interceptor attaches what localStorage holds now; with
\* a login the server does not look at it.

Send(c, kind, token) ==
    /\ call[c].at = "none"
    /\ call' = [call EXCEPT ![c] =
                  [at |-> "sent", kind |-> kind, token |-> token, mounted |-> kind = "poll"]]

\* Mutant of Poll: a tab that knows of no token in localStorage sends nothing.
PollWithToken(c) ==
    /\ path[TabOf(c)] = "dashboard" /\ stored # NoToken
    /\ Send(c, "poll", stored)
    /\ UNCHANGED <<issued, alive, stored, tabVars, bounds>>

\* Mutant of Poll: the token is the one in React state.
PollWithReact(c) ==
    /\ path[TabOf(c)] = "dashboard"
    /\ Send(c, "poll", react[TabOf(c)])
    /\ UNCHANGED <<issued, alive, stored, tabVars, bounds>>

Poll(c) ==
    /\ path[TabOf(c)] = "dashboard"
    /\ Send(c, "poll", stored)
    /\ UNCHANGED <<issued, alive, stored, tabVars, bounds>>

\* handleLogin posts the form.
SubmitLogin(c) ==
    /\ path[TabOf(c)] = "login"
    /\ Send(c, "login", NoToken)
    /\ UNCHANGED <<issued, alive, stored, tabVars, bounds>>

\* AuthMiddleware accepts the token or answers 401.
ServePoll(c) ==
    /\ call[c].at = "sent" /\ call[c].kind = "poll"
    /\ call' = [call EXCEPT ![c].at = IF call[c].token \in alive THEN "200" ELSE "401"]
    /\ UNCHANGED <<issued, alive, stored, tabVars, bounds>>

\* handleLogin on the server: a token that lives for a day, or 401, also when
\* the query failed.
ServeLogin(c) ==
    /\ call[c].at = "sent" /\ call[c].kind = "login"
    /\ \/ /\ issued < MaxTokens /\ issued' = issued + 1
          /\ alive' = alive \cup {issued'}
          /\ call' = [call EXCEPT ![c].at = "200", ![c].token = issued']
       \/ call' = [call EXCEPT ![c].at = "401"] /\ UNCHANGED <<issued, alive>>
    /\ UNCHANGED <<stored, tabVars, bounds>>

\* Twenty-four hours pass, or the server's secret is replaced.
Expire(k) ==
    /\ alive' = alive \ {k}
    /\ UNCHANGED <<issued, stored, tabVars, call, bounds>>
-----------------------------------------------------------------------------
\* Answers.

\* Mutant of ShowJobs: an old page's answer is shown.
ShowJobsAlways(c) ==
    /\ call[c].at = "200" /\ call[c].kind = "poll"
    /\ list' = IF path[TabOf(c)] = "dashboard"
               THEN Set(list, TabOf(c), call[c].token) ELSE list
    /\ call' = Ended(c)
    /\ UNCHANGED <<issued, alive, stored, path, react, leaving, sessions, bounds>>

ShowJobs(c) ==
    /\ call[c].at = "200" /\ call[c].kind = "poll"
    /\ list' = IF call[c].mounted
               THEN Set(list, TabOf(c), call[c].token) ELSE list
    /\ call' = Ended(c)
    /\ UNCHANGED <<issued, alive, stored, path, react, leaving, sessions, bounds>>

\* login(token), navigate('/dashboard'), on whichever page the tab is by now: a
\* dashboard that is shown already stays, list and all.
LogIn(c) ==
    LET t == TabOf(c) IN
    /\ call[c].at = "200" /\ call[c].kind = "login"
    /\ stored' = call[c].token
    /\ react' = Set(react, t, call[c].token)
    /\ path' = Set(path, t, "dashboard")
    /\ sessions' = Set(sessions, t, sessions[t] \cup {call[c].token})
    /\ call' = Ended(c)
    /\ UNCHANGED <<issued, alive, leaving, list, bounds>>

\* The response interceptor, whatever request the 401 answers and whatever token
\* that request carried.
Unauthorized(c) ==
    LET t == TabOf(c) IN
    /\ call[c].at = "401"
    /\ stored' = NoToken
    /\ leaving' = Set(leaving, t, "yes")
    /\ call' = Ended(c)
    /\ UNCHANGED <<issued, alive, path, react, list, sessions, bounds>>

\* No answer, or a status the interceptor lets pass.
CallFails(c) ==
    /\ call[c].at # "none" /\ failures < MaxFailures
    /\ failures' = failures + 1
    /\ call' = Ended(c)
    /\ UNCHANGED <<issued, alive, stored, tabVars, loads>>

Serve(c) == ServePoll(c) \/ ServeLogin(c)
Answer(c) == ShowJobs(c) \/ LogIn(c) \/ Unauthorized(c)

Next ==
    \/ \E t \in Tabs : Open(t) \/ Reload(t) \/ StopLoad(t) \/ Logout(t) \/ Traverse(t)
    \/ \E c \in Calls : Poll(c) \/ SubmitLogin(c) \/ Serve(c) \/ Answer(c) \/ CallFails(c)
    \/ \E k \in alive : Expire(k)

Spec == Init /\ [][Next]_vars

\* An open dashboard polls, requests are answered, a tab that was told to load
\* /login does.  Nobody has to log in or out, no token has to expire.
Fairness ==
    /\ \A t \in Tabs : WF_vars(\E c \in Calls : TabOf(c) = t /\ Poll(c)) /\ WF_vars(Reload(t))
    /\ \A c \in Calls : WF_vars(Serve(c)) /\ WF_vars(Answer(c))

FairSpec == Spec /\ Fairness
-----------------------------------------------------------------------------
\* The type invariant; a dashboard is shown only with a token in React state.
TypeOK ==
    /\ issued \in 0..MaxTokens
    /\ alive \subseteq Tokens
    /\ stored \in Tokens \cup {NoToken}
    /\ path \in [Tabs -> {"closed", "login", "dashboard"}]
    /\ react \in [Tabs -> Tokens \cup {NoToken}]
    /\ leaving \in [Tabs -> {"no", "yes", "stopped"}]
    /\ list \in [Tabs -> Tokens \cup {NoToken}]
    /\ sessions \in [Tabs -> SUBSET Tokens]
    /\ call \in [Calls -> [at : {"none", "sent", "200", "401"},
                           kind : {"none", "poll", "login"},
                           token : Tokens \cup {NoToken}, mounted : BOOLEAN]]
    /\ loads \in 0..MaxLoads /\ failures \in 0..MaxFailures
    /\ \A t \in Tabs : path[t] = "dashboard" => react[t] # NoToken

\* A tab by itself: no other has been opened.
Alone(t) == \A other \in Tabs \ {t} : path[other] = "closed"

\* As long as one tab uses the session, its React state and localStorage hold
\* the same token, except after a 401 until /login is loaded or the user logs in:
\* then localStorage holds none
\* (AuthContext.tsx: login and logout write both; api.ts writes the one).
CopiesAgree ==
    \A t \in Tabs :
        Alone(t) /\ path[t] # "closed" =>
            react[t] = stored \/ (stored = NoToken /\ leaving[t] # "no")

\* A tab that alone uses the session shows no jobs but those asked for with a
\* token its dashboard has held since it appeared, whichever answers to earlier
\* requests are still on their way, however often the login form is submitted and
\* wherever Back and Forward lead meanwhile
\* (Dashboard.tsx: the list belongs to an instance of the component).
ListBelongsToSession ==
    \A t \in Tabs : Alone(t) /\ list[t] # NoToken => list[t] \in sessions[t]

\* A dashboard that shows the jobs of another session than the browser's current
\* one does not go on showing them: after a login over a dashboard that is shown
\* already, or in another tab, a poll brings the new session's jobs, or it is
\* refused and the dashboard goes
\* (Dashboard.tsx: the interval; api.ts: a request takes the token from
\* localStorage).
ForeignListLeaves ==
    \A t \in {TabOf(c) : c \in Calls} :
        list[t] \notin {NoToken, stored} ~> list[t] \in {NoToken, stored}

\* A session that has ended ends in every tab: a dashboard does not stay when
\* the token expires or another tab logs out, unless the user goes on reloading it
\* or stopping the load of /login
\* (api.ts: the 401 interceptor, driven by the dashboard's polling).
EndedSessionLeaves ==
    \A t \in {TabOf(c) : c \in Calls} :
        path[t] = "dashboard" /\ stored \notin alive
            ~> path[t] # "dashboard" \/ stored \in alive
=============================================================================
