--------------------------- MODULE SessionProofs ---------------------------
(***************************************************************************)
(* Theorems about the web session for any number of tabs, requests in      *)
(* flight and logins.                                                      *)
(***************************************************************************)
EXTENDS Session, TLAPS
-----------------------------------------------------------------------------
CallType == [at : {"none", "sent", "200", "401"}, kind : {"none", "poll", "login"},
             token : Tokens \cup {NoToken}, mounted : BOOLEAN]

\* A request in flight belongs to an open tab.  A poll the dashboard still waits
\* for carries a token this dashboard has held, or none.
CallKnows(c) ==
    /\ call[c].at = "none" \/ path[TabOf(c)] = "closed" =>
          call[c].at = "none" /\ call[c].kind = "none"
    /\ call[c].at = "200" => call[c].token # NoToken
    /\ call[c].kind = "poll" /\ call[c].mounted =>
          /\ path[TabOf(c)] = "dashboard"
          /\ Alone(TabOf(c)) => call[c].token \in sessions[TabOf(c)] \cup {NoToken}

\* A tab that is alone finds its own token in localStorage, or none after a 401.
TabKnows(t) ==
    /\ list[t] # NoToken =>
          /\ path[t] = "dashboard"
          /\ Alone(t) => list[t] \in sessions[t]
    /\ path[t] = "dashboard" => react[t] \in sessions[t]
    /\ Alone(t) /\ path[t] # "closed" =>
          react[t] = stored \/ (stored = NoToken /\ leaving[t] # "no")

SessionInv ==
    /\ TypeOK
    /\ \A c \in Calls : CallKnows(c)
    /\ \A t \in Tabs : TabKnows(t)

LEMMA TabOfIsATab == \A c \in Calls : TabOf(c) \in Tabs
BY SessionAssumption DEF TabOf

LEMMA TypeOKParts ==
    TypeOK <=>
      /\ issued \in 0..MaxTokens /\ alive \subseteq Tokens
      /\ stored \in Tokens \cup {NoToken}
      /\ path \in [Tabs -> {"closed", "login", "dashboard"}]
      /\ react \in [Tabs -> Tokens \cup {NoToken}]
      /\ leaving \in [Tabs -> {"no", "yes", "stopped"}]
      /\ list \in [Tabs -> Tokens \cup {NoToken}]
      /\ sessions \in [Tabs -> SUBSET Tokens]
      /\ call \in [Calls -> CallType]
      /\ loads \in 0..MaxLoads /\ failures \in 0..MaxFailures
      /\ \A t \in Tabs : path[t] = "dashboard" => react[t] # NoToken
BY DEF TypeOK, CallType

LEMMA TokensAreNumbers == TypeOK => NoToken \notin Tokens /\ issued \in Nat
BY SessionAssumption DEF TypeOK, Tokens, NoToken

LEMMA NoCallIsACall == NoCall \in CallType
BY DEF NoCall, CallType

LEMMA SessionInit == Init => SessionInv
<1> SUFFICES ASSUME Init PROVE SessionInv
  OBVIOUS
<1>1. TypeOK
  <2>1. 0 \in 0..MaxTokens /\ 0 \in 0..MaxLoads /\ 0 \in 0..MaxFailures
    BY SessionAssumption
  <2> QED BY <2>1, NoCallIsACall, TypeOKParts DEF Init
<1>2. \A c \in Calls : CallKnows(c)
  BY TabOfIsATab DEF Init, CallKnows, NoCall
<1>3. \A t \in Tabs : TabKnows(t)
  BY DEF Init, TabKnows
<1> QED BY <1>1, <1>2, <1>3 DEF SessionInv
-----------------------------------------------------------------------------
\* A tab that has been opened stays open, so that a tab that is alone after a
\* step was alone before it.
LEMMA StillAlone ==
    ASSUME NEW t \in Tabs, \A u \in Tabs : path[u] # "closed" => path'[u] # "closed"
    PROVE  Alone(t)' => Alone(t)
BY DEF Alone

LEMMA LoadKeeps ==
    ASSUME SessionInv, NEW t \in Tabs, NEW p \in {"login", "dashboard"}, LoadPage(t, p),
           loads' \in 0..MaxLoads
    PROVE  SessionInv'
<1>1. /\ path' = [path EXCEPT ![t] = Destination(p, stored)]
      /\ react' = [react EXCEPT ![t] = stored]
      /\ leaving' = [leaving EXCEPT ![t] = "no"]
      /\ list' = [list EXCEPT ![t] = NoToken]
      /\ call' = [c \in Calls |-> IF TabOf(c) = t THEN NoCall ELSE call[c]]
      /\ sessions' = [sessions EXCEPT ![t] = SessionsOn(Destination(p, stored), stored)]
      /\ loads' \in 0..MaxLoads
      /\ UNCHANGED <<issued, alive, stored, failures>>
  BY DEF LoadPage, Set
<1>2. /\ Destination(p, stored) \in {"login", "dashboard"}
      /\ Destination(p, stored) = "dashboard" => stored # NoToken
  BY DEF Destination
<1>3. TypeOK'
  <2>1. call' \in [Calls -> CallType]' /\ Tokens' = Tokens
    BY <1>1, NoCallIsACall, TypeOKParts DEF SessionInv, CallType, Tokens
  <2>2. \A u \in Tabs : path'[u] = "dashboard" => react'[u] # NoToken
    BY <1>1, <1>2, TypeOKParts DEF SessionInv
  <2>3. path' \in [Tabs -> {"closed", "login", "dashboard"}]
        /\ react' \in [Tabs -> Tokens \cup {NoToken}]
        /\ leaving' \in [Tabs -> {"no", "yes", "stopped"}]
        /\ list' \in [Tabs -> Tokens \cup {NoToken}]
    BY <1>1, <1>2, TypeOKParts DEF SessionInv
  <2>4. sessions' \in [Tabs -> SUBSET Tokens]
    <3>1. SessionsOn(Destination(p, stored), stored) \subseteq Tokens
      BY <1>2, TypeOKParts DEF SessionInv, SessionsOn
    <3> QED BY <1>1, <3>1, TypeOKParts DEF SessionInv
  <2> QED BY <1>1, <2>1, <2>2, <2>3, <2>4, TypeOKParts DEF SessionInv, TypeOK, CallType
<1>4. \A u \in Tabs : /\ u # t => path'[u] = path[u] /\ react'[u] = react[u]
                                  /\ leaving'[u] = leaving[u] /\ list'[u] = list[u]
                                  /\ sessions'[u] = sessions[u]
                      /\ Alone(u)' => Alone(u)
  <2>1. \A u \in Tabs : path[u] # "closed" => path'[u] # "closed"
    BY <1>1, <1>2, TypeOKParts DEF SessionInv
  <2> QED BY <1>1, <2>1, StillAlone, TypeOKParts DEF SessionInv
<1>5. \A c \in Calls : CallKnows(c)'
  <2> SUFFICES ASSUME NEW c \in Calls PROVE CallKnows(c)'
    OBVIOUS
  <2>1. CASE TabOf(c) = t
    BY <1>1, <2>1 DEF CallKnows, NoCall
  <2>2. CASE TabOf(c) # t
    <3>1. call'[c] = call[c] /\ sessions'[TabOf(c)] = sessions[TabOf(c)]
      BY <1>1, <2>2
    <3> QED BY <1>4, <2>2, <3>1, TabOfIsATab DEF SessionInv, CallKnows
  <2> QED BY <2>1, <2>2
<1>6. \A u \in Tabs : TabKnows(u)'
  <2> SUFFICES ASSUME NEW u \in Tabs PROVE TabKnows(u)'
    OBVIOUS
  <2>1. CASE u = t
    BY <1>1, <1>2, <2>1, TypeOKParts DEF SessionInv, TabKnows, SessionsOn
  <2>2. CASE u # t
    BY <1>1, <1>4, <2>2 DEF SessionInv, TabKnows
  <2> QED BY <2>1, <2>2
<1> QED BY <1>3, <1>5, <1>6 DEF SessionInv

\* logout() and Back: the dashboard's list and its polls go with it.
LEMMA LeaveKeeps ==
    ASSUME SessionInv, NEW t \in Tabs, LeaveDashboard(t),
           \/ stored' = NoToken /\ react' = [react EXCEPT ![t] = NoToken]
           \/ UNCHANGED <<stored, react>>,
           UNCHANGED <<issued, alive, leaving, bounds>>
    PROVE  SessionInv'
<1>1. /\ path[t] = "dashboard"
      /\ path' = [path EXCEPT ![t] = "login"]
      /\ list' = [list EXCEPT ![t] = NoToken]
      /\ sessions' = [sessions EXCEPT ![t] = {}]
      /\ call' = [c \in Calls |-> IF TabOf(c) = t THEN [call[c] EXCEPT !.mounted = FALSE]
                                                 ELSE call[c]]
      /\ UNCHANGED <<issued, alive, leaving, loads, failures>>
  BY DEF LeaveDashboard, Unmounted, Set, bounds
<1>2. \A c \in Calls :
        /\ call'[c].at = call[c].at /\ call'[c].kind = call[c].kind
        /\ call'[c].token = call[c].token /\ call'[c] \in CallType
        /\ TabOf(c) = t => ~call'[c].mounted
        /\ TabOf(c) # t => call'[c] = call[c]
  <2> SUFFICES ASSUME NEW c \in Calls
               PROVE  /\ call'[c].at = call[c].at /\ call'[c].kind = call[c].kind
                      /\ call'[c].token = call[c].token /\ call'[c] \in CallType
                      /\ TabOf(c) = t => ~call'[c].mounted
                      /\ TabOf(c) # t => call'[c] = call[c]
                  OBVIOUS
  <2>1. call[c] \in CallType
    BY TypeOKParts DEF SessionInv
  <2>2. CASE TabOf(c) = t
    <3>1. call'[c] = [call[c] EXCEPT !.mounted = FALSE]
      BY <1>1, <2>2
    <3> QED BY <2>1, <2>2, <3>1 DEF CallType
  <2>3. CASE TabOf(c) # t
    BY <1>1, <2>1, <2>3
  <2> QED BY <2>2, <2>3
<1>3. TypeOK'
  <2>1. call' \in [Calls -> CallType] /\ CallType' = CallType /\ Tokens' = Tokens
    BY <1>1, <1>2 DEF CallType, Tokens
  <2>2. \A u \in Tabs : path'[u] = "dashboard" => react'[u] # NoToken
    BY <1>1, TypeOKParts DEF SessionInv
  <2>3. path' \in [Tabs -> {"closed", "login", "dashboard"}]
        /\ react' \in [Tabs -> Tokens \cup {NoToken}] /\ list' \in [Tabs -> Tokens \cup {NoToken}]
        /\ sessions' \in [Tabs -> SUBSET Tokens] /\ stored' \in Tokens \cup {NoToken}
    BY <1>1, TypeOKParts DEF SessionInv
  <2> QED BY <1>1, <2>1, <2>2, <2>3, TypeOKParts DEF SessionInv, TypeOK, CallType
<1>4. \A u \in Tabs : /\ u # t => path'[u] = path[u] /\ react'[u] = react[u] /\ list'[u] = list[u]
                                  /\ sessions'[u] = sessions[u]
                      /\ u # t => ~Alone(u)'
                      /\ Alone(u)' => Alone(u)
  <2>1. \A u \in Tabs : path[u] # "closed" => path'[u] # "closed"
    BY <1>1, TypeOKParts DEF SessionInv
  <2> QED BY <1>1, <2>1, StillAlone, TypeOKParts DEF SessionInv, Alone
<1>5. \A c \in Calls : CallKnows(c)'
  <2> SUFFICES ASSUME NEW c \in Calls PROVE CallKnows(c)'
    OBVIOUS
  <2>1. CASE TabOf(c) = t
    BY <1>1, <1>2, <2>1, TypeOKParts DEF SessionInv, CallKnows
  <2>2. CASE TabOf(c) # t
    BY <1>1, <1>2, <1>4, <2>2, TabOfIsATab DEF SessionInv, CallKnows
  <2> QED BY <2>1, <2>2
<1>6. \A u \in Tabs : TabKnows(u)'
  <2> SUFFICES ASSUME NEW u \in Tabs PROVE TabKnows(u)'
    OBVIOUS
  <2>1. CASE u = t
    BY <1>1, <1>4, <2>1, TypeOKParts DEF SessionInv, TabKnows
  <2>2. CASE u # t
    BY <1>1, <1>4, <2>2 DEF SessionInv, TabKnows
  <2> QED BY <2>1, <2>2
<1> QED BY <1>3, <1>5, <1>6 DEF SessionInv

\* Forward, back to a dashboard that is mounted anew.
LEMMA TraverseKeeps ==
    ASSUME SessionInv, NEW t \in Tabs, Traverse(t) PROVE SessionInv'
<1> DEFINE p == Destination("dashboard", react[t])
<1>1. CASE LeaveDashboard(t)
  BY <1>1, LeaveKeeps DEF Traverse
<1>2. CASE /\ path[t] = "login" /\ path' = Set(path, t, p)
           /\ sessions' = Set(sessions, t, SessionsOn(p, react[t]))
           /\ UNCHANGED <<list, call>>
  <2>1. /\ path' = [path EXCEPT ![t] = p]
        /\ sessions' = [sessions EXCEPT ![t] = SessionsOn(p, react[t])]
        /\ UNCHANGED <<issued, alive, stored, react, leaving, list, call, loads, failures>>
    BY <1>2 DEF Traverse, Set, bounds
  <2>2. \/ p = "login" /\ SessionsOn(p, react[t]) = {}
        \/ p = "dashboard" /\ react[t] # NoToken /\ SessionsOn(p, react[t]) = {react[t]}
    BY DEF Destination, SessionsOn
  <2>3. path'[t] = p /\ sessions'[t] = SessionsOn(p, react[t]) /\ path'[t] # "closed"
        /\ \A u \in Tabs \ {t} : path'[u] = path[u] /\ sessions'[u] = sessions[u]
    BY <2>1, <2>2, TypeOKParts DEF SessionInv
  <2> HIDE DEF p
  <2>4. TypeOK'
    <3>1. react[t] \in Tokens \cup {NoToken}
      BY TypeOKParts DEF SessionInv
    <3>2. path' \in [Tabs -> {"closed", "login", "dashboard"}]
          /\ sessions' \in [Tabs -> SUBSET Tokens]
      BY <2>1, <2>2, <3>1, TypeOKParts DEF SessionInv
    <3>3. \A u \in Tabs : path'[u] = "dashboard" => react'[u] # NoToken
      BY <2>1, <2>2, <2>3, TypeOKParts DEF SessionInv
    <3>4. CallType' = CallType /\ Tokens' = Tokens
      BY <2>1 DEF CallType, Tokens
    <3> QED BY <2>1, <3>2, <3>3, <3>4, TypeOKParts DEF SessionInv, TypeOK, CallType
  <2>5. \A u \in Tabs : Alone(u)' => Alone(u)
    BY <1>2, <2>3, TypeOKParts DEF SessionInv, Alone
  <2>6. ASSUME NEW c \in Calls PROVE CallKnows(c)'
    <3>1. CallKnows(c) /\ TabOf(c) \in Tabs /\ call'[c] = call[c]
      BY <2>1, TabOfIsATab DEF SessionInv
    <3>2. CASE TabOf(c) = t
      BY <1>2, <2>3, <3>1, <3>2 DEF CallKnows
    <3>3. CASE TabOf(c) # t
      BY <2>3, <2>5, <3>1, <3>3 DEF CallKnows
    <3> QED BY <3>2, <3>3
  <2>7. ASSUME NEW u \in Tabs PROVE TabKnows(u)'
    <3>1. CASE u = t
      BY <1>2, <2>1, <2>2, <2>3, <2>5, <3>1 DEF SessionInv, TabKnows
    <3>2. CASE u # t
      BY <2>1, <2>3, <2>5, <3>2 DEF SessionInv, TabKnows
    <3> QED BY <3>1, <3>2
  <2> QED BY <2>4, <2>6, <2>7 DEF SessionInv
<1> QED BY <1>1, <1>2 DEF Traverse

LEMMA StopLoadKeeps ==
    ASSUME SessionInv, NEW t \in Tabs, StopLoad(t) PROVE SessionInv'
<1>1. /\ leaving' = [leaving EXCEPT ![t] = "stopped"] /\ loads' \in 0..MaxLoads
      /\ UNCHANGED <<issued, alive, stored, path, react, list, sessions, call, failures>>
  BY SessionAssumption, TypeOKParts DEF SessionInv, StopLoad, Set
<1>2. TypeOK'
  <2>1. leaving' \in [Tabs -> {"no", "yes", "stopped"}] /\ Tokens' = Tokens
    BY <1>1, TypeOKParts DEF SessionInv, Tokens
  <2> QED BY <1>1, <2>1 DEF SessionInv, TypeOK
<1>3. ASSUME NEW u \in Tabs PROVE leaving[u] # "no" => leaving'[u] # "no"
  BY <1>1, TypeOKParts DEF SessionInv
<1>4. \A u \in Tabs : TabKnows(u)'
  BY <1>1, <1>3 DEF SessionInv, TabKnows, Alone
<1> QED BY <1>1, <1>2, <1>4 DEF SessionInv, CallKnows, Alone

-----------------------------------------------------------------------------
\* A step of one request that leaves the tabs alone has to keep what is known of
\* that request only.
LEMMA OneCall ==
    ASSUME SessionInv, NEW c \in Calls, NEW r,
           call' = [call EXCEPT ![c] = r], r \in CallType',
           issued' \in 0..MaxTokens, issued <= issued', alive' \subseteq Tokens',
           failures' \in 0..MaxFailures,
           UNCHANGED <<stored, path, react, leaving, list, sessions, loads>>,
           CallKnows(c)'
    PROVE  SessionInv'
<1>1. Tokens \subseteq Tokens' /\ \A x : x \in CallType => x \in CallType'
  BY SessionAssumption, TypeOKParts DEF SessionInv, Tokens, CallType
<1>2. TypeOK'
  <2>1. call' \in [Calls -> CallType']
    BY <1>1, TypeOKParts DEF SessionInv
  <2>2. \A t \in Tabs : path'[t] = "dashboard" => react'[t] # NoToken
    BY TypeOKParts DEF SessionInv
  <2>3. stored' \in Tokens' \cup {NoToken} /\ react' \in [Tabs -> Tokens' \cup {NoToken}]
        /\ list' \in [Tabs -> Tokens' \cup {NoToken}] /\ sessions' \in [Tabs -> SUBSET Tokens']
    BY <1>1, TypeOKParts DEF SessionInv
  <2> QED BY <2>1, <2>2, <2>3, TypeOKParts DEF SessionInv, TypeOK, CallType
<1>3. \A d \in Calls : CallKnows(d)'
  <2> SUFFICES ASSUME NEW d \in Calls, d # c PROVE CallKnows(d)'
    OBVIOUS
  <2>1. call'[d] = call[d]
    BY TypeOKParts DEF SessionInv
  <2> QED BY <2>1 DEF SessionInv, CallKnows, Alone
<1>4. \A t \in Tabs : TabKnows(t)'
  BY DEF SessionInv, TabKnows, Alone
<1> QED BY <1>2, <1>3, <1>4 DEF SessionInv

\* What OneCall asks of the variables most steps leave alone.
LEMMA Unissued ==
    ASSUME SessionInv
    PROVE  /\ issued \in 0..MaxTokens /\ issued <= issued /\ alive \subseteq Tokens
           /\ loads \in 0..MaxLoads /\ failures \in 0..MaxFailures
           /\ UNCHANGED <<issued, alive>> => alive' \subseteq Tokens'
BY SessionAssumption, TypeOKParts DEF SessionInv, Tokens

LEMMA PollKeeps == ASSUME SessionInv, NEW c \in Calls, Poll(c) PROVE SessionInv'
<1> DEFINE t == TabOf(c)
           r == [at |-> "sent", kind |-> "poll", token |-> stored, mounted |-> TRUE]
<1>1. /\ path[t] = "dashboard" /\ call[c].at = "none" /\ call' = [call EXCEPT ![c] = r]
      /\ UNCHANGED <<issued, alive, stored, path, react, leaving, list, sessions, loads, failures>>
  BY DEF Poll, Send, tabVars, bounds
<1>2. r \in CallType' /\ call'[c] = r
  BY <1>1, TypeOKParts DEF SessionInv, CallType, Tokens
<1>3. CallKnows(c)'
  <2>1. t \in Tabs /\ TabKnows(t)
    BY TabOfIsATab DEF SessionInv
  <2> QED BY <1>1, <1>2, <2>1 DEF CallKnows, TabKnows, Alone
<1> HIDE DEF r
<1> QED BY <1>1, <1>2, <1>3, OneCall, Unissued

LEMMA SubmitKeeps == ASSUME SessionInv, NEW c \in Calls, SubmitLogin(c) PROVE SessionInv'
<1> DEFINE t == TabOf(c)
           r == [at |-> "sent", kind |-> "login", token |-> NoToken, mounted |-> FALSE]
<1>1. /\ path[t] = "login" /\ call[c].at = "none" /\ call' = [call EXCEPT ![c] = r]
      /\ UNCHANGED <<issued, alive, stored, path, react, leaving, list, sessions, loads, failures>>
  BY DEF SubmitLogin, Send, tabVars, bounds
<1>2. r \in CallType' /\ call'[c] = r
  BY <1>1, TypeOKParts DEF SessionInv, CallType, Tokens
<1>3. CallKnows(c)'
  BY <1>1, <1>2 DEF CallKnows
<1> HIDE DEF r
<1> QED BY <1>1, <1>2, <1>3, OneCall, Unissued

LEMMA ServePollKeeps == ASSUME SessionInv, NEW c \in Calls, ServePoll(c) PROVE SessionInv'
<1> DEFINE a == IF call[c].token \in alive THEN "200" ELSE "401"
           r == [call[c] EXCEPT !.at = a]
<1>1. /\ call[c].at = "sent" /\ call' = [call EXCEPT ![c] = r]
      /\ UNCHANGED <<issued, alive, stored, path, react, leaving, list, sessions, loads, failures>>
  BY DEF ServePoll, tabVars, bounds
<1>2. call[c] \in CallType /\ CallKnows(c)
  BY TypeOKParts DEF SessionInv
<1>3. /\ r.at = a /\ r.kind = call[c].kind /\ r.token = call[c].token
      /\ r.mounted = call[c].mounted /\ r \in CallType /\ CallType' = CallType
  BY <1>1, <1>2 DEF CallType, Tokens
<1>4. a = "200" => call[c].token # NoToken
  BY TokensAreNumbers, TypeOKParts DEF SessionInv
<1> HIDE DEF r
<1>5. call'[c] = r
  BY <1>1, TypeOKParts DEF SessionInv
<1>6. CallKnows(c)'
  <2>1. path[TabOf(c)] # "closed"
    BY <1>1, <1>2 DEF CallKnows, NoCall
  <2> QED BY <1>1, <1>2, <1>3, <1>4, <1>5, <2>1 DEF CallKnows, Alone
<1> QED BY <1>1, <1>3, <1>6, OneCall, Unissued

LEMMA ServeLoginKeeps == ASSUME SessionInv, NEW c \in Calls, ServeLogin(c) PROVE SessionInv'
<1>1. /\ call[c].at = "sent" /\ call[c].kind = "login"
      /\ UNCHANGED <<stored, path, react, leaving, list, sessions, loads, failures>>
  BY DEF ServeLogin, tabVars, bounds
<1>2. call[c] \in CallType /\ CallKnows(c)
  BY TypeOKParts DEF SessionInv
<1>3. path[TabOf(c)] # "closed"
  BY <1>1, <1>2 DEF CallKnows, NoCall
<1>4. ASSUME NEW r \in CallType', call' = [call EXCEPT ![c] = r], r.kind = "login",
             r.at \in {"200", "401"}, r.at = "200" => r.token # NoToken,
             issued' \in 0..MaxTokens, issued <= issued', alive' \subseteq Tokens'
      PROVE  SessionInv'
  <2>1. call'[c] = r
    BY <1>4, TypeOKParts DEF SessionInv
  <2>2. CallKnows(c)'
    BY <1>1, <1>2, <1>3, <1>4, <2>1 DEF CallKnows
  <2> QED BY <1>1, <1>4, <2>2, OneCall, Unissued
<1>5. CASE issued < MaxTokens /\ issued' = issued + 1 /\ alive' = alive \cup {issued'}
           /\ call' = [call EXCEPT ![c].at = "200", ![c].token = issued']
  <2> DEFINE r == [call[c] EXCEPT !.at = "200", !.token = issued + 1]
  <2>1. issued' \in 0..MaxTokens /\ issued <= issued' /\ alive' \subseteq Tokens'
        /\ issued + 1 # NoToken /\ issued + 1 \in Tokens'
    BY <1>5, SessionAssumption, TypeOKParts DEF SessionInv, Tokens, NoToken
  <2>2. r.kind = "login" /\ r.at = "200" /\ r.token = issued + 1
    BY <1>1, <1>2 DEF CallType
  <2>3. r \in CallType'
    BY <1>2, <2>1, <2>2 DEF CallType
  <2>4. call' = [call EXCEPT ![c] = r]
    BY <1>5
  <2> HIDE DEF r
  <2> QED BY <1>4, <2>1, <2>2, <2>3, <2>4
<1>6. CASE call' = [call EXCEPT ![c].at = "401"] /\ UNCHANGED <<issued, alive>>
  <2> DEFINE r == [call[c] EXCEPT !.at = "401"]
  <2>1. r \in CallType' /\ r.kind = "login" /\ r.at = "401"
    BY <1>1, <1>2, <1>6 DEF CallType, Tokens
  <2>2. call' = [call EXCEPT ![c] = r]
    BY <1>6
  <2> HIDE DEF r
  <2> QED BY <1>4, <1>6, <2>1, <2>2, Unissued
<1> QED BY <1>5, <1>6 DEF ServeLogin

LEMMA ExpireKeeps == ASSUME SessionInv, NEW k, Expire(k) PROVE SessionInv'
<1>1. alive' \subseteq Tokens'
      /\ UNCHANGED <<issued, stored, path, react, leaving, list, sessions, call, loads, failures>>
  BY TypeOKParts DEF SessionInv, Expire, tabVars, bounds, Tokens
<1> QED BY <1>1 DEF SessionInv, TypeOK, Tokens, CallKnows, TabKnows, Alone
-----------------------------------------------------------------------------
LEMMA CallFailsKeeps == ASSUME SessionInv, NEW c \in Calls, CallFails(c) PROVE SessionInv'
<1>1. /\ call' = [call EXCEPT ![c] = NoCall] /\ failures' \in 0..MaxFailures
      /\ UNCHANGED <<issued, alive, stored, path, react, leaving, list, sessions, loads>>
  BY SessionAssumption, TypeOKParts DEF SessionInv, CallFails, Ended, tabVars
<1>2. NoCall \in CallType' /\ call'[c] = NoCall
  BY <1>1, TypeOKParts DEF SessionInv, NoCall, CallType
<1>3. CallKnows(c)'
  BY <1>1, <1>2, TypeOKParts DEF SessionInv, CallKnows, NoCall
<1> QED BY <1>1, <1>2, <1>3, OneCall, Unissued

\* The list the dashboard shows has the token of a poll it still waited for.
LEMMA ShowKeeps == ASSUME SessionInv, NEW c \in Calls, ShowJobs(c) PROVE SessionInv'
<1> DEFINE t == TabOf(c)
<1>1. /\ call[c].at = "200" /\ call[c].kind = "poll"
      /\ list' = IF call[c].mounted THEN [list EXCEPT ![t] = call[c].token] ELSE list
      /\ call' = [call EXCEPT ![c] = NoCall]
      /\ UNCHANGED <<issued, alive, stored, path, react, leaving, sessions, loads, failures>>
  BY DEF ShowJobs, Ended, Set, bounds
<1>2. t \in Tabs /\ call[c] \in CallType /\ CallKnows(c) /\ TabKnows(t)
  BY TabOfIsATab, TypeOKParts DEF SessionInv
<1>3. TypeOK'
  <2>1. call' \in [Calls -> CallType] /\ CallType' = CallType /\ Tokens' = Tokens
    BY <1>1, NoCallIsACall, TypeOKParts DEF SessionInv, CallType, Tokens
  <2>2. list' \in [Tabs -> Tokens \cup {NoToken}]
    BY <1>1, <1>2, TypeOKParts DEF SessionInv, CallType
  <2> QED BY <1>1, <2>1, <2>2, TypeOKParts DEF SessionInv, TypeOK, CallType
<1>4. \A d \in Calls : CallKnows(d)'
  <2> SUFFICES ASSUME NEW d \in Calls PROVE CallKnows(d)'
    OBVIOUS
  <2>1. call'[d] = IF d = c THEN NoCall ELSE call[d]
    BY <1>1, TypeOKParts DEF SessionInv
  <2> QED BY <1>1, <2>1 DEF SessionInv, CallKnows, Alone, NoCall
<1>5. \A u \in Tabs : TabKnows(u)'
  <2> SUFFICES ASSUME NEW u \in Tabs PROVE TabKnows(u)'
    OBVIOUS
  <2>1. TabKnows(u) /\ (Alone(u)' <=> Alone(u))
    BY <1>1 DEF SessionInv, Alone
  <2>2. CASE list'[u] = list[u]
    BY <1>1, <2>1, <2>2 DEF TabKnows
  <2>3. CASE list'[u] # list[u]
    <3>1. u = t /\ call[c].mounted /\ list'[u] = call[c].token
      BY <1>1, <1>2, <2>3, TypeOKParts DEF SessionInv
    <3> QED BY <1>1, <1>2, <2>1, <3>1 DEF TabKnows, CallKnows
  <2> QED BY <2>2, <2>3
<1> QED BY <1>3, <1>4, <1>5 DEF SessionInv

LEMMA LogInKeeps == ASSUME SessionInv, NEW c \in Calls, LogIn(c) PROVE SessionInv'
<1> DEFINE t == TabOf(c)
           k == call[c].token
<1>1. /\ call[c].at = "200" /\ call[c].kind = "login" /\ stored' = k
      /\ react' = [react EXCEPT ![t] = k]
      /\ path' = [path EXCEPT ![t] = "dashboard"]
      /\ call' = [call EXCEPT ![c] = NoCall]
      /\ sessions' = [sessions EXCEPT ![t] = @ \cup {k}]
      /\ UNCHANGED <<issued, alive, leaving, list, loads, failures>>
  BY DEF LogIn, Ended, Set, bounds
<1>2. t \in Tabs /\ call[c] \in CallType /\ CallKnows(c) /\ TabKnows(t)
  BY TabOfIsATab, TypeOKParts DEF SessionInv
<1>3. k \in Tokens /\ k # NoToken /\ path[t] # "closed"
  BY <1>1, <1>2 DEF CallType, CallKnows
<1>4. TypeOK'
  <2>1. call' \in [Calls -> CallType] /\ CallType' = CallType /\ Tokens' = Tokens
    BY <1>1, NoCallIsACall, TypeOKParts DEF SessionInv, CallType, Tokens
  <2>2. path' \in [Tabs -> {"closed", "login", "dashboard"}]
        /\ react' \in [Tabs -> Tokens \cup {NoToken}]
        /\ sessions' \in [Tabs -> SUBSET Tokens]
        /\ \A u \in Tabs : path'[u] = "dashboard" => react'[u] # NoToken
    BY <1>1, <1>3, TypeOKParts DEF SessionInv
  <2> QED BY <1>1, <1>3, <2>1, <2>2, TypeOKParts DEF SessionInv, TypeOK, CallType
<1>5. \A u \in Tabs : /\ u # t => path'[u] = path[u] /\ react'[u] = react[u]
                                  /\ sessions'[u] = sessions[u]
                      /\ u # t => ~Alone(u)'
                      /\ Alone(u)' => Alone(u)
  <2>1. \A u \in Tabs : path[u] # "closed" => path'[u] # "closed"
    BY <1>1, TypeOKParts DEF SessionInv
  <2>2. path'[t] = "dashboard"
    BY <1>1, <1>2, TypeOKParts DEF SessionInv
  <2> QED BY <1>1, <1>2, <2>1, <2>2, StillAlone, TypeOKParts DEF SessionInv, Alone
<1>6. \A d \in Calls : CallKnows(d)'
  <2> SUFFICES ASSUME NEW d \in Calls PROVE CallKnows(d)'
    OBVIOUS
  <2>1. CASE d = c
    <3>1. call'[d] = NoCall
      BY <1>1, <2>1, TypeOKParts DEF SessionInv
    <3> QED BY <3>1 DEF CallKnows, NoCall
  <2>2. CASE d # c
    <3>1. call'[d] = call[d] /\ CallKnows(d) /\ TabOf(d) \in Tabs
      BY <1>1, <2>2, TabOfIsATab, TypeOKParts DEF SessionInv
    <3>2. CASE TabOf(d) # t
      BY <1>1, <1>5, <3>1, <3>2 DEF CallKnows
    <3>3. CASE TabOf(d) = t
      <4>1. path'[t] = "dashboard" /\ sessions[t] \subseteq sessions'[t]
        BY <1>1, <1>2, TypeOKParts DEF SessionInv
      <4> QED BY <1>2, <1>3, <1>5, <3>1, <3>3, <4>1 DEF CallKnows
    <3> QED BY <3>2, <3>3
  <2> QED BY <2>1, <2>2
<1>7. \A u \in Tabs : TabKnows(u)'
  <2> SUFFICES ASSUME NEW u \in Tabs PROVE TabKnows(u)'
    OBVIOUS
  <2>1. CASE u = t
    <3>1. path'[t] = "dashboard" /\ react'[t] = k
          /\ k \in sessions'[t] /\ sessions[t] \subseteq sessions'[t]
      BY <1>1, <1>2, <1>3, TypeOKParts DEF SessionInv
    <3> QED BY <1>1, <1>2, <1>5, <2>1, <3>1 DEF TabKnows
  <2>2. CASE u # t
    BY <1>1, <1>5, <2>2 DEF SessionInv, TabKnows
  <2> QED BY <2>1, <2>2
<1> QED BY <1>4, <1>6, <1>7 DEF SessionInv

LEMMA UnauthorizedKeeps ==
    ASSUME SessionInv, NEW c \in Calls, Unauthorized(c) PROVE SessionInv'
<1> DEFINE t == TabOf(c)
<1>1. /\ call[c].at = "401" /\ stored' = NoToken
      /\ leaving' = [leaving EXCEPT ![t] = "yes"]
      /\ call' = [call EXCEPT ![c] = NoCall]
      /\ UNCHANGED <<issued, alive, path, react, list, sessions, loads, failures>>
  BY DEF Unauthorized, Ended, Set, bounds
<1>2. t \in Tabs /\ path[t] # "closed"
  BY <1>1, TabOfIsATab DEF SessionInv, CallKnows
<1>3. TypeOK'
  <2>1. call' \in [Calls -> CallType] /\ CallType' = CallType /\ Tokens' = Tokens
    BY <1>1, NoCallIsACall, TypeOKParts DEF SessionInv, CallType, Tokens
  <2>2. leaving' \in [Tabs -> {"no", "yes", "stopped"}]
    BY <1>1, TypeOKParts DEF SessionInv
  <2> QED BY <1>1, <2>1, <2>2, TypeOKParts DEF SessionInv, TypeOK, CallType
<1>4. \A d \in Calls : CallKnows(d)'
  <2> SUFFICES ASSUME NEW d \in Calls PROVE CallKnows(d)'
    OBVIOUS
  <2>1. call'[d] = IF d = c THEN NoCall ELSE call[d]
    BY <1>1, TypeOKParts DEF SessionInv
  <2> QED BY <1>1, <2>1 DEF SessionInv, CallKnows, Alone, NoCall
<1>5. \A u \in Tabs : TabKnows(u)'
  <2> SUFFICES ASSUME NEW u \in Tabs PROVE TabKnows(u)'
    OBVIOUS
  <2>1. CASE u = t
    <3>1. leaving'[u] = "yes"
      BY <1>1, <1>2, <2>1, TypeOKParts DEF SessionInv
    <3> QED BY <1>1, <3>1 DEF SessionInv, TabKnows, Alone
  <2>2. CASE u # t
    <3>1. ~Alone(u)'
      BY <1>1, <1>2, <2>2 DEF Alone
    <3> QED BY <1>1, <3>1 DEF SessionInv, TabKnows, Alone
  <2> QED BY <2>1, <2>2
<1> QED BY <1>3, <1>4, <1>5 DEF SessionInv
-----------------------------------------------------------------------------
LEMMA SessionStep == SessionInv /\ [Next]_vars => SessionInv'
<1> SUFFICES ASSUME SessionInv, [Next]_vars PROVE SessionInv'
  OBVIOUS
<1>1. CASE UNCHANGED vars
  BY <1>1 DEF vars, tabVars, bounds, SessionInv, TypeOK, Tokens, CallKnows, TabKnows, Alone
<1>2. ASSUME NEW t \in Tabs, Open(t) \/ Reload(t) PROVE SessionInv'
  <2>1. loads' \in 0..MaxLoads
    BY <1>2, SessionAssumption, TypeOKParts DEF SessionInv, Open, Reload
  <2> QED BY <1>2, <2>1, LoadKeeps DEF Open, Reload
<1>5. ASSUME NEW t \in Tabs, StopLoad(t) \/ Logout(t) \/ Traverse(t) PROVE SessionInv'
  BY <1>5, StopLoadKeeps, LeaveKeeps, TraverseKeeps DEF Logout, Set
<1>3. ASSUME NEW c \in Calls, Poll(c) \/ SubmitLogin(c) \/ Serve(c) \/ Answer(c) \/ CallFails(c)
      PROVE  SessionInv'
  BY <1>3, PollKeeps, SubmitKeeps, ServePollKeeps, ServeLoginKeeps, ShowKeeps, LogInKeeps,
     UnauthorizedKeeps, CallFailsKeeps DEF Serve, Answer
<1>4. ASSUME NEW k \in alive, Expire(k) PROVE SessionInv'
  BY <1>4, ExpireKeeps
<1> QED BY <1>1, <1>2, <1>3, <1>4, <1>5 DEF Next

LEMMA SessionInvariant == Spec => []SessionInv
<1> QED BY SessionInit, SessionStep, PTL DEF Spec

\* Types; and ProtectedRoute shows no dashboard without a token (App.tsx).
THEOREM SessionTypes == Spec => []TypeOK
<1>1. SessionInv => TypeOK
  BY DEF SessionInv
<1> QED BY <1>1, SessionInvariant, PTL

\* The two copies of the token agree in a tab that is alone, whatever requests
\* are in flight, except after a 401 until /login is loaded or the user logs in
\* (AuthContext.tsx: login, logout; api.ts: the 401 interceptor).
THEOREM TokenCopiesAgree == Spec => []CopiesAgree
<1>1. SessionInv => CopiesAgree
  BY DEF SessionInv, TabKnows, CopiesAgree, Alone
<1> QED BY <1>1, SessionInvariant, PTL

\* The jobs a lone tab shows were asked for with a token that the dashboard on
\* the screen has held: none of an earlier dashboard's answers, whatever the user
\* does with the login form, Log Out, Back, Forward and Reload
\* (Dashboard.tsx: setJobs; AuthContext.tsx: login, logout; App.tsx: the router).
THEOREM NoForeignList == Spec => []ListBelongsToSession
<1>1. SessionInv => ListBelongsToSession
  BY DEF SessionInv, TabKnows, ListBelongsToSession, Alone
<1> QED BY <1>1, SessionInvariant, PTL
=============================================================================
