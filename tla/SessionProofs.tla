--------------------------- MODULE SessionProofs ---------------------------
(* Theorems about Sessions, for every value of its constants.              *)
EXTENDS SessionAudit, TLAPS

-----------------------------------------------------------------------------
(* The inductive invariant behind the safety properties. *)

\* Clients send what they were issued, and what was not has no life yet.
OnlyIssued ==
    /\ \A c \in Calls : /\ sent[c].access \in Issued \cup {NoToken}
                        /\ sent[c].refresh \in Issued \cup {NoToken}
    /\ sessions \subseteq Issued
    /\ \A t \in Tokens \ Issued : access[t] = 0

\* The guard's refresh, and the DEL of a logout, have a refresh token.
RefreshAtHand ==
    \A c \in Calls :
        pc[c] \in {"getSession", "delSession", "storeSession", "updateLastSeen", "delRefresh"} =>
            sent[c].refresh # NoToken

\* A blacklist entry ends before what it blocks by no more than its setting is
\* shorter than the token's.
EntryCoversLife ==
    \A t \in out : access[t] > 0 /\ access[t] + BlacklistTtl <= blacklist[jwt[t]] + AccessTtl

\* A JWT is as old as each pair that has it.
TwinsAge == \A t \in Issued : jwt[t] \in Issued /\ access[jwt[t]] = access[t]

\* A logout that has a refresh token is known as the end of its login.
LogoutBegun ==
    \A c \in Calls :
        pc[c] \in {"setBlacklist", "delRefresh"} /\ sent[c].refresh # NoToken =>
            root[sent[c].refresh] \in ending

SessionInvariant ==
    /\ TypeOK
    /\ OnlyIssued
    /\ RefreshAtHand
    /\ EntryCoversLife
    /\ TwinsAge
    /\ LogoutBegun

-----------------------------------------------------------------------------
(* What it takes to leave a session behind a logout. *)

\* A request is between the GET and the SET of a rotation.
Rotating(d) == pc[d] \in {"delSession", "storeSession"}

\* While a complete logout runs a rotation of its login does: its own, for which
\* the guard found its access token expired, or that of another request.
RotationBeside ==
    \E c \in complete, d \in Calls :
        ~At(c, "idle") /\ Rotating(d) /\ LoginOf(sent[d]) = LoginOf(sent[c])

SessionsOf(l) == {t \in sessions : root[t] = l}

\* While it runs a complete logout names the only session its login can have.
LogoutNamesSession ==
    \A c \in complete :
        ~At(c, "idle") =>
            /\ pc[c] \in {"verify", "getSession", "setBlacklist", "delRefresh"}
            /\ sent[c].refresh # NoToken
            /\ SessionsOf(root[sent[c].refresh]) \subseteq {sent[c].refresh}

\* A login that was logged out has no session, nor a request to store one.
LoggedOutIsOver ==
    \A l \in loggedOut :
        /\ \E t \in Tokens : root[t] = l
        /\ SessionsOf(l) = {}
        /\ \A c \in Calls : Rotating(c) => root[sent[c].refresh] # l

LogoutInvariant ==
    /\ SessionInvariant
    /\ complete \subseteq Calls
    /\ loggedOut \subseteq Logins
    /\ LogoutNamesSession
    /\ LoggedOutIsOver

-----------------------------------------------------------------------------
LEMMA InitSessions == Init => SessionInvariant
  BY SessionAssumption
     DEF Init, SessionInvariant, TypeOK, OnlyIssued, RefreshAtHand, EntryCoversLife, TwinsAge,
         LogoutBegun, Operations, Headers, Requests, NoHeaders, Issued

\* A pair is signed for a login: the rest of the state may change with it only
\* as far as calls and endings allow.
LEMMA IssueTokensTyping ==
  ASSUME SessionInvariant, NEW t \in Tokens, NEW login \in Logins, IssueTokens(t, login)
  PROVE  /\ access' \in [Tokens -> 0..AccessTtl]
         /\ jwt' \in [Tokens -> Tokens]
         /\ sessions' \subseteq Tokens
         /\ root' \in [Tokens -> Logins \cup {NoLogin}]
         /\ Issued' = Issued \cup {t}
         /\ TwinsAge'
         /\ \A s \in Issued : s # t /\ access'[s] = access[s] /\ jwt'[s] = jwt[s] /\ root'[s] = root[s]
<1> USE DEF SessionInvariant, TypeOK, IssueTokens, Fresh, Issued
<1>1. Recent \subseteq Tokens
  BY DEF Recent
<1>2. jwt' \in [Tokens -> Tokens]
  BY <1>1
<1>3. access' \in [Tokens -> 0..AccessTtl]
  BY SessionAssumption
<1>4. root' \in [Tokens -> Logins \cup {NoLogin}]
  OBVIOUS
<1>5. Issued' = Issued \cup {t}
  BY SessionAssumption
<1>6. /\ access' = [access EXCEPT ![t] = AccessTtl]
      /\ \A s \in Issued : s # t /\ jwt'[s] = jwt[s] /\ jwt[s] # t
  BY DEF TwinsAge
<1>7. jwt'[t] = t \/ \E s \in Issued : access[s] = AccessTtl /\ jwt'[t] = jwt[s]
  BY DEF Recent
<1>8. TwinsAge'
  <2> HIDE DEF IssueTokens, Issued
  <2> QED BY <1>5, <1>6, <1>7 DEF TwinsAge
<1> QED BY <1>2, <1>3, <1>4, <1>5, <1>8

LEMMA LoginSessions ==
  ASSUME SessionInvariant, NEW l \in Logins, NEW t \in Tokens, Login(l, t)
  PROVE  SessionInvariant'
<1> USE DEF SessionInvariant
<1>1. IssueTokens(t, l) /\ ending' = ending \ {l} /\ UNCHANGED <<blacklist, pc, sent, out>>
      /\ \A s \in Tokens : root[s] # l
  BY DEF Login
<1>2. TypeOK'
  BY <1>1, IssueTokensTyping DEF TypeOK
<1>3. OnlyIssued'
  <2>1. /\ Issued' = Issued \cup {t}
        /\ access' = [access EXCEPT ![t] = AccessTtl]
        /\ sessions' = sessions \cup {t}
        /\ UNCHANGED sent
    BY <1>1, IssueTokensTyping DEF IssueTokens
  <2> QED BY <2>1 DEF OnlyIssued, TypeOK
<1>4. EntryCoversLife'
  BY <1>1, IssueTokensTyping DEF EntryCoversLife, OnlyIssued, TypeOK
<1>5. RefreshAtHand' /\ LogoutBegun' /\ TwinsAge'
  BY <1>1, IssueTokensTyping DEF RefreshAtHand, LogoutBegun, OnlyIssued, Issued
<1> QED BY <1>2, <1>3, <1>4, <1>5

\* A call starts with headers that were issued, or ends; no token is touched.
LEMMA BeginSessions ==
  ASSUME SessionInvariant, NEW c \in Calls, NEW request \in Requests,
         NEW operation \in {"verify", "setBlacklist"},
         request.access \in Issued \cup {NoToken}, request.refresh \in Issued \cup {NoToken},
         operation = "setBlacklist" /\ request.refresh # NoToken => root[request.refresh] \in ending',
         Begin(c, request, operation) \/ Answer(c),
         UNCHANGED <<redis, out>>, ending \subseteq ending', ending' \subseteq Logins
  PROVE  SessionInvariant'
<1> USE DEF SessionInvariant, Begin, Answer, redis
<1>1. NoHeaders \in Requests /\ NoHeaders.access = NoToken /\ NoHeaders.refresh = NoToken
  BY DEF NoHeaders, Requests, Headers
<1>2. TypeOK'
  BY <1>1 DEF TypeOK, Operations
<1>3. OnlyIssued'
  BY <1>1 DEF TypeOK, OnlyIssued, Issued
<1>4. RefreshAtHand' /\ LogoutBegun'
  BY <1>1 DEF TypeOK, RefreshAtHand, LogoutBegun
<1>5. EntryCoversLife' /\ TwinsAge'
  BY DEF EntryCoversLife, TwinsAge, Issued
<1> QED BY <1>2, <1>3, <1>4, <1>5

LEMMA RequestTyped ==
  ASSUME NEW request \in ClientRequests
  PROVE  /\ request \in Requests
         /\ request.access \in Issued \cup {NoToken}
         /\ request.refresh \in Issued \cup {NoToken}
  BY DEF ClientRequests, Requests, Headers, Issued

LEMMA RequestSessions ==
  ASSUME SessionInvariant, NEW c \in Calls, NEW request \in ClientRequests,
         Request(c, request) \/ KeyRequest(c, request)
  PROVE  SessionInvariant'
<1>1. CASE Request(c, request)
  BY <1>1, RequestTyped, BeginSessions DEF Request, history, SessionInvariant, TypeOK
<1>2. CASE KeyRequest(c, request)
  <2>1. ending' = ending \cup {root[h] : h \in TokensOf(request)} /\ ending \subseteq Logins
    BY <1>2 DEF KeyRequest, SessionInvariant, TypeOK
  <2>2. \A h \in TokensOf(request) : root[h] \in Logins
    BY RequestTyped DEF TokensOf, Issued, SessionInvariant, TypeOK
  <2>3. request.refresh # NoToken => request.refresh \in TokensOf(request)
    BY DEF TokensOf
  <2>4. /\ ending \subseteq ending' /\ ending' \subseteq Logins
        /\ request.refresh # NoToken => root[request.refresh] \in ending'
    BY <2>1, <2>2, <2>3
  <2> QED BY <1>2, <2>4, RequestTyped, BeginSessions DEF KeyRequest
<1> QED BY <1>1, <1>2

\* What going on to another operation, or ending, makes of a call.
LEMMA ContinueFrame ==
  ASSUME TypeOK, NEW c \in Calls, NEW operation \in Operations,
         Continue(c, operation) \/ Answer(c)
  PROVE  /\ pc' \in [Calls -> Operations \cup {"idle"}]
         /\ sent' \in [Calls -> Requests]
         /\ \A d \in Calls : d # c => pc'[d] = pc[d] /\ sent'[d] = sent[d]
         /\ \/ pc'[c] = "idle" /\ sent'[c].access = NoToken /\ sent'[c].refresh = NoToken
            \/ /\ pc'[c] = operation
               /\ sent'[c].refresh = sent[c].refresh
               /\ sent'[c].access \in {sent[c].access, NoToken}
<1> USE DEF TypeOK
<1>1. /\ NoHeaders \in Requests
      /\ NoHeaders.access = NoToken
      /\ NoHeaders.refresh = NoToken
  BY DEF NoHeaders, Requests, Headers
<1>2. CASE Answer(c)
  BY <1>1, <1>2 DEF Answer
<1>3. CASE Continue(c, operation)
  <2> DEFINE dropped == [sent[c] EXCEPT !.access = NoToken]
  <2>1. /\ dropped \in Requests
        /\ dropped.access = NoToken
        /\ dropped.refresh = sent[c].refresh
    BY DEF Requests, Headers
  <2>2. sent' = sent \/ sent' = [sent EXCEPT ![c] = dropped]
    BY <1>3 DEF Continue
  <2>3. pc' = [pc EXCEPT ![c] = operation]
    BY <1>3 DEF Continue
  <2> HIDE DEF dropped
  <2> QED BY <2>1, <2>2, <2>3
<1> QED BY <1>2, <1>3

\* A call goes on to an operation its headers are good for, or ends.
LEMMA ContinueSessions ==
  ASSUME SessionInvariant, NEW c \in Calls, NEW operation \in Operations,
         Continue(c, operation) \/ Answer(c),
         operation \in {"getSession", "delSession", "storeSession", "updateLastSeen", "delRefresh"}
           => sent[c].refresh # NoToken,
         operation \in {"setBlacklist", "delRefresh"} /\ sent[c].refresh # NoToken
           => root[sent[c].refresh] \in ending',
         UNCHANGED <<access, jwt, root, blacklist, out>>, sessions' \subseteq sessions,
         ending \subseteq ending', ending' \subseteq Logins
  PROVE  SessionInvariant'
<1> USE DEF SessionInvariant
<1>1. TypeOK'
  BY ContinueFrame DEF TypeOK
<1>2. OnlyIssued'
  BY ContinueFrame DEF OnlyIssued, Issued
<1>3. RefreshAtHand'
  BY ContinueFrame DEF RefreshAtHand
<1>4. LogoutBegun'
  BY ContinueFrame DEF LogoutBegun
<1>5. EntryCoversLife' /\ TwinsAge'
  BY DEF EntryCoversLife, TwinsAge, Issued
<1> QED BY <1>1, <1>2, <1>3, <1>4, <1>5

\* The guard lets a call with a token through.
LEMMA AdmitSessions ==
  ASSUME SessionInvariant, NEW c \in Calls, Admit(c), UNCHANGED redis,
         sent[c].access # NoToken \/ sent[c].refresh # NoToken
  PROVE  SessionInvariant'
<1> USE DEF SessionInvariant
<1>1. LoginOf(sent[c]) \in Logins
  BY DEF LoginOf, OnlyIssued, Issued, TypeOK
<1>2. sent[c].refresh # NoToken => LoginOf(sent[c]) = root[sent[c].refresh]
  BY DEF LoginOf
<1>3. CASE Continue(c, "setBlacklist") /\ ending' = ending \cup {LoginOf(sent[c])} /\ UNCHANGED out
  BY <1>1, <1>2, <1>3, ContinueSessions DEF TypeOK, Operations, redis
<1>4. CASE Answer(c) /\ UNCHANGED history
  BY <1>4, ContinueSessions DEF TypeOK, Operations, redis, history
<1> QED BY <1>3, <1>4 DEF Admit

LEMMA VerifySessions ==
  ASSUME SessionInvariant, NEW c \in Calls, Verify(c)
  PROVE  SessionInvariant'
<1>1. CASE ValidAccess(sent[c].access)
  BY <1>1, AdmitSessions DEF Verify, ValidAccess
<1>2. CASE ~ValidAccess(sent[c].access)
  BY <1>2, ContinueSessions DEF Verify, Operations, redis, history, SessionInvariant, TypeOK
<1> QED BY <1>1, <1>2

LEMMA GetSessionSessions ==
  ASSUME SessionInvariant, NEW c \in Calls, GetSession(c)
  PROVE  SessionInvariant'
  BY ContinueSessions DEF GetSession, At, Operations, redis, history, SessionInvariant, TypeOK, RefreshAtHand

\* A call drops its old session.
LEMMA DropSessionSessions ==
  ASSUME SessionInvariant, NEW c \in Calls, DelSession(c) \/ DelRefresh(c)
  PROVE  SessionInvariant'
  BY ContinueSessions DEF DelSession, DelRefresh, At, Operations, history, SessionInvariant,
     TypeOK, RefreshAtHand

LEMMA StoreSessionSessions ==
  ASSUME SessionInvariant, NEW c \in Calls, StoreSession(c)
  PROVE  SessionInvariant'
<1> USE DEF SessionInvariant
<1>1. sent[c].refresh \in Issued
  BY DEF StoreSession, At, RefreshAtHand, OnlyIssued
<1>2. PICK t \in Fresh : IssueTokens(t, root[sent[c].refresh])
  BY DEF StoreSession
<1>3. t \in Tokens /\ root[sent[c].refresh] \in Logins
  BY <1>1 DEF Fresh, Issued, TypeOK
<1>4. /\ access' \in [Tokens -> 0..AccessTtl]
      /\ jwt' \in [Tokens -> Tokens]
      /\ sessions' \subseteq Tokens
      /\ root' \in [Tokens -> Logins \cup {NoLogin}]
      /\ Issued' = Issued \cup {t}
      /\ TwinsAge'
      /\ \A s \in Issued : s # t /\ access'[s] = access[s] /\ jwt'[s] = jwt[s] /\ root'[s] = root[s]
  BY <1>2, <1>3, IssueTokensTyping
<1>5. /\ access' = [access EXCEPT ![t] = AccessTtl]
      /\ sessions' = sessions \cup {t}
      /\ Continue(c, "updateLastSeen")
      /\ UNCHANGED <<blacklist, out, ending>>
  BY <1>2 DEF IssueTokens, StoreSession, history
<1>6. "updateLastSeen" \in Operations
  BY DEF Operations
<1>7. TypeOK'
  BY <1>4, <1>5, <1>6, ContinueFrame DEF TypeOK
<1>8. OnlyIssued'
  BY <1>4, <1>5, <1>6, ContinueFrame DEF OnlyIssued, TypeOK
<1>9. RefreshAtHand'
  BY <1>1, <1>5, <1>6, ContinueFrame, SessionAssumption DEF RefreshAtHand, Issued
<1>10. LogoutBegun'
  BY <1>4, <1>5, <1>6, ContinueFrame DEF LogoutBegun, OnlyIssued
<1>11. EntryCoversLife'
  BY <1>4, <1>5 DEF EntryCoversLife, OnlyIssued, TypeOK
<1> QED BY <1>4, <1>7, <1>8, <1>9, <1>10, <1>11

LEMMA UpdateLastSeenSessions ==
  ASSUME SessionInvariant, NEW c \in Calls, UpdateLastSeen(c)
  PROVE  SessionInvariant'
  BY AdmitSessions DEF UpdateLastSeen, At, SessionInvariant, RefreshAtHand

\* The entry is set anew, whichever pair its JWT stands for.
LEMMA SetBlacklistSessions ==
  ASSUME SessionInvariant, NEW c \in Calls, SetBlacklist(c)
  PROVE  SessionInvariant'
<1> USE DEF SessionInvariant
<1>1. /\ Continue(c, "delRefresh") \/ Answer(c)
      /\ sent[c].refresh = NoToken => Answer(c)
      /\ pc[c] = "setBlacklist"
      /\ UNCHANGED <<access, jwt, sessions, root, ending>>
  BY DEF SetBlacklist, At
<1>2. "delRefresh" \in Operations
  BY DEF Operations
<1>3. Entry(sent[c].access) \in Headers
  BY DEF Entry, TypeOK, Requests, Headers
<1>4. blacklist' = [blacklist EXCEPT ![Entry(sent[c].access)] = BlacklistTtl]
      /\ BlacklistTtl \in Nat
  BY SessionAssumption DEF SetBlacklist, EntryLife
<1>5. out' = out \cup {t \in Tokens : t = sent[c].access /\ access[t] > 0}
  BY DEF SetBlacklist
<1>6. TypeOK'
  BY <1>1, <1>2, <1>3, <1>4, <1>5, ContinueFrame DEF TypeOK
<1>7. OnlyIssued'
  BY <1>1, <1>2, ContinueFrame DEF OnlyIssued, Issued
<1>8. RefreshAtHand' /\ LogoutBegun'
  BY <1>1, <1>2, ContinueFrame, SessionAssumption DEF RefreshAtHand, LogoutBegun, Answer, TypeOK
<1>9. EntryCoversLife'
  <2>1. ASSUME NEW t \in out'
        PROVE  access[t] > 0 /\ access[t] + BlacklistTtl <= blacklist'[jwt[t]] + AccessTtl
    <3>1. t \in Tokens /\ jwt[t] \in Headers /\ access[t] \in 0..AccessTtl
      BY <1>5 DEF TypeOK, Headers
    <3>2. CASE t \in out
      <4>1. access[t] > 0 /\ access[t] + BlacklistTtl <= blacklist[jwt[t]] + AccessTtl
        BY <3>2 DEF EntryCoversLife
      <4>2. /\ blacklist'[jwt[t]] \in {blacklist[jwt[t]], BlacklistTtl}
            /\ blacklist[jwt[t]] \in 0..BlacklistTtl
        BY <1>4, <3>1 DEF TypeOK
      <4> QED BY <3>1, <4>1, <4>2, SessionAssumption
    <3>3. CASE t = sent[c].access /\ access[t] > 0
      <4>1. Entry(sent[c].access) = jwt[t]
        BY <3>1, <3>3, SessionAssumption DEF Entry
      <4> QED BY <1>3, <1>4, <3>1, <3>3, <4>1, SessionAssumption DEF TypeOK
    <3> QED BY <1>5, <2>1, <3>2, <3>3
  <2> QED BY <1>1, <2>1 DEF EntryCoversLife
<1>10. TwinsAge'
  BY <1>1 DEF TwinsAge, Issued
<1> QED BY <1>6, <1>7, <1>8, <1>9, <1>10

LEMMA FailSessions ==
  ASSUME SessionInvariant, NEW c \in Calls, Fail(c)
  PROVE  SessionInvariant'
<1>1. Answer(c) /\ UNCHANGED <<redis, history>> /\ "verify" \in Operations
  BY DEF Fail, Operations
<1> QED BY <1>1, ContinueSessions DEF redis, history, SessionInvariant, TypeOK

LEMMA TickSessions ==
  ASSUME SessionInvariant, Tick
  PROVE  SessionInvariant'
<1> USE DEF SessionInvariant, Tick, Older
<1>1. TypeOK'
  BY SessionAssumption DEF TypeOK, Headers
<1>2. OnlyIssued' /\ RefreshAtHand' /\ LogoutBegun'
  BY DEF OnlyIssued, RefreshAtHand, LogoutBegun, Issued
<1>3. EntryCoversLife'
  BY SessionAssumption DEF EntryCoversLife, TypeOK, Headers
<1>4. TwinsAge'
  BY DEF TwinsAge, TypeOK, Issued
<1> QED BY <1>1, <1>2, <1>3, <1>4

LEMMA NextSessions == SessionInvariant /\ [Next]_vars => SessionInvariant'
<1> SUFFICES ASSUME SessionInvariant, [Next]_vars
             PROVE  SessionInvariant'
  OBVIOUS
<1>1. CASE \E l \in Logins, t \in Tokens : Login(l, t)
  BY <1>1, LoginSessions
<1>2. CASE \E c \in Calls : Step(c) \/ Fail(c)
  BY <1>2, VerifySessions, GetSessionSessions, DropSessionSessions, StoreSessionSessions,
     UpdateLastSeenSessions, SetBlacklistSessions, FailSessions DEF Step
<1>3. CASE Tick
  BY <1>3, TickSessions
<1>4. CASE UNCHANGED vars
  BY <1>4 DEF vars, SessionInvariant, TypeOK, OnlyIssued, RefreshAtHand, EntryCoversLife,
     TwinsAge, LogoutBegun, Issued
<1>5. CASE \E c \in Calls :
           \/ \E request \in ClientRequests : Request(c, request) \/ KeyRequest(c, request)
           \/ DelRefresh(c)
  BY <1>5, RequestSessions, DropSessionSessions
<1> QED BY <1>1, <1>2, <1>3, <1>4, <1>5 DEF Next, Between, Exhausted

\* Tokens, sessions, blacklist and running requests fit together in every
\* reachable state, for any numbers of logins, pairs and overlapping requests,
\* any lifetimes of tokens and of blacklist entries, any faults.
THEOREM SessionsCorrect == Spec => []SessionInvariant
  BY InitSessions, NextSessions, PTL DEF Spec

\* Every variable of the guard, refresh and logout keeps its type.
THEOREM SessionTypes == Spec => []TypeOK
<1>1. SessionInvariant => TypeOK
  BY DEF SessionInvariant
<1> QED BY <1>1, SessionsCorrect, PTL

\* What a logout has blacklisted stays blocked.
LEMMA OutBlocked ==
  ASSUME SessionInvariant, NEW t \in out
  PROVE  Blocked(t)
<1>1. t \in Tokens /\ jwt[t] \in Headers
  BY DEF SessionInvariant, TypeOK, Headers
<1>2. /\ access[t] \in Int /\ blacklist[jwt[t]] \in Nat
      /\ access[t] + BlacklistTtl <= blacklist[jwt[t]] + AccessTtl
  BY <1>1 DEF SessionInvariant, TypeOK, EntryCoversLife
<1> QED BY <1>2, SessionAssumption DEF Blocked

\* For any two settings of the lifetimes, whenever in the life of an access token
\* its logouts come, and whatever other pairs share its JWT: once blacklisted it is
\* let in again only when it is BlacklistTtl old or older.  The hazard of settings
\* that differ is that much and no more.
THEOREM BlacklistedForLife == Spec => []BlacklistOutlivesToken
<1>1. SessionInvariant => BlacklistOutlivesToken
  BY OutBlocked DEF BlacklistOutlivesToken
<1> QED BY <1>1, SessionsCorrect, PTL

-----------------------------------------------------------------------------
(* A login keeps a session.                                                 *)

StoreReliable == "storeSession" \notin Faults

\* What LoginSurvives asks of one login.
HasSession(l) ==
    \/ \E t \in sessions : root[t] = l
    \/ \E c \in Calls : At(c, "storeSession") /\ LoginOf(sent[c]) = l

\* A step that keeps roots, every session of the login and every request about
\* to store one keeps the login.
LEMMA KeepsSession ==
  ASSUME NEW l \in Logins, HasSession(l),
         \A t \in sessions : root[t] = l => t \in sessions' /\ root'[t] = l,
         \A c \in Calls : At(c, "storeSession") /\ LoginOf(sent[c]) = l =>
             At(c, "storeSession")' /\ LoginOf(sent[c])' = l
  PROVE  HasSession(l)'
  BY DEF HasSession

\* Without a step of its own a request goes on awaiting what it awaits.
LEMMA OthersWait ==
  ASSUME SessionInvariant, NEW c \in Calls, NEW l \in Logins,
         \A d \in Calls \ {c} : pc'[d] = pc[d] /\ sent'[d] = sent[d],
         \A t \in Issued : root'[t] = root[t],
         ~At(c, "storeSession")
  PROVE  \A d \in Calls : At(d, "storeSession") /\ LoginOf(sent[d]) = l =>
             At(d, "storeSession")' /\ LoginOf(sent[d])' = l
<1> SUFFICES ASSUME NEW d \in Calls, At(d, "storeSession"), LoginOf(sent[d]) = l
             PROVE  At(d, "storeSession")' /\ LoginOf(sent[d])' = l
  OBVIOUS
<1>1. d # c /\ sent[d].refresh \in Issued /\ sent[d].refresh # NoToken
  BY DEF SessionInvariant, RefreshAtHand, OnlyIssued, At
<1> QED BY <1>1 DEF At, LoginOf

LEMMA StepSurvives ==
  ASSUME StoreReliable, SessionInvariant, NEW l \in Logins \ ending', HasSession(l), NEW c \in Calls,
         Step(c) \/ DelRefresh(c) \/ Fail(c)
  PROVE  HasSession(l)'
<1> USE DEF SessionInvariant, redis, history
<1>1. \A d \in Calls \ {c} : pc'[d] = pc[d] /\ sent'[d] = sent[d]
  BY DEF Step, Verify, GetSession, DelSession, StoreSession, UpdateLastSeen, SetBlacklist, DelRefresh,
     Fail, Admit, Continue, Answer, TypeOK
<1>2. CASE Verify(c) \/ GetSession(c) \/ UpdateLastSeen(c) \/ SetBlacklist(c) \/ Fail(c)
  <2>1. UNCHANGED <<sessions, root>> /\ ~At(c, "storeSession")
    BY <1>2 DEF Verify, GetSession, UpdateLastSeen, SetBlacklist, Fail, At, StoreReliable
  <2> QED BY <1>1, <2>1, OthersWait, KeepsSession
<1>3. CASE DelSession(c)
  <2>1. /\ UNCHANGED root
        /\ sessions' = sessions \ {sent[c].refresh}
        /\ pc[c] = "delSession"
        /\ Continue(c, "storeSession")
        /\ sent[c].refresh # NoToken
    BY <1>3 DEF DelSession, At, RefreshAtHand
  <2>2. CASE sent[c].refresh \in sessions /\ root[sent[c].refresh] = l
    <3>1. "storeSession" \in Operations
      BY DEF Operations
    <3>2. At(c, "storeSession")' /\ sent'[c].refresh = sent[c].refresh
      BY <2>1, <3>1, ContinueFrame DEF At, Continue, TypeOK
    <3>3. LoginOf(sent[c])' = l
      BY <2>1, <2>2, <3>2 DEF LoginOf
    <3> QED BY <3>2, <3>3 DEF HasSession
  <2>3. CASE ~(sent[c].refresh \in sessions /\ root[sent[c].refresh] = l)
    <3>1. ~At(c, "storeSession")
      BY <2>1 DEF At
    <3> QED BY <1>1, <2>1, <2>3, <3>1, OthersWait, KeepsSession
  <2> QED BY <2>2, <2>3
<1>4. CASE StoreSession(c)
  <2>1. sent[c].refresh \in Issued /\ sent[c].refresh # NoToken
    BY <1>4, SessionAssumption DEF StoreSession, At, RefreshAtHand, OnlyIssued, Issued
  <2>2. PICK t \in Fresh : IssueTokens(t, root[sent[c].refresh])
    BY <1>4 DEF StoreSession
  <2>3. /\ sessions' = sessions \cup {t}
        /\ root' = [root EXCEPT ![t] = root[sent[c].refresh]]
        /\ t \in Tokens \ Issued
    BY <2>2 DEF IssueTokens, Fresh
  <2>4. CASE LoginOf(sent[c]) = l
    BY <2>1, <2>3, <2>4 DEF HasSession, LoginOf, TypeOK
  <2>5. CASE LoginOf(sent[c]) # l
    <3>1. \A s \in Issued : root'[s] = root[s]
      BY <2>3 DEF TypeOK
    <3>2. \A d \in Calls : At(d, "storeSession") /\ LoginOf(sent[d]) = l =>
             At(d, "storeSession")' /\ LoginOf(sent[d])' = l
      <4> SUFFICES ASSUME NEW d \in Calls, At(d, "storeSession"), LoginOf(sent[d]) = l
                   PROVE  At(d, "storeSession")' /\ LoginOf(sent[d])' = l
        OBVIOUS
      <4>1. sent[d].refresh \in Issued /\ sent[d].refresh # NoToken
        BY DEF RefreshAtHand, OnlyIssued, At
      <4> QED BY <1>1, <2>5, <3>1, <4>1 DEF At, LoginOf
    <3> QED BY <2>3, <3>1, <3>2, KeepsSession DEF OnlyIssued
  <2> QED BY <2>4, <2>5
<1>5. CASE DelRefresh(c)
  <2>1. /\ UNCHANGED <<root, ending>>
        /\ sessions' = sessions \ {sent[c].refresh}
        /\ pc[c] = "delRefresh"
    BY <1>5 DEF DelRefresh, At
  <2>2. root[sent[c].refresh] # l
    BY <2>1 DEF RefreshAtHand, LogoutBegun
  <2>3. ~At(c, "storeSession")
    BY <2>1 DEF At
  <2> QED BY <1>1, <2>1, <2>2, <2>3, OthersWait, KeepsSession
<1> QED BY <1>2, <1>3, <1>4, <1>5 DEF Step

LEMMA ArrivalSurvives ==
  ASSUME SessionInvariant, NEW l \in Logins, HasSession(l), NEW c \in Calls,
         \E request \in ClientRequests : Request(c, request) \/ KeyRequest(c, request)
  PROVE  HasSession(l)'
<1>1. /\ UNCHANGED <<sessions, root>>
      /\ ~At(c, "storeSession")
      /\ \A d \in Calls \ {c} : pc'[d] = pc[d] /\ sent'[d] = sent[d]
  BY DEF Request, KeyRequest, Begin, Answer, At, redis, SessionInvariant, TypeOK
<1> QED BY <1>1, OthersWait, KeepsSession

\* Only a login starts a chain of pairs, and nothing else takes an ending back.
LEMMA NoNewChain ==
  ASSUME SessionInvariant, [Next]_vars, ~\E l \in Logins, t \in Tokens : Login(l, t)
  PROVE  /\ \A t \in Tokens : root'[t] # NoLogin => \E s \in Tokens : root[s] = root'[t]
         /\ ending \subseteq ending'
<1> USE DEF redis, history
<1>1. CASE \E c \in Calls : StoreSession(c)
  <2>1. PICK c \in Calls : StoreSession(c)
    BY <1>1
  <2>2. sent[c].refresh \in Tokens /\ UNCHANGED ending
    BY <2>1, SessionAssumption
       DEF StoreSession, At, SessionInvariant, RefreshAtHand, OnlyIssued, Issued
  <2>3. PICK t \in Fresh : root' = [root EXCEPT ![t] = root[sent[c].refresh]]
    BY <2>1 DEF StoreSession, IssueTokens
  <2> QED BY <2>2, <2>3 DEF SessionInvariant, TypeOK
<1>2. CASE ~\E c \in Calls : StoreSession(c)
  BY <1>2 DEF Next, Between, Step, Verify, GetSession, DelSession, UpdateLastSeen, SetBlacklist,
     DelRefresh, Fail, Tick, Exhausted, Request, KeyRequest, Admit, vars
<1> QED BY <1>1, <1>2

LEMMA NextSurvives ==
  ASSUME StoreReliable, SessionInvariant, LoginSurvives, [Next]_vars
  PROVE  LoginSurvives'
<1> SUFFICES ASSUME NEW l \in Logins \ ending', \E t \in Tokens : root'[t] = l
             PROVE  HasSession(l)'
  BY DEF LoginSurvives, HasSession
<1>1. CASE \E m \in Logins, t \in Tokens : Login(m, t)
  <2>1. PICK m \in Logins, t \in Tokens : Login(m, t)
    BY <1>1
  <2>2. /\ sessions' = sessions \cup {t}
        /\ root' = [root EXCEPT ![t] = m]
        /\ t \in Tokens \ Issued
        /\ ending' = ending \ {m}
        /\ UNCHANGED <<pc, sent>>
    BY <2>1 DEF Login, IssueTokens, Fresh
  <2>3. CASE l = m
    BY <2>2, <2>3 DEF HasSession, SessionInvariant, TypeOK
  <2>4. CASE l # m
    <3>1. HasSession(l)
      BY <2>2, <2>4 DEF LoginSurvives, HasSession, SessionInvariant, TypeOK
    <3>2. \A s \in Issued : root'[s] = root[s]
      BY <2>2 DEF SessionInvariant, TypeOK
    <3>3. \A c \in Calls : At(c, "storeSession") /\ LoginOf(sent[c]) = l =>
             At(c, "storeSession")' /\ LoginOf(sent[c])' = l
      <4> SUFFICES ASSUME NEW c \in Calls, At(c, "storeSession"), LoginOf(sent[c]) = l
                   PROVE  At(c, "storeSession")' /\ LoginOf(sent[c])' = l
        OBVIOUS
      <4>1. sent[c].refresh \in Issued /\ sent[c].refresh # NoToken
        BY DEF SessionInvariant, RefreshAtHand, OnlyIssued, At
      <4> QED BY <2>2, <3>2, <4>1 DEF At, LoginOf
    <3> QED BY <2>2, <3>1, <3>2, <3>3, KeepsSession DEF SessionInvariant, OnlyIssued
  <2> QED BY <2>3, <2>4
<1>2. CASE ~\E m \in Logins, t \in Tokens : Login(m, t)
  <2>1. HasSession(l)
    BY <1>2, NoNewChain, SessionAssumption DEF LoginSurvives, HasSession
  <2>2. CASE \E c \in Calls : Step(c) \/ DelRefresh(c) \/ Fail(c)
    BY <2>1, <2>2, StepSurvives
  <2>3. CASE \E c \in Calls : \E request \in ClientRequests : Request(c, request) \/ KeyRequest(c, request)
    BY <2>1, <2>3, ArrivalSurvives
  <2>4. CASE Tick \/ UNCHANGED vars
    BY <2>1, <2>4 DEF HasSession, Tick, vars, At, LoginOf
  <2> QED BY <1>2, <2>2, <2>3, <2>4 DEF Next, Between, Exhausted
<1> QED BY <1>1, <1>2

\* Where the SET of a rotation cannot fail, a login that has not begun to log
\* out keeps a refresh session, or a request about to store one: however many
\* requests rotate the same token, replay an old one or die half-way.
THEOREM LoginNeverLost == StoreReliable /\ Spec => []LoginSurvives
<1>1. Init => LoginSurvives
  BY SessionAssumption DEF Init, LoginSurvives
<1>2. StoreReliable /\ SessionInvariant /\ LoginSurvives /\ [Next]_vars => LoginSurvives'
  BY NextSurvives
<1>3. StoreReliable => StoreReliable'
  BY DEF StoreReliable
<1> QED BY <1>1, <1>2, <1>3, SessionsCorrect, PTL DEF Spec

-----------------------------------------------------------------------------
(* What a logout leaves.                                                    *)

\* The token of a running rotation or DEL was issued.
LEMMA TokenOfCall ==
  ASSUME SessionInvariant, NEW d \in Calls,
         pc[d] \in {"getSession", "delSession", "storeSession", "updateLastSeen", "delRefresh"}
  PROVE  /\ sent[d].refresh \in Issued
         /\ sent[d].refresh # NoToken
         /\ LoginOf(sent[d]) = root[sent[d].refresh]
  BY DEF SessionInvariant, RefreshAtHand, OnlyIssued, LoginOf

\* What a step leaves to the calls of others, and of the one that takes it.
OthersStay(c) == \A d \in Calls \ {c} : pc'[d] = pc[d] /\ sent'[d] = sent[d]

\* A request goes on, or ends, and no session is added; it rotates only with a
\* token it has found.
LEMMA QuietLogout ==
  ASSUME LogoutInvariant, UNCHANGED <<root, complete, loggedOut>>, sessions' \subseteq sessions,
         SessionInvariant', NEW c \in Calls, OthersStay(c),
         \/ pc'[c] = "idle"
         \/ /\ sent'[c].refresh = sent[c].refresh
            /\ Rotating(c)' => Rotating(c) \/ sent[c].refresh \in sessions
            /\ c \in complete =>
                 pc[c] # "idle" /\ pc'[c] \in {"verify", "getSession", "setBlacklist", "delRefresh"}
  PROVE  LogoutInvariant'
<1> USE DEF LogoutInvariant, At, OthersStay
<1>1. LogoutNamesSession'
  BY DEF LogoutNamesSession, SessionsOf
<1>2. ASSUME NEW l \in loggedOut, NEW d \in Calls, Rotating(d)'
      PROVE  root[sent'[d].refresh] # l
  BY <1>2 DEF LoggedOutIsOver, SessionsOf, Rotating
<1>3. LoggedOutIsOver'
  BY <1>2 DEF LoggedOutIsOver, SessionsOf
<1> QED BY <1>1, <1>3

\* A pair is signed for a login that was not logged out and that no complete
\* logout is to end.
LEMMA IssueLogout ==
  ASSUME LogoutInvariant, SessionInvariant', UNCHANGED <<complete, loggedOut>>,
         NEW login \in Logins \ loggedOut, NEW t \in Fresh, IssueTokens(t, login),
         \A c \in complete : ~At(c, "idle") => root[sent[c].refresh] # login,
         \A d \in Calls : \/ pc'[d] = pc[d] /\ sent'[d] = sent[d]
                          \/ pc'[d] = "updateLastSeen" /\ d \notin complete
  PROVE  LogoutInvariant'
<1> USE DEF LogoutInvariant, At
<1>1. /\ sessions' = sessions \cup {t}
      /\ root' = [root EXCEPT ![t] = login]
      /\ t \in Tokens /\ t \notin Issued
  BY DEF IssueTokens, Fresh
<1>2. /\ \A s \in Issued : root'[s] = root[s] /\ s # t
      /\ root'[t] = login
      /\ sessions \subseteq Issued
  BY <1>1 DEF SessionInvariant, TypeOK, OnlyIssued
<1>3. \A l : l # login => SessionsOf(l)' = SessionsOf(l)
  BY <1>1, <1>2 DEF SessionsOf
<1>4. LogoutNamesSession'
  <2> SUFFICES ASSUME NEW c \in complete, pc'[c] # "idle"
               PROVE  /\ pc'[c] \in {"verify", "getSession", "setBlacklist", "delRefresh"}
                      /\ sent'[c].refresh # NoToken
                      /\ SessionsOf(root[sent[c].refresh])' \subseteq {sent'[c].refresh}
    BY DEF LogoutNamesSession
  <2>1. /\ pc'[c] = pc[c] /\ sent'[c] = sent[c]
        /\ sent[c].refresh \in Issued
    BY DEF LogoutNamesSession, SessionInvariant, OnlyIssued
  <2>2. root'[sent[c].refresh] = root[sent[c].refresh] /\ root[sent[c].refresh] # login
    BY <1>2, <2>1
  <2>3. SessionsOf(root[sent[c].refresh])' = SessionsOf(root[sent[c].refresh])
    BY <1>3, <2>2
  <2> QED BY <2>1, <2>2, <2>3 DEF LogoutNamesSession
<1>5. ASSUME NEW d \in Calls, Rotating(d)'
      PROVE  Rotating(d) /\ root'[sent'[d].refresh] = root[sent[d].refresh]
  <2>1. Rotating(d) /\ sent'[d] = sent[d]
    BY <1>5 DEF Rotating
  <2> QED BY <1>2, <2>1, TokenOfCall DEF Rotating
<1>6. \A l \in loggedOut : \E s \in Tokens : root'[s] = l
  BY <1>2, SessionAssumption DEF LoggedOutIsOver, Issued
<1>7. LoggedOutIsOver'
  BY <1>3, <1>5, <1>6 DEF LoggedOutIsOver
<1> QED BY <1>4, <1>7

LEMMA LoginLogout ==
  ASSUME LogoutInvariant, SessionInvariant', UNCHANGED auditVars,
         NEW l \in Logins, NEW t \in Tokens, Login(l, t)
  PROVE  LogoutInvariant'
<1>1. /\ t \in Fresh
      /\ IssueTokens(t, l)
      /\ \A s \in Tokens : root[s] # l
      /\ UNCHANGED <<pc, sent>>
  BY DEF Login, IssueTokens
<1>2. l \notin loggedOut
  BY <1>1 DEF LogoutInvariant, LoggedOutIsOver
<1>3. \A c \in complete : ~At(c, "idle") => root[sent[c].refresh] # l
  BY <1>1 DEF LogoutInvariant, LogoutNamesSession, SessionInvariant, OnlyIssued, Issued
<1> QED BY <1>1, <1>2, <1>3, IssueLogout DEF auditVars

LEMMA StoreLogout ==
  ASSUME LogoutInvariant, SessionInvariant', UNCHANGED auditVars, ~RotationBeside,
         NEW c \in Calls, StoreSession(c)
  PROVE  LogoutInvariant'
<1> USE DEF LogoutInvariant
<1> DEFINE login == root[sent[c].refresh]
<1>1. pc[c] = "storeSession" /\ Continue(c, "updateLastSeen") /\ Rotating(c)
  BY DEF StoreSession, At, Rotating
<1>2. /\ sent[c].refresh \in Issued
      /\ LoginOf(sent[c]) = login
  BY <1>1, TokenOfCall
<1>3. PICK t \in Fresh : IssueTokens(t, login)
  BY DEF StoreSession
<1>4. /\ \A d \in Calls \ {c} : pc'[d] = pc[d] /\ sent'[d] = sent[d]
      /\ pc'[c] = "updateLastSeen"
  BY <1>1, ContinueFrame DEF Operations, Continue, SessionInvariant, TypeOK
<1>5. login \in Logins \ loggedOut
  BY <1>1, <1>2 DEF LoggedOutIsOver, Issued, SessionInvariant, TypeOK
<1>6. c \notin complete
  BY <1>1 DEF LogoutNamesSession, At
<1>7. \A d \in complete : ~At(d, "idle") => root[sent[d].refresh] # login
  BY <1>1, <1>2 DEF RotationBeside, LogoutNamesSession, LoginOf
<1> HIDE DEF login
<1> QED BY <1>3, <1>4, <1>5, <1>6, <1>7, IssueLogout DEF auditVars

\* The DEL of a complete logout takes the only session its login has.
LEMMA NoteLogoutLogout ==
  ASSUME LogoutInvariant, SessionInvariant', ~RotationBeside, NEW c \in Calls, NoteLogout(c)
  PROVE  LogoutInvariant'
<1> USE DEF LogoutInvariant, At
<1> DEFINE token == sent[c].refresh
<1>1. /\ pc[c] = "delRefresh"
      /\ sessions' = sessions \ {token}
      /\ Answer(c)
      /\ UNCHANGED <<root, complete>>
      /\ loggedOut' = IF c \in complete THEN loggedOut \cup {LoginOf(sent[c])} ELSE loggedOut
  BY DEF NoteLogout, DelRefresh
<1>2. \A d \in Calls : \/ d # c /\ pc'[d] = pc[d] /\ sent'[d] = sent[d]
                       \/ d = c /\ pc'[d] = "idle"
  BY <1>1 DEF Answer, SessionInvariant, TypeOK
<1>3. /\ token \in Issued
      /\ LoginOf(sent[c]) = root[token]
      /\ root[token] \in Logins
  BY <1>1, TokenOfCall DEF Issued, SessionInvariant, TypeOK
<1>4. \A l : SessionsOf(l)' = SessionsOf(l) \ {token}
  BY <1>1 DEF SessionsOf
<1>5. c \in complete =>
        /\ SessionsOf(root[token]) \subseteq {token}
        /\ \A d \in Calls : Rotating(d) => root[sent[d].refresh] # root[token]
  BY <1>1, <1>3, TokenOfCall DEF LogoutNamesSession, RotationBeside, Rotating
<1>6. \A d \in Calls : Rotating(d)' => Rotating(d) /\ sent'[d] = sent[d]
  BY <1>2 DEF Rotating
<1>7. token \in Tokens
  BY <1>3 DEF Issued
<1> HIDE DEF token
<1>8. LogoutNamesSession'
  BY <1>1, <1>2, <1>4 DEF LogoutNamesSession
<1>9. LoggedOutIsOver'
  <2> SUFFICES ASSUME NEW l \in loggedOut'
               PROVE  /\ \E t \in Tokens : root[t] = l
                      /\ SessionsOf(l)' = {}
                      /\ \A d \in Calls : Rotating(d)' => root[sent'[d].refresh] # l
    BY <1>1 DEF LoggedOutIsOver
  <2>1. CASE l \in loggedOut
    BY <1>4, <1>6, <2>1 DEF LoggedOutIsOver
  <2>2. CASE c \in complete /\ l = root[token]
    BY <1>4, <1>5, <1>6, <1>7, <2>2
  <2> QED BY <1>1, <1>3, <2>1, <2>2
<1>10. loggedOut' \subseteq Logins
  BY <1>1, <1>3
<1> QED BY <1>1, <1>8, <1>9, <1>10

\* A request begins: a complete logout with the only session of its login.
LEMMA ArrivalLogout ==
  ASSUME LogoutInvariant, SessionInvariant', NEW c \in Calls,
         NEW request \in ClientRequests, NoteRequest(c, request)
  PROVE  LogoutInvariant'
<1> USE DEF LogoutInvariant, redis
<1>1. /\ UNCHANGED <<sessions, root, loggedOut>>
      /\ complete' = IF Complete(request) THEN complete \cup {c} ELSE complete \ {c}
      /\ \/ pc'[c] = "idle"
         \/ pc'[c] \in {"verify", "setBlacklist"} /\ sent'[c] = request
      /\ \A d \in Calls \ {c} : pc'[d] = pc[d] /\ sent'[d] = sent[d]
  BY DEF NoteRequest, Request, KeyRequest, Begin, Answer, SessionInvariant, TypeOK
<1>2. Complete(request) =>
        request.refresh # NoToken /\ SessionsOf(root[request.refresh]) \subseteq {request.refresh}
  BY SessionAssumption DEF Complete, SessionsOf, SessionInvariant, TypeOK
<1>3. LogoutNamesSession'
  BY <1>1, <1>2 DEF LogoutNamesSession, SessionsOf, At
<1>4. LoggedOutIsOver'
  BY <1>1 DEF LoggedOutIsOver, SessionsOf, Rotating
<1> QED BY <1>1, <1>3, <1>4

LEMMA StepLogout ==
  ASSUME LogoutInvariant, SessionInvariant', UNCHANGED auditVars, ~RotationBeside,
         ~RotationBeside', NEW c \in Calls, Step(c) \/ Fail(c)
  PROVE  LogoutInvariant'
<1> USE DEF auditVars, redis
<1>1. TypeOK /\ SessionInvariant
  BY DEF LogoutInvariant, SessionInvariant
\* All steps but the SET of a rotation.
<1>2. ASSUME NEW operation \in Operations,
             Continue(c, operation) \/ Answer(c),
             UNCHANGED root, sessions' \subseteq sessions,
             Continue(c, operation) /\ operation \in {"delSession", "storeSession"} =>
               Rotating(c) \/ sent[c].refresh \in sessions,
             c \in complete /\ Continue(c, operation) =>
               pc[c] # "idle" /\ operation \in {"verify", "getSession", "setBlacklist", "delRefresh"}
      PROVE  LogoutInvariant'
  <2>1. OthersStay(c)
    BY <1>1, <1>2, ContinueFrame DEF OthersStay
  <2>2. CASE Answer(c)
    <3>1. pc'[c] = "idle"
      BY <1>1, <2>2 DEF Answer, TypeOK
    <3> QED BY <1>2, <2>1, <3>1, QuietLogout
  <2>3. CASE Continue(c, operation)
    <3>1. pc'[c] = operation /\ (pc'[c] = "idle" \/ sent'[c].refresh = sent[c].refresh)
      BY <1>1, <1>2, <2>3, ContinueFrame DEF Continue, TypeOK
    <3> QED BY <1>2, <2>1, <2>3, <3>1, QuietLogout DEF Rotating
  <2> QED BY <1>2, <2>2, <2>3
<1>3. CASE Fail(c)
  <2>1. Answer(c) /\ UNCHANGED <<sessions, root>> /\ "verify" \in Operations
    BY <1>3 DEF Fail, Operations
  <2>2. Answer(c) => ~Continue(c, "verify")
    BY <1>1 DEF Answer, Continue, TypeOK
  <2> QED BY <1>2, <2>1, <2>2
<1>4. CASE Verify(c)
  <2>1. /\ Continue(c, "setBlacklist") \/ Continue(c, "getSession") \/ Answer(c)
        /\ UNCHANGED <<sessions, root>>
        /\ pc[c] # "idle"
    BY <1>4 DEF Verify, Admit, At
  <2> QED BY <1>2, <2>1 DEF Operations
<1>5. CASE GetSession(c)
  <2>1. /\ Answer(c) \/ (Continue(c, "delSession") /\ sent[c].refresh \in sessions)
        /\ UNCHANGED <<sessions, root>>
        /\ sent[c].refresh \in Issued /\ sent[c].refresh # NoToken
    BY <1>1, <1>5, TokenOfCall DEF GetSession, At
  <2>2. ~(Answer(c) /\ Continue(c, "delSession"))
    BY <1>1 DEF Answer, Continue, TypeOK
  <2>3. Continue(c, "delSession") => c \notin complete
    <3>1. Continue(c, "delSession") => pc'[c] = "delSession"
      BY <1>1 DEF Continue, TypeOK
    <3> QED BY <3>1 DEF RotationBeside, Rotating, At
  <2>4. "delSession" \in Operations
    BY DEF Operations
  <2> QED BY <1>2, <2>1, <2>2, <2>3, <2>4
<1>6. CASE DelSession(c)
  <2>1. /\ Continue(c, "storeSession")
        /\ sessions' \subseteq sessions
        /\ UNCHANGED root
        /\ pc[c] = "delSession"
    BY <1>6 DEF DelSession, At
  <2>2. Rotating(c) /\ c \notin complete /\ "storeSession" \in Operations
    BY <2>1 DEF Rotating, LogoutInvariant, LogoutNamesSession, At, Operations
  <2> QED BY <1>2, <2>1, <2>2
<1>7. CASE StoreSession(c)
  BY <1>7, StoreLogout
<1>8. CASE UpdateLastSeen(c) \/ SetBlacklist(c)
  <2>1. /\ Answer(c) \/ Continue(c, "setBlacklist") \/ Continue(c, "delRefresh")
        /\ UNCHANGED <<sessions, root>>
        /\ pc[c] # "idle"
    BY <1>8 DEF UpdateLastSeen, SetBlacklist, Admit, At
  <2> QED BY <1>2, <2>1 DEF Operations
<1> QED BY <1>3, <1>4, <1>5, <1>6, <1>7, <1>8 DEF Step

LEMMA NextLogout ==
  ASSUME LogoutInvariant, ~RotationBeside, ~RotationBeside', [AuditNext]_<<vars, auditVars>>
  PROVE  LogoutInvariant'
<1>1. [Next]_vars
  BY DEF AuditNext, NoteRequest, NoteLogout, Next
<1>2. SessionInvariant'
  BY <1>1, NextSessions DEF LogoutInvariant
<1>3. CASE UNCHANGED auditVars /\ \E l \in Logins, t \in Tokens : Login(l, t)
  BY <1>2, <1>3, LoginLogout
<1>4. CASE UNCHANGED auditVars /\ \E c \in Calls : Step(c) \/ Fail(c)
  BY <1>2, <1>4, StepLogout
<1>5. CASE UNCHANGED auditVars /\ (Tick \/ UNCHANGED vars)
  <2>1. UNCHANGED <<sessions, root, pc, sent, complete, loggedOut>>
    BY <1>5 DEF Tick, vars, auditVars
  <2> QED BY <1>2, <2>1 DEF LogoutInvariant, LogoutNamesSession, LoggedOutIsOver, Rotating,
             SessionsOf, At
<1>6. CASE \E c \in Calls, request \in ClientRequests : NoteRequest(c, request)
  BY <1>2, <1>6, ArrivalLogout
<1>7. CASE \E c \in Calls : NoteLogout(c)
  BY <1>2, <1>7, NoteLogoutLogout
<1> QED BY <1>3, <1>4, <1>5, <1>6, <1>7 DEF AuditNext, Between, Exhausted

\* The one way for a session of a login to outlive its logout, where that carried
\* both headers and the login's only session: a rotation of the login is under
\* way while the logout runs, be it the logout's own or that of a request beside
\* it.  Without one, whatever other requests and logouts of the login overlap,
\* fail, or come later with old tokens, none is left and none comes back.
THEOREM LogoutEnds == AuditSpec /\ []~RotationBeside => []LogoutEndsLogin
<1>1. AuditInit => LogoutInvariant
  BY InitSessions
     DEF AuditInit, Init, LogoutInvariant, LogoutNamesSession, LoggedOutIsOver
<1>2. /\ LogoutInvariant /\ ~RotationBeside /\ (~RotationBeside)'
      /\ [AuditNext]_<<vars, auditVars>>
      => LogoutInvariant'
  BY NextLogout
<1>3. LogoutInvariant => LogoutEndsLogin
  BY DEF LogoutInvariant, LoggedOutIsOver, SessionsOf, LogoutEndsLogin
<1> QED BY <1>1, <1>2, <1>3, PTL DEF AuditSpec
=============================================================================
