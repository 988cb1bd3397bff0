---------------------------- MODULE DeviceProofs ----------------------------
(* Theorems about Devices, for every value of its constants.               *)
EXTENDS Devices, SessionProofs

-----------------------------------------------------------------------------
(* The inductive invariant behind the safety properties. *)

DeviceTypeOK ==
    /\ held \in [Devices -> Headers]
    /\ made \in [Devices -> Headers]
    /\ inbox \in [Devices -> Responses \cup {Nothing}]

\* A device, its request and its response have pairs of its own chain only.
OwnPairs(d) ==
    \A t \in Tokens \cap {held[d], made[d], inbox[d].headers, sent[d].access, sent[d].refresh} :
        root[t] = d

\* A running request carries the pair its device holds; a logout keeps the
\* access token until it is blacklisted.
RequestOfHeld(d) ==
    /\ At(d, "idle") => made[d] = NoToken
    /\ ~At(d, "idle") =>
         /\ inbox[d] = Nothing
         /\ held[d] # NoToken
         /\ sent[d].refresh = held[d]
         /\ sent[d].logout /\ ~At(d, "delRefresh") => sent[d].access = held[d]
         /\ At(d, "setBlacklist") => sent[d].logout
         /\ pc[d] \in {"verify", "getSession", "delSession", "storeSession"} => made[d] = NoToken

\* A logout that has got as far as DEL has blacklisted what was still alive.
LogoutDone(d) ==
    /\ At(d, "delRefresh") /\ access[held[d]] > 0 => held[d] \in out
    /\ inbox[d] = [status |-> "ok", headers |-> Emptied] =>
         held[d] \in Tokens \ sessions /\ (access[held[d]] > 0 => held[d] \in out)

DeviceInvariant ==
    /\ SessionInvariant
    /\ DeviceTypeOK
    /\ \A d \in Devices : OwnPairs(d) /\ RequestOfHeld(d) /\ LogoutDone(d)

\* Until its logout begins the pair of a device, being made or on its way to it,
\* has its session, and so has the one it holds while no rotation is broken.
PairKept(d) ==
    d \notin ending =>
        /\ inbox[d].headers \in Tokens => inbox[d].headers \in sessions
        /\ At(d, "updateLastSeen") => made[d] \in sessions
        /\ d \notin broken =>
             /\ inbox[d].headers # Emptied
             /\ At(d, "idle") /\ inbox[d].headers = Unset /\ held[d] # NoToken
                  => held[d] \in sessions
             /\ pc[d] \in {"verify", "getSession", "delSession"} => held[d] \in sessions

-----------------------------------------------------------------------------
(* It is inductive. *)

\* The part of the invariant that is about one device.
DeviceWell(d) == OwnPairs(d) /\ RequestOfHeld(d) /\ LogoutDone(d)

LEMMA InitDevices == DeviceInit => DeviceInvariant
<1> SUFFICES ASSUME DeviceInit PROVE DeviceInvariant
  OBVIOUS
<1>1. SessionInvariant
  BY InitSessions DEF DeviceInit
<1>2. DeviceTypeOK
  BY DEF DeviceInit, DeviceTypeOK, Headers, Responses, Nothing
<1>3. ASSUME NEW d \in Devices PROVE DeviceWell(d)
  <2>1. /\ held[d] = NoToken /\ made[d] = NoToken /\ inbox[d] = Nothing
        /\ At(d, "idle") /\ sent[d].access = NoToken /\ sent[d].refresh = NoToken
    BY <1>3 DEF DeviceInit, Init, Devices, At, NoHeaders
  <2> QED BY <2>1, SessionAssumption, DeviceAssumption
          DEF DeviceWell, OwnPairs, RequestOfHeld, LogoutDone, Nothing, At, Headers
<1> QED BY <1>1, <1>2, <1>3 DEF DeviceInvariant, DeviceWell

\* A pair some device has in use was issued to it.
LEMMA OwnIssued ==
  ASSUME DeviceInvariant, NEW d \in Devices,
         NEW t \in {held[d], made[d], inbox[d].headers, sent[d].access, sent[d].refresh} \cap Tokens
  PROVE  t \in Issued /\ root[t] = d
  BY SessionAssumption, DeviceAssumption DEF DeviceInvariant, OwnPairs, Issued

\* What a step leaves alone of a device, and of the pairs issued so far.
SameDevice(e) ==
  /\ held'[e] = held[e] /\ made'[e] = made[e] /\ inbox'[e] = inbox[e]
  /\ pc'[e] = pc[e] /\ sent'[e] = sent[e]
SamePairs ==
  /\ \A t \in Issued : root'[t] = root[t] /\ access'[t] = access[t]
  /\ sessions' \cap Issued \subseteq sessions
  /\ out \subseteq out'

LEMMA OtherDevices ==
  ASSUME DeviceInvariant, NEW e \in Devices, SameDevice(e), SamePairs
  PROVE  DeviceWell(e)'
<1>1. DeviceWell(e) /\ held[e] \in Headers
  BY DEF DeviceInvariant, DeviceWell, DeviceTypeOK
<1>2. held[e] # NoToken => held[e] \in Issued
  BY <1>1, OwnIssued DEF Headers
<1>3. OwnPairs(e)'
  BY OwnIssued DEF OwnPairs, SameDevice, SamePairs
<1>4. RequestOfHeld(e)'
  BY <1>1 DEF DeviceWell, RequestOfHeld, SameDevice, At
<1>5. LogoutDone(e)'
  <2>1. ASSUME At(e, "delRefresh")', access'[held'[e]] > 0 PROVE held'[e] \in out'
    <3>1. At(e, "delRefresh") /\ held'[e] = held[e]
      BY <2>1 DEF SameDevice, At
    <3>2. held[e] \in Issued
      BY <1>1, <1>2, <3>1 DEF DeviceWell, RequestOfHeld, At
    <3> QED BY <1>1, <2>1, <3>1, <3>2 DEF DeviceWell, LogoutDone, SamePairs
  <2>2. ASSUME inbox'[e] = [status |-> "ok", headers |-> Emptied]
        PROVE  held'[e] \in Tokens \ sessions' /\ (access'[held'[e]] > 0 => held'[e] \in out')
    <3>1. inbox[e] = [status |-> "ok", headers |-> Emptied] /\ held'[e] = held[e]
      BY <2>2 DEF SameDevice
    <3>2. held[e] \in Tokens \ sessions /\ (access[held[e]] > 0 => held[e] \in out)
      BY <1>1, <3>1 DEF DeviceWell, LogoutDone
    <3>3. held[e] \in Issued
      BY <1>2, <3>2, SessionAssumption
    <3> QED BY <3>1, <3>2, <3>3 DEF SamePairs
  <2> QED BY <2>1, <2>2 DEF LogoutDone, Emptied
<1> QED BY <1>3, <1>4, <1>5 DEF DeviceWell

-----------------------------------------------------------------------------
(* One lemma per action of a device.                                        *)

\* A step of one device's request has the type of its response, and leaves the
\* other devices to themselves.
LEMMA RespondFrame ==
  ASSUME DeviceTypeOK, NEW d \in Devices, NEW status \in Statuses, NEW headers \in Headers \cup {Unset},
         Respond(d, status, headers)
  PROVE  /\ made' \in [Devices -> Headers]
         /\ inbox' \in [Devices -> Responses \cup {Nothing}]
         /\ made'[d] = NoToken
         /\ inbox'[d] = [status |-> status, headers |-> headers]
         /\ \A e \in Devices : e # d => made'[e] = made[e] /\ inbox'[e] = inbox[e]
  BY DEF Respond, DeviceTypeOK, Responses, Headers

\* The device's request ends, with these headers.
LEMMA AnswerDevice ==
  ASSUME DeviceInvariant, SessionInvariant', SamePairs, UNCHANGED held,
         NEW d \in Devices, Answer(d), NEW status \in Statuses, NEW headers \in {Unset, NoToken, made[d]},
         Respond(d, status, headers),
         status = "ok" /\ headers = Emptied =>
             held[d] \in Tokens \ sessions' /\ (access'[held[d]] > 0 => held[d] \in out')
  PROVE  DeviceInvariant'
<1> USE DEF Devices
<1>1. DeviceTypeOK /\ TypeOK
  BY DEF DeviceInvariant, SessionInvariant
<1>2. headers \in Headers \cup {Unset}
  BY <1>1 DEF DeviceTypeOK, Headers
<1>3. DeviceTypeOK'
  BY <1>1, <1>2, RespondFrame DEF DeviceTypeOK
<1>4. pc'[d] = "idle" /\ sent'[d].access = NoToken /\ sent'[d].refresh = NoToken
  BY <1>1 DEF Answer, TypeOK, NoHeaders
<1>5. DeviceWell(d)'
  <2>0. made'[d] = NoToken /\ inbox'[d] = [status |-> status, headers |-> headers]
    BY <1>1, <1>2, RespondFrame
  <2>1. OwnPairs(d)'
    <3>1. NoToken \notin Tokens /\ Unset \notin Tokens
      BY SessionAssumption, DeviceAssumption DEF Headers
    <3>2. Tokens \cap {held'[d], made'[d], inbox'[d].headers, sent'[d].access, sent'[d].refresh}
            \subseteq Tokens \cap {held[d], made[d]}
      BY <1>4, <2>0, <3>1
    <3>3. \A t \in Tokens \cap {held[d], made[d]} : root'[t] = d
      BY OwnIssued DEF SamePairs
    <3> QED BY <3>2, <3>3 DEF OwnPairs
  <2>2. RequestOfHeld(d)'
    BY <1>4, <2>0 DEF RequestOfHeld, At
  <2>3. LogoutDone(d)'
    <3>1. ASSUME inbox'[d] = [status |-> "ok", headers |-> Emptied]
          PROVE  status = "ok" /\ headers = Emptied
      BY <2>0, <3>1
    <3> QED BY <1>4, <3>1 DEF LogoutDone, At, Emptied
  <2> QED BY <2>1, <2>2, <2>3 DEF DeviceWell
<1>6. ASSUME NEW e \in Devices \ {d} PROVE DeviceWell(e)'
  BY <1>1, <1>2, RespondFrame, OtherDevices DEF SameDevice, Answer, TypeOK
<1> QED BY <1>3, <1>5, <1>6 DEF DeviceInvariant, DeviceWell

\* Where Continue leaves the request of a device.
LEMMA ContinueDevice ==
  ASSUME TypeOK, NEW d \in Devices, NEW operation \in Operations, Continue(d, operation)
  PROVE  /\ pc'[d] = operation
         /\ sent'[d].refresh = sent[d].refresh
         /\ sent'[d].logout = sent[d].logout
         /\ sent'[d].access \in {sent[d].access, NoToken}
         /\ sent[d].logout /\ operation # "delRefresh" => sent'[d].access = sent[d].access
         /\ \A e \in Devices : e # d => pc'[e] = pc[e] /\ sent'[e] = sent[e]
<1> DEFINE dropped == [sent[d] EXCEPT !.access = NoToken]
<1>1. /\ dropped.access = NoToken
      /\ dropped.refresh = sent[d].refresh
      /\ dropped.logout = sent[d].logout
  BY DEF TypeOK, Requests, Devices
<1>2. \/ sent' = sent
      \/ sent' = [sent EXCEPT ![d] = dropped] /\ ~(sent[d].logout /\ operation # "delRefresh")
  BY DEF Continue
<1>3. pc' = [pc EXCEPT ![d] = operation]
  BY DEF Continue
<1> HIDE DEF dropped
<1> QED BY <1>1, <1>2, <1>3 DEF TypeOK, Devices

\* The device's request goes on to another operation.
LEMMA GoOnDevice ==
  ASSUME DeviceInvariant, SessionInvariant', SamePairs, UNCHANGED held,
         NEW d \in Devices, NEW operation \in Operations, Continue(d, operation), Running,
         pc[d] \notin {"idle", "delRefresh"},
         operation = "setBlacklist" => sent[d].logout,
         operation \in {"verify", "getSession", "delSession", "storeSession"} => made[d] = NoToken,
         operation = "delRefresh" /\ access'[held[d]] > 0 => held[d] \in out'
  PROVE  DeviceInvariant'
<1> USE DEF Devices, Running
<1>1. DeviceTypeOK /\ TypeOK /\ DeviceWell(d)
  BY DEF DeviceInvariant, SessionInvariant, DeviceWell
<1>2. DeviceTypeOK'
  BY <1>1 DEF DeviceTypeOK
<1>3. DeviceWell(d)'
  <2>1. OwnPairs(d)'
    BY <1>1, ContinueDevice, OwnIssued, SessionAssumption DEF OwnPairs, SamePairs
  <2>2. "idle" \notin Operations
    BY DEF Operations
  <2>3. RequestOfHeld(d)'
    BY <1>1, <2>2, ContinueDevice DEF DeviceWell, RequestOfHeld, At
  <2>4. inbox[d] = Nothing
    BY <1>1 DEF DeviceWell, RequestOfHeld, At
  <2>5. LogoutDone(d)'
    BY <1>1, <2>2, <2>4, ContinueDevice DEF LogoutDone, At, Nothing
  <2> QED BY <2>1, <2>3, <2>5 DEF DeviceWell
<1>4. ASSUME NEW e \in Devices \ {d} PROVE DeviceWell(e)'
  BY <1>1, ContinueDevice, OtherDevices DEF SameDevice
<1> QED BY <1>2, <1>3, <1>4 DEF DeviceInvariant, DeviceWell

\* What answers a request that did not sign its device out.
LEMMA NewHeadersType ==
  ASSUME DeviceTypeOK, NEW d \in Devices
  PROVE  NewHeaders(d) \in {Unset, made[d]} /\ NewHeaders(d) # Emptied
  BY SessionAssumption, DeviceAssumption DEF NewHeaders, Emptied, Headers, DeviceTypeOK

\* The guard lets the request of a device through.
LEMMA AdmitDevice ==
  ASSUME DeviceInvariant, SessionInvariant', NEW d \in Devices, pc[d] \in {"verify", "updateLastSeen"},
         Admit(d), Handled(d), UNCHANGED <<redis, held>>
  PROVE  DeviceInvariant'
<1> USE DEF Devices, SamePairs, redis, history
<1>1. DeviceTypeOK /\ TypeOK /\ "setBlacklist" \in Operations
  BY DEF DeviceInvariant, SessionInvariant, Operations
<1>2. CASE sent[d].logout
  <2>1. Continue(d, "setBlacklist") /\ UNCHANGED out
    BY <1>2 DEF Admit
  <2>2. Running
    BY <1>1, <2>1, ContinueDevice DEF Handled, Answered
  <2> QED BY <1>1, <1>2, <2>1, <2>2, GoOnDevice
<1>3. CASE ~sent[d].logout
  <2>1. Answer(d) /\ UNCHANGED out
    BY <1>3 DEF Admit
  <2>2. PICK status \in {"ok", "failed"} : Respond(d, status, NewHeaders(d))
    BY <1>1, <2>1 DEF Handled, Answered, Answer, TypeOK
  <2> QED BY <1>1, <2>1, <2>2, NewHeadersType, AnswerDevice DEF Statuses
<1> QED BY <1>2, <1>3

LEMMA VerifyDevice ==
  ASSUME DeviceInvariant, NEW d \in Devices, Verify(d), Handled(d), UNCHANGED held
  PROVE  DeviceInvariant'
<1> USE DEF Devices, SamePairs, redis, history
<1>1. DeviceTypeOK /\ TypeOK /\ pc[d] = "verify" /\ SessionInvariant' /\ DeviceWell(d)
  BY VerifySessions DEF DeviceInvariant, SessionInvariant, Verify, At, DeviceWell
<1>2. CASE ValidAccess(sent[d].access)
  BY <1>1, <1>2, AdmitDevice DEF Verify
<1>3. CASE ~ValidAccess(sent[d].access)
  <2>1. made[d] = NoToken /\ sent[d].refresh # NoToken
    BY <1>1 DEF DeviceWell, RequestOfHeld, At
  <2>2. Continue(d, "getSession") /\ UNCHANGED <<redis, history>>
    BY <1>3, <2>1 DEF Verify
  <2>3. "getSession" \in Operations
    BY DEF Operations
  <2>4. Running
    BY <1>1, <2>2, <2>3, ContinueDevice DEF Handled, Answered
  <2> QED BY <1>1, <2>1, <2>2, <2>3, <2>4, GoOnDevice
<1> QED BY <1>2, <1>3

LEMMA UpdateLastSeenDevice ==
  ASSUME DeviceInvariant, NEW d \in Devices, UpdateLastSeen(d), Handled(d), UNCHANGED held
  PROVE  DeviceInvariant'
  BY AdmitDevice, UpdateLastSeenSessions DEF UpdateLastSeen, At, DeviceInvariant, Devices

LEMMA RefreshDevice ==
  ASSUME DeviceInvariant, NEW d \in Devices, Refresh(d), UNCHANGED held
  PROVE  DeviceInvariant'
<1> USE DEF Devices, SamePairs, redis, history
<1>1. DeviceTypeOK /\ TypeOK /\ SessionInvariant /\ DeviceWell(d)
  BY DEF DeviceInvariant, SessionInvariant, DeviceWell
<1>2. SessionInvariant'
  BY <1>1, GetSessionSessions, DropSessionSessions DEF Refresh
<1>3. pc[d] \in {"getSession", "delSession"} /\ made[d] = NoToken
  BY <1>1 DEF Refresh, GetSession, DelSession, At, DeviceWell, RequestOfHeld
<1>4. "delSession" \in Operations /\ "storeSession" \in Operations
  BY DEF Operations
<1>5. CASE GetSession(d) /\ Answer(d)
  <2>1. Respond(d, "refused", Emptied) /\ UNCHANGED <<redis, history>>
    <3>1. Answered(d)
      BY <1>1, <1>5 DEF Answered, Answer, TypeOK
    <3>2. ~DelSession(d)
      BY <1>5 DEF GetSession, DelSession, At
    <3> QED BY <1>5, <3>1, <3>2 DEF Refresh, Refuse, GetSession
  <2> QED BY <1>2, <1>5, <2>1, AnswerDevice DEF Statuses, Emptied
<1>6. CASE GetSession(d) /\ Continue(d, "delSession")
  <2>1. Running /\ UNCHANGED <<redis, history>>
    BY <1>1, <1>4, <1>6, ContinueDevice DEF Refresh, Answered, GetSession
  <2> QED BY <1>2, <1>3, <1>4, <1>6, <2>1, GoOnDevice
<1>7. CASE DelSession(d)
  <2>1. /\ Running
        /\ Continue(d, "storeSession")
        /\ sessions' \subseteq sessions
        /\ UNCHANGED <<access, root, out>>
    BY <1>7 DEF Refresh, DelSession, GetSession, At
  <2> QED BY <1>2, <1>3, <1>4, <2>1, GoOnDevice
<1> QED BY <1>5, <1>6, <1>7 DEF Refresh, GetSession

\* The access token is blacklisted before the refresh session goes.
LEMMA LogoutDevice ==
  ASSUME DeviceInvariant, NEW d \in Devices, Logout(d), UNCHANGED held
  PROVE  DeviceInvariant'
<1> USE DEF Devices, SamePairs, history
<1>1. DeviceTypeOK /\ TypeOK /\ SessionInvariant /\ DeviceWell(d)
  BY DEF DeviceInvariant, SessionInvariant, DeviceWell
<1>2. SessionInvariant'
  BY <1>1, SetBlacklistSessions, DropSessionSessions DEF Logout
<1>3. held[d] \in Tokens /\ sent[d].refresh = held[d]
  BY <1>1 DEF Logout, SetBlacklist, DelRefresh, At, DeviceWell, RequestOfHeld, DeviceTypeOK, Headers
<1>4. CASE SetBlacklist(d) /\ Running
  <2>1. pc[d] = "setBlacklist" /\ sent[d].access = held[d]
    BY <1>1, <1>4 DEF SetBlacklist, At, DeviceWell, RequestOfHeld
  <2>2. /\ Continue(d, "delRefresh")
        /\ out' = out \cup {t \in Tokens : t = held[d] /\ access[t] > 0}
        /\ UNCHANGED <<access, sessions, root>>
    BY <1>3, <1>4, <2>1, SessionAssumption DEF SetBlacklist
  <2>3. "delRefresh" \in Operations
    BY DEF Operations
  <2> QED BY <1>2, <1>3, <1>4, <2>1, <2>2, <2>3, GoOnDevice
<1>5. CASE DelRefresh(d)
  <2>1. /\ Answer(d)
        /\ sessions' = sessions \ {held[d]}
        /\ UNCHANGED <<access, root, out>>
        /\ access[held[d]] > 0 => held[d] \in out
    BY <1>1, <1>3, <1>5 DEF DelRefresh, At, DeviceWell, LogoutDone
  <2>2. ~SetBlacklist(d)
    BY <1>5 DEF SetBlacklist, DelRefresh, At
  <2>3. CASE Respond(d, "ok", Emptied)
    BY <1>2, <1>3, <2>1, <2>3, AnswerDevice DEF Statuses, Emptied
  <2>4. CASE Respond(d, "failed", NewHeaders(d))
    BY <1>1, <1>2, <2>1, <2>4, AnswerDevice, NewHeadersType DEF Statuses
  <2> QED BY <2>2, <2>3, <2>4 DEF Logout
<1> QED BY <1>4, <1>5 DEF Logout

LEMMA ServeDevice ==
  ASSUME DeviceInvariant, NEW d \in Devices, Serve(d)
  PROVE  DeviceInvariant'
  BY VerifyDevice, UpdateLastSeenDevice, RefreshDevice, LogoutDevice DEF Serve

LEMMA ThrowDevice ==
  ASSUME DeviceInvariant, NEW d \in Devices, Throw(d)
  PROVE  DeviceInvariant'
<1> USE DEF Devices, SamePairs, redis, history
<1>1. /\ Answer(d)
      /\ UNCHANGED <<redis, history, held>>
      /\ Respond(d, "refused", Emptied) \/ Respond(d, "failed", NewHeaders(d))
  BY DEF Throw, Fail, Refuse
<1>2. SessionInvariant' /\ DeviceTypeOK
  BY FailSessions DEF Throw, DeviceInvariant
<1>3. CASE Respond(d, "refused", Emptied)
  BY <1>1, <1>2, <1>3, AnswerDevice DEF Statuses, Emptied
<1>4. CASE Respond(d, "failed", NewHeaders(d))
  BY <1>1, <1>2, <1>4, AnswerDevice, NewHeadersType DEF Statuses
<1> QED BY <1>1, <1>3, <1>4

\* A new chain starts with a pair no device has.
LEMMA SignInDevice ==
  ASSUME DeviceInvariant, NEW d \in Devices, SignIn(d)
  PROVE  DeviceInvariant'
<1> USE DEF Devices
<1>1. DeviceTypeOK /\ TypeOK /\ SessionInvariant /\ DeviceWell(d) /\ d \in Logins
  BY DeviceAssumption DEF DeviceInvariant, SessionInvariant, DeviceWell
<1>2. PICK t \in Fresh : Login(d, t) /\ Respond(d, "ok", t)
  BY DEF SignIn
<1>3. /\ IssueTokens(t, d)
      /\ UNCHANGED <<pc, sent, out, held>>
      /\ At(d, "idle") /\ held[d] = NoToken
  BY <1>2 DEF SignIn, Login
<1>4. t \in Tokens /\ t \notin Issued /\ t # Emptied
  BY SessionAssumption DEF Fresh, Emptied
<1>5. SessionInvariant'
  BY <1>1, <1>2, <1>4, LoginSessions
<1>6. SamePairs /\ root'[t] = d
  BY <1>1, <1>3, <1>4 DEF SamePairs, IssueTokens, Issued, TypeOK
<1>7. /\ made' \in [Devices -> Headers]
      /\ inbox' \in [Devices -> Responses \cup {Nothing}]
      /\ made'[d] = NoToken
      /\ inbox'[d] = [status |-> "ok", headers |-> t]
      /\ \A e \in Devices : e # d => made'[e] = made[e] /\ inbox'[e] = inbox[e]
  BY <1>1, <1>2, <1>4, RespondFrame DEF Statuses, Headers
<1>8. DeviceTypeOK'
  BY <1>1, <1>3, <1>7 DEF DeviceTypeOK
<1>9. DeviceWell(d)'
  <2>1. OwnPairs(d)'
    <3>1. sent[d].access \in Tokens => root'[sent[d].access] = d
      BY OwnIssued, <1>6 DEF SamePairs
    <3>2. sent[d].refresh \in Tokens => root'[sent[d].refresh] = d
      BY OwnIssued, <1>6 DEF SamePairs
    <3>3. held'[d] = NoToken /\ NoToken \notin Tokens /\ UNCHANGED sent
      BY <1>3, SessionAssumption
    <3> QED BY <1>6, <1>7, <3>1, <3>2, <3>3 DEF OwnPairs
  <2>2. RequestOfHeld(d)'
    BY <1>3, <1>7 DEF RequestOfHeld, At
  <2>3. LogoutDone(d)'
    BY <1>3, <1>4, <1>7 DEF LogoutDone, At
  <2> QED BY <2>1, <2>2, <2>3 DEF DeviceWell
<1>10. ASSUME NEW e \in Devices \ {d} PROVE DeviceWell(e)'
  BY <1>3, <1>6, <1>7, OtherDevices DEF SameDevice
<1> QED BY <1>5, <1>8, <1>9, <1>10 DEF DeviceInvariant, DeviceWell

\* The request a device makes of the pair it holds is one its client can make.
LEMMA OwnRequest ==
  ASSUME DeviceInvariant, NEW d \in Devices, NEW logout \in BOOLEAN, held[d] # NoToken
  PROVE  [access |-> held[d], refresh |-> held[d], logout |-> logout] \in ClientRequests
  BY OwnIssued DEF ClientRequests, DeviceInvariant, DeviceTypeOK, Headers

LEMMA SendDevice ==
  ASSUME DeviceInvariant, NEW d \in Devices, NEW logout \in BOOLEAN, Send(d, logout)
  PROVE  DeviceInvariant'
<1> DEFINE request == [access |-> held[d], refresh |-> held[d], logout |-> logout]
<1> USE DEF Devices, redis, history
<1>1. DeviceTypeOK /\ TypeOK /\ SessionInvariant /\ DeviceWell(d)
  BY DEF DeviceInvariant, SessionInvariant, DeviceWell
<1>2. /\ request \in ClientRequests
      /\ request.access = held[d] /\ request.refresh = held[d] /\ request.logout = logout
  BY OwnRequest DEF Send
<1> HIDE DEF request
<1>3. /\ Request(d, request)
      /\ inbox[d] = Nothing /\ held[d] # NoToken
      /\ IF Answered(d) THEN RefuseBlacklisted(d) ELSE Running
      /\ UNCHANGED held
  BY DEF Send, request
<1>4. SessionInvariant'
  BY <1>1, <1>2, <1>3, RequestSessions
<1>5. SamePairs /\ At(d, "idle")
  BY <1>3 DEF SamePairs, Request
<1>6. CASE Answer(d)
  <2>1. Respond(d, "refused", Unset)
    BY <1>1, <1>3, <1>6 DEF Answered, Answer, TypeOK, RefuseBlacklisted
  <2> QED BY <1>3, <1>4, <1>5, <1>6, <2>1, AnswerDevice DEF Statuses
<1>7. CASE Begin(d, request, "verify")
  <2>1. /\ pc'[d] = "verify" /\ sent'[d] = request
        /\ \A e \in Devices : e # d => pc'[e] = pc[e] /\ sent'[e] = sent[e]
    BY <1>1, <1>7 DEF Begin, TypeOK
  <2>2. UNCHANGED <<made, inbox>>
    BY <1>3, <2>1 DEF Answered, Running
  <2>3. DeviceTypeOK'
    BY <1>1, <1>3, <2>2 DEF DeviceTypeOK
  <2>4. OwnPairs(d)'
    <3>1. sent'[d].access = held[d] /\ sent'[d].refresh = held[d]
      BY <1>2, <2>1
    <3>2. \A t \in Tokens \cap {held[d], made[d], inbox[d].headers} : root'[t] = d
      BY <1>5, OwnIssued DEF SamePairs
    <3> QED BY <1>3, <2>2, <3>1, <3>2 DEF OwnPairs
  <2>5. RequestOfHeld(d)' /\ LogoutDone(d)'
    BY <1>1, <1>2, <1>3, <1>5, <2>1, <2>2 DEF DeviceWell, RequestOfHeld, LogoutDone, At, Nothing
  <2>6. ASSUME NEW e \in Devices \ {d} PROVE DeviceWell(e)'
    BY <1>3, <1>5, <2>1, <2>2, OtherDevices DEF SameDevice
  <2> QED BY <1>4, <2>3, <2>4, <2>5, <2>6 DEF DeviceInvariant, DeviceWell
<1> QED BY <1>3, <1>6, <1>7 DEF Request

\* The pair a rotation has stored is the one its device will be sent.
LEMMA StorePairDevice ==
  ASSUME DeviceInvariant, NEW d \in Devices, StorePair(d)
  PROVE  /\ DeviceInvariant'
         /\ made'[d] = Spare /\ Spare \in sessions'
<1> USE DEF Devices, history
<1>1. DeviceTypeOK /\ TypeOK /\ SessionInvariant /\ DeviceWell(d)
  BY DEF DeviceInvariant, SessionInvariant, DeviceWell
<1>2. /\ StoreSession(d) /\ Spare \in sessions'
      /\ made' = [made EXCEPT ![d] = Spare]
      /\ UNCHANGED <<held, inbox>>
  BY DEF StorePair
<1>3. PICK t \in Fresh : IssueTokens(t, root[sent[d].refresh])
  BY <1>2 DEF StoreSession
<1>4. pc[d] = "storeSession" /\ sent[d].refresh = held[d] /\ held[d] \in Tokens
  BY <1>1, <1>2 DEF StoreSession, At, DeviceWell, RequestOfHeld, DeviceTypeOK, Headers
<1>5. root[sent[d].refresh] = d
  BY <1>4, OwnIssued
<1>6. t = Spare /\ t \in Tokens /\ t \notin Issued
  <2>1. Spare \in Fresh
    BY <1>3 DEF Spare
  <2>2. sessions' = sessions \cup {t} /\ sessions \subseteq Issued
    BY <1>1, <1>3 DEF IssueTokens, SessionInvariant, OnlyIssued
  <2> QED BY <1>2, <1>3, <2>1, <2>2 DEF Fresh
<1>7. SessionInvariant'
  BY <1>1, <1>2, StoreSessionSessions
<1>8. SamePairs /\ root'[t] = d
  BY <1>1, <1>2, <1>3, <1>5, <1>6 DEF SamePairs, IssueTokens, Issued, TypeOK, StoreSession
<1>9. Continue(d, "updateLastSeen") /\ "updateLastSeen" \in Operations
  BY <1>2 DEF StoreSession, Operations
<1>10. /\ made' \in [Devices -> Headers] /\ made'[d] = t
       /\ \A e \in Devices : e # d => made'[e] = made[e]
  BY <1>1, <1>2, <1>6 DEF DeviceTypeOK, Headers
<1>11. DeviceTypeOK'
  BY <1>1, <1>2, <1>10 DEF DeviceTypeOK
<1>12. inbox[d] = Nothing /\ held[d] # NoToken
  BY <1>1, <1>4 DEF DeviceWell, RequestOfHeld, At
<1>13. OwnPairs(d)'
  <2>1. \A s \in Tokens \cap {held[d], inbox[d].headers, sent[d].access, sent[d].refresh} : root'[s] = d
    BY <1>8, OwnIssued DEF SamePairs
  <2>2. sent'[d].refresh = sent[d].refresh /\ sent'[d].access \in {sent[d].access, NoToken}
    BY <1>1, <1>9, ContinueDevice
  <2> QED BY <1>2, <1>8, <1>10, <2>1, <2>2, SessionAssumption DEF OwnPairs
<1>14. RequestOfHeld(d)'
  BY <1>1, <1>2, <1>4, <1>9, <1>12, ContinueDevice DEF DeviceWell, RequestOfHeld, At
<1>15. LogoutDone(d)'
  BY <1>1, <1>2, <1>9, <1>12, ContinueDevice DEF LogoutDone, At, Nothing
<1>16. ASSUME NEW e \in Devices \ {d} PROVE DeviceWell(e)'
  BY <1>1, <1>2, <1>8, <1>9, <1>10, ContinueDevice, OtherDevices DEF SameDevice
<1> QED BY <1>2, <1>6, <1>7, <1>10, <1>11, <1>13, <1>14, <1>15, <1>16 DEF DeviceInvariant, DeviceWell

LEMMA ReceiveDevice ==
  ASSUME DeviceInvariant, NEW d \in Devices, Receive(d)
  PROVE  DeviceInvariant'
<1> USE DEF Devices
<1>1. DeviceTypeOK /\ TypeOK /\ SessionInvariant /\ DeviceWell(d) /\ UNCHANGED <<vars, made>>
  BY DEF DeviceInvariant, SessionInvariant, DeviceWell, Receive
<1>2. SessionInvariant' /\ SamePairs
  BY <1>1 DEF SessionInvariant, TypeOK, OnlyIssued, RefreshAtHand, EntryCoversLife, TwinsAge, LogoutBegun,
     Issued, SamePairs, vars
<1>3. inbox[d] \in Responses
  BY <1>1 DEF Receive, DeviceTypeOK
<1>4. /\ held' \in [Devices -> Headers]
      /\ held'[d] \in {held[d], inbox[d].headers}
      /\ \A e \in Devices : e # d => held'[e] = held[e]
  BY <1>1, <1>3 DEF Receive, DeviceTypeOK, Responses
<1>5. /\ inbox' \in [Devices -> Responses \cup {Nothing}]
      /\ inbox'[d] = Nothing
      /\ \A e \in Devices : e # d => inbox'[e] = inbox[e]
  BY <1>1 DEF Receive, DeviceTypeOK
<1>6. DeviceTypeOK'
  BY <1>1, <1>4, <1>5 DEF DeviceTypeOK
<1>7. pc[d] = "idle" /\ made[d] = NoToken
  BY <1>1 DEF DeviceWell, RequestOfHeld, At, Receive
<1>8. OwnPairs(d)'
  <2>1. Unset \notin Tokens
    BY DeviceAssumption DEF Headers
  <2>2. \A t \in Tokens \cap {held[d], made[d], inbox[d].headers, sent[d].access, sent[d].refresh} :
          root'[t] = d
    BY <1>2, OwnIssued DEF SamePairs
  <2> QED BY <1>1, <1>4, <1>5, <2>1, <2>2 DEF OwnPairs, Nothing, vars
<1>9. RequestOfHeld(d)' /\ LogoutDone(d)'
  BY <1>1, <1>5, <1>7 DEF RequestOfHeld, LogoutDone, At, Nothing, vars
<1>10. ASSUME NEW e \in Devices \ {d} PROVE DeviceWell(e)'
  BY <1>1, <1>2, <1>4, <1>5, OtherDevices DEF SameDevice, vars
<1> QED BY <1>2, <1>6, <1>8, <1>9, <1>10 DEF DeviceInvariant, DeviceWell

LEMMA LoseDevice ==
  ASSUME DeviceInvariant, NEW d \in Devices, Lose(d)
  PROVE  DeviceInvariant'
<1> USE DEF Devices
<1>1. DeviceTypeOK /\ TypeOK /\ SessionInvariant /\ DeviceWell(d) /\ UNCHANGED <<vars, held, made>>
  BY DEF DeviceInvariant, SessionInvariant, DeviceWell, Lose
<1>2. SessionInvariant' /\ SamePairs
  BY <1>1 DEF SessionInvariant, TypeOK, OnlyIssued, RefreshAtHand, EntryCoversLife, TwinsAge, LogoutBegun,
     Issued, SamePairs, vars
<1>3. /\ inbox' \in [Devices -> Responses \cup {Nothing}]
      /\ inbox'[d] = Nothing
      /\ \A e \in Devices : e # d => inbox'[e] = inbox[e]
  BY <1>1 DEF Lose, DeviceTypeOK
<1>4. DeviceTypeOK'
  BY <1>1, <1>3 DEF DeviceTypeOK
<1>5. pc[d] = "idle"
  BY <1>1 DEF DeviceWell, RequestOfHeld, At, Lose
<1>6. DeviceWell(d)'
  <2>1. Unset \notin Tokens
    BY DeviceAssumption DEF Headers
  <2>2. OwnPairs(d)'
    BY <1>1, <1>3, <2>1 DEF OwnPairs, DeviceWell, Nothing, vars
  <2>3. RequestOfHeld(d)' /\ LogoutDone(d)'
    BY <1>1, <1>3, <1>5 DEF DeviceWell, RequestOfHeld, LogoutDone, At, Nothing, vars
  <2> QED BY <2>2, <2>3 DEF DeviceWell
<1>7. ASSUME NEW e \in Devices \ {d} PROVE DeviceWell(e)'
  BY <1>1, <1>2, <1>3, OtherDevices DEF SameDevice, vars
<1> QED BY <1>2, <1>4, <1>6, <1>7 DEF DeviceInvariant, DeviceWell

\* A pair no device has any more leaves no trace but its JWT, under the name of
\* a twin.
LEMMA ForgetSessions ==
  ASSUME DeviceInvariant, NEW t \in Tokens, Forget(t)
  PROVE  SessionInvariant'
<1> USE DEF Devices, history
<1> DEFINE twins == {s \in Issued \ {t} : jwt[s] = t}
<1>1. TypeOK /\ OnlyIssued /\ RefreshAtHand /\ EntryCoversLife /\ TwinsAge /\ LogoutBegun
  BY DEF DeviceInvariant, SessionInvariant
<1>2. /\ t \in Issued \ InUse /\ access[t] = 0 /\ blacklist[t] = 0
      /\ sessions' = sessions \ {t}
      /\ root' = [root EXCEPT ![t] = NoLogin]
      /\ UNCHANGED <<access, blacklist, pc, sent, out, ending>>
  BY DEF Forget
<1>3. jwt' = [s \in Tokens |->
                IF s = t THEN t
                ELSE IF s \in twins THEN CHOOSE heir \in twins : TRUE ELSE jwt[s]]
  BY DEF Forget
<1>4. twins \subseteq Tokens
  BY DEF Issued
<1>5. jwt' \in [Tokens -> Tokens]
  <2>1. twins # {} => (CHOOSE heir \in twins : TRUE) \in Tokens
    BY <1>4
  <2>2. ASSUME NEW s \in Tokens
        PROVE  (IF s = t THEN t
                ELSE IF s \in twins THEN CHOOSE heir \in twins : TRUE ELSE jwt[s]) \in Tokens
    BY <1>1, <2>1 DEF TypeOK
  <2> QED BY <1>3, <2>2
<1>6. Issued' = Issued \ {t}
  BY <1>1, <1>2 DEF Issued, TypeOK
<1>7. TypeOK'
  BY <1>1, <1>2, <1>5 DEF TypeOK
<1>8. \A c \in Calls : sent[c].access # t /\ sent[c].refresh # t
  BY <1>2 DEF InUse
<1>9. OnlyIssued'
  <2>1. \A s \in Tokens \ Issued' : access'[s] = 0
    BY <1>1, <1>2, <1>6 DEF OnlyIssued
  <2>2. sessions' \subseteq Issued'
    BY <1>1, <1>2, <1>6 DEF OnlyIssued
  <2>3. \A c \in Calls : /\ sent'[c].access \in Issued' \cup {NoToken}
                         /\ sent'[c].refresh \in Issued' \cup {NoToken}
    BY <1>1, <1>2, <1>6, <1>8 DEF OnlyIssued
  <2> QED BY <2>1, <2>2, <2>3 DEF OnlyIssued
<1>10. RefreshAtHand' /\ LogoutBegun'
  <2>1. \A c \in Calls : root'[sent[c].refresh] = root[sent[c].refresh] \/ sent[c].refresh = NoToken
    BY <1>1, <1>2, <1>8 DEF TypeOK, Requests, Headers
  <2> QED BY <1>1, <1>2, <2>1 DEF RefreshAtHand, LogoutBegun
\* A twin is as old as the pair forgotten: none of them has been blacklisted.
<1>11. ASSUME NEW s \in Issued \ {t}
       PROVE  \/ s \in twins /\ access[s] = 0 /\ jwt'[s] \in twins
              \/ s \notin twins /\ jwt[s] # t /\ jwt'[s] = jwt[s]
  <2>1. CASE s \in twins
    <3>1. access[s] = 0
      BY <1>1, <1>2, <2>1 DEF TwinsAge
    <3>2. (CHOOSE heir \in twins : TRUE) \in twins
      BY <2>1
    <3> QED BY <1>3, <1>4, <2>1, <3>1, <3>2
  <2>2. CASE s \notin twins
    BY <1>3, <2>2 DEF Issued
  <2> QED BY <2>1, <2>2
<1>12. EntryCoversLife'
  <2>1. ASSUME NEW s \in out
        PROVE  access[s] > 0 /\ access[s] + BlacklistTtl <= blacklist[jwt'[s]] + AccessTtl
    <3>1. /\ s \in Tokens /\ access[s] > 0
          /\ access[s] + BlacklistTtl <= blacklist[jwt[s]] + AccessTtl
      BY <1>1 DEF EntryCoversLife, TypeOK
    <3>2. s \in Issued \ {t} /\ access[s] # 0
      BY <1>1, <1>2, <3>1 DEF OnlyIssued
    <3> QED BY <1>11, <3>1, <3>2
  <2> QED BY <1>2, <2>1 DEF EntryCoversLife
<1>13. TwinsAge'
  <2>1. \A s \in twins : s \in Issued' /\ access[s] = 0
    BY <1>6, <1>11
  <2>2. \A s \in Issued' : jwt'[s] \in Issued' /\ access[jwt'[s]] = access[s]
    BY <1>1, <1>6, <1>11, <2>1 DEF TwinsAge
  <2> QED BY <1>2, <2>2 DEF TwinsAge
<1> QED BY <1>7, <1>9, <1>10, <1>12, <1>13 DEF SessionInvariant

LEMMA ForgetDevices ==
  ASSUME DeviceInvariant, NEW t \in Tokens, Forget(t)
  PROVE  DeviceInvariant'
<1>1. /\ t \in Issued \ InUse
      /\ sessions' = sessions \ {t}
      /\ root' = [root EXCEPT ![t] = NoLogin]
      /\ UNCHANGED <<access, pc, sent, out, held, made, inbox>>
  BY DEF Forget, deviceVars, history
<1>2. TypeOK
  BY DEF DeviceInvariant, SessionInvariant
<1>3. ASSUME NEW d \in Devices PROVE OwnPairs(d)'
  <2>1. t \notin {held[d], made[d], inbox[d].headers, sent[d].access, sent[d].refresh}
    BY <1>1 DEF InUse
  <2> QED BY <1>1, <1>2, <2>1 DEF DeviceInvariant, OwnPairs, TypeOK
<1>4. ASSUME NEW d \in Devices PROVE RequestOfHeld(d)' /\ LogoutDone(d)'
  BY <1>1 DEF DeviceInvariant, RequestOfHeld, LogoutDone, At
<1>5. DeviceTypeOK'
  BY <1>1 DEF DeviceInvariant, DeviceTypeOK
<1> QED BY <1>3, <1>4, <1>5, ForgetSessions DEF DeviceInvariant

LEMMA TickDevices ==
  ASSUME DeviceInvariant, DeviceTick
  PROVE  DeviceInvariant'
<1> USE DEF Devices
<1>1. /\ access' = [t \in Tokens |-> Older(access[t])]
      /\ out' = {t \in out : access[t] > 1}
      /\ UNCHANGED <<sessions, root, pc, sent, held, made, inbox>>
  BY DEF DeviceTick, Tick, deviceVars
<1>2. SessionInvariant' /\ TypeOK
  BY TickSessions DEF DeviceTick, DeviceInvariant, SessionInvariant
<1>3. \A t \in Tokens : access'[t] > 0 => access[t] > 1
  BY <1>1, <1>2 DEF Older, TypeOK
<1>4. ASSUME NEW d \in Devices PROVE OwnPairs(d)' /\ RequestOfHeld(d)'
  BY <1>1 DEF DeviceInvariant, OwnPairs, RequestOfHeld, At
<1>5. ASSUME NEW d \in Devices PROVE LogoutDone(d)'
  <2>1. held[d] \in Tokens /\ access'[held[d]] > 0 /\ (access[held[d]] > 0 => held[d] \in out)
          => held[d] \in out'
    BY <1>1, <1>2, <1>3 DEF TypeOK
  <2>2. At(d, "delRefresh") => held[d] \in Tokens
    BY DEF DeviceInvariant, DeviceTypeOK, RequestOfHeld, At, Headers
  <2> QED BY <1>1, <2>1, <2>2 DEF DeviceInvariant, LogoutDone, At
<1>6. DeviceTypeOK'
  BY <1>1 DEF DeviceInvariant, DeviceTypeOK
<1> QED BY <1>2, <1>4, <1>5, <1>6 DEF DeviceInvariant

LEMMA NextDevices == DeviceInvariant /\ [DeviceNext]_<<vars, deviceVars>> => DeviceInvariant'
<1> SUFFICES ASSUME DeviceInvariant, [DeviceNext]_<<vars, deviceVars>>
             PROVE  DeviceInvariant'
  OBVIOUS
<1>1. CASE UNCHANGED <<vars, deviceVars>>
  <2>1. SessionInvariant'
    BY <1>1 DEF vars, DeviceInvariant, SessionInvariant, TypeOK, OnlyIssued, RefreshAtHand,
       EntryCoversLife, TwinsAge, LogoutBegun, Issued
  <2> QED BY <1>1, <2>1 DEF vars, deviceVars, DeviceInvariant, DeviceTypeOK, OwnPairs, RequestOfHeld,
             LogoutDone, At
<1>2. CASE DeviceNext
  BY <1>2, SignInDevice, SendDevice, ServeDevice, StorePairDevice, ThrowDevice, ReceiveDevice, LoseDevice,
     ForgetDevices, TickDevices DEF DeviceNext
<1> QED BY <1>1, <1>2

\* Devices and the backend agree on whose pair is whose, and on how far each
\* request and each logout has got, for any number of devices and pairs, any
\* lifetimes and whatever operation fails.
THEOREM DevicesCorrect == DeviceSpec => []DeviceInvariant
  BY InitDevices, NextDevices, PTL DEF DeviceSpec

\* Whatever fails, and however the requests of other devices overlap with it, a
\* logout answered with success has ended the session it was sent with, and the
\* JWT with it, which may be another device's too.
THEOREM LogoutIsComplete == DeviceSpec => []ClearedMeansGone
<1>1. DeviceInvariant => ClearedMeansGone
  <2>1. ASSUME DeviceInvariant, NEW d \in Devices, inbox[d] = [status |-> "ok", headers |-> Emptied]
        PROVE  held[d] \notin sessions /\ (access[held[d]] > 0 => Blocked(held[d]))
    <3>1. held[d] \in Tokens \ sessions /\ (access[held[d]] > 0 => held[d] \in out)
      BY <2>1 DEF DeviceInvariant, LogoutDone
    <3>2. held[d] \in out => Blocked(held[d])
      BY <2>1, OutBlocked DEF DeviceInvariant
    <3> QED BY <3>1, <3>2
  <2> QED BY <2>1 DEF ClearedMeansGone
<1> QED BY <1>1, DevicesCorrect, PTL

-----------------------------------------------------------------------------
(* A device keeps its session.                                              *)

\* A step of another device ends no session of this one.
LEMMA OtherKept ==
  ASSUME DeviceInvariant, NEW e \in Devices, PairKept(e), SameDevice(e),
         \A t \in sessions : root[t] = e => t \in sessions',
         e \in ending => e \in ending',
         e \in broken => e \in broken'
  PROVE  PairKept(e)'
<1>1. ASSUME NEW t \in {held[e], made[e], inbox[e].headers} \cap sessions PROVE t \in sessions'
  BY OwnIssued DEF DeviceInvariant, SessionInvariant, TypeOK
<1> QED BY <1>1 DEF PairKept, SameDevice, At

\* The sessions and endings a step of one device leaves alone.
LEMMA StepKept ==
  ASSUME DeviceInvariant, NEW d \in Devices, NEW e \in Devices \ {d}, PairKept(e),
         \A c \in Devices \ {d} : SameDevice(c),
         sessions \ {held[d]} \subseteq sessions',
         ending \ {d} \subseteq ending',
         broken \ {d} \subseteq broken'
  PROVE  PairKept(e)'
<1>1. ASSUME NEW t \in sessions, root[t] = e PROVE t \in sessions'
  BY <1>1, OwnIssued DEF DeviceInvariant, SessionInvariant, TypeOK
<1> QED BY <1>1, OtherKept

\* A device is answered with the pair that has its session.
LEMMA AnswerKept ==
  ASSUME DeviceTypeOK, TypeOK, NEW d \in Devices, Answer(d),
         NEW status, Respond(d, status, NewHeaders(d)), UNCHANGED <<sessions, held>>,
         made[d] \in sessions \/ (made[d] = NoToken /\ (held[d] \in sessions \/ d \in broken'))
  PROVE  PairKept(d)'
<1>1. /\ NewHeaders(d) # Emptied
      /\ NewHeaders(d) \in Tokens => NewHeaders(d) \in sessions
      /\ NewHeaders(d) = Unset => held[d] \in sessions \/ d \in broken'
  BY SessionAssumption, DeviceAssumption DEF NewHeaders, Emptied, Headers, TypeOK
<1>2. inbox'[d].headers = NewHeaders(d)
  BY DEF Respond, DeviceTypeOK
<1>3. pc'[d] = "idle"
  BY DEF Answer, TypeOK, Devices
<1> QED BY <1>1, <1>2, <1>3 DEF PairKept, At

\* The guard lets a request through that is not a logout.
LEMMA AdmitKept ==
  ASSUME DeviceTypeOK, TypeOK, NEW d \in Devices, Admit(d), Handled(d), UNCHANGED <<redis, held>>,
         sent[d].refresh = held[d], held[d] # NoToken, root[held[d]] = d, d \notin ending',
         made[d] \in sessions \/ (made[d] = NoToken /\ (held[d] \in sessions \/ d \in broken'))
  PROVE  PairKept(d)'
<1>1. Answer(d)
  BY DEF Admit, LoginOf
<1>2. pc'[d] = "idle"
  BY <1>1 DEF Answer, TypeOK, Devices
<1>3. PICK status \in {"ok", "failed"} : Respond(d, status, NewHeaders(d))
  BY <1>2 DEF Handled, Answered
<1> QED BY <1>1, <1>3, AnswerKept DEF redis

LEMMA ServeKept ==
  ASSUME DeviceInvariant, NEW d \in Devices, PairKept(d),
         Serve(d) \/ Throw(d)
  PROVE  PairKept(d)'
<1> USE DEF Devices, redis, history
<1>1. DeviceTypeOK /\ TypeOK /\ SessionInvariant /\ DeviceWell(d)
  BY DEF DeviceInvariant, SessionInvariant, DeviceWell
<1>2. SUFFICES ASSUME d \notin ending' PROVE PairKept(d)'
  BY DEF PairKept
<1>3. /\ pc[d] \in Operations
      /\ inbox[d] = Nothing /\ held[d] \in Tokens /\ sent[d].refresh = held[d]
      /\ UNCHANGED held
  <2>1. ~At(d, "idle") /\ UNCHANGED held
    <3>1. "idle" \notin Faults
      BY SessionAssumption DEF Operations
    <3> QED BY <3>1 DEF Serve, Throw, Refresh, Logout, Verify, UpdateLastSeen, GetSession, DelSession,
               SetBlacklist, DelRefresh, Fail, At
  <2> QED BY <1>1, <2>1 DEF TypeOK, DeviceWell, RequestOfHeld, DeviceTypeOK, Headers, At
<1>4. root[held[d]] = d /\ held[d] # NoToken
  BY <1>3, OwnIssued, SessionAssumption
<1>5. ending \subseteq ending'
  BY DEF Serve, Throw, Refresh, Logout, Verify, UpdateLastSeen, Admit, GetSession, DelSession,
     SetBlacklist, DelRefresh, Fail
<1>6. d \notin ending
  BY <1>2, <1>5
<1>7. pc[d] \notin {"setBlacklist", "delRefresh"}
  BY <1>1, <1>3, <1>4, <1>6 DEF SessionInvariant, LogoutBegun
<1>8. NoToken \notin Tokens /\ Unset \notin Tokens /\ Unset # NoToken
  BY SessionAssumption, DeviceAssumption DEF Headers
<1>9. CASE Verify(d) /\ Handled(d) /\ Serve(d)
  <2>1. /\ pc[d] = "verify" /\ made[d] = NoToken
        /\ held[d] \in sessions \/ d \in broken'
    BY <1>1, <1>6, <1>9 DEF Serve, Verify, At, DeviceWell, RequestOfHeld, PairKept
  <2>2. CASE Admit(d)
    BY <1>1, <1>2, <1>3, <1>4, <1>9, <2>1, <2>2, AdmitKept DEF Verify
  <2>3. CASE Continue(d, "getSession") /\ UNCHANGED <<sessions, history>>
    <3>1. pc'[d] = "getSession"
      BY <1>1, <2>3 DEF Continue, TypeOK
    <3>2. UNCHANGED <<made, inbox>>
      BY <1>9, <3>1 DEF Handled, Answered, Running
    <3> QED BY <1>3, <1>8, <2>1, <2>3, <3>1, <3>2 DEF PairKept, At, Nothing, Emptied
  <2> QED BY <1>3, <1>4, <1>9, <2>2, <2>3 DEF Verify
<1>10. CASE UpdateLastSeen(d) /\ Handled(d) /\ Serve(d)
  <2>1. pc[d] = "updateLastSeen" /\ made[d] \in sessions
    BY <1>6, <1>10 DEF UpdateLastSeen, At, PairKept
  <2>2. Admit(d) /\ Handled(d) /\ UNCHANGED <<redis, held>>
    BY <1>3, <1>10 DEF UpdateLastSeen
  <2> QED BY <1>1, <1>2, <1>3, <1>4, <2>1, <2>2, AdmitKept
<1>11. CASE Refresh(d) /\ Serve(d)
  <2>1. pc[d] \in {"getSession", "delSession"} /\ (held[d] \in sessions \/ d \in broken')
    BY <1>6, <1>11 DEF Serve, Refresh, GetSession, DelSession, At, PairKept
  <2>2. CASE Answer(d) /\ GetSession(d)
    <3>1. pc'[d] = "idle" /\ ~DelSession(d)
      BY <1>1, <2>2 DEF Answer, TypeOK, GetSession, DelSession, At
    <3>2. Refuse(d)
      BY <1>11, <3>1 DEF Refresh, Answered
    <3>3. held[d] \notin sessions
      BY <1>1, <1>3, <2>2, <3>1 DEF GetSession, Continue, TypeOK
    <3>4. inbox'[d].headers = Emptied /\ d \in broken'
      BY <1>1, <2>1, <3>2, <3>3 DEF Refuse, Respond, DeviceTypeOK
    <3> QED BY <1>8, <3>1, <3>4 DEF PairKept, At, Emptied
  <2>3. ASSUME NEW operation \in {"delSession", "storeSession"}, Continue(d, operation),
               operation = "delSession" => UNCHANGED sessions
        PROVE  PairKept(d)'
    <3>1. pc'[d] = operation
      BY <1>1, <2>3 DEF Continue, TypeOK
    <3>2. UNCHANGED <<made, inbox>>
      BY <1>11, <2>3, <3>1 DEF Refresh, Answered, Running
    <3> QED BY <1>3, <1>8, <2>1, <2>3, <3>1, <3>2 DEF PairKept, At, Nothing, Emptied
  <2> QED BY <1>3, <1>11, <2>1, <2>2, <2>3 DEF Refresh, GetSession, DelSession
<1>12. CASE Throw(d)
  <2>1. CASE pc[d] = "verify"
    <3>1. made[d] = NoToken /\ (held[d] \in sessions \/ d \in broken')
      BY <1>1, <1>6, <1>12, <2>1 DEF DeviceWell, RequestOfHeld, At, PairKept, Throw
    <3> QED BY <1>1, <1>3, <1>12, <2>1, <3>1, AnswerKept DEF Throw, Fail
  <2>2. CASE pc[d] # "verify"
    <3>1. Refuse(d) /\ broken' = broken \cup ({d} \ ending) /\ Answer(d)
      BY <1>3, <1>7, <1>12, <2>2 DEF Throw, Fail, Operations
    <3>2. pc'[d] = "idle" /\ inbox'[d].headers = Emptied /\ d \in broken'
      BY <1>1, <1>6, <3>1 DEF Answer, TypeOK, Refuse, Respond, DeviceTypeOK
    <3> QED BY <1>8, <3>2 DEF PairKept, At, Emptied
  <2> QED BY <2>1, <2>2
<1> QED BY <1>7, <1>9, <1>10, <1>11, <1>12 DEF Serve, Logout, SetBlacklist, DelRefresh, At

\* What a request of one device leaves alone: every session but the one it was
\* sent with, and the other devices.
LEMMA ServeFrame ==
  ASSUME DeviceInvariant, NEW d \in Devices, Serve(d) \/ Throw(d) \/ StorePair(d)
  PROVE  /\ sessions \ {held[d]} \subseteq sessions'
         /\ ending \subseteq ending'
         /\ broken \subseteq broken'
         /\ \A e \in Devices \ {d} : SameDevice(e)
<1> USE DEF Devices, redis, history
<1>1. DeviceTypeOK /\ TypeOK /\ DeviceWell(d)
  BY DEF DeviceInvariant, SessionInvariant, DeviceWell
<1>2. CASE Serve(d) \/ Throw(d)
  <2>1. ending \subseteq ending' /\ broken \subseteq broken' /\ UNCHANGED held
    BY <1>2 DEF Serve, Throw, Refresh, Logout, Verify, UpdateLastSeen, Admit, GetSession, DelSession,
       SetBlacklist, DelRefresh, Fail
  <2>2. sessions \ {held[d]} \subseteq sessions'
    <3>1. sessions' = sessions \/ (pc[d] \in {"delSession", "delRefresh"} /\ sessions' = sessions \ {sent[d].refresh})
      BY <1>2 DEF Serve, Throw, Refresh, Logout, Verify, UpdateLastSeen, GetSession, DelSession,
         SetBlacklist, DelRefresh, Fail, At
    <3> QED BY <1>1, <3>1 DEF DeviceWell, RequestOfHeld, At
  <2>3. \A e \in Devices \ {d} : pc'[e] = pc[e] /\ sent'[e] = sent[e]
    BY <1>1, <1>2 DEF Serve, Throw, Refresh, Logout, Verify, UpdateLastSeen, Admit, GetSession,
       DelSession, SetBlacklist, DelRefresh, Fail, Continue, Answer, TypeOK
  <2>4. \A e \in Devices \ {d} : made'[e] = made[e] /\ inbox'[e] = inbox[e]
    BY <1>1, <1>2 DEF Serve, Throw, Refresh, Logout, Handled, Refuse, Running, Respond, DeviceTypeOK
  <2> QED BY <2>1, <2>2, <2>3, <2>4 DEF SameDevice
<1>3. CASE StorePair(d)
  <2>1. /\ sessions \subseteq sessions' /\ UNCHANGED <<ending, held, inbox, broken>>
        /\ Continue(d, "updateLastSeen") /\ "updateLastSeen" \in Operations
        /\ \A e \in Devices \ {d} : made'[e] = made[e]
    BY <1>1, <1>3 DEF StorePair, StoreSession, IssueTokens, Operations, DeviceTypeOK
  <2> QED BY <1>1, <2>1, ContinueDevice DEF SameDevice
<1> QED BY <1>2, <1>3

LEMMA StorePairKept ==
  ASSUME DeviceInvariant, NEW d \in Devices, PairKept(d), StorePair(d)
  PROVE  PairKept(d)'
<1> USE DEF Devices, history
<1>1. DeviceTypeOK /\ TypeOK /\ DeviceWell(d)
  BY DEF DeviceInvariant, SessionInvariant, DeviceWell
<1>2. inbox[d] = Nothing /\ UNCHANGED <<inbox, held, ending, broken>> /\ Unset # Emptied /\ Unset \notin Tokens
  BY <1>1, SessionAssumption, DeviceAssumption
     DEF StorePair, StoreSession, At, DeviceWell, RequestOfHeld, Emptied, Headers
<1>3. pc'[d] = "updateLastSeen"
  BY <1>1 DEF StorePair, StoreSession, Continue, TypeOK
<1> QED BY <1>2, <1>3, StorePairDevice DEF PairKept, At, Nothing

LEMMA SignInKept ==
  ASSUME DeviceInvariant, NEW d \in Devices, SignIn(d), \A e \in Devices : PairKept(e)
  PROVE  \A e \in Devices : PairKept(e)'
<1> USE DEF Devices
<1>1. DeviceTypeOK /\ TypeOK
  BY DEF DeviceInvariant, SessionInvariant
<1>2. PICK t \in Fresh : Login(d, t) /\ Respond(d, "ok", t)
  BY DEF SignIn
<1>3. /\ sessions' = sessions \cup {t} /\ ending' = ending \ {d}
      /\ UNCHANGED <<pc, sent, held, broken>> /\ pc[d] = "idle" /\ held[d] = NoToken
      /\ t \in Tokens /\ t \in Headers /\ t # NoToken /\ t # Unset
  BY <1>2, SessionAssumption, DeviceAssumption DEF SignIn, Login, IssueTokens, Fresh, At, Headers
<1>4. /\ made'[d] = NoToken
      /\ inbox'[d] = [status |-> "ok", headers |-> t]
      /\ \A e \in Devices : e # d => made'[e] = made[e] /\ inbox'[e] = inbox[e]
  BY <1>1, <1>2, <1>3, RespondFrame DEF Statuses
<1>5. PairKept(d)'
  BY <1>3, <1>4 DEF PairKept, At, Emptied
<1>6. ASSUME NEW e \in Devices \ {d} PROVE PairKept(e)'
  BY <1>3, <1>4, <1>6, OtherKept DEF SameDevice
<1> QED BY <1>5, <1>6

LEMMA SendKept ==
  ASSUME DeviceInvariant, NEW d \in Devices, NEW logout \in BOOLEAN, Send(d, logout),
         \A e \in Devices : PairKept(e)
  PROVE  \A e \in Devices : PairKept(e)'
<1> USE DEF Devices, redis, history
<1>1. DeviceTypeOK /\ TypeOK
  BY DEF DeviceInvariant, SessionInvariant
<1>2. /\ UNCHANGED <<sessions, ending, held, broken>>
      /\ pc[d] = "idle" /\ inbox[d] = Nothing /\ held[d] # NoToken
      /\ Unset # NoToken /\ Unset \notin Tokens
  BY SessionAssumption, DeviceAssumption DEF Send, Request, At, Headers
<1>3. /\ pc' \in {[pc EXCEPT ![d] = "idle"], [pc EXCEPT ![d] = "verify"]}
      /\ \A e \in Devices \ {d} : sent'[e] = sent[e]
  BY <1>1 DEF Send, Request, Answer, Begin, TypeOK
<1>4. /\ pc'[d] = "idle" => inbox'[d].headers = Unset
      /\ pc'[d] # "idle" => inbox'[d] = Nothing
      /\ \A e \in Devices \ {d} : made'[e] = made[e] /\ inbox'[e] = inbox[e]
  BY <1>1, <1>2 DEF Send, Answered, RefuseBlacklisted, Running, Respond, DeviceTypeOK
<1>5. PairKept(d)'
  <2>1. pc'[d] \in {"idle", "verify"} /\ inbox'[d].headers = Unset
    BY <1>1, <1>3, <1>4 DEF TypeOK, Nothing
  <2>2. d \notin ending \cup broken => held[d] \in sessions
    BY <1>2 DEF PairKept, At, Nothing
  <2> QED BY <1>2, <2>1, <2>2 DEF PairKept, At, Emptied
<1>6. ASSUME NEW e \in Devices \ {d} PROVE PairKept(e)'
  BY <1>1, <1>2, <1>3, <1>4, <1>6, OtherKept DEF SameDevice, TypeOK
<1> QED BY <1>5, <1>6

LEMMA ReceiveKept ==
  ASSUME DeviceInvariant, NEW d \in Devices, Receive(d), \A e \in Devices : PairKept(e)
  PROVE  \A e \in Devices : PairKept(e)'
<1> USE DEF Devices
<1>1. DeviceTypeOK /\ TypeOK /\ DeviceWell(d)
  BY DEF DeviceInvariant, SessionInvariant, DeviceWell
<1>2. /\ UNCHANGED <<sessions, ending, pc, sent, made>>
      /\ inbox[d] \in Responses
      /\ Unset # NoToken /\ Unset \notin Tokens
  BY <1>1, SessionAssumption, DeviceAssumption DEF Receive, vars, Headers, DeviceTypeOK
<1>3. /\ held'[d] = IF inbox[d].headers = Unset THEN held[d] ELSE inbox[d].headers
      /\ inbox[d].headers = Unset => UNCHANGED broken
      /\ broken \ {d} \subseteq broken'
      /\ inbox'[d] = Nothing
      /\ \A e \in Devices \ {d} : held'[e] = held[e] /\ inbox'[e] = inbox[e]
  BY <1>1 DEF Receive, DeviceTypeOK
<1>4. pc[d] = "idle" /\ inbox[d].headers \in Tokens \cup {Unset, Emptied}
  BY <1>1, <1>2 DEF Receive, DeviceWell, RequestOfHeld, At, Responses, Headers, Emptied
<1>5. PairKept(d)'
  BY <1>2, <1>3, <1>4 DEF PairKept, At, Emptied, Nothing
<1>6. ASSUME NEW e \in Devices \ {d} PROVE PairKept(e)'
  BY <1>2, <1>3, <1>6, OtherKept DEF SameDevice
<1> QED BY <1>5, <1>6

\* A lost response leaves its device with the pair it had.
LEMMA LoseKept ==
  ASSUME DeviceInvariant, NEW d \in Devices, Lose(d), \A e \in Devices : PairKept(e)
  PROVE  \A e \in Devices : PairKept(e)'
<1> USE DEF Devices
<1>1. DeviceTypeOK /\ TypeOK /\ DeviceWell(d)
  BY DEF DeviceInvariant, SessionInvariant, DeviceWell
<1>2. /\ UNCHANGED <<sessions, ending, pc, sent, made, held>>
      /\ broken \subseteq broken'
      /\ inbox[d] \in Responses
      /\ Unset # NoToken /\ Unset \notin Tokens
  BY <1>1, SessionAssumption, DeviceAssumption DEF Lose, vars, Headers, DeviceTypeOK
<1>3. /\ inbox'[d] = Nothing
      /\ \A e \in Devices \ {d} : inbox'[e] = inbox[e]
  BY <1>1 DEF Lose, DeviceTypeOK
<1>4. pc[d] = "idle" /\ inbox[d].headers \in Tokens \cup {Unset, Emptied}
  BY <1>1, <1>2 DEF Lose, DeviceWell, RequestOfHeld, At, Responses, Headers, Emptied
<1>5. PairKept(d)'
  <2>1. ASSUME d \notin ending \cup broken', held[d] # NoToken PROVE inbox[d].headers \notin Tokens
    BY <2>1, <1>2 DEF Lose
  <2> QED BY <1>2, <1>3, <1>4, <2>1 DEF PairKept, At, Emptied, Nothing
<1>6. ASSUME NEW e \in Devices \ {d} PROVE PairKept(e)'
  BY <1>2, <1>3, <1>6, OtherKept DEF SameDevice
<1> QED BY <1>5, <1>6

LEMMA ForgetKept ==
  ASSUME DeviceInvariant, NEW t \in Tokens, Forget(t), NEW e \in Devices, PairKept(e)
  PROVE  PairKept(e)'
<1>1. /\ sessions' = sessions \ {t}
      /\ t \notin {held[e], made[e], inbox[e].headers}
      /\ UNCHANGED <<pc, ending, held, made, inbox, broken>>
  BY DEF Forget, InUse, history, deviceVars
<1> QED BY <1>1 DEF PairKept, At

LEMMA NextKept ==
  ASSUME DeviceInvariant, \A e \in Devices : PairKept(e),
         [DeviceNext]_<<vars, deviceVars>>
  PROVE  \A e \in Devices : PairKept(e)'
<1>1. CASE \E d \in Devices : SignIn(d)
  BY <1>1, SignInKept
<1>2. CASE \E d \in Devices : Send(d, FALSE) \/ Send(d, TRUE)
  BY <1>2, SendKept
<1>3. CASE \E d \in Devices : Serve(d) \/ Throw(d) \/ StorePair(d)
  <2>1. PICK d \in Devices : Serve(d) \/ Throw(d) \/ StorePair(d)
    BY <1>3
  <2>2. PairKept(d)'
    BY <2>1, ServeKept, StorePairKept
  <2>3. ASSUME NEW e \in Devices \ {d} PROVE PairKept(e)'
    BY <2>1, ServeFrame, StepKept
  <2> QED BY <2>2, <2>3
<1>4. CASE \E d \in Devices : Receive(d) \/ Lose(d)
  BY <1>4, ReceiveKept, LoseKept
<1>5. CASE \E t \in Tokens : Forget(t)
  BY <1>5, ForgetKept
<1>6. CASE DeviceTick \/ UNCHANGED <<vars, deviceVars>>
  BY <1>6 DEF DeviceTick, Tick, vars, deviceVars, PairKept, At
<1> QED BY <1>1, <1>2, <1>3, <1>4, <1>5, <1>6 DEF DeviceNext

LEMMA PairsKept == DeviceSpec => [](\A d \in Devices : PairKept(d))
<1>1. DeviceInit => \A d \in Devices : PairKept(d)
  BY SessionAssumption, DeviceAssumption
     DEF DeviceInit, Init, PairKept, Devices, Nothing, Emptied, Headers, At
<1>2. DeviceInvariant /\ (\A d \in Devices : PairKept(d))
        /\ [DeviceNext]_<<vars, deviceVars>> => (\A d \in Devices : PairKept(d))'
  BY NextKept
<1> QED BY <1>1, <1>2, DevicesCorrect, PTL DEF DeviceSpec

\* Whatever fails or is lost, a device that waits for no answer holds a pair
\* whose session is stored, unless its own logout has begun or a rotation of its
\* own failed or was not heard of: however the requests and logouts of other
\* devices came between its own, and whichever JWTs they share.
THEOREM DeviceKeepsSession == DeviceSpec => []TokensKept
<1>1. (\A d \in Devices : PairKept(d)) => TokensKept
  BY DEF PairKept, TokensKept, Nothing
<1> QED BY <1>1, PairsKept, PTL

\* Nothing but these signs a device out.
THEOREM NoOtherSignsOut == DeviceSpec => SignedOutForCause
<1>1. ASSUME DeviceInvariant, \A d \in Devices : PairKept(d), [DeviceNext]_<<vars, deviceVars>>
      PROVE  [\A d \in Devices :
                held[d] # NoToken /\ held'[d] = NoToken => d \in ending \cup broken]_held
  <2> SUFFICES ASSUME NEW d \in Devices, held[d] # NoToken, held'[d] = NoToken
               PROVE  d \in ending \cup broken
    OBVIOUS
  <2>1. PICK e \in Devices : Receive(e)
    BY <1>1 DEF DeviceNext, SignIn, Send, Serve, StorePair, Throw, Lose, Forget, DeviceTick, deviceVars
  <2>2. d = e /\ inbox[d].headers = Emptied
    BY <1>1, <2>1 DEF Receive, DeviceInvariant, DeviceTypeOK, Emptied
  <2> QED BY <1>1, <2>2 DEF PairKept
<1> QED BY <1>1, DevicesCorrect, PairsKept, PTL DEF DeviceSpec, SignedOutForCause
=============================================================================
