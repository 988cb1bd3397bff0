------------------------------ MODULE Devices -------------------------------
(***************************************************************************)
(* Sessions with its clients: devices of one user that keep the token pair *)
(* of the last X-Access-Token and X-Refresh-Token headers they were sent   *)
(* and send one request at a time with it.  This module adds to the steps  *)
(* of Sessions what each puts into the response: the headers the guard and *)
(* the controllers set (HeaderUtils), which HttpExceptionFilter leaves as  *)
(* they are when it turns an error into a status.                          *)
(***************************************************************************)
EXTENDS Sessions

Devices == Calls

Unset == "unset"  \* neither header is in the response

\* A device signs in again once its former pairs have expired.
ASSUME DeviceAssumption == Logins = Devices /\ Unset \notin Headers

VARIABLES
    held,   \* the pair each device sends, NoToken when it is signed out
    made,   \* the pair the guard's refresh returned for the running request
    inbox,  \* the response on its way to each device
    broken  \* devices a rotation of whose failed, or was made and they have not
            \* heard of it (history)

deviceVars == <<held, made, inbox, broken>>

Emptied   == NoToken     \* clearTokenHeaders: both are there, without a value
Statuses  == {"ok", "failed", "refused"}
Responses == [status : Statuses, headers : Headers \cup {Unset}]
Nothing   == [status |-> "none", headers |-> Unset]

DeviceInit ==
    /\ Init
    /\ held = [d \in Devices |-> NoToken]
    /\ made = [d \in Devices |-> NoToken]
    /\ inbox = [d \in Devices |-> Nothing]
    /\ broken = {}

-----------------------------------------------------------------------------
Respond(d, status, headers) ==
    /\ inbox' = [inbox EXCEPT ![d] = [status |-> status, headers |-> headers]]
    /\ made' = [made EXCEPT ![d] = NoToken]

Running == UNCHANGED <<made, inbox>>

Answered(d) == pc'[d] = "idle"

\* setTokenHeaders after a refresh; without one the headers are not touched.
NewHeaders(d) == IF made[d] = NoToken THEN Unset ELSE made[d]

\* Mutant: an error is answered without the headers the guard has set.
HandledBare(d) ==
    IF Answered(d)
    THEN \E status \in {"ok", "failed"} :
            Respond(d, status, IF status = "ok" THEN NewHeaders(d) ELSE Unset)
    ELSE Running

\* The guard lets the request through.  Every route but logout then answers,
\* or throws: the filter sends the headers set by then with any status.
Handled(d) ==
    IF Answered(d)
    THEN \E status \in {"ok", "failed"} : Respond(d, status, NewHeaders(d))
    ELSE Running

\* Mutant: the guard refuses and leaves the headers alone.
RefuseBare(d) == Respond(d, "refused", Unset)

\* The catch around the guard's refresh.
Refuse(d) == Respond(d, "refused", Emptied)

\* Mutant: a blacklisted token is answered like a failed refresh.
RefuseBlacklistedEmptied(d) == Refuse(d)

\* Thrown before the guard's try blocks.
RefuseBlacklisted(d) == Respond(d, "refused", Unset)

\* Which of the pairs not in use a new one is called makes no difference.
Spare == CHOOSE t \in Fresh : TRUE

\* verify-code is public: the guard looks at no header.
SignIn(d) ==
    /\ At(d, "idle") /\ inbox[d] = Nothing /\ held[d] = NoToken
    /\ \E t \in Fresh : Login(d, t) /\ t = Spare /\ Respond(d, "ok", t)
    /\ UNCHANGED <<held, broken>>

Send(d, logout) ==
    /\ inbox[d] = Nothing /\ held[d] # NoToken
    /\ Request(d, [access |-> held[d], refresh |-> held[d], logout |-> logout])
    /\ IF Answered(d) THEN RefuseBlacklisted(d) ELSE Running
    /\ UNCHANGED <<held, broken>>

Refresh(d) ==
    \/ GetSession(d) /\ IF Answered(d) THEN Refuse(d) ELSE Running
    \/ DelSession(d) /\ Running

StorePair(d) ==
    /\ StoreSession(d) /\ Spare \in sessions'
    /\ made' = [made EXCEPT ![d] = Spare]
    /\ UNCHANGED <<held, inbox, broken>>

\* clearTokenHeaders after a logout; an error passes it by.
Logout(d) ==
    \/ SetBlacklist(d) /\ Running
    \/ /\ DelRefresh(d)
       /\ \/ Respond(d, "ok", Emptied)
          \/ "delRefresh" \in Faults /\ Respond(d, "failed", NewHeaders(d))

Serve(d) ==
    /\ \/ Verify(d) /\ Handled(d)
       \/ UpdateLastSeen(d) /\ Handled(d)
       \/ Refresh(d)
       \/ Logout(d)
    /\ UNCHANGED <<held, broken>>

\* Sessions' Fail where the reply of the last operation, DEL, is not lost:
\* Logout has that.
Throw(d) ==
    /\ Fail(d)
    /\ IF pc[d] \in {"getSession", "delSession", "storeSession", "updateLastSeen"}
       THEN Refuse(d) /\ broken' = broken \cup ({d} \ ending)
       ELSE Respond(d, "failed", NewHeaders(d)) /\ UNCHANGED broken
    /\ UNCHANGED held

Receive(d) ==
    /\ inbox[d] # Nothing
    /\ IF inbox[d].headers = Unset THEN UNCHANGED <<held, broken>>
       ELSE /\ held' = [held EXCEPT ![d] = inbox[d].headers]
            /\ broken' = broken \ {d}
    /\ inbox' = [inbox EXCEPT ![d] = Nothing]
    /\ UNCHANGED <<vars, made>>

\* The connection ends before the response is through.
Lose(d) ==
    /\ inbox[d] # Nothing
    /\ inbox' = [inbox EXCEPT ![d] = Nothing]
    /\ broken' = IF d \notin ending /\ held[d] # NoToken /\ inbox[d].headers \in Tokens
                 THEN broken \cup {d} ELSE broken
    /\ UNCHANGED <<vars, held, made>>

InUse ==
    {t \in Tokens : \E d \in Devices :
        t \in {held[d], made[d], inbox[d].headers, sent[d].access, sent[d].refresh}}

\* The refresh session of a pair no client has any more ends, days later.
\* Another pair then names a JWT they shared.
Forget(t) ==
    LET twins == {s \in Issued \ {t} : jwt[s] = t}
    IN  /\ t \in Issued \ InUse
        /\ access[t] = 0 /\ blacklist[t] = 0
        /\ sessions' = sessions \ {t}
        /\ root' = [root EXCEPT ![t] = NoLogin]
        /\ jwt' = [s \in Tokens |->
                     IF s = t THEN t
                     ELSE IF s \in twins THEN CHOOSE heir \in twins : TRUE ELSE jwt[s]]
        /\ UNCHANGED <<access, blacklist, pc, sent, history, deviceVars>>

DeviceTick == Tick /\ UNCHANGED deviceVars

DeviceNext ==
    \/ \E d \in Devices :
         \/ SignIn(d) \/ Send(d, FALSE) \/ Send(d, TRUE)
         \/ Serve(d)  \/ StorePair(d)   \/ Throw(d)
         \/ Receive(d) \/ Lose(d)
    \/ \E t \in Tokens : Forget(t)
    \/ DeviceTick

\* Devices go on sending requests, not every response is lost, the event loop
\* resumes every await, Redis and the clock run.  Only a loss disables Receive,
\* and only a bound on Tokens StorePair.
Fairness ==
    /\ \A d \in Devices :
         /\ WF_<<vars, deviceVars>>(Send(d, FALSE) \/ Serve(d))
         /\ SF_<<vars, deviceVars>>(StorePair(d) \/ Receive(d))
    /\ WF_<<vars, deviceVars>>(\E t \in Tokens : Forget(t))
    /\ WF_<<vars, deviceVars>>(DeviceTick)

DeviceSpec == DeviceInit /\ [][DeviceNext]_<<vars, deviceVars>> /\ Fairness

-----------------------------------------------------------------------------
(* Properties. *)

\* A device that is not waiting for an answer holds a pair whose session is
\* stored, whatever its handlers threw and whatever the other devices did,
\* unless its logout has begun, a rotation of it failed or was made and the
\* response with the new pair lost: nothing keeps the old one for a retry.
TokensKept ==
    \A d \in Devices \ (ending \cup broken) :
        At(d, "idle") /\ inbox[d] = Nothing /\ held[d] # NoToken => held[d] \in sessions

\* Only one of these signs a device out: no request or logout of another
\* device, no error outside the rotation, no other loss.
SignedOutForCause ==
    [][\A d \in Devices :
         held[d] # NoToken /\ held'[d] = NoToken => d \in ending \cup broken]_held

\* A logout answered with success has ended the pair it was sent with: no
\* session is left of it and its JWT, while it lives, is blacklisted.
ClearedMeansGone ==
    \A d \in Devices : inbox[d] = [status |-> "ok", headers |-> Emptied] =>
        /\ held[d] \notin sessions
        /\ access[held[d]] > 0 => Blocked(held[d])

\* A signed-in device is, again and again, answered with something other than a
\* refusal, an error 500 included, or told to sign in: it is not refused for
\* ever, though other devices' logouts may blacklist its JWT.
GetsThrough ==
    \A d \in Devices :
        []<>(held[d] = NoToken \/ inbox[d].status \in {"ok", "failed"})
=============================================================================
