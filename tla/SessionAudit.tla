---------------------------- MODULE SessionAudit ----------------------------
(***************************************************************************)
(* Sessions with what its clients know of their logouts.  The observer     *)
(* restricts nothing.                                                      *)
(***************************************************************************)
EXTENDS Sessions

VARIABLES
    complete,  \* requests that are logouts with both headers, the refresh token
               \* being the one session its login had when the request came
    loggedOut  \* logins such a logout was answered for with success

auditVars == <<complete, loggedOut>>

AuditInit == Init /\ complete = {} /\ loggedOut = {}

Complete(request) ==
    /\ request.logout
    /\ request.access # NoToken
    /\ request.refresh \in sessions
    /\ \A t \in sessions : root[t] = root[request.refresh] => t = request.refresh

NoteRequest(c, request) ==
    /\ Request(c, request) \/ KeyRequest(c, request)
    /\ complete' = IF Complete(request) THEN complete \cup {c} ELSE complete \ {c}
    /\ UNCHANGED loggedOut

NoteLogout(c) ==
    /\ DelRefresh(c)
    /\ loggedOut' = IF c \in complete THEN loggedOut \cup {LoginOf(sent[c])} ELSE loggedOut
    /\ UNCHANGED complete

AuditNext ==
    \/ Between /\ UNCHANGED auditVars
    \/ \E c \in Calls :
         \/ \E request \in ClientRequests : NoteRequest(c, request)
         \/ NoteLogout(c)

AuditSpec == AuditInit /\ [][AuditNext]_<<vars, auditVars>>

\* The documented logout: once a logout that carried both headers, the
\* refresh token being the login's current one, is answered and nothing is in
\* flight, no refresh session of that login is left.
LogoutEndsLogin ==
    (\A c \in Calls : At(c, "idle")) =>
        \A t \in sessions : root[t] \notin loggedOut
=============================================================================
