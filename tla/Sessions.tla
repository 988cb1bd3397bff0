------------------------------ MODULE Sessions ------------------------------
(***************************************************************************)
(* The token side of the backend: AuthGuard.canActivate, AuthService's     *)
(* refresh, issueTokens and logout.  Of requests with an API key (module   *)
(* ApiKeys says which are let in) only what they do to tokens is here.     *)
(*                                                                         *)
(* issueTokens signs an access token and stores a refresh session          *)
(* together, so one member t of Tokens stands for such a pair: access[t]   *)
(* is the life left in its JWT, t \in sessions says its refresh session is *)
(* in Redis.  A JWT says who and when, to the second, and nothing else: two *)
(* pairs signed for a user in one second have the same one, and jwt[t]     *)
(* names the first pair that has it.  Refresh sessions live for days and   *)
(* JWTs for minutes; the sessions' own expiry is left out.                 *)
(***************************************************************************)
EXTENDS Integers

CONSTANTS
    Logins,        \* successful verifyOtp calls of one user, the roots of token chains
    Tokens,        \* token pairs; bounds how many are ever issued
    Calls,         \* concurrent HTTP requests, each reusable
    AccessTtl,     \* JWT_ACCESS_EXPIRES_IN in ticks
    BlacklistTtl,  \* ACCESS_TOKEN_TTL_SECONDS in ticks
    Faults,        \* operations a request may fail at
    NoToken,       \* a missing header
    NoLogin        \* the root of a pair not yet issued

Operations == {"verify", "getSession", "delSession", "storeSession", "updateLastSeen",
               "setBlacklist", "delRefresh"}

\* The two lifetimes are separate settings: either may be the longer one.
ASSUME SessionAssumption ==
    /\ AccessTtl \in Nat /\ AccessTtl > 0
    /\ BlacklistTtl \in Nat /\ BlacklistTtl > 0
    /\ Faults \subseteq Operations
    /\ NoToken \notin Tokens
    /\ NoLogin \notin Logins

VARIABLES
    access,     \* life left in each pair's access token
    jwt,        \* the pair that stands for its JWT
    sessions,   \* pairs whose refresh session is stored
    root,       \* the login each pair descends from
    blacklist,  \* TTL of auth:blacklist:<JWT>, NoToken for "undefined"
    pc,         \* the operation each request awaits next
    sent,       \* the headers each request may still use, and whether it is a logout
    out,        \* history: access tokens a logout has blacklisted, till they expire
    ending      \* history: logins whose logout handler has begun

redis   == <<access, jwt, sessions, root, blacklist>>
history == <<out, ending>>
vars    == <<access, jwt, sessions, root, blacklist, pc, sent, out, ending>>

Headers    == Tokens \cup {NoToken}
Requests   == [access : Headers, refresh : Headers, logout : BOOLEAN]
NoHeaders  == [access |-> NoToken, refresh |-> NoToken, logout |-> FALSE]

Init ==
    /\ access = [t \in Tokens |-> 0]
    /\ jwt = [t \in Tokens |-> t]
    /\ sessions = {}
    /\ root = [t \in Tokens |-> NoLogin]
    /\ blacklist = [h \in Headers |-> 0]
    /\ pc = [c \in Calls |-> "idle"]
    /\ sent = [c \in Calls |-> NoHeaders]
    /\ out = {}
    /\ ending = {}

-----------------------------------------------------------------------------
At(c, operation) == pc[c] = operation

\* The access token is read once more only to blacklist it.
Continue(c, operation) ==
    /\ pc' = [pc EXCEPT ![c] = operation]
    /\ IF sent[c].logout /\ operation # "delRefresh"
       THEN UNCHANGED sent
       ELSE sent' = [sent EXCEPT ![c].access = NoToken]

\* The request is answered; what with is left out, for clients act freely.
Answer(c) ==
    /\ pc' = [pc EXCEPT ![c] = "idle"]
    /\ sent' = [sent EXCEPT ![c] = NoHeaders]

Begin(c, request, operation) ==
    /\ pc' = [pc EXCEPT ![c] = operation]
    /\ sent' = [sent EXCEPT ![c] = request]

Issued == {t \in Tokens : root[t] # NoLogin}
Fresh  == Tokens \ Issued

\* The login a request's headers come from, by what the stored session (or the
\* JWT) says of its user.
LoginOf(request) == root[IF request.refresh # NoToken THEN request.refresh ELSE request.access]

\* JWTs signed within the tick, of which the second of a new one may be.
Recent == {jwt[s] : s \in {s \in Issued : access[s] = AccessTtl}}

\* issueTokens: sign, then SET the refresh session.
IssueTokens(t, login) ==
    /\ t \in Fresh
    /\ access' = [access EXCEPT ![t] = AccessTtl]
    /\ \E signed \in {t} \cup Recent : jwt' = [jwt EXCEPT ![t] = signed]
    /\ sessions' = sessions \cup {t}
    /\ root' = [root EXCEPT ![t] = login]

\* The end of verifyOtp (module Registration).
Login(l, t) ==
    /\ \A s \in Tokens : root[s] # l
    /\ IssueTokens(t, l)
    /\ ending' = ending \ {l}
    /\ UNCHANGED <<blacklist, pc, sent, out>>

-----------------------------------------------------------------------------
(* canActivate, then the handler: every route but logout just answers. *)

Admit(c) ==
    IF sent[c].logout
    THEN /\ Continue(c, "setBlacklist")
         /\ ending' = ending \cup {LoginOf(sent[c])}
         /\ UNCHANGED out
    ELSE Answer(c) /\ UNCHANGED history

ValidAccess(h) == h # NoToken /\ access[h] > 0

\* What EXISTS and SET on the blacklist are keyed by.
Entry(h) == IF h = NoToken THEN NoToken ELSE jwt[h]

\* The headers a client of one login can send, both its own or one missing,
\* or none.
ClientRequests ==
    {request \in [access : Issued \cup {NoToken}, refresh : Issued \cup {NoToken},
                  logout : BOOLEAN] :
        request.access # NoToken /\ request.refresh # NoToken
            => root[request.access] = root[request.refresh]}

TokensOf(request) == {request.access, request.refresh} \ {NoToken}

\* A request arrives: EXISTS on the blacklist is the guard's first await.  One
\* without tokens is refused before it.
Request(c, request) ==
    /\ At(c, "idle")
    /\ TokensOf(request) # {}
    /\ IF blacklist[Entry(request.access)] > 0 THEN Answer(c)
                                               ELSE Begin(c, request, "verify")
    /\ UNCHANGED <<redis, history>>

\* A logout with a valid API key: the guard looks at no token, so none is
\* checked or rotated, but the handler ends those it finds beside the key.
KeyRequest(c, request) ==
    /\ At(c, "idle")
    /\ request.logout
    /\ Begin(c, request, "setBlacklist")
    /\ ending' = ending \cup {root[h] : h \in TokensOf(request)}
    /\ UNCHANGED <<redis, out>>

\* checkAcessToken; a missing or expired access token falls through to refresh.
Verify(c) ==
    /\ At(c, "verify")
    /\ IF ValidAccess(sent[c].access)
       THEN Admit(c)
       ELSE /\ IF sent[c].refresh = NoToken THEN Answer(c)
                                            ELSE Continue(c, "getSession")
            /\ UNCHANGED history
    /\ UNCHANGED redis

-----------------------------------------------------------------------------
(* refresh, inside the guard. *)

\* GET; findById finds every user, none is ever deleted.
GetSession(c) ==
    /\ At(c, "getSession")
    /\ IF sent[c].refresh \in sessions THEN Continue(c, "delSession")
                                       ELSE Answer(c)
    /\ UNCHANGED <<redis, history>>

\* Mutant: the new tokens are signed, but no session is stored for them.
DelSessionOnly(c) ==
    /\ At(c, "delSession")
    /\ sessions' = sessions \ {sent[c].refresh}
    /\ Continue(c, "updateLastSeen")
    /\ UNCHANGED <<access, jwt, root, blacklist, history>>

DelSession(c) ==
    /\ At(c, "delSession")
    /\ sessions' = sessions \ {sent[c].refresh}
    /\ Continue(c, "storeSession")
    /\ UNCHANGED <<access, jwt, root, blacklist, history>>

StoreSession(c) ==
    /\ At(c, "storeSession")
    /\ \E t \in Fresh : IssueTokens(t, root[sent[c].refresh])
    /\ Continue(c, "updateLastSeen")
    /\ UNCHANGED <<blacklist, history>>

\* The request goes on with the headers it was sent with.
UpdateLastSeen(c) ==
    /\ At(c, "updateLastSeen")
    /\ Admit(c)
    /\ UNCHANGED redis

-----------------------------------------------------------------------------
(* logout: SET the blacklist entry, then DEL the refresh session. *)

\* Mutant: the entry's life is cut a tick short of its setting.
EntryLifeShort == BlacklistTtl - 1

\* Mutant: the entry is kept a tick longer than its setting.
EntryLifeLong == BlacklistTtl + 1

EntryLife == BlacklistTtl

SetBlacklist(c) ==
    /\ At(c, "setBlacklist")
    /\ blacklist' = [blacklist EXCEPT ![Entry(sent[c].access)] = EntryLife]
    /\ out' = out \cup {t \in Tokens : t = sent[c].access /\ access[t] > 0}
    /\ IF sent[c].refresh = NoToken
       THEN Answer(c)
       ELSE Continue(c, "delRefresh")
    /\ UNCHANGED <<access, jwt, sessions, root, ending>>

\* Mutant: DEL is given the token itself, not the key made of its hash.
DelRefreshUnhashed(c) ==
    /\ At(c, "delRefresh")
    /\ Answer(c)
    /\ UNCHANGED <<redis, history>>

DelRefresh(c) ==
    /\ At(c, "delRefresh")
    /\ sessions' = sessions \ {sent[c].refresh}
    /\ Answer(c)
    /\ UNCHANGED <<access, jwt, root, blacklist, history>>

-----------------------------------------------------------------------------
\* An operation in Faults fails (in the guard's refresh the error is caught and
\* answered 401, in logout it escapes), the process stops before it, or the
\* reply of the operation before it is lost.  What was done stays.
Fail(c) ==
    /\ pc[c] \in Faults
    /\ Answer(c)
    /\ UNCHANGED <<redis, history>>

Older(ticks) == IF ticks > 0 THEN ticks - 1 ELSE 0

Tick ==
    /\ \E t \in Tokens : access[t] > 0
       \/ \E h \in Headers : blacklist[h] > 0
    /\ access' = [t \in Tokens |-> Older(access[t])]
    /\ blacklist' = [h \in Headers |-> Older(blacklist[h])]
    /\ out' = {t \in out : access[t] > 1}
    /\ UNCHANGED <<jwt, sessions, root, pc, sent, ending>>

Step(c) ==
    \/ Verify(c)       \/ GetSession(c)     \/ DelSession(c)
    \/ StoreSession(c) \/ UpdateLastSeen(c) \/ SetBlacklist(c)

\* All token pairs of the instance have been issued: the bound, not the code.
Exhausted == Fresh = {} /\ UNCHANGED vars

\* Everything but the two ends of a logout.
Between ==
    \/ \E l \in Logins, t \in Tokens : Login(l, t)
    \/ \E c \in Calls : Step(c) \/ Fail(c)
    \/ Tick
    \/ Exhausted

Next ==
    \/ Between
    \/ \E c \in Calls :
         \/ \E request \in ClientRequests : Request(c, request) \/ KeyRequest(c, request)
         \/ DelRefresh(c)

Spec == Init /\ [][Next]_vars

-----------------------------------------------------------------------------
(* Properties. *)

\* Every variable has its type.
TypeOK ==
    /\ access \in [Tokens -> 0..AccessTtl]
    /\ jwt \in [Tokens -> Tokens]
    /\ sessions \subseteq Tokens
    /\ root \in [Tokens -> Logins \cup {NoLogin}]
    /\ blacklist \in [Headers -> 0..BlacklistTtl]
    /\ pc \in [Calls -> Operations \cup {"idle"}]
    /\ sent \in [Calls -> Requests]
    /\ out \subseteq Tokens
    /\ ending \subseteq Logins

\* A JWT that is not let in, or only for as long as the setting for the entry is
\* short of the one for the token.
Blocked(t) == blacklist[jwt[t]] > 0 \/ access[t] <= AccessTtl - BlacklistTtl

\* Wherever in its life a logout has blacklisted an access token, whatever other
\* logouts of its JWT came before or after: it is let in again at the most in
\* the last ticks by which an entry's life is shorter than a token's, and never
\* where it is not shorter.
BlacklistOutlivesToken == \A t \in out : access[t] > 0 => Blocked(t)

\* While a request cannot fail between deleting a refresh session and storing
\* the next, a login that has not begun to log out keeps one, or a request that
\* is about to store it, however many requests exchange the same or an old
\* refresh token at once.
LoginSurvives ==
    \A l \in Logins \ ending :
        (\E t \in Tokens : root[t] = l) =>
            \/ \E t \in sessions : root[t] = l
            \/ \E c \in Calls : At(c, "storeSession") /\ LoginOf(sent[c]) = l
=============================================================================
