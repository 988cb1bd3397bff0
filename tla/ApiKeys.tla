------------------------------ MODULE ApiKeys ------------------------------
(***************************************************************************)
(* ApiKeyService: generate, validate (with its Redis rate limit and cache) *)
(* and revoke.  A row of api_keys, the cache entry apikey:<hash> and the   *)
(* counter ratelimit:<hash> live in different stores and are read and      *)
(* written one await at a time, so other calls run between any two steps.  *)
(*                                                                         *)
(* A raw key is identified with its hash.  Redis time is counted in ticks: *)
(* cache[k] and window[k] are the ticks an entry has left to live.         *)
(***************************************************************************)
EXTENDS Integers

CONSTANTS
    Users,
    Keys,          \* raw keys clients may present, generated or not
    Calls,         \* concurrent calls of the service, each reusable
    RateLimitMax,  \* RATE_LIMIT_MAX
    CacheTtl,      \* ticks a cache entry lives (60 s)
    WindowTtl,     \* ticks a counter lives once EXPIRE is set (60 s)
    Faults,        \* operations a call may fail at
    NoUser,        \* the owner of a key that was never generated
    NoKey          \* the key of a call that is not running

Operations == {"incr", "expire", "getCachedUserId", "getApiKeyByHash", "cacheUserId",
               "findForUpdate", "saveDeletedAt", "invalidateCache"}

ASSUME ApiKeyAssumption ==
    /\ RateLimitMax \in Nat /\ RateLimitMax > 0
    /\ CacheTtl \in Nat /\ CacheTtl > 0
    /\ WindowTtl \in Nat /\ WindowTtl > 0
    /\ Faults \subseteq Operations
    /\ NoUser \notin Users
    /\ NoKey \notin Keys

VARIABLES
    rows,      \* api_keys: no row, a live row, a row with deleted_at set
    owner,     \* api_keys.user_id
    cache,     \* TTL of the cache entry, 0 when there is none
    count,     \* the rate counter, 0 when there is none
    window,    \* TTL of the counter; 0 with count > 0 means it never expires
    pc,        \* the operation each call awaits next
    target,    \* the key each call is about
    answer     \* how each call's last operation was answered

redis == <<cache, count, window>>
vars  == <<rows, owner, cache, count, window, pc, target, answer>>

Answers    == {"none", "accepted", "limited", "rejected", "revoked", "error"}

\* INCR counts on for ever, but only "= 1" and "<= max" are ever asked of it:
\* counts two past the limit and beyond are not told apart.
CountBound == RateLimitMax + 2

Init ==
    /\ rows = [k \in Keys |-> "absent"]
    /\ owner = [k \in Keys |-> NoUser]
    /\ cache = [k \in Keys |-> 0]
    /\ count = [k \in Keys |-> 0]
    /\ window = [k \in Keys |-> 0]
    /\ pc = [c \in Calls |-> "idle"]
    /\ target = [c \in Calls |-> NoKey]
    /\ answer = [c \in Calls |-> "none"]

-----------------------------------------------------------------------------
At(c, operation) == pc[c] = operation

Start(c, k, operation) ==
    /\ pc' = [pc EXCEPT ![c] = operation]
    /\ target' = [target EXCEPT ![c] = k]
    /\ answer' = [answer EXCEPT ![c] = "none"]

Continue(c, operation) ==
    /\ pc' = [pc EXCEPT ![c] = operation]
    /\ UNCHANGED <<target, answer>>

Answer(c, a) ==
    /\ pc' = [pc EXCEPT ![c] = "idle"]
    /\ target' = [target EXCEPT ![c] = NoKey]
    /\ answer' = [answer EXCEPT ![c] = a]

\* The last operation of a handler: its reply may be lost.
Finish(c, a) == Answer(c, a) \/ (pc[c] \in Faults /\ Answer(c, "error"))

Live(k) == rows[k] = "live"

-----------------------------------------------------------------------------
(* generate: a fresh random key, one insert. *)

Generate(k, u) ==
    /\ rows[k] = "absent"
    /\ rows' = [rows EXCEPT ![k] = "live"]
    /\ owner' = [owner EXCEPT ![k] = u]
    /\ UNCHANGED <<redis, pc, target, answer>>

-----------------------------------------------------------------------------
(* validate: rate limit, cache, database, cache fill. *)

\* Mutant: INCR is taken to answer with the count before it.
SetsExpiryAtZero(current) == current = 0

SetsExpiry(current) == current = 1

\* Mutant: one request more than the limit.
UnderLimitExtra(current) == current <= RateLimitMax + 1

UnderLimit(current) == current <= RateLimitMax

\* Mutant: a cache entry lives a tick longer than documented.
CacheLifeLonger == CacheTtl + 1

\* What cacheUserId passes to SET ... EX.
CacheLife == CacheTtl

Counted(k) == IF count[k] < CountBound THEN count[k] + 1 ELSE CountBound

\* INCR, and what is made of its reply.
CheckRateLimit(c, k) ==
    /\ count' = [count EXCEPT ![k] = Counted(k)]
    /\ IF SetsExpiry(Counted(k)) THEN Start(c, k, "expire")
       ELSE IF UnderLimit(Counted(k)) THEN Start(c, k, "getCachedUserId")
       ELSE Answer(c, "limited")
    /\ UNCHANGED <<rows, owner, cache, window>>

\* checkRateLimit is the first await of validate.
Validate(c, k) == At(c, "idle") /\ CheckRateLimit(c, k)

\* Redis has counted the call, but the connection drops before the reply: the
\* client sends INCR again once it is back (maxRetriesPerRequest), or gives up,
\* which is a Fail.  Any number of these may drop in a row.
LoseReply(c, k) ==
    /\ "incr" \in Faults
    /\ At(c, "idle") \/ (At(c, "incr") /\ target[c] = k)
    /\ count' = [count EXCEPT ![k] = Counted(k)]
    /\ Start(c, k, "incr")
    /\ UNCHANGED <<rows, owner, cache, window>>

ResendIncr(c) == At(c, "incr") /\ CheckRateLimit(c, target[c])

\* EXPIRE; the counter was 1, which is within any limit.
Expire(c) ==
    /\ At(c, "expire")
    /\ window' = [window EXCEPT ![target[c]] = WindowTtl]
    /\ Continue(c, "getCachedUserId")
    /\ UNCHANGED <<rows, owner, cache, count>>

\* Mutant: a hit renews the entry.
GetCachedUserIdRenews(c) ==
    /\ At(c, "getCachedUserId")
    /\ IF cache[target[c]] > 0
       THEN /\ cache' = [cache EXCEPT ![target[c]] = CacheLife]
            /\ Answer(c, "accepted")
       ELSE /\ Continue(c, "getApiKeyByHash")
            /\ UNCHANGED cache
    /\ UNCHANGED <<rows, owner, count, window>>

\* A hit answers at once and does not renew the entry.
GetCachedUserId(c) ==
    /\ At(c, "getCachedUserId")
    /\ IF cache[target[c]] > 0 THEN Answer(c, "accepted")
                               ELSE Continue(c, "getApiKeyByHash")
    /\ UNCHANGED <<rows, owner, redis>>

\* Mutant: the lookup includes soft-deleted rows.
GetApiKeyByHashWithDeleted(c) ==
    /\ At(c, "getApiKeyByHash")
    /\ IF rows[target[c]] # "absent" THEN Continue(c, "cacheUserId")
                                     ELSE Answer(c, "rejected")
    /\ UNCHANGED <<rows, owner, redis>>

\* findOne leaves soft-deleted rows out (DeleteDateColumn).
GetApiKeyByHash(c) ==
    /\ At(c, "getApiKeyByHash")
    /\ IF Live(target[c]) THEN Continue(c, "cacheUserId")
                          ELSE Answer(c, "rejected")
    /\ UNCHANGED <<rows, owner, redis>>

CacheUserId(c) ==
    /\ At(c, "cacheUserId")
    /\ cache' = [cache EXCEPT ![target[c]] = CacheLife]
    /\ Finish(c, "accepted")
    /\ UNCHANGED <<rows, owner, count, window>>

-----------------------------------------------------------------------------
(* revoke: ownership check, soft delete (find, then save), cache delete. *)

Revoke(c, k, u) ==
    /\ At(c, "idle")
    /\ IF Live(k) /\ owner[k] = u THEN Start(c, k, "findForUpdate")
                                  ELSE Answer(c, "rejected")
    /\ UNCHANGED <<rows, owner, redis>>

\* updateApiKey reads the row again; a concurrent revoke may have won.
FindForUpdate(c) ==
    /\ At(c, "findForUpdate")
    /\ IF Live(target[c]) THEN Continue(c, "saveDeletedAt")
                          ELSE Answer(c, "rejected")
    /\ UNCHANGED <<rows, owner, redis>>

SaveDeletedAt(c) ==
    /\ At(c, "saveDeletedAt")
    /\ rows' = [rows EXCEPT ![target[c]] = "revoked"]
    /\ Continue(c, "invalidateCache")
    /\ UNCHANGED <<owner, redis>>

InvalidateCache(c) ==
    /\ At(c, "invalidateCache")
    /\ cache' = [cache EXCEPT ![target[c]] = 0]
    /\ Finish(c, "revoked")
    /\ UNCHANGED <<rows, owner, count, window>>

-----------------------------------------------------------------------------
(* Failure and time. *)

\* An operation in Faults fails, the process stops before it, or the reply of
\* the operation before it is lost: whatever the call has done so far stays.
Fail(c) ==
    /\ pc[c] \in Faults
    /\ Answer(c, "error")
    /\ UNCHANGED <<rows, owner, redis>>

Older(ttl) == IF ttl > 0 THEN ttl - 1 ELSE 0

\* A counter without expiry (window 0) is not touched by time.
Tick ==
    /\ \E k \in Keys : cache[k] > 0 \/ window[k] > 0
    /\ cache' = [k \in Keys |-> Older(cache[k])]
    /\ window' = [k \in Keys |-> Older(window[k])]
    /\ count' = [k \in Keys |-> IF window[k] = 1 THEN 0 ELSE count[k]]
    /\ UNCHANGED <<rows, owner, pc, target, answer>>

-----------------------------------------------------------------------------
Step(c) ==
    \/ ResendIncr(c)      \/ Expire(c)
    \/ GetCachedUserId(c) \/ GetApiKeyByHash(c) \/ CacheUserId(c)
    \/ FindForUpdate(c)   \/ SaveDeletedAt(c)   \/ InvalidateCache(c)

Next ==
    \/ \E k \in Keys, u \in Users : Generate(k, u)
    \/ \E c \in Calls :
         \/ \E k \in Keys : Validate(c, k) \/ LoseReply(c, k)
         \/ \E k \in Keys, u \in Users : Revoke(c, k, u)
         \/ Step(c)
         \/ Fail(c)
    \/ Tick

Spec == Init /\ [][Next]_vars

\* Time passes and every running handler goes on; clients owe nothing.
Fair == WF_vars(Tick) /\ \A c \in Calls : WF_vars(Step(c))

-----------------------------------------------------------------------------
(* Properties. *)

\* Every variable has its type.
TypeOK ==
    /\ rows \in [Keys -> {"absent", "live", "revoked"}]
    /\ owner \in [Keys -> Users \cup {NoUser}]
    /\ cache \in [Keys -> 0..CacheTtl]
    /\ count \in [Keys -> 0..CountBound]
    /\ window \in [Keys -> 0..WindowTtl]
    /\ pc \in [Calls -> Operations \cup {"idle"}]
    /\ target \in [Calls -> Keys \cup {NoKey}]
    /\ answer \in [Calls -> Answers]

\* A key that nothing can authenticate any more: revoked, not cached, and no
\* validate that saw the live row still on its way to fill the cache.
Dead(k) ==
    /\ rows[k] = "revoked"
    /\ cache[k] = 0
    /\ \A c \in Calls : target[c] = k => ~At(c, "cacheUserId")

Standing(k) == IF rows[k] # "revoked" THEN rows[k]
               ELSE IF Dead(k) THEN "dead" ELSE "lingering"

Authority == INSTANCE KeyAuthority
               WITH standing <- [k \in Keys |-> Standing(k)],
                    asks     <- target,
                    granted  <- {c \in Calls : answer[c] = "accepted"}

\* Row, cache and running calls together are one authority: no validate is
\* answered with success but for a key that is live or still lingers, and a
\* dead key never comes back, whatever validates, revokes, failures and
\* expirations follow.
ImplementsKeyAuthority == Authority!Spec

\* A revoked key stops working for good, even if the cache delete failed or a
\* late validate filled the cache again after it: time runs that entry out,
\* and hits do not keep it alive.
RevocationSettles == \A k \in Keys : (rows[k] = "revoked") ~> Dead(k)
=============================================================================
