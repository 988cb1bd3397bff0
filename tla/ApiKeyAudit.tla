---------------------------- MODULE ApiKeyAudit ----------------------------
(***************************************************************************)
(* ApiKeys with what an observer of its clients would write down: when     *)
(* calls got past the rate limiter, whose counters will never be sent an   *)
(* EXPIRE, which revocations have been acknowledged, and which calls began *)
(* after that.  The observer restricts nothing.                            *)
(***************************************************************************)
EXTENDS ApiKeys, FiniteSets, FiniteSetsExt

VARIABLES
    passed,        \* per key and age in ticks, the calls the limiter let through
    unsent,        \* keys whose counter lost the one call to send its EXPIRE
    acknowledged,  \* keys whose revoke was answered with success
    late           \* calls that began after their key's acknowledgement

auditVars == <<passed, unsent, acknowledged, late>>

Ages == 0..(WindowTtl - 1)

AuditInit ==
    /\ Init
    /\ passed = [k \in Keys |-> [age \in Ages |-> 0]]
    /\ unsent = {}
    /\ acknowledged = {}
    /\ late = {}

\* Calls that this step starts, and those it lets past the limiter.
Started       == {c \in Calls : pc[c] = "idle" /\ target'[c] # NoKey}
LetThrough(k) == {c \in Calls : /\ pc[c] \in {"idle", "incr"}
                                /\ target'[c] = k
                                /\ pc'[c] \in {"expire", "getCachedUserId"}}

\* The call that found the counter at one fails before its EXPIRE is done, or
\* no call will find it there: the reply to the INCR that began it is lost.
LosesExpiry(k) ==
    \/ \E c \in Calls : At(c, "expire") /\ target[c] = k /\ Fail(c)
    \/ count[k] = 0 /\ \E c \in Calls : LoseReply(c, k)

Note ==
    /\ passed' = [k \in Keys |-> [passed[k] EXCEPT ![0] = @ + Cardinality(LetThrough(k))]]
    /\ unsent' = unsent \cup {k \in Keys : LosesExpiry(k)}
    /\ acknowledged' = acknowledged \cup
          {k \in Keys : \E c \in Calls :
              target[c] = k /\ pc[c] = "invalidateCache" /\ answer'[c] = "revoked"}
    /\ late' = (late \ Started) \cup {c \in Started : target'[c] \in acknowledged}

\* A tick makes every note one tick older and forgets the oldest.
Age ==
    /\ passed' = [k \in Keys |->
                    [age \in Ages |-> IF age = 0 THEN 0 ELSE passed[k][age - 1]]]
    /\ UNCHANGED <<unsent, acknowledged, late>>

AuditNext ==
    \/ Tick /\ Age
    \/ Next /\ ~Tick /\ Note

AuditSpec     == AuditInit /\ [][AuditNext]_<<vars, auditVars>>
FairAuditSpec == AuditSpec /\ Fair

\* The calls of key k past the limiter that are of the given ages.
Passed(k, ages) == MapThenSumSet(LAMBDA age : passed[k][age], ages)

PassedInWindow(k) == Passed(k, Ages)

\* Over any stretch of WindowTtl ticks a key gets through the limiter at most
\* twice RATE_LIMIT_MAX times, whatever calls overlap and fail: a burst can
\* straddle two counters but never three.
AtMostTwiceMax == \A k \in Keys : PassedInWindow(k) <= 2 * RateLimitMax

\* However many clients keep calling, and whatever else fails, a rate counter
\* starts over and a limited client gets through again.  What keeps one for
\* ever is the loss of its EXPIRE, or of the reply to its first INCR.
CountersExpire == \A k \in Keys : (count[k] > 0) ~> (count[k] = 0 \/ k \in unsent)

\* The documented check: a call that begins after the revocation of its key
\* was acknowledged is not accepted.
RevokedRejected == \A c \in Calls : c \in late => answer[c] # "accepted"
=============================================================================
