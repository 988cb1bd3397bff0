--------------------------- MODULE ApiKeyProofs ---------------------------
(* Theorems about ApiKeys and ApiKeyAudit, for every value of the          *)
(* constants.                                                              *)
EXTENDS ApiKeyAudit, FiniteSums

-----------------------------------------------------------------------------
(* The inductive invariant behind the refinement. *)

\* A running call is about a key.
CallHasKey == \A c \in Calls : pc[c] # "idle" => target[c] \in Keys

\* No key is cached, about to be cached or being revoked that was never issued.
OnlyIssuedKeys ==
    /\ \A k \in Keys : cache[k] > 0 => rows[k] # "absent"
    /\ \A c \in Calls :
         pc[c] \in {"cacheUserId", "findForUpdate", "saveDeletedAt", "invalidateCache"} =>
             rows[target[c]] # "absent"

KeyInvariant == TypeOK /\ CallHasKey /\ OnlyIssuedKeys

-----------------------------------------------------------------------------
(* The inductive invariant behind the rate limit. *)

IdleHasNoKey == \A c \in Calls : pc[c] = "idle" => target[c] = NoKey

\* The call that found a counter at one is alone with its EXPIRE, and until it
\* is sent the counter does not start over.
ExpireOnce ==
    /\ \A c \in Calls : At(c, "expire") => count[target[c]] > 0 /\ window[target[c]] = 0
    /\ \A c, d \in Calls : At(c, "expire") /\ At(d, "expire") /\ target[c] = target[d] => c = d

\* The running counter of k began the given number of ticks ago (at most as
\* many as are remembered): the calls let through since are within the limit
\* and within the counter, those of before, all of one earlier counter, within
\* the limit, and the counter does not end before those are forgotten.
CounterBegan(k, ticks) ==
    /\ Passed(k, 0..(ticks - 1)) <= count[k]
    /\ Passed(k, 0..(ticks - 1)) <= RateLimitMax
    /\ Passed(k, ticks..(WindowTtl - 1)) <= RateLimitMax
    /\ ticks = 0 <=> count[k] = 0
    /\ count[k] = 0 => window[k] = 0 /\ passed[k][0] = 0
    /\ window[k] > 0 => ticks + window[k] > WindowTtl

RateInvariant ==
    /\ KeyInvariant
    /\ passed \in [Keys -> [Ages -> Nat]]
    /\ IdleHasNoKey
    /\ ExpireOnce
    /\ \A k \in Keys : \E ticks \in 0..WindowTtl : CounterBegan(k, ticks)

-----------------------------------------------------------------------------
(* What RevokedRejected misses, and the invariant where that is left out. *)

\* A revoke deletes the cache entry while a validate that has read the live
\* row is yet to write it.
EarlyDelete ==
    \E c, d \in Calls : InvalidateCache(c) /\ At(d, "cacheUserId") /\ target[d] = target[c]

RunningUnanswered == \A c \in Calls : pc[c] # "idle" => answer[c] = "none"

DeletedFirst == \A c \in Calls : At(c, "invalidateCache") => rows[target[c]] = "revoked"

AcknowledgedDead ==
    /\ \A k \in acknowledged : Dead(k)
    /\ \A c \in late : answer[c] # "accepted"
    /\ \A c \in late : pc[c] # "idle" => target[c] \in acknowledged

RevokeInvariant ==
    /\ acknowledged \subseteq Keys
    /\ late \subseteq Calls
    /\ RunningUnanswered
    /\ DeletedFirst
    /\ AcknowledgedDead

-----------------------------------------------------------------------------
LEMMA InitKeys == Init => KeyInvariant
  BY ApiKeyAssumption
     DEF Init, KeyInvariant, TypeOK, CallHasKey, OnlyIssuedKeys, Operations, Answers, CountBound

\* An INCR reaches Redis: of a validate, sent again, or with its reply lost.
Counts(c, k) ==
    /\ At(c, "idle") \/ (At(c, "incr") /\ target[c] = k)
    /\ CheckRateLimit(c, k) \/ LoseReply(c, k)

LEMMA CountsAre ==
  ASSUME KeyInvariant, NEW c \in Calls
  PROVE  /\ \A k \in Keys : Validate(c, k) \/ LoseReply(c, k) => Counts(c, k)
         /\ ResendIncr(c) => \E k \in Keys : Counts(c, k)
  BY DEF Counts, Validate, LoseReply, ResendIncr, KeyInvariant, CallHasKey, At

\* What the step makes of the call and the counter.
LEMMA CountsDo ==
  ASSUME NEW c \in Calls, NEW k \in Keys, Counts(c, k)
  PROVE  /\ pc[c] = "idle" \/ (pc[c] = "incr" /\ target[c] = k)
         /\ UNCHANGED <<rows, owner, cache, window>>
         /\ count' = [count EXCEPT ![k] = Counted(k)]
         /\ \/ Counted(k) = 1 /\ Start(c, k, "expire")
            \/ Counted(k) # 1 /\ Counted(k) <= RateLimitMax /\ Start(c, k, "getCachedUserId")
            \/ Counted(k) # 1 /\ Answer(c, "limited")
            \/ LoseReply(c, k) /\ Start(c, k, "incr")
  BY DEF Counts, CheckRateLimit, LoseReply, SetsExpiry, UnderLimit, At

LEMMA CountsKeys ==
  ASSUME KeyInvariant, NEW c \in Calls, NEW k \in Keys, Counts(c, k)
  PROVE  KeyInvariant'
<1> USE CountsDo DEF KeyInvariant, Start, Answer
<1>1. TypeOK'
  <2>1. Counted(k) \in 0..CountBound
    BY ApiKeyAssumption DEF TypeOK, Counted, CountBound
  <2>2. \/ \E operation \in Operations : Start(c, k, operation)
        \/ Answer(c, "limited")
    BY DEF Operations
  <2>3. "none" \in Answers /\ "limited" \in Answers
    BY DEF Answers
  <2> QED BY <2>1, <2>2, <2>3 DEF TypeOK
<1>2. CallHasKey'
  BY DEF TypeOK, CallHasKey
<1>3. OnlyIssuedKeys'
  BY DEF TypeOK, OnlyIssuedKeys
<1> QED BY <1>1, <1>2, <1>3

LEMMA RevokeKeys ==
  ASSUME KeyInvariant, NEW c \in Calls, NEW k \in Keys, NEW u \in Users, Revoke(c, k, u)
  PROVE  KeyInvariant'
<1> USE DEF KeyInvariant, At, Start, Answer, Live, redis
<1>1. TypeOK'
  BY DEF Revoke, TypeOK, Operations, Answers
<1>2. CallHasKey' /\ OnlyIssuedKeys'
  BY DEF Revoke, TypeOK, CallHasKey, OnlyIssuedKeys
<1> QED BY <1>1, <1>2

\* The awaited operations of validate and revoke.
LEMMA StepKeys ==
  ASSUME KeyInvariant, NEW c \in Calls, Step(c)
  PROVE  KeyInvariant'
<1> USE DEF KeyInvariant, TypeOK, CallHasKey, OnlyIssuedKeys, At, Continue, Answer, Finish, Live,
        redis, Operations, Answers
<1>1. CASE Expire(c)          BY <1>1, ApiKeyAssumption DEF Expire
<1>2. CASE GetCachedUserId(c) BY <1>2 DEF GetCachedUserId
<1>3. CASE GetApiKeyByHash(c) BY <1>3 DEF GetApiKeyByHash
<1>4. CASE CacheUserId(c)     BY <1>4, ApiKeyAssumption DEF CacheUserId, CacheLife
<1>5. CASE FindForUpdate(c)   BY <1>5 DEF FindForUpdate
<1>6. CASE SaveDeletedAt(c)   BY <1>6 DEF SaveDeletedAt
<1>7. CASE InvalidateCache(c) BY <1>7, ApiKeyAssumption DEF InvalidateCache
<1>8. CASE ResendIncr(c)
  <2> HIDE DEF KeyInvariant
  <2> QED BY <1>8, CountsAre, CountsKeys
<1> QED BY <1>1, <1>2, <1>3, <1>4, <1>5, <1>6, <1>7, <1>8 DEF Step

LEMMA OtherKeys ==
  ASSUME KeyInvariant,
         \/ \E k \in Keys, u \in Users : Generate(k, u)
         \/ \E c \in Calls : Fail(c)
         \/ Tick
         \/ UNCHANGED vars
  PROVE  KeyInvariant'
<1> USE DEF KeyInvariant, TypeOK, CallHasKey, OnlyIssuedKeys
<1>1. CASE \E k \in Keys, u \in Users : Generate(k, u)
  BY <1>1 DEF Generate, redis
<1>2. CASE \E c \in Calls : Fail(c)
  BY <1>2 DEF Fail, Answer, redis, Answers
<1>3. CASE Tick
  BY <1>3, ApiKeyAssumption DEF Tick, Older, CountBound
<1>4. CASE UNCHANGED vars
  BY <1>4 DEF vars
<1> QED BY <1>1, <1>2, <1>3, <1>4

LEMMA NextKeys == KeyInvariant /\ [Next]_vars => KeyInvariant'
  BY CountsAre, CountsKeys, RevokeKeys, StepKeys, OtherKeys DEF Next

LEMMA KeysCorrect == Spec => []KeyInvariant
  BY InitKeys, NextKeys, PTL DEF Spec

\* Rows, cache entries, counters and calls of the key service keep their types.
THEOREM KeyTypes == Spec => []TypeOK
<1>1. KeyInvariant => TypeOK
  BY DEF KeyInvariant
<1> QED BY <1>1, KeysCorrect, PTL

-----------------------------------------------------------------------------
(* The refinement: how each action moves the standing of keys and whom it   *)
(* grants.                                                                  *)

StandingsMove ==
    \A k \in Keys : Standing(k)' # Standing(k)
                       => <<Standing(k), Standing(k)'>> \in Authority!Changes

GrantsStand ==
    \A c \in Calls : answer'[c] = "accepted" /\ answer[c] # "accepted" =>
        target[c] \in Keys /\ Standing(target[c]) \in {"live", "lingering"}

LEMMA RowsCacheQuiet ==
  ASSUME UNCHANGED <<rows, cache>>,
         \A c \in Calls : pc'[c] = "cacheUserId" <=> pc[c] = "cacheUserId",
         \A c \in Calls : pc[c] = "cacheUserId" => target'[c] = target[c]
  PROVE  StandingsMove
  BY DEF StandingsMove, Standing, Dead, At

LEMMA ArrivalsRefine ==
  ASSUME KeyInvariant, NEW c \in Calls, NEW k \in Keys,
         Counts(c, k) \/ \E u \in Users : Revoke(c, k, u)
  PROVE  StandingsMove /\ GrantsStand
<1> USE CountsDo DEF KeyInvariant, TypeOK, At, Start, Answer, redis
<1>1. /\ UNCHANGED <<rows, cache>>
      /\ \A d \in Calls : pc'[d] = "cacheUserId" <=> pc[d] = "cacheUserId"
      /\ \A d \in Calls : pc[d] = "cacheUserId" => target'[d] = target[d]
      /\ GrantsStand
  BY DEF Revoke, GrantsStand
<1> QED BY <1>1, RowsCacheQuiet

\* Only the cache hit and the cache fill grant, and both see a key that is live
\* or whose cache entry, or that very call, makes it linger.
LEMMA StepRefines ==
  ASSUME KeyInvariant, NEW c \in Calls, Step(c)
  PROVE  StandingsMove /\ GrantsStand
<1> USE DEF KeyInvariant, TypeOK, CallHasKey, OnlyIssuedKeys, At, Continue, Answer, Finish, Live, redis,
        GrantsStand, Standing, Dead
<1>1. CASE Expire(c)
  BY <1>1, RowsCacheQuiet DEF Expire
<1>2. CASE GetCachedUserId(c)
  BY <1>2, RowsCacheQuiet DEF GetCachedUserId
<1>3. CASE GetApiKeyByHash(c)
  BY <1>3 DEF GetApiKeyByHash, StandingsMove, Authority!Changes
<1>4. CASE CacheUserId(c)
  BY <1>4, ApiKeyAssumption DEF CacheUserId, CacheLife, StandingsMove, Authority!Changes
<1>5. CASE FindForUpdate(c)
  BY <1>5, RowsCacheQuiet DEF FindForUpdate
<1>6. CASE SaveDeletedAt(c)
  BY <1>6 DEF SaveDeletedAt, StandingsMove, Authority!Changes
<1>7. CASE InvalidateCache(c)
  BY <1>7 DEF InvalidateCache, StandingsMove, Authority!Changes
<1>8. CASE ResendIncr(c)
  <2> HIDE DEF KeyInvariant, GrantsStand
  <2> QED BY <1>8, CountsAre, ArrivalsRefine
<1> QED BY <1>1, <1>2, <1>3, <1>4, <1>5, <1>6, <1>7, <1>8 DEF Step

LEMMA OthersRefine ==
  ASSUME KeyInvariant,
         \/ \E k \in Keys, u \in Users : Generate(k, u)
         \/ \E c \in Calls : Fail(c)
         \/ Tick
         \/ UNCHANGED vars
  PROVE  StandingsMove /\ GrantsStand
<1> USE DEF KeyInvariant, TypeOK, OnlyIssuedKeys, At, GrantsStand, StandingsMove, Standing, Dead,
        Authority!Changes
<1>1. CASE \E k \in Keys, u \in Users : Generate(k, u)
  BY <1>1 DEF Generate, redis
<1>2. CASE \E c \in Calls : Fail(c)
  BY <1>2 DEF Fail, Answer, redis
<1>3. CASE Tick
  BY <1>3, ApiKeyAssumption DEF Tick, Older
<1>4. CASE UNCHANGED vars
  BY <1>4 DEF vars
<1> QED BY <1>1, <1>2, <1>3, <1>4

LEMMA NextRefinesAuthority ==
  ASSUME KeyInvariant, [Next]_vars
  PROVE  Authority!Next
<1>1. StandingsMove /\ GrantsStand
  BY CountsAre, ArrivalsRefine, StepRefines, OthersRefine DEF Next
<1>2. \A k \in Keys : [j \in Keys |-> Standing(j)]'[k] = Standing(k)'
                      /\ [j \in Keys |-> Standing(j)][k] = Standing(k)
  OBVIOUS
<1>3. \A k \in Keys : [j \in Keys |-> Standing(j)]'[k] # [j \in Keys |-> Standing(j)][k]
                        => <<[j \in Keys |-> Standing(j)][k], [j \in Keys |-> Standing(j)]'[k]>>
                             \in Authority!Changes
  BY <1>1, <1>2 DEF StandingsMove
<1>4. \A c \in {d \in Calls : answer'[d] = "accepted"} \ {d \in Calls : answer[d] = "accepted"} :
         target[c] # NoKey /\ [j \in Keys |-> Standing(j)][target[c]] \in {"live", "lingering"}
  BY <1>1, <1>2, ApiKeyAssumption DEF GrantsStand
<1> QED BY <1>3, <1>4 DEF Authority!Next

\* Row, cache, counter and calls in flight are one authority, for any keys,
\* calls, limits, lifetimes and faults: nobody is granted access but for a key
\* that is live or still lingers, and a dead key never comes back.
THEOREM KeysAreAnAuthority == Spec => ImplementsKeyAuthority
<1>1. Init => Authority!Init
  BY DEF Init, Authority!Init, Standing
<1>2. KeyInvariant /\ [Next]_vars => [Authority!Next]_(Authority!authority)
  BY NextRefinesAuthority
<1> QED BY <1>1, <1>2, KeysCorrect, PTL DEF Spec, ImplementsKeyAuthority, Authority!Spec

-----------------------------------------------------------------------------
(* The sums of ApiKeyAudit.                                                 *)

SumOf(f, ages) == MapThenSumSet(LAMBDA age : f[age], ages)

LEMMA SumIsTotal ==
  ASSUME NEW f, NEW ages, IsFiniteSet(ages)
  PROVE  SumOf(f, ages) = Total(f, ages)
<1> DEFINE Fold(g) == g = [s \in SUBSET ages |->
                         IF s = {} THEN 0
                         ELSE f[CHOOSE x \in s : TRUE] + g[s \ {CHOOSE x \in s : TRUE}]]
<1>1. SumOf(f, ages) = (CHOOSE g : Fold(g))[ages]
  BY DEF SumOf, MapThenSumSet, MapThenFoldSet
<1>2. \A g : Fold(g) <=> IsSumTable(g, f, ages)
  BY DEF IsSumTable
<1> HIDE DEF Fold
<1>3. IsSumTable(CHOOSE g : Fold(g), f, ages)
  <2>1. PICK g : IsSumTable(g, f, ages)
    BY TableExists
  <2> QED BY <1>2, <2>1
<1>4. (CHOOSE g : Fold(g))[ages] = Total(f, ages)
  BY <1>3, TableIsTotal
<1> QED BY <1>1, <1>4

LEMMA PassedIs == \A k, ages : Passed(k, ages) = SumOf(passed[k], ages)
  BY DEF Passed, SumOf

LEMMA PassedIsNext == \A k, ages : Passed(k, ages)' = SumOf(passed'[k], ages)
<1>1. (\A k, ages : Passed(k, ages) = SumOf(passed[k], ages))'
  BY PassedIs, PTL
<1> QED BY <1>1

LEMMA AgesFinite == IsFiniteSet(Ages) /\ \A S \in SUBSET Ages : IsFiniteSet(S)
<1>1. 0 \in Int /\ WindowTtl - 1 \in Int
  BY ApiKeyAssumption
<1> QED BY <1>1, FS_Interval, FS_Subset DEF Ages

Notes == [Ages -> Nat]

\* More ages never add up to less.
LEMMA SumOrder ==
  ASSUME NEW f \in Notes, NEW S \in SUBSET Ages, NEW T \in SUBSET S
  PROVE  SumOf(f, T) \in Nat /\ SumOf(f, S) \in Nat /\ SumOf(f, T) <= SumOf(f, S)
<1>1. IsFiniteSet(S) /\ IsFiniteSet(T) /\ \A x \in S : f[x] \in Nat
  BY AgesFinite DEF Notes
<1>2. Total(f, T) <= Total(f, S) /\ Total(f, {}) <= Total(f, T)
  BY <1>1, TotalOrder
<1>3. Total(f, T) \in Int /\ Total(f, S) \in Int
  BY <1>1, TotalRemove
<1> QED BY <1>1, <1>2, <1>3, SumIsTotal, TotalEmpty

LEMMA SumUnion ==
  ASSUME NEW f \in Notes, NEW S \in SUBSET Ages, NEW T \in SUBSET Ages, S \cap T = {}
  PROVE  SumOf(f, S \cup T) = SumOf(f, S) + SumOf(f, T)
<1>1. IsFiniteSet(S) /\ IsFiniteSet(T) /\ S \cup T \in SUBSET Ages /\ \A x \in S \cup T : f[x] \in Int
  BY AgesFinite DEF Notes
<1> QED BY <1>1, AgesFinite, TotalUnion, SumIsTotal

LEMMA SumNothing == \A f : SumOf(f, {}) = 0
  BY SumIsTotal, TotalEmpty, FS_EmptySet

\* Notes that became a tick older amount to no more than they did.
LEMMA SumOlder ==
  ASSUME NEW f \in Notes, NEW g \in Notes,
         \A age \in Ages : g[age] = IF age = 0 THEN 0 ELSE f[age - 1],
         NEW S \in SUBSET Ages, NEW T \in SUBSET Ages, \A age \in T \ {0} : age - 1 \in S
  PROVE  SumOf(g, T) <= SumOf(f, S)
<1> DEFINE R == T \ {0}
           younger == [age \in R |-> age - 1]
           named == {younger[age] : age \in R}
<1>1. R \in SUBSET Ages /\ IsFiniteSet(R) /\ R \subseteq Int
  BY AgesFinite DEF Ages
<1>2. Total(g, R) = Total(f, named)
  <2>1. \A age \in R : g[age] \in Int /\ g[age] = f[younger[age]]
    BY DEF Notes
  <2>2. \A age, other \in R : younger[age] = younger[other] => age = other
    BY <1>1
  <2> HIDE DEF R, younger
  <2>3. Total(g, R) = Total(f, {younger[age] : age \in R})
    <3>1. IsFiniteSet(R)
      BY <1>1
    <3> QED BY ONLY <3>1, <2>1, <2>2, TotalRenamed
  <2> QED BY <2>3
<1>3. named \in SUBSET S
  OBVIOUS
<1>4. SumOf(f, named) <= SumOf(f, S) /\ SumOf(g, R) = SumOf(f, named)
  <2>1. IsFiniteSet(named)
    BY <1>3, AgesFinite
  <2> HIDE DEF R, named
  <2> QED BY <1>1, <1>2, <1>3, <2>1, SumOrder, SumIsTotal
<1>5. SumOf(g, T) = SumOf(g, R)
  <2>1. CASE 0 \notin T
    <3>1. R = T
      BY <2>1
    <3> QED BY <3>1
  <2>2. CASE 0 \in T
    <3>1. IsFiniteSet(T) /\ \A age \in T : g[age] \in Int
      BY AgesFinite DEF Notes
    <3>2. Total(g, T) = g[0] + Total(g, R) /\ g[0] = 0
      BY <2>2, <3>1, TotalRemove
    <3>3. Total(g, R) \in Int
      <4>1. \A age \in R : g[age] \in Int
        BY <3>1
      <4> HIDE DEF R
      <4> QED BY <1>1, <4>1, TotalRemove
    <3> QED BY <1>1, <3>1, <3>2, <3>3, SumIsTotal
  <2> QED BY <2>1, <2>2
<1> QED BY <1>4, <1>5

\* One more note of age zero.
LEMMA SumNoted ==
  ASSUME NEW f \in Notes, NEW g \in Notes, NEW more \in Nat,
         \A age \in Ages : g[age] = IF age = 0 THEN f[0] + more ELSE f[age],
         NEW S \in SUBSET Ages
  PROVE  /\ 0 \in S => SumOf(g, S) = SumOf(f, S) + more
         /\ 0 \notin S => SumOf(g, S) = SumOf(f, S)
<1>1. IsFiniteSet(S) /\ (\A x \in S : f[x] \in Int /\ g[x] \in Int)
  BY AgesFinite DEF Notes
<1>2. CASE 0 \notin S
  <2>1. \A x \in S : g[x] = f[x]
    BY <1>2 DEF Notes
  <2>2. Total(g, S) = Total(f, S)
    BY <1>1, <2>1, TotalSame
  <2> QED BY <1>1, <1>2, <2>2, SumIsTotal
<1>3. CASE 0 \in S
  <2> DEFINE R == S \ {0}
  <2>1. IsFiniteSet(R) /\ \A x \in R : g[x] \in Int /\ g[x] = f[x] /\ f[x] \in Int
    BY <1>1, AgesFinite DEF Notes
  <2>2. g[0] = f[0] + more /\ f[0] \in Int
    BY <1>1, <1>3 DEF Notes
  <2>3. Total(g, S) = g[0] + Total(g, R) /\ Total(f, S) = f[0] + Total(f, R)
    <3>1. (\A x \in S : f[x] \in Int) /\ (\A x \in S : g[x] \in Int)
      BY <1>1
    <3> QED BY <1>1, <1>3, <3>1, TotalRemove
  <2> HIDE DEF R
  <2>4. Total(g, R) = Total(f, R) /\ Total(f, R) \in Int
    BY <2>1, TotalSame, TotalRemove
  <2>5. Total(g, S) = Total(f, S) + more
    BY <2>2, <2>3, <2>4
  <2> QED BY <1>1, <1>3, <2>5, SumIsTotal
<1> QED BY <1>2, <1>3

-----------------------------------------------------------------------------
(* CounterBegan as a relation between the notes on a key, its counter and    *)
(* the counter's lifetime, and how each kind of step moves it.              *)

Since(ticks)  == 0..(ticks - 1)
Before(ticks) == ticks..(WindowTtl - 1)

Began(f, counter, ttl, ticks) ==
    /\ SumOf(f, Since(ticks)) <= counter
    /\ SumOf(f, Since(ticks)) <= RateLimitMax
    /\ SumOf(f, Before(ticks)) <= RateLimitMax
    /\ ticks = 0 <=> counter = 0
    /\ counter = 0 => ttl = 0 /\ f[0] = 0
    /\ ttl > 0 => ticks + ttl > WindowTtl

LEMMA BeganIs == \A k, ticks : CounterBegan(k, ticks) <=> Began(passed[k], count[k], window[k], ticks)
  BY PassedIs DEF CounterBegan, Began, Since, Before

LEMMA BeganIsNext ==
  \A k, ticks : CounterBegan(k, ticks)' <=> Began(passed'[k], count'[k], window'[k], ticks)
<1>1. (\A k, ticks : CounterBegan(k, ticks) <=> Began(passed[k], count[k], window[k], ticks))'
  BY BeganIs, PTL
<1> QED BY <1>1

LEMMA Spans ==
  ASSUME NEW ticks \in 0..WindowTtl
  PROVE  /\ Since(ticks) \in SUBSET Ages /\ Before(ticks) \in SUBSET Ages
         /\ Since(ticks) \cap Before(ticks) = {}
         /\ Since(ticks) \cup Before(ticks) = Ages
         /\ Since(0) = {} /\ Before(WindowTtl) = {} /\ Before(0) = Ages /\ Since(WindowTtl) = Ages
         /\ 0 \in Ages
  BY ApiKeyAssumption DEF Since, Before, Ages

\* What is remembered belongs to two counters.
LEMMA BeganBound ==
  ASSUME NEW f \in Notes, NEW ticks \in 0..WindowTtl, NEW counter, NEW ttl,
         Began(f, counter, ttl, ticks)
  PROVE  SumOf(f, Ages) <= 2 * RateLimitMax
<1>1. SumOf(f, Ages) = SumOf(f, Since(ticks)) + SumOf(f, Before(ticks))
  BY Spans, SumUnion
<1>2. SumOf(f, Since(ticks)) \in Nat /\ SumOf(f, Before(ticks)) \in Nat
  BY Spans, SumOrder
<1> QED BY <1>1, <1>2, ApiKeyAssumption DEF Began

\* A call is counted, and then may be let through.
LEMMA BeganCount ==
  ASSUME NEW f \in Notes, NEW ticks \in 0..WindowTtl, NEW counter \in Nat, NEW ttl \in 0..WindowTtl,
         Began(f, counter, ttl, ticks), NEW counted \in Nat, counted > 0, counter <= counted,
         NEW more \in 0..1, more = 1 => counted = counter + 1 /\ counted <= RateLimitMax,
         NEW g \in Notes, g = [f EXCEPT ![0] = @ + more]
  PROVE  \E t \in 0..WindowTtl : Began(g, counted, ttl, t)
<1>. PICK now : now = IF ticks = 0 THEN 1 ELSE ticks
  OBVIOUS
<1>1. now \in 0..WindowTtl /\ now > 0 /\ ticks \in Nat /\ WindowTtl \in Nat
  BY ApiKeyAssumption
<1>2. 0 \in Since(now) /\ 0 \notin Before(now) /\ Since(now) \in SUBSET Ages /\ Before(now) \in SUBSET Ages
  BY <1>1, Spans DEF Since, Before
<1>3. SumOf(g, Since(now)) = SumOf(f, Since(now)) + more /\ SumOf(g, Before(now)) = SumOf(f, Before(now))
  <2>1. \A age \in Ages : g[age] = IF age = 0 THEN f[0] + more ELSE f[age]
    BY DEF Notes
  <2>2. f \in Notes /\ g \in Notes /\ more \in Nat
    OBVIOUS
  <2>3. /\ SumOf(g, Since(now)) = SumOf(f, Since(now)) + more
        /\ SumOf(g, Before(now)) = SumOf(f, Before(now))
    BY ONLY <1>2, <2>1, <2>2, SumNoted
  <2> QED BY <2>3
<1>4. SumOf(f, Since(now)) \in Nat /\ SumOf(f, Before(now)) \in Nat
  BY <1>2, SumOrder
<1>5. SumOf(f, Since(now)) <= counter /\ SumOf(f, Since(now)) <= RateLimitMax
  <2>1. CASE ticks = 0
    <3>1. Since(now) = Since(0) \cup {0} /\ counter = 0 /\ f[0] = 0
      BY <2>1 DEF Since, Began
    <3>2. Since(now) = {0} /\ IsFiniteSet({0}) /\ \A x \in {0} : f[x] \in Int
      <4>1. Since(0) = {} /\ f[0] \in Int
        BY <3>1 DEF Since
      <4>2. IsFiniteSet({0})
        BY FS_Singleton
      <4> QED BY <3>1, <4>1, <4>2
    <3>3. Total(f, {0}) = f[0] + Total(f, {0} \ {0})
      BY <3>2, TotalRemove
    <3>4. Total(f, {0}) = 0
      BY <3>1, <3>3, TotalEmpty
    <3> QED BY <3>1, <3>2, <3>4, SumIsTotal, ApiKeyAssumption
  <2>2. CASE ticks # 0
    BY <2>2 DEF Began
  <2> QED BY <2>1, <2>2
<1>6. SumOf(f, Before(now)) <= RateLimitMax
  <2>1. Before(now) \in SUBSET Before(ticks) /\ Before(ticks) \in SUBSET Ages
    BY <1>1, Spans DEF Before
  <2>2. SumOf(f, Before(now)) <= SumOf(f, Before(ticks)) /\ SumOf(f, Before(ticks)) \in Nat
    BY <2>1, SumOrder
  <2> QED BY <1>4, <2>2, ApiKeyAssumption DEF Began
<1>7. ttl > 0 => now + ttl > WindowTtl
  BY <1>1 DEF Began
<1>8. SumOf(g, Since(now)) <= counted /\ SumOf(g, Since(now)) <= RateLimitMax
  BY <1>3, <1>4, <1>5, ApiKeyAssumption
<1>9. Began(g, counted, ttl, now)
  BY <1>1, <1>3, <1>6, <1>7, <1>8 DEF Began
<1> QED BY <1>1, <1>9

\* A tick: the counter began a tick earlier, or it is over and all that is
\* remembered is of earlier ones.
LEMMA BeganTick ==
  ASSUME NEW f \in Notes, NEW ticks \in 0..WindowTtl, NEW counter \in Nat, NEW ttl \in 0..WindowTtl,
         Began(f, counter, ttl, ticks), NEW g \in Notes,
         \A age \in Ages : g[age] = IF age = 0 THEN 0 ELSE f[age - 1]
  PROVE  \E t \in 0..WindowTtl : Began(g, IF ttl = 1 THEN 0 ELSE counter, Older(ttl), t)
<1>1. WindowTtl \in Nat /\ WindowTtl > 0 /\ RateLimitMax \in Nat /\ RateLimitMax > 0 /\ g[0] = 0
  BY ApiKeyAssumption, Spans
<1>2. \A age \in Ages : age \in Int /\ 0 <= age /\ age < WindowTtl
  BY <1>1 DEF Ages
<1>3. CASE ttl = 1 \/ counter = 0
  <2>1. Older(ttl) = 0
    BY <1>3 DEF Older, Began
  <2>2. SumOf(g, Ages) <= RateLimitMax
    <3>1. SumOf(f, Ages) <= RateLimitMax
      <4>1. CASE counter = 0
        BY <4>1, Spans DEF Began
      <4>2. CASE ttl = 1
        <5>1. ticks = WindowTtl
          BY <1>1, <4>2 DEF Began
        <5> QED BY <5>1, Spans DEF Began
      <4> QED BY <1>3, <4>1, <4>2
    <3>2. \A age \in Ages \ {0} : age - 1 \in Ages
      BY <1>1 DEF Ages
    <3>3. SumOf(g, Ages) <= SumOf(f, Ages) /\ SumOf(f, Ages) \in Nat /\ SumOf(g, Ages) \in Nat
      BY <3>2, SumOlder, SumOrder
    <3> QED BY <1>1, <3>1, <3>3
  <2>3. 0 \in 0..WindowTtl /\ SumOf(g, Since(0)) = 0 /\ SumOf(g, Before(0)) = SumOf(g, Ages)
    BY <1>1, Spans, SumNothing
  <2>4. Began(g, 0, 0, 0)
    BY <1>1, <2>2, <2>3 DEF Began
  <2> QED BY <1>3, <2>1, <2>3, <2>4
<1>4. CASE ttl # 1 /\ counter # 0
  <2>. PICK now : now = IF ticks = WindowTtl THEN ticks ELSE ticks + 1
    OBVIOUS
  <2>1. now \in 0..WindowTtl /\ now > 0 /\ ticks > 0
    BY <1>1, <1>4 DEF Began
  <2>2. SumOf(g, Since(now)) <= SumOf(f, Since(ticks))
    <3>1. \A age \in Since(now) \ {0} : age - 1 \in Since(ticks)
      BY <1>1, <2>1 DEF Since
    <3> QED BY <2>1, <3>1, Spans, SumOlder
  <2>3. SumOf(g, Before(now)) <= SumOf(f, Before(ticks))
    <3>1. \A age \in Before(now) \ {0} : age - 1 \in Before(ticks)
      BY <1>1, <2>1 DEF Before
    <3> QED BY <2>1, <3>1, Spans, SumOlder
  <2>4. /\ SumOf(g, Since(now)) \in Nat /\ SumOf(f, Since(ticks)) \in Nat
        /\ SumOf(g, Before(now)) \in Nat /\ SumOf(f, Before(ticks)) \in Nat
    BY <2>1, Spans, SumOrder
  <2>5. Older(ttl) > 0 => now + Older(ttl) > WindowTtl
    BY <1>1, <1>4, <2>1 DEF Older, Began
  <2>6. Began(g, counter, Older(ttl), now)
    BY <1>1, <1>4, <2>1, <2>2, <2>3, <2>4, <2>5 DEF Began
  <2> QED BY <1>4, <2>1, <2>6
<1> QED BY <1>3, <1>4

-----------------------------------------------------------------------------
(* The rate limit.                                                          *)

NotesTyped == passed \in [Keys -> Notes]

\* A step that lets nobody through leaves the notes.
LEMMA NoteQuiet ==
  ASSUME NotesTyped, Note, \A k \in Keys : LetThrough(k) = {}
  PROVE  passed' = passed
<1>1. \A k \in Keys : Cardinality(LetThrough(k)) = 0
  BY FS_EmptySet
<1>2. \A k \in Keys : passed'[k] = passed[k]
  <2> SUFFICES ASSUME NEW k \in Keys PROVE passed'[k] = passed[k]
    OBVIOUS
  <2>1. passed'[k] = [passed[k] EXCEPT ![0] = @ + 0]
    BY <1>1 DEF Note
  <2>2. passed[k] \in Notes /\ 0 \in Ages
    BY Spans, ApiKeyAssumption DEF NotesTyped, Ages
  <2>3. \A age \in Ages : [passed[k] EXCEPT ![0] = @ + 0][age] = passed[k][age]
    BY <2>2 DEF Notes
  <2> QED BY <2>1, <2>2, <2>3 DEF Notes
<1>3. passed' = [k \in Keys |-> passed'[k]]
  BY DEF Note
<1> QED BY <1>2, <1>3 DEF NotesTyped

LEMMA CountersQuiet ==
  ASSUME UNCHANGED passed, UNCHANGED <<count, window>>,
         \A k \in Keys : \E ticks \in 0..WindowTtl : CounterBegan(k, ticks)
  PROVE  \A k \in Keys : \E ticks \in 0..WindowTtl : CounterBegan(k, ticks)'
  BY BeganIs, BeganIsNext

\* Nobody is let through but by the reply to INCR, and only INCR and EXPIRE
\* touch the counters between two ticks.
LEMMA OthersQuiet ==
  ASSUME TypeOK, IdleHasNoKey, ExpireOnce,
         \/ \E k \in Keys, u \in Users : Generate(k, u)
         \/ \E c \in Calls : \E k \in Keys, u \in Users : Revoke(c, k, u)
         \/ \E c \in Calls : (Step(c) /\ ~Expire(c) /\ ~ResendIncr(c)) \/ Fail(c)
  PROVE  /\ UNCHANGED <<count, window>> /\ IdleHasNoKey' /\ ExpireOnce'
         /\ \A k \in Keys : LetThrough(k) = {}
<1> USE DEF TypeOK, IdleHasNoKey, ExpireOnce, LetThrough, Started, At, Start, Continue, Answer, Finish,
        Live, redis
<1>1. CASE \E k \in Keys, u \in Users : Generate(k, u)
  BY <1>1 DEF Generate
<1>2. CASE \E c \in Calls : \E k \in Keys, u \in Users : Revoke(c, k, u)
  BY <1>2 DEF Revoke
<1>3. CASE \E c \in Calls : Fail(c)
  BY <1>3, ApiKeyAssumption DEF Fail, Operations
<1>4. CASE \E c \in Calls : Step(c) /\ ~Expire(c) /\ ~ResendIncr(c)
  <2>1. PICK c \in Calls : Step(c) /\ ~Expire(c) /\ ~ResendIncr(c)
    BY <1>4
  <2>2. CASE GetCachedUserId(c) BY <2>2 DEF GetCachedUserId
  <2>3. CASE GetApiKeyByHash(c) BY <2>3 DEF GetApiKeyByHash
  <2>4. CASE CacheUserId(c)     BY <2>4 DEF CacheUserId
  <2>5. CASE FindForUpdate(c)   BY <2>5 DEF FindForUpdate
  <2>6. CASE SaveDeletedAt(c)   BY <2>6 DEF SaveDeletedAt
  <2>7. CASE InvalidateCache(c) BY <2>7 DEF InvalidateCache
  <2> QED BY <2>1, <2>2, <2>3, <2>4, <2>5, <2>6, <2>7 DEF Step
<1> QED BY <1>1, <1>2, <1>3, <1>4

LEMMA ExpireRate ==
  ASSUME RateInvariant, NEW c \in Calls, Expire(c)
  PROVE  /\ UNCHANGED count /\ IdleHasNoKey' /\ ExpireOnce'
         /\ \A k \in Keys : LetThrough(k) = {}
         /\ passed' = passed => \A k \in Keys : \E ticks \in 0..WindowTtl : CounterBegan(k, ticks)'
<1>1. /\ TypeOK /\ IdleHasNoKey /\ ExpireOnce /\ CallHasKey
      /\ \A k \in Keys : \E ticks \in 0..WindowTtl : CounterBegan(k, ticks)
  BY DEF RateInvariant, KeyInvariant
<1>2. /\ pc[c] = "expire" /\ target[c] \in Keys /\ count[target[c]] > 0
      /\ UNCHANGED <<count, target>> /\ pc' = [pc EXCEPT ![c] = "getCachedUserId"]
      /\ window' = [window EXCEPT ![target[c]] = WindowTtl]
  BY <1>1 DEF Expire, At, Continue, ExpireOnce, CallHasKey
<1>3. IdleHasNoKey' /\ ExpireOnce' /\ \A k \in Keys : LetThrough(k) = {}
  BY <1>1, <1>2 DEF TypeOK, IdleHasNoKey, ExpireOnce, At, LetThrough, Started
<1>4. ASSUME passed' = passed, NEW k \in Keys PROVE \E ticks \in 0..WindowTtl : CounterBegan(k, ticks)'
  <2>1. PICK ticks \in 0..WindowTtl : Began(passed[k], count[k], window[k], ticks)
    BY <1>1, BeganIs
  <2>2. count[k] \in Nat /\ WindowTtl \in Nat /\ WindowTtl > 0
    BY <1>1, ApiKeyAssumption DEF TypeOK, CountBound
  <2>3. CASE k # target[c]
    <3>1. window'[k] = window[k]
      BY <1>1, <1>2, <2>3 DEF TypeOK
    <3> QED BY <1>2, <1>4, <2>1, <3>1, BeganIsNext
  <2>4. CASE k = target[c]
    <3>1. window'[k] = WindowTtl
      BY <1>1, <1>2, <2>4 DEF TypeOK
    <3>2. Began(passed[k], count[k], WindowTtl, ticks)
      BY <1>2, <2>1, <2>2, <2>4 DEF Began
    <3> QED BY <1>2, <1>4, <3>1, <3>2, BeganIsNext
  <2> QED BY <2>3, <2>4
<1> QED BY <1>2, <1>3, <1>4

\* INCR, and the reply to it: let through are at most the calls it counts up
\* to RATE_LIMIT_MAX.
LEMMA CountsRate ==
  ASSUME RateInvariant, NEW c \in Calls, NEW k \in Keys, Counts(c, k), Note
  PROVE  /\ IdleHasNoKey' /\ ExpireOnce' /\ NotesTyped'
         /\ \A j \in Keys : \E ticks \in 0..WindowTtl : CounterBegan(j, ticks)'
<1>1. /\ TypeOK /\ IdleHasNoKey /\ ExpireOnce /\ NotesTyped
      /\ \A j \in Keys : \E ticks \in 0..WindowTtl : CounterBegan(j, ticks)
      /\ RateLimitMax \in Nat /\ RateLimitMax > 0 /\ k # NoKey
  BY ApiKeyAssumption DEF RateInvariant, KeyInvariant, NotesTyped, Notes
<1>. PICK counted : counted = Counted(k)
  OBVIOUS
<1>2. /\ pc[c] = "idle" \/ (pc[c] = "incr" /\ target[c] = k)
      /\ UNCHANGED window
      /\ count' = [count EXCEPT ![k] = counted]
      /\ \/ counted = 1 /\ Start(c, k, "expire")
         \/ counted <= RateLimitMax /\ Start(c, k, "getCachedUserId")
         \/ Start(c, k, "incr")
         \/ Answer(c, "limited")
  BY CountsDo
<1>3. /\ count[k] \in Nat /\ counted \in Nat /\ counted > 0 /\ count[k] <= counted
      /\ counted <= RateLimitMax => counted = count[k] + 1
  BY <1>1 DEF TypeOK, CountBound, Counted
<1>4. PICK began \in 0..WindowTtl : Began(passed[k], count[k], window[k], began)
  BY <1>1, BeganIs
<1>5. \A d \in Calls : d # c => pc'[d] = pc[d] /\ target'[d] = target[d]
  BY <1>1, <1>2 DEF TypeOK, Start, Answer
<1>6. IdleHasNoKey'
  BY <1>1, <1>2 DEF IdleHasNoKey, TypeOK, Start, Answer
<1>7. ExpireOnce'
  <2>1. ASSUME NEW d \in Calls, pc[d] = "expire"
        PROVE  /\ target[d] = k => count[k] > 0 /\ window[k] = 0
               /\ count'[target[d]] > 0 /\ window'[target[d]] = 0
    BY <1>1, <1>2, <1>3, <2>1 DEF TypeOK, ExpireOnce, At
  <2>2. pc'[c] = "expire" => counted = 1 /\ target'[c] = k
    BY <1>1, <1>2 DEF TypeOK, Start, Answer
  <2>3. counted = 1 => count[k] = 0 /\ window[k] = 0 /\ count'[k] > 0
    BY <1>1, <1>2, <1>3, <1>4 DEF Began, TypeOK
  <2>4. \A d \in Calls : d # c /\ pc'[d] = "expire" /\ counted = 1 => target'[d] # k
    BY <1>3, <1>5, <2>1, <2>3
  <2> QED BY <1>1, <1>2, <1>5, <2>1, <2>2, <2>3, <2>4 DEF ExpireOnce, At
<1>8. /\ \A j \in Keys : j # k => LetThrough(j) = {}
      /\ LetThrough(k) = {} \/ (LetThrough(k) = {c} /\ counted <= RateLimitMax)
  <2>1. \A j \in Keys : LetThrough(j) \subseteq {c}
    BY <1>5 DEF LetThrough
  <2>2. \A j \in Keys : c \in LetThrough(j) => j = k /\ counted <= RateLimitMax
    BY <1>1, <1>2 DEF LetThrough, TypeOK, Start, Answer
  <2> QED BY <2>1, <2>2
<1>9. /\ \A j \in Keys : Cardinality(LetThrough(j)) \in 0..1
      /\ \A j \in Keys : j # k => Cardinality(LetThrough(j)) = 0
      /\ Cardinality(LetThrough(k)) = 1 => counted <= RateLimitMax
  <2>1. Cardinality({c}) = 1 /\ Cardinality({}) = 0
    BY FS_EmptySet, FS_Singleton
  <2>2. LetThrough(k) = {} => Cardinality(LetThrough(k)) = 0
    BY <2>1
  <2>3. LetThrough(k) = {c} => Cardinality(LetThrough(k)) = 1
    BY <2>1
  <2>4. \A j \in Keys : j # k => Cardinality(LetThrough(j)) = 0
    BY <1>8, <2>1
  <2>5. Cardinality(LetThrough(k)) \in 0..1
    BY <1>8, <2>2, <2>3
  <2> QED BY <1>8, <2>2, <2>4, <2>5
<1>10. \A j \in Keys : passed'[j] = [passed[j] EXCEPT ![0] = @ + Cardinality(LetThrough(j))]
  BY DEF Note
<1>11. NotesTyped'
  <2>1. \A j \in Keys : passed'[j] \in Notes
    <3> SUFFICES ASSUME NEW j \in Keys PROVE passed'[j] \in Notes
      OBVIOUS
    <3>. PICK more \in Nat : more = Cardinality(LetThrough(j))
      BY <1>9
    <3>1. passed'[j] = [passed[j] EXCEPT ![0] = @ + more] /\ passed[j] \in Notes /\ more \in Nat
      BY <1>1, <1>10 DEF NotesTyped
    <3>2. 0 \in Ages /\ passed[j][0] + more \in Nat
      BY <3>1, ApiKeyAssumption DEF Notes, Ages
    <3> QED BY ONLY <3>1, <3>2 DEF Notes
  <2>2. passed' = [j \in Keys |-> passed'[j]]
    BY DEF Note
  <2> QED BY <2>1, <2>2 DEF NotesTyped
<1>12. ASSUME NEW j \in Keys PROVE \E ticks \in 0..WindowTtl : CounterBegan(j, ticks)'
  <2>1. passed[j] \in Notes /\ passed'[j] \in Notes /\ window[j] \in 0..WindowTtl /\ window'[j] = window[j]
    BY <1>1, <1>2, <1>11 DEF NotesTyped, TypeOK
  <2>2. CASE j # k
    <3>1. \A age \in Ages : passed'[j][age] = passed[j][age]
      BY <1>9, <1>10, <2>1, <2>2 DEF Notes
    <3>2. passed'[j] = passed[j]
      BY <2>1, <3>1 DEF Notes
    <3>3. count'[j] = count[j]
      BY <1>1, <1>2, <2>2 DEF TypeOK
    <3> QED BY <1>1, <2>1, <3>2, <3>3, BeganIs, BeganIsNext
  <2>3. CASE j = k
    <3>. PICK more \in 0..1 : more = Cardinality(LetThrough(k))
      BY <1>9
    <3>1. count'[k] = counted
      BY <1>1, <1>2 DEF TypeOK
    <3>2. /\ more = 1 => counted = count[k] + 1 /\ counted <= RateLimitMax
          /\ passed'[k] = [passed[k] EXCEPT ![0] = @ + more]
      BY <1>3, <1>9, <1>10
    <3>3. \E ticks \in 0..WindowTtl : Began(passed'[k], counted, window[k], ticks)
      BY <1>3, <1>4, <2>1, <2>3, <3>2, BeganCount
    <3> QED BY <2>1, <2>3, <3>1, <3>3, BeganIsNext
  <2> QED BY <2>2, <2>3
<1> QED BY <1>6, <1>7, <1>11, <1>12

LEMMA TickRate ==
  ASSUME RateInvariant, Tick, Age
  PROVE  /\ IdleHasNoKey' /\ ExpireOnce' /\ NotesTyped'
         /\ \A k \in Keys : \E ticks \in 0..WindowTtl : CounterBegan(k, ticks)'
<1>1. /\ TypeOK /\ IdleHasNoKey /\ ExpireOnce /\ NotesTyped /\ CallHasKey
      /\ \A k \in Keys : \E ticks \in 0..WindowTtl : CounterBegan(k, ticks)
  BY DEF RateInvariant, KeyInvariant, NotesTyped, Notes
<1>2. IdleHasNoKey' /\ ExpireOnce'
  <2>1. UNCHANGED <<pc, target>>
    BY DEF Tick
  <2>2. \A c \in Calls : At(c, "expire") => count'[target[c]] > 0 /\ window'[target[c]] = 0
    BY <1>1 DEF ExpireOnce, CallHasKey, At, Tick, Older
  <2> QED BY <1>1, <2>1, <2>2 DEF IdleHasNoKey, ExpireOnce, At
<1>3. ASSUME NEW k \in Keys
      PROVE  /\ passed'[k] \in Notes
             /\ \A age \in Ages : passed'[k][age] = IF age = 0 THEN 0 ELSE passed[k][age - 1]
  <2>1. passed'[k] = [age \in Ages |-> IF age = 0 THEN 0 ELSE passed[k][age - 1]]
    BY DEF Age
  <2>2. \A age \in Ages : age # 0 => age - 1 \in Ages
    BY ApiKeyAssumption DEF Ages
  <2>3. passed[k] \in Notes
    BY <1>1 DEF NotesTyped
  <2>4. \A age \in Ages : (IF age = 0 THEN 0 ELSE passed[k][age - 1]) \in Nat
    BY <2>2, <2>3 DEF Notes
  <2> QED BY <2>1, <2>4 DEF Notes
<1>4. NotesTyped'
  <2>1. passed' = [k \in Keys |-> passed'[k]]
    BY DEF Age
  <2> QED BY <1>3, <2>1 DEF NotesTyped
<1>5. ASSUME NEW k \in Keys PROVE \E ticks \in 0..WindowTtl : CounterBegan(k, ticks)'
  <2>1. PICK began \in 0..WindowTtl : Began(passed[k], count[k], window[k], began)
    BY <1>1, BeganIs
  <2>2. passed[k] \in Notes /\ count[k] \in Nat /\ window[k] \in 0..WindowTtl
    BY <1>1, ApiKeyAssumption DEF NotesTyped, TypeOK, CountBound
  <2>3. count'[k] = (IF window[k] = 1 THEN 0 ELSE count[k]) /\ window'[k] = Older(window[k])
    BY DEF Tick
  <2>4. \E ticks \in 0..WindowTtl :
          Began(passed'[k], IF window[k] = 1 THEN 0 ELSE count[k], Older(window[k]), ticks)
    BY <1>3, <2>1, <2>2, BeganTick
  <2> QED BY <2>3, <2>4, BeganIsNext
<1> QED BY <1>2, <1>4, <1>5

LEMMA InitRate == AuditInit => RateInvariant
<1> SUFFICES ASSUME AuditInit PROVE RateInvariant
  OBVIOUS
<1>1. Init /\ passed = [k \in Keys |-> [age \in Ages |-> 0]]
  BY DEF AuditInit
<1>2. KeyInvariant
  BY <1>1, InitKeys
<1>3. NotesTyped /\ IdleHasNoKey /\ ExpireOnce
  BY <1>1 DEF Init, NotesTyped, Notes, IdleHasNoKey, ExpireOnce, At
<1>4. ASSUME NEW k \in Keys PROVE \E ticks \in 0..WindowTtl : CounterBegan(k, ticks)
  <2>. PICK f \in Notes : f = passed[k]
    BY <1>3 DEF NotesTyped
  <2>1. (\A age \in Ages : f[age] = 0) /\ count[k] = 0 /\ window[k] = 0
    BY <1>1 DEF Init
  <2>2. WindowTtl \in Nat /\ RateLimitMax \in Nat /\ 0 \in 0..WindowTtl
    BY ApiKeyAssumption
  <2>3. SumOf(f, Before(0)) = 0
    <3>1. Before(0) \in SUBSET Ages
      BY <2>2, Spans
    <3>2. IsFiniteSet(Before(0)) /\ \A age \in Before(0) : f[age] = 0
      BY <2>1, <3>1, AgesFinite, FS_Subset
    <3> QED BY <3>1, <3>2, SumIsTotal, TotalZero
  <2>4. SumOf(f, Since(0)) = 0
    BY <2>2, Spans, SumNothing
  <2>5. f[0] = 0
    BY <2>1, <2>2, Spans
  <2>6. Began(f, 0, 0, 0)
    BY <2>2, <2>3, <2>4, <2>5 DEF Began
  <2> QED BY <2>1, <2>2, <2>6, BeganIs
<1> QED BY <1>2, <1>3, <1>4 DEF RateInvariant, NotesTyped, Notes

LEMMA NextRate == RateInvariant /\ [AuditNext]_<<vars, auditVars>> => RateInvariant'
<1> SUFFICES ASSUME RateInvariant, [AuditNext]_<<vars, auditVars>> PROVE RateInvariant'
  OBVIOUS
<1>1. /\ KeyInvariant /\ TypeOK /\ IdleHasNoKey /\ ExpireOnce /\ NotesTyped
      /\ \A k \in Keys : \E ticks \in 0..WindowTtl : CounterBegan(k, ticks)
  BY DEF RateInvariant, KeyInvariant, NotesTyped, Notes
<1>2. KeyInvariant'
  BY <1>1, NextKeys DEF AuditNext, Next
<1> DEFINE Rate == /\ IdleHasNoKey /\ ExpireOnce /\ NotesTyped
                   /\ \A k \in Keys : \E ticks \in 0..WindowTtl : CounterBegan(k, ticks)
<1>3. SUFFICES Rate'
  BY <1>2 DEF RateInvariant, NotesTyped, Notes
<1>4. CASE Tick /\ Age
  BY <1>4, TickRate
<1>5. CASE Next /\ ~Tick /\ Note
  <2>1. CASE \E c \in Calls : \E k \in Keys : Counts(c, k)
    BY <1>5, <2>1, CountsRate
  <2>2. CASE \E c \in Calls : Expire(c)
    <3>1. PICK c \in Calls : Expire(c)
      BY <2>2
    <3>2. passed' = passed
      BY <1>1, <1>5, <3>1, ExpireRate, NoteQuiet
    <3> QED BY <1>1, <3>1, <3>2, ExpireRate DEF NotesTyped
  <2>3. CASE \/ \E k \in Keys, u \in Users : Generate(k, u)
             \/ \E c \in Calls : \E k \in Keys, u \in Users : Revoke(c, k, u)
             \/ \E c \in Calls : (Step(c) /\ ~Expire(c) /\ ~ResendIncr(c)) \/ Fail(c)
    <3>1. /\ UNCHANGED <<count, window>> /\ IdleHasNoKey' /\ ExpireOnce'
          /\ \A k \in Keys : LetThrough(k) = {}
      BY <1>1, <2>3, OthersQuiet
    <3>2. passed' = passed
      BY <1>1, <1>5, <3>1, NoteQuiet
    <3> QED BY <1>1, <3>1, <3>2, CountersQuiet DEF NotesTyped
  <2> QED BY <1>1, <1>5, <2>1, <2>2, <2>3, CountsAre DEF Next
<1>6. CASE UNCHANGED <<vars, auditVars>>
  <2>1. UNCHANGED <<passed, count, window, pc, target>>
    BY <1>6 DEF vars, auditVars
  <2> QED BY <1>1, <2>1, CountersQuiet DEF IdleHasNoKey, ExpireOnce, At, NotesTyped
<1> QED BY <1>4, <1>5, <1>6 DEF AuditNext

\* The inductive invariant of the rate limit: what a key got through in the
\* last WindowTtl ticks belongs to its running counter and to one before it.
THEOREM RateCorrect == AuditSpec => []RateInvariant
  BY InitRate, NextRate, PTL DEF AuditSpec

\* For any limit, lifetimes, keys, overlapping calls and faults, a key gets
\* through the limiter at most twice RATE_LIMIT_MAX times in any window.
THEOREM BurstIsBounded == AuditSpec => []AtMostTwiceMax
<1>1. RateInvariant => AtMostTwiceMax
  <2> SUFFICES ASSUME RateInvariant, NEW k \in Keys
               PROVE  Passed(k, Ages) <= 2 * RateLimitMax
    BY DEF AtMostTwiceMax, PassedInWindow
  <2>1. PICK ticks \in 0..WindowTtl : Began(passed[k], count[k], window[k], ticks)
    BY BeganIs DEF RateInvariant
  <2>2. passed[k] \in Notes
    BY DEF RateInvariant, Notes
  <2> QED BY <2>1, <2>2, BeganBound, PassedIs
<1> QED BY <1>1, RateCorrect, PTL

-----------------------------------------------------------------------------
(* Counters that never end.                                                 *)

\* A counter without expiry lost the call to send its EXPIRE, or that call is
\* about to send it.
EndsUnlessUnsent ==
    \A k \in Keys : count[k] > 0 /\ window[k] = 0 =>
        k \in unsent \/ \E c \in Calls : At(c, "expire") /\ target[c] = k

\* A step that starts no counter leaves those that run.
LEMMA RunningEnds ==
  ASSUME TypeOK, CallHasKey, EndsUnlessUnsent, unsent \subseteq unsent', UNCHANGED <<count, window>>,
         \A c \in Calls : At(c, "expire") /\ target[c] \notin unsent' =>
             pc'[c] = "expire" /\ target'[c] = target[c]
  PROVE  EndsUnlessUnsent'
  BY DEF EndsUnlessUnsent, At

LEMMA NextEnds ==
  ASSUME RateInvariant, EndsUnlessUnsent, [AuditNext]_<<vars, auditVars>>
  PROVE  EndsUnlessUnsent'
<1>1. TypeOK /\ CallHasKey /\ WindowTtl \in Nat /\ WindowTtl > 0
  BY ApiKeyAssumption DEF RateInvariant, KeyInvariant
<1>2. CASE Tick /\ Age
  <2>1. UNCHANGED <<pc, target, unsent>>
    BY <1>2 DEF Tick, Age
  <2>2. ASSUME NEW k \in Keys, count'[k] > 0, window'[k] = 0 PROVE count[k] > 0 /\ window[k] = 0
    BY <1>1, <1>2, <2>2 DEF TypeOK, Tick, Older
  <2> QED BY <2>1, <2>2 DEF EndsUnlessUnsent, At
<1>3. CASE UNCHANGED <<vars, auditVars>>
  BY <1>3 DEF vars, auditVars, EndsUnlessUnsent, At
<1>4. CASE Next /\ ~Tick /\ Note
  <2>1. unsent' = unsent \cup {k \in Keys : LosesExpiry(k)}
    BY <1>4 DEF Note
  <2>2. CASE \E c \in Calls, k \in Keys : Counts(c, k)
    <3>1. PICK c \in Calls, k \in Keys : Counts(c, k)
      BY <2>2
    <3>2. \A d \in Calls : At(d, "expire") => pc'[d] = "expire" /\ target'[d] = target[d]
      BY <1>1, <3>1, CountsDo DEF TypeOK, Start, Answer, At
    <3>3. ASSUME NEW j \in Keys, j # k \/ count[k] > 0, count'[j] > 0, window'[j] = 0
          PROVE  j \in unsent' \/ \E d \in Calls : At(d, "expire")' /\ target'[d] = j
      <4>1. count[j] > 0 /\ window[j] = 0
        BY <1>1, <3>1, <3>3, CountsDo DEF TypeOK
      <4> QED BY <2>1, <3>2, <4>1 DEF EndsUnlessUnsent, At
    <3>4. CASE count[k] = 0
      <4>1. Counted(k) = 1
        BY <3>4, ApiKeyAssumption DEF Counted, CountBound
      <4>2. Start(c, k, "expire") \/ LoseReply(c, k)
        BY <3>1, <4>1, CountsDo
      <4>3. CASE Start(c, k, "expire")
        BY <1>1, <3>3, <4>3 DEF Start, TypeOK, EndsUnlessUnsent, At
      <4>4. CASE LoseReply(c, k)
        BY <2>1, <3>3, <3>4, <4>4 DEF LosesExpiry, EndsUnlessUnsent, At
      <4> QED BY <4>2, <4>3, <4>4
    <3>5. CASE count[k] # 0
      BY <1>1, <3>3, <3>5 DEF TypeOK, EndsUnlessUnsent, At
    <3> QED BY <3>4, <3>5
  <2>3. CASE \E c \in Calls : Expire(c)
    <3>1. PICK c \in Calls : Expire(c)
      BY <2>3
    <3>2. target[c] \in Keys /\ UNCHANGED count
      BY <1>1, <3>1 DEF Expire, CallHasKey, At
    <3>3. \A d \in Calls : d # c => pc'[d] = pc[d] /\ target'[d] = target[d]
      BY <1>1, <3>1 DEF Expire, Continue, TypeOK
    <3>4. ASSUME NEW k \in Keys, count'[k] > 0, window'[k] = 0 PROVE k # target[c] /\ window[k] = 0
      BY <1>1, <3>1, <3>2, <3>4 DEF Expire, TypeOK
    <3> QED BY <2>1, <3>2, <3>3, <3>4 DEF EndsUnlessUnsent, At
  <2>4. CASE \/ \E k \in Keys, u \in Users : Generate(k, u)
             \/ \E c \in Calls : \E k \in Keys, u \in Users : Revoke(c, k, u)
             \/ \E c \in Calls : (Step(c) /\ ~Expire(c) /\ ~ResendIncr(c)) \/ Fail(c)
    <3>1. UNCHANGED <<count, window>>
      BY <1>1, <2>4, OthersQuiet DEF RateInvariant
    <3>2. ASSUME NEW d \in Calls, At(d, "expire"), ~Fail(d)
          PROVE  pc'[d] = "expire" /\ target'[d] = target[d]
      <4>1. CASE \E k \in Keys, u \in Users : Generate(k, u)
        BY <3>2, <4>1 DEF Generate, At
      <4>2. CASE \E c \in Calls : \E k \in Keys, u \in Users : Revoke(c, k, u)
        BY <1>1, <3>2, <4>2 DEF Revoke, Start, Answer, TypeOK, At
      <4>3. CASE \E c \in Calls : (Step(c) /\ ~Expire(c) /\ ~ResendIncr(c)) \/ Fail(c)
        <5>1. PICK c \in Calls : (Step(c) /\ ~Expire(c) /\ ~ResendIncr(c)) \/ Fail(c)
          BY <4>3
        <5>2. c # d
          BY <3>2, <5>1 DEF Step, GetCachedUserId, GetApiKeyByHash, CacheUserId, FindForUpdate,
                            SaveDeletedAt, InvalidateCache, At
        <5>3. \A e \in Calls : e # c => pc'[e] = pc[e] /\ target'[e] = target[e]
          BY <1>1, <5>1 DEF Step, GetCachedUserId, GetApiKeyByHash, CacheUserId, FindForUpdate,
                            SaveDeletedAt, InvalidateCache, Fail, Continue, Answer, Finish, TypeOK
        <5> QED BY <3>2, <5>2, <5>3 DEF At
      <4> QED BY <2>4, <4>1, <4>2, <4>3
    <3>3. \A d \in Calls : At(d, "expire") /\ Fail(d) => target[d] \in unsent'
      BY <1>1, <2>1 DEF LosesExpiry, CallHasKey, At
    <3> QED BY <1>1, <2>1, <3>1, <3>2, <3>3, RunningEnds
  <2> QED BY <1>4, <2>2, <2>3, <2>4, CountsAre DEF RateInvariant, Next
<1> QED BY <1>2, <1>3, <1>4 DEF AuditNext

\* Whatever calls overlap, fail and send INCR again, a counter that will not
\* end by itself lost its EXPIRE, or the reply to the INCR that began it.
THEOREM OnlyLossKeepsCounters == AuditSpec => []EndsUnlessUnsent
<1>1. AuditInit => EndsUnlessUnsent
  BY DEF AuditInit, Init, EndsUnlessUnsent
<1>2. RateInvariant /\ EndsUnlessUnsent /\ [AuditNext]_<<vars, auditVars>> => EndsUnlessUnsent'
  BY NextEnds
<1> QED BY <1>1, <1>2, RateCorrect, PTL DEF AuditSpec

-----------------------------------------------------------------------------
(* Acknowledged revocations, and what they take.                            *)

\* What every call but an acknowledged revoke leaves as it is: dead keys stay
\* dead, and late calls are not let in.
StillDead ==
    /\ RunningUnanswered'
    /\ DeletedFirst'
    /\ \A k \in acknowledged : Dead(k)'
    /\ \A c \in late \ Started : answer'[c] # "accepted"
    /\ \A c \in late \ Started : pc'[c] # "idle" => target'[c] \in acknowledged
    /\ \A c \in Started : answer'[c] # "accepted"

LEMMA StartRevoke ==
  ASSUME TypeOK, CallHasKey, IdleHasNoKey, RevokeInvariant, NEW c \in Calls,
         NEW k \in Keys, Counts(c, k) \/ \E u \in Users : Revoke(c, k, u)
  PROVE  StillDead
<1> USE DEF TypeOK, CallHasKey, IdleHasNoKey, RevokeInvariant, RunningUnanswered, DeletedFirst,
            AcknowledgedDead, Dead, StillDead, Started, At, Start, Answer, redis
<1>1. CASE Counts(c, k)
  <2>1. /\ pc[c] = "idle" \/ (pc[c] = "incr" /\ target[c] = k)
        /\ UNCHANGED <<rows, cache>>
        /\ \/ \E operation \in {"expire", "getCachedUserId", "incr"} : Start(c, k, operation)
           \/ Answer(c, "limited")
    BY <1>1, CountsDo
  <2> QED BY <2>1, ApiKeyAssumption
<1>2. CASE \E u \in Users : Revoke(c, k, u)
  BY <1>2, ApiKeyAssumption DEF Revoke, Live
<1> QED BY <1>1, <1>2

LEMMA StepRevoke ==
  ASSUME TypeOK, CallHasKey, IdleHasNoKey, RevokeInvariant, NEW c \in Calls,
         \/ Step(c) /\ ~ResendIncr(c)
         \/ Fail(c)
  PROVE  StillDead
<1> USE DEF TypeOK, CallHasKey, IdleHasNoKey, RevokeInvariant, RunningUnanswered, DeletedFirst,
            AcknowledgedDead, Dead, StillDead, Started, At, Continue, Answer, Finish, Live, redis
<1>1. CASE Expire(c)          BY <1>1 DEF Expire
<1>2. CASE GetCachedUserId(c) BY <1>2 DEF GetCachedUserId
<1>3. CASE GetApiKeyByHash(c) BY <1>3 DEF GetApiKeyByHash
<1>4. CASE CacheUserId(c)     BY <1>4 DEF CacheUserId
<1>5. CASE FindForUpdate(c)   BY <1>5 DEF FindForUpdate
<1>6. CASE SaveDeletedAt(c)   BY <1>6 DEF SaveDeletedAt
<1>7. CASE InvalidateCache(c) BY <1>7, ApiKeyAssumption DEF InvalidateCache
<1>8. CASE Fail(c)            BY <1>8, ApiKeyAssumption DEF Fail, Operations
<1> QED BY <1>1, <1>2, <1>3, <1>4, <1>5, <1>6, <1>7, <1>8 DEF Step

LEMMA NextRevoke ==
  ASSUME RateInvariant, RevokeInvariant, [AuditNext]_<<vars, auditVars>>,
         [~EarlyDelete]_<<vars, auditVars>>
  PROVE  RevokeInvariant'
<1> USE DEF RevokeInvariant, RunningUnanswered, DeletedFirst, AcknowledgedDead, Dead, At
<1>1. TypeOK /\ CallHasKey /\ IdleHasNoKey
  BY DEF RateInvariant, KeyInvariant
<1>2. CASE Tick /\ Age
  <2>1. UNCHANGED <<rows, pc, target, answer, acknowledged, late>>
    BY <1>2 DEF Tick, Age
  <2>2. \A k \in acknowledged : cache'[k] = 0
    BY <1>1, <1>2 DEF Tick, Older
  <2> QED BY <2>1, <2>2
<1>3. CASE UNCHANGED <<vars, auditVars>>
  BY <1>3 DEF vars, auditVars
<1>4. CASE Next /\ ~Tick /\ Note
  \* A revocation is acknowledged by the answer of its own invalidateCache.
  <2>1. ASSUME NEW k \in acknowledged' \ acknowledged
        PROVE  \E c \in Calls : InvalidateCache(c) /\ target[c] = k /\ k \in Keys
    <3>1. PICK c \in Calls : target[c] = k /\ pc[c] = "invalidateCache" /\ answer'[c] = "revoked"
      BY <1>4, <2>1 DEF Note
    <3>2. answer'[c] # answer[c]
      BY <3>1
    <3>3. PICK d \in Calls : \/ Step(d) /\ ~ResendIncr(d)
                             \/ Fail(d)
                             \/ pc[d] \in {"idle", "incr"} /\ \A e \in Calls : e # d => answer'[e] = answer[e]
      <4>1. ASSUME NEW d \in Calls, NEW j \in Keys, Counts(d, j)
            PROVE  pc[d] \in {"idle", "incr"} /\ \A e \in Calls : e # d => answer'[e] = answer[e]
        BY <1>1, <4>1, CountsDo DEF Start, Answer, TypeOK
      <4>2. ASSUME NEW d \in Calls, NEW j \in Keys, NEW u \in Users, Revoke(d, j, u)
            PROVE  pc[d] = "idle" /\ \A e \in Calls : e # d => answer'[e] = answer[e]
        BY <1>1, <4>2 DEF Revoke, Start, Answer, TypeOK
      <4>3. ~(\E j \in Keys, u \in Users : Generate(j, u))
        BY <3>2 DEF Generate
      <4> QED BY <1>4, <4>1, <4>2, <4>3, CountsAre DEF RateInvariant, Next
    <3>4. \A e \in Calls : e # d => answer'[e] = answer[e]
      BY <1>1, <3>3 DEF Step, Expire, GetCachedUserId, GetApiKeyByHash, CacheUserId, FindForUpdate,
                        SaveDeletedAt, InvalidateCache, Fail, Continue, Answer, Finish, TypeOK
    <3>5. d = c /\ ~Fail(c)
      BY <1>1, <3>1, <3>2, <3>4 DEF Fail, Answer, TypeOK
    <3>6. InvalidateCache(c)
      BY <3>1, <3>3, <3>5 DEF Step, Expire, GetCachedUserId, GetApiKeyByHash, CacheUserId,
                              FindForUpdate, SaveDeletedAt
    <3>7. k \in Keys
      BY <1>1, <3>1 DEF CallHasKey
    <3> QED BY <3>1, <3>6, <3>7
  <2>2. StillDead
    <3>1. CASE \E k \in Keys, u \in Users : Generate(k, u)
      BY <1>1, <3>1 DEF Generate, StillDead, Started, redis, IdleHasNoKey, TypeOK
    <3>2. CASE \E c \in Calls : \/ \E k \in Keys : Counts(c, k)
                                \/ \E k \in Keys, u \in Users : Revoke(c, k, u)
      BY <1>1, <3>2, StartRevoke
    <3>3. CASE \E c \in Calls : (Step(c) /\ ~ResendIncr(c)) \/ Fail(c)
      BY <1>1, <3>3, StepRevoke
    <3> QED BY <1>4, <3>1, <3>2, <3>3, CountsAre DEF RateInvariant, Next
  <2>3. ASSUME NEW k \in acknowledged' \ acknowledged PROVE Dead(k)'
    <3>1. PICK c \in Calls : InvalidateCache(c) /\ target[c] = k /\ k \in Keys
      BY <2>1, <2>3
    <3>2. \A d \in Calls : target[d] = k => ~At(d, "cacheUserId")
      <4>1. pc' # pc
        BY <1>1, <3>1 DEF InvalidateCache, Finish, Answer, TypeOK
      <4> QED BY <3>1, <4>1 DEF EarlyDelete, vars
    <3> QED BY <1>1, <3>1, <3>2 DEF InvalidateCache, Finish, Answer, TypeOK
  <2>4. /\ acknowledged \subseteq acknowledged' /\ acknowledged' \subseteq Keys
        /\ late' = (late \ Started) \cup {c \in Started : target'[c] \in acknowledged}
    BY <1>4 DEF Note
  <2> QED BY <2>2, <2>3, <2>4 DEF StillDead, Started
<1> QED BY <1>2, <1>3, <1>4 DEF AuditNext

\* The one way for a revoked key to let a later call in: a validate that has read
\* the live row when the revoke deletes the cache entry, and writes it after.
\* Without such a delete, whatever else overlaps, fails or expires, a call that
\* begins after the acknowledged revocation is refused.
THEOREM RevokedIsRefused ==
  AuditSpec /\ [][~EarlyDelete]_<<vars, auditVars>> => []RevokedRejected
<1>1. AuditInit => RevokeInvariant
  BY DEF AuditInit, Init, RevokeInvariant, RunningUnanswered, DeletedFirst, AcknowledgedDead, At
<1>2. RateInvariant /\ RevokeInvariant /\ [AuditNext]_<<vars, auditVars>>
        /\ [~EarlyDelete]_<<vars, auditVars>> => RevokeInvariant'
  BY NextRevoke
<1>3. RevokeInvariant => RevokedRejected
  BY DEF RevokeInvariant, AcknowledgedDead, RevokedRejected
<1> QED BY <1>1, <1>2, <1>3, RateCorrect, PTL DEF AuditSpec
=============================================================================
