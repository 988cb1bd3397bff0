# RivasBackend in TLA+

RivasBackend is a NestJS service: users log in with a code sent to their phone,
top up a wallet, upload audio that is transcribed and paid from the wallet, look
at a dashboard, and call the API with JWTs or with API keys. Its state lives in
MySQL (through TypeORM) and in Redis. One Node process runs all handlers; every
`await` lets other handlers run, and no database transaction spans two awaits.
That is where the models look: one awaited operation is one step, and the steps
of overlapping calls, failures, lost replies, crashes and expirations interleave
freely.

## Inventory

| Component | State | Operations | Talks to | What is hard |
|---|---|---|---|---|
| Wallet (`wallet/`, `wallet.repo.ts`, `walletTransaction.repo.ts`) | `wallets.balance`, ledger rows with `balance_after` | `increaseWallet`, `totalCredit`, `logCredits` | requests, MySQL | absolute balance written from an earlier read; three writes, no transaction; amounts below the minimum refused by the pipe |
| Transcription (`Transcription/`, `transcribe.repo.ts`) | `transcribes.status`, transcript files | `uploadAndTranscribe`, `processTranscription`, `getById`, lists | wallet, requests, ffprobe, the speech service (a stub in the code) | ten awaits between balance check and debit, two nested catches, writes before the `try` |
| Requests (`requests.repo.ts`) | `requests.status`, links to the other rows | create, update, today's sums | — | stays PROCESSING when its handler dies |
| Dashboard (`dashbord/`) | none | `todayInfo` (three queries under `Promise.all`) | requests, transcribes | queries answered at different moments, each with its own clock readings around midnight |
| API keys (`apiKey/`, `apikey.repo.ts`) | `api_keys` rows, Redis cache and rate counter | `generate`, `validate`, `revoke`, `listForUser` | AuthGuard, Redis | row and cache in two stores; INCR and EXPIRE are two commands, and a command whose reply is lost is sent again; expiry |
| Phone login (`auth.service.ts`, `auth.repository.ts`) | OTP session in Redis, user and wallet rows | `requestOtp`, `verifyOtp` | SMS service, wallet | read-then-delete of the code; two inserts, no transaction |
| Token sessions (`auth.service.ts`, `auth.guard.ts`) | refresh sessions and blacklist in Redis, token pairs at the clients | `canActivate`, `refresh`, `issueTokens`, `logout` | every route | rotation inside the guard, before the handler; lifetimes from two independent settings; two JWTs of one second are equal |
| Response headers and errors (`header.utils.ts`, `http-exception.filter.ts`) | the headers of one response | `setTokenHeaders`, `clearTokenHeaders`, `catch` | guard, controllers, clients | the client's only copy of a new pair travels in the headers of whatever the handler answers or throws |
| Validation and uploads (`validation.pipe.ts`, the DTOs, `transcription.multer.ts`) | none | refuse an input | the handlers | only what passes reaches a handler |
| Users repository, RedisService | — | — | nothing uses them | — |
| Roles guard, ID card, logging, wiring, deployment | none of their own | pure functions or I/O of one request | — | — |

What makes each component correct:

* **Wallet and transcription**: a balance never leaves `0 .. decimal(18,4)`; it is always
  explained by the ledger; nobody pays for a transcript that was not made; SUCCEED means
  paid, linked and delivered; an error means not charged; no request stays PROCESSING; with
  one call at a time a paid call is atomic.
* **Dashboard**: figures are neither older than the question nor ahead of the tables,
  whatever day it is, and costs cover debits; what was answered with success stays in the
  history and the list.
* **API keys**: a revoked key stops working and stays dead; the limiter lets through what it
  says and recovers.
* **Phone login**: a code logs in once, and stays until then; a user has exactly one wallet,
  created by exactly one call.
* **Token sessions**: a login is not lost to concurrent rotations; a logout ends it; a
  blacklisted token stays refused for as long as its JWT is valid, or for as long as the
  settings of the two lifetimes allow; a device that follows the headers keeps a working
  pair until it logs out, whatever other devices do, and gets through.

## Modules

| Module | What it is |
|---|---|
| `WalletLedger` | the two paid handlers and the four tables they write; the safety and liveness properties |
| `LedgerAudit` | `WalletLedger` as an auditor reads it: sums over the rows of a wallet |
| `AtomicLedger` | abstract: a call credits or debits a wallet once, in one step, within range |
| `SerialLedger` | `WalletLedger` restricted to one paid call per user at a time, and the refinement to `AtomicLedger` |
| `LedgerReports` | `WalletLedger` composed with the dashboard, its clock, `totalCredit`, the history and the list, reading while handlers write |
| `ApiKeys` | `generate`, `validate`, `revoke` over rows, cache and counter |
| `KeyAuthority` | abstract: a key is generated, live, then lingers or is dead; a call is granted only for a key that is not dead |
| `ApiKeyAudit` | `ApiKeys` with an observer: calls the limiter let through per tick, counters that lost their `EXPIRE`, acknowledged revocations, calls begun after them |
| `Registration` | `requestOtp` and `verifyOtp` with user and wallet rows |
| `Sessions` | the guard's token path, `refresh`, `issueTokens`, `logout`, with tokens, an API key or both |
| `SessionAudit` | `Sessions` with what clients know of their logouts |
| `Devices` | `Sessions` composed with its responses and clients: headers, the error filter, a connection that loses responses, devices that keep the last pair they were sent |
| `MC...` | constants of the instances TLC checks |
| `FiniteSums` | the laws of sums over finite sets, proved; no theorem about the code |
| `WalletLedgerProofs`, `SerialLedgerProofs`, `LedgerReportsProofs`, `ApiKeyProofs`, `RegistrationProofs`, `SessionProofs`, `DeviceProofs` | the inductive invariant of the module each is named after, the theorems about it and their proofs |

### How state and actions correspond to the code

**Handlers.** `pc[c]` is the repository (or Redis) operation call `c` awaits next and is
named after it. An action performs that operation and the synchronous code up to the next
await. Early returns and throws end the call (`"threw"`, `Answer`). In `WalletLedger` each
call is made once and `job[c]` keeps the handler's locals (`seen` is the balance read at the
start, `cost` is the amount, or duration times `TRANSCRIPTION_COST_PER_SECOND`). A top-up
whose amount is below the minimum (`ValidAmount`), or an upload of another type or above the
limit (`AcceptUpload`), ends before its handler. A member of `Files` is an upload: its type,
the length ffprobe reports in tenths of a second, or `NoDuration`, and the size;
`CalculateDuration` rounds up, falls back to the size estimate and never returns less than
one second. In the other modules a call is reusable: its locals are cleared when it is
answered.

**Failures.** `Faults` names the operations that may fail. In `WalletLedger` such
an operation may be refused (nothing written) or commit and lose its reply
(`Committed`); both reach the handler's `catch`, or leave it where there is none.
`createRequest`, `createTranscribe` and `linkTranscribe` are outside the `try`.
`markFailed` is inside the inner `catch`, so an error there reaches the outer
one. `"crash"` stops every handler at once, and as in the code nothing resumes
them. In `ApiKeys`, `Registration` and `Sessions` no handler catches anything that
changes state, so one action `Fail` at an operation stands for its refusal, for a
stop before it and for the lost reply of the operation before it.

**MySQL.** One repository operation is one atomic step. `repository.save`
after a `findOne` rewrites only changed columns; the services change `balance` or
`status` alone, so the merged row equals the written column. A value outside
`decimal(18,4)` is refused whatever `Faults` says: the ledger row carries the next
balance too, so it is the row's insert that fails, inside the `try`.

**Redis.** Lifetimes are ticks; `Tick` ages every entry. A counter whose `EXPIRE`
was never sent has lifetime 0 and a positive count and is not aged. The client
(`ioredis`, with `maxRetriesPerRequest` in `redis.module.ts`) sends a command again whose
reply it lost with the connection. `INCR` is the one command for which twice is not once:
`LoseReply` counts the call and loses the reply, any number of times in a row, and
`ResendIncr` counts it again and goes by that reply.
`CountBound = RateLimitMax + 2` merges counts that no comparison in the code tells
apart.

**Tokens.** `issueTokens` signs an access token and stores a refresh session, so one member
of `Tokens` is such a pair: `access[t]` is the life left in the JWT, `t \in sessions` says
that the refresh session is stored. `blacklist[NoToken]` is the entry
`auth:blacklist:undefined`, which a logout without an access token sets. A JWT holds a user,
a role and times in seconds, so two pairs signed within a second have the same one: `jwt[t]`
names the pair that stands for it, and the blacklist is keyed by it (`TwinsAge` says they
are of one age). The settings of the two lifetimes, `AccessTtl` and `BlacklistTtl`, are
independent, as `env.schema.ts` has them. `Request` is a request without an API key;
`KeyRequest` is a logout with one, whose tokens the guard does not look at and the handler
ends, if it finds any. A tick is longer than a second: a pair may or may not share its JWT
with one signed in the same tick.

**Requests and responses.** In `Devices` a device sends one request at a time with the
pair it holds. `made[d]` is what the guard's `refresh` returned; the answer carries it in
its headers whether the handler returns or throws (`Handled`), the guard's `catch`
empties them (`Refuse`), and a blacklisted token is refused with the headers untouched
(`RefuseBlacklisted`). `Receive` is the client: it keeps what the headers say.
`Lose` is the connection: any response may be lost, and the device goes on with the pair it
had. `broken` remembers the devices this leaves behind a rotation, or a rotation of
which failed, until they are told (their headers are emptied).
`Forget` ends the refresh session of a pair no client has any more.

**Days.** `LedgerReports` counts days. A query's `getTodayRange` reads the clock twice,
so the three queries of a dashboard read it six times in one synchronous stretch, and
midnight may fall before any of the readings, or between the call and its answers.
`created` is the column default of `requests.created_at`.

**Phone numbers.** `Spellings` are sequences of characters; `Normalize` takes the spaces
out, as `normalizePhoneNumber` does, and the rest of the module knows only the result. It
leaves dashes, dots and brackets in, which `@IsPhoneNumber` admits: such spellings are
accounts of their own, a hazard no property is stated about.

**Histories.** `charged` (calls whose balance write committed), `uses`, `safe`, `out`,
`ending`, `broken`, `since` and the variables of the two audit modules record facts for properties;
no guard of the modelled code reads them.

## Runs

Every run checks for deadlock as well. Amounts are in units of 100 000 rials: a
top-up is 3, a second of audio 2, a clip 1 or 2 seconds (one ffprobe measures, an empty
one, one it cannot read), and the column holds at most
7, so two top-ups fit and a third overflows, one transcription is affordable after
one top-up and a second is refused. Amounts 1 and -3 are below the minimum of 2, and two
files are refused for their type and their size. `ReportsDashboard` has rials and seconds
instead, with the code's own tariff, minimum and limit, clips of 95 and 3700 seconds, and
an amount and a file just past what is admitted.

| Run | Instance | Shows |
|---|---|---|
| `WalletFaults` | 2 users, 3 calls, every operation may fail or lose its reply, crash; symmetric; 140 000 states | `TypeOK`, `BalanceInRange`, `BalanceExplained`, `RowsChain`, `SucceedMeansSettled`, `NeverChargedWithoutTranscript`, `NoMoneyFromNothing` |
| `WalletEndings` | 1 user, 3 calls, failures inside the `try` blocks up to the ledger row; fair | `FailedNotCharged`, `RequestsSettle` |
| `SerialAtomic` | 2 users, 3 calls, one at a time per user, all failures | `BalanceIsChargedSum`, `ImplementsAtomicLedger` |
| `ReportsDashboard` | 1 user, 2 paid calls, 1 dashboard, 2 days, all failures; 931 000 states | `DashboardFresh`, `TimeTellsDuration`, `CostsCoverDebits`, `TotalCoversBalance`, `AnsweredIsOnRecord` |
| `KeyLife` | 1 key, 2 possible owners, 2 concurrent calls, limit 2, lifetimes of 2 ticks, everything may fail, `INCR` may be resent; fair; 136 000 states | `TypeOK`, `ImplementsKeyAuthority`, `RevocationSettles`, `CountersExpire`, `AtMostTwiceMax` |
| `Registering` | 2 phones, one spelled in two ways, 2 calls, everything may fail but the wallet insert; fair; 47 000 states | `TypeOK`, `OneWalletCreator`, `WalletlessHasCreator`, `UserGetsWallet`, `CodeStays` |
| `SessionTokens` | 1 login, 3 token pairs, 2 concurrent requests, tokens that live 3 ticks and blacklist entries that live 2, everything may fail but the SET of a rotation; 787 000 states | `TypeOK`, `BlacklistOutlivesToken`, `LoginSurvives` |
| `DeviceRequests` | 2 devices, 3 token pairs in turn, responses lost, handlers that throw, EXISTS, the end of a rotation and logouts that fail; fair; 648 000 states | `TokensKept`, `ClearedMeansGone`, `SignedOutForCause`, `GetsThrough` |
| `WalletLostUpdate` | 1 user, 2 calls, no failures | violates `SettledBalance` |
| `KeyStaleCache` | 1 key, 2 calls, no failures | violates `RevokedRejected` |
| `RegisterCodeTwice` | 1 phone, 2 codes, 2 calls, no failures | violates `OneTimeCode` |
| `SessionLogoutRotates` | 1 login, 1 request at a time, no failures | violates `LogoutEndsLogin` |

**Why these bounds.** A lost update needs two calls of one user; a third one builds on what
two others left (or meets a wallet whose last writer died). A second user shows that rows
and snapshots are not mixed up. Two concurrent requests are what a read-then-write race
needs, and since calls are reusable in `ApiKeys`, `Registration` and `Sessions` any number
of requests follow each other. Three token pairs let two requests rotate the first one at
once, and one of the new ones be rotated or logged out. `Exhausted` lets an instance stutter
when its pairs are used up; with it no new rotation is possible, the rest of the system goes
on. In `SessionTokens` entries live shorter than tokens, the order in which the property can
fail, and a tick more than one, so that they are set at different ages of a token and age
themselves. The constraint `PairsOrEntries` keeps that within reach: states with all three
pairs issued and an entry are checked but not gone on from, so entries are explored with two
pairs (which may share a JWT) and rotations with three. Two days are the one midnight a
dashboard can meet, and the days before and after it. Two devices are what an equal JWT and
a foreign logout need; their three pairs are one each and one for the rotation under way,
and `Forget` makes old ones new again, so devices rotate, log out and sign in for ever. Of
the operations of a rotation the run lets the last fail, which leaves the most behind (a
session stored whose pair nobody is sent); the theorems about `Devices` let any fail. A
device signs in again only once its former pairs have expired. A lifetime of one tick in
`DeviceRequests` has two ages, valid and expired, which are all that the guard asks; what
longer ones add is in `SessionTokens`. Two ticks in `KeyLife` make an entry outlive one tick
and a counter and an entry of different ages overlap. `AtMostTwiceMax` looks back over as
many ticks as a counter lives.

**Fairness.** `WF(Step(c))` for each running call: Node resumes every handler whose
awaited operation has ended, and each operation ends, with a result or an error.
`WF(Tick)` in `ApiKeys` and `Devices`: time passes. `GetsThrough` is about a client that
goes on trying, so `Devices` has `WF` of sending as well, and `SF` of receiving: not every
response of a device is lost. `StorePair` shares that `SF` for the bound on `Tokens`
alone, without which nothing ever disables that step, and `WF` of
`Forget` is Redis ending what has no owner. Nothing obliges a client to log out or sign
in, a process to crash or an operation to fail.

**Symmetry** is used only in runs without liveness properties, and over calls, users
or tokens that no definition tells apart.

### What the violation runs found

* `WalletLostUpdate`: two overlapping top-ups of one user read the same balance and each
  writes that balance plus its own amount; both are answered with success and both ledger
  rows stand, but one amount is lost. (A transcription reads and writes in the same way.)
  `docs/DEVELOPMENT.md` names the missing transaction as a limit; the run shows its effect.
  `NoMoneyFromNothing` and `BalanceInRange` say how far it can go: a change is lost, but the
  wallet is never negative and never above its credits.
* `KeyStaleCache`: a `validate` between its row read and its cache write undoes the cache
  delete of a `revoke`; until that entry expires, calls begun after the acknowledged
  revocation are accepted. `RevocationSettles` shows that this ends.
* `RegisterCodeTwice`: two verifies pass the comparison before either deletes the session,
  and one code logs in twice.
* `SessionLogoutRotates`: a logout with an expired access token is rotated by the guard
  first; the handler then deletes the old session and the new one stays.

Four more disagreements were read in the source while modelling and are not runs:
`totalCredit` adds debits too (`TotalCoversBalance` states what remains true of it);
`getTodayCostByUserId` sums top-ups as costs; if the one `EXPIRE` of a rate counter fails,
or the reply to the `INCR` that began the counter is lost and the command sent again, the
counter lives for ever and the key, once past the limit, is refused for good (`unsent`;
`CountersExpire` shows that these are the only ways); a burst around the end of a rate
window passes up to twice the limit (`AtMostTwiceMax` is the bound that does hold). Failures
just before the `try` of `uploadAndTranscribe` leave a request PROCESSING, and one between
the inserts of `verifyOtp` leaves a user without a wallet: `RequestsSettle`,
`WalletlessHasCreator` and `UserGetsWallet` hold exactly while those do not happen, as does
`LoginSurvives` for the SET of a rotation. A `refresh` that fails half-way, or whose
response is lost, signs its device out, since the old session is gone: `TokensKept` and
`SignedOutForCause` count these (`broken`) with the device's own logout, and show that
nothing else does.

## Proofs

The theorems hold for any sets of users, calls, keys, phones, logins, tokens, devices
and dashboards, any amounts, uploads, limits and lifetimes, any column bound and any set
of faults. They rest on the named assumptions of the modules alone, which say that the
constants are what their comments call them. TLC evaluates every assumption in the runs.

Each component has one inductive invariant, stated at the head of its proof module, and one
theorem that says it is one; the properties follow from it. TLC has checked each of them
on the instances of the runs.

| Module | Theorem | Property |
|---|---|---|
| `WalletLedgerProofs` | `TypeCorrect`, `LedgerCorrect` | `TypeOK`, `LedgerInvariant` |
| | `BalanceNeverOutOfRange` | `BalanceInRange` |
| | `LedgerExplainsBalances`, `RowsStartFromBalances` | `BalanceExplained`, `RowsChain` |
| | `PaidMeansTranscribed`, `PaidMeansDelivered` | `NeverChargedWithoutTranscript`, `SucceedMeansSettled` |
| | `FailureIsFree` | `FailedNotCharged`, if `LateWritesReliable` |
| | `RowsAreCovered`, `MoneyIsNotCreated` | `AuditInvariant`, `NoMoneyFromNothing` |
| `SerialLedgerProofs` | `SerialIsAtomic` | `ImplementsAtomicLedger` |
| | `WalletIsItsChargedSum` | `BalanceIsChargedSum` |
| | `SerialKeepsPromise` | `SettledBalance`, if `LedgerWritesReliable` |
| `LedgerReportsProofs` | `ReportsCorrect` | `ReportsInvariant` |
| | `DashboardIsFresh`, `TimeIsTold` | `DashboardFresh`, `TimeTellsDuration` |
| | `DebitsAreCosted`, `AnswersStayOnRecord` | `CostsCoverDebits`, `AnsweredIsOnRecord` |
| | `TotalCreditCovers` | `TotalCoversBalance` |
| `ApiKeyProofs` | `KeyTypes`, `KeysAreAnAuthority` | `TypeOK`, `ImplementsKeyAuthority` |
| | `RateCorrect`, `BurstIsBounded` | `RateInvariant`, `AtMostTwiceMax` |
| | `OnlyLossKeepsCounters` | `EndsUnlessUnsent`, the safety part of `CountersExpire` |
| | `RevokedIsRefused` | `RevokedRejected`, if no step is an `EarlyDelete` |
| `RegistrationProofs` | `RegistrationCorrect`, `RegistrationTypes` | `RegistrationInvariant`, `TypeOK` |
| | `OneCreatorOnly`, `ResentCodeStays` | `OneWalletCreator`, `CodeStays` |
| | `WalletOnItsWay` | `WalletlessHasCreator`, if `WalletInsertReliable` |
| | `CodeUsedOnce` | `OneTimeCode`, if `DeleteReliable` and no step is a `LateCompare` |
| `SessionProofs` | `SessionsCorrect`, `SessionTypes` | `SessionInvariant`, `TypeOK` |
| | `BlacklistedForLife` | `BlacklistOutlivesToken` |
| | `LoginNeverLost` | `LoginSurvives`, if `StoreReliable` |
| | `LogoutEnds` | `LogoutEndsLogin`, if never `RotationBeside` |
| `DeviceProofs` | `DevicesCorrect`, `LogoutIsComplete` | `DeviceInvariant`, `ClearedMeansGone` |
| | `DeviceKeepsSession`, `NoOtherSignsOut` | `TokensKept`, `SignedOutForCause` |

**The conditions.** `LateWritesReliable`, `WalletInsertReliable` and `StoreReliable` each
keep a few operations out of `Faults`: the ones whose failure the code does not make good,
named under *What the violation runs found*. Without them the properties do not hold, and
the runs that check them exclude the same operations. Everything else may fail.
`LedgerWritesReliable` and `DeleteReliable` do the same for the two promises that a single
failed write breaks as well.

**What each violation takes.** The four violated promises hold but for one behaviour each,
and a theorem says that the behaviour is the only one. `SerialKeepsPromise`: calls of one
user that do not overlap keep the wallet at its credits less its debits. `CodeUsedOnce`: a
code logs in twice only if a verify compares it (`LateCompare`) while another is yet to
delete it. `RevokedIsRefused`: a revoked key is let in only if a revoke deletes the cache
entry (`EarlyDelete`) while a validate that read the live row is yet to write it.
`LogoutEnds`: a logout that came with both headers and the only session of its login leaves
one only if, while it runs, a request is between the GET and the SET of a rotation of that
login (`RotationBeside`): the logout itself, as the violation run shows, or another.
Whatever other requests and logouts do before, beside and after it makes no difference;
where earlier rotations have left a login several sessions, a logout names one of them and
ends that one, so nothing is promised of the others. These
conditions speak of what callers and the scheduler do, so they stand beside the
specification in the theorem, not among the constants; the violation runs are the
behaviours they exclude.

**The ledger.** `BalanceInRange` alone is not inductive: the balance is written from a
snapshot many steps old. `LedgerInvariant` adds the argument in three parts. (1)
Snapshots: each was a balance, so it is in range, it covers the cost of a transcription
(the check was made against it), and it is zero or the `balance_after` of a charged row,
which stays true because rows and charges are never removed. (2) Rows: a call about to
write the wallet has inserted its row, which only fits the column if the next balance
does. (3) Order: what each handler has behind it at each operation (transcript file,
completed mark, link, charge).

**Money is not created.** A snapshot may be stale, so no equation between a balance and its
rows survives an overlap. What does is an order: no row promises more than the credits on
record (`RowsCovered`). A debit row promises less than the balance its handler saw, and
that balance was itself promised by a row or is zero; a credit row promises its own
amount more, and adds as much to the credits. `RowPerCall` makes the new row really
new. `BalanceExplained` carries the bound from rows to balances.

**One call at a time.** `SerialIsAtomic` maps `settled` to `charged` and needs
`SerialInvariant`: while a user's calls do not overlap, the snapshot of a call that has
not been charged is still the balance (`SnapshotFresh`), and its cost is one of the inputs
(`CostFromInput`). `UpdateWallet` maps to `Settle`, `CreateWallet` to `Open`, all else
stutters. With that snapshot `WalletIsItsChargedSum` turns the inequality into an
equation: the balance is the charged credits less the charged debits at every await.
Clients must see to the restriction themselves; `WalletLostUpdate` shows what
happens without it.

**The dashboard.** A figure is a sum or a count over rows of the days it asks about. Rows are only
added and dated once, so sums of natural numbers over them only grow, and grow with the
set of days. `FigureSound` keeps each of the three queries, before its answer and after
it, between the figure of the first day when it was asked and that of all days of the call now.
`RequestFirst` (a request row precedes its ledger row) makes the costs cover the debits;
`TotalCoversBalance` follows from `NoMoneyFromNothing`, since `totalCredit` adds the
debits to the credits. `TimeIsTold` adds the arithmetic of `formatDuration`.

**Keys.** `KeysAreAnAuthority` maps each key to its standing: absent, live, lingering
(revoked, but cached or being cached), dead. Every step of a call moves a standing only
forward, and an answer "accepted" is given for a key that is live or lingers.

**The limiter.** `RateInvariant` says that for some number of ticks the running counter has
existed just so long (`CounterBegan`): the calls let through since are within it, those
remembered from before belong to one counter before it, and the running one does not end
until those are forgotten. Hence two counters, and twice the limit; the slow or
lost `EXPIRE` only makes a counter live longer, and a resent `INCR` only makes it count
more. `ExpireOnce` is what that rests on: at most
one call is about to send it, and the counter cannot start over before. `EndsUnlessUnsent` is
the same from the other side: a counter without an expiry has that call, or has lost it.

**Login, sessions, devices.** `SoleCreator` (the call between the two inserts is alone with
its user) is the strengthening of `OneWalletCreator`. `EntryCoversLife` follows a blacklist
entry and the JWTs of all pairs that share it, tick by tick, and keeps what is left of the
token within what is left of the entry plus the difference of the settings. `LoginSurvives`
is kept because every step that ends a session of a login belongs to its logout or is
followed by a SET that is still to come. `DeviceInvariant` says whose every pair is
(`OwnPairs`), that a running request is about the pair its device holds (`RequestOfHeld`),
and what a logout has done at each step (`LogoutDone`). `PairKept` adds that, until a device
logs out, a pair being made for it or on its way to it has its session, and so has the one
it holds unless it is `broken`: so only a `broken` device can be refused with emptied
headers, and a pair that is received always works again.

**Sums.** `FiniteSums` proves what all this needs of `MapThenSumSet`: removing or adding an
element, order, equality, renaming, union of disjoint sets, zeros. The induction theorems of
the library take an operator as a parameter and cannot be used; the lemmas argue instead
from a smallest set for which the claim fails (`SmallestSubset`, from the well-foundedness
of the strict subset ordering).

**Only model-checked**: liveness under fairness (`RequestsSettle`, `RevocationSettles`,
`CountersExpire`, `UserGetsWallet`, `GetsThrough`), which the prover cannot treat, and the four
violations.

## Not modelled

* Fractions and double rounding of `Number(balance)`, and amounts that are not numbers:
  amounts are integers. TLC has neither reals nor floating point.
* The millisecond after 23:59:59.999 that a `datetime` column may round into the next day.
* The expiry of refresh sessions that a client still has (days against minutes), requests
  that are lost or sent again, and devices that send several requests at once: in `Devices`
  a client follows the headers in order. `Sessions` has concurrent requests with any tokens.
* A second sending of any Redis command but `INCR`: each sets, deletes or expires what the
  first one did. What an unchecked token beside an API key is let to log out, and whose.
* `execFileSync`, which holds the event loop while ffprobe runs: an action takes no time.
* `RolesGuard`: no route uses `@Roles`, so it lets everything through. Shapes of DTOs, names
  and places of uploaded files, wording, the logging interceptor, dates, the ID card stubs,
  Swagger, wiring and deployment: stateless, or I/O of one request.
* `listForUser` only reads. Repository operations that nothing calls (updates and deletes of
  transactions, deletes of requests and transcriptions, `TypeOrmUserRepository`) and
  `RedisService` are dead code; of `redis.module.ts` the resending of commands is modelled.
  `ThrottlerModule` is configured but no guard of it is installed.

## Plan

1. Done: the wallet core with its proofs, its refinement, reports with the change of
   day, API keys with their abstract authority, registration, sessions, devices and the
   response headers.
2. Done: every safety invariant and action property of the passing runs, and both
   refinements, as theorems.
3. Done: for each of the four violated promises, the theorem that says which behaviour
   alone breaks it.
4. Done: lost responses in `Devices`, and what remains true then.
5. Next: `Registration` composed with `WalletLedger` (a user's wallet exists before its
   first paid call).
