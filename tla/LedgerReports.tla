---------------------------- MODULE LedgerReports ----------------------------
(***************************************************************************)
(* What the backend tells a user about the ledger while it is being        *)
(* written: WalletService.totalCredit and logCredits and                   *)
(* TranscriptionService.listByUser and getById, a query or two, and        *)
(* DashbordService.todayInfo, three queries sent together (Promise.all)    *)
(* and answered one by one in any order, other handlers' writes between.   *)
(* Each query reads the clock twice, when it is sent, for the start and    *)
(* the end of "today"; midnight may fall between any two of the readings,  *)
(* and before, between and after the answers.                              *)
(***************************************************************************)
EXTENDS LedgerAudit

CONSTANTS
    Dashboards,  \* calls of todayInfo, each made once
    NoUser,      \* the user of a dashboard call not made yet
    LastDay      \* bound of the instance: days are 0..LastDay

ASSUME ReportsAssumption == NoUser \notin Users /\ LastDay \in Nat

VARIABLES
    today,   \* the clock, in days
    created, \* the day of requests.created_at of each call
    viewer,  \* who each dashboard call is for
    days,    \* the days each of its queries asks about
    panel,   \* the figures its queries have brought so far, 0 before
    pending, \* its queries not answered yet
    since    \* history: the days of the call, its first day's figures and debits then

dashboardVars == <<viewer, days, panel, pending, since>>
reportVars    == <<today, created, dashboardVars>>

\* In the order Promise.all is given them.
Figures == {"costs", "time", "requests"}
Order   == [costs |-> 1, time |-> 2, requests |-> 3]

-----------------------------------------------------------------------------
(* The queries. *)

\* Requests rows of u created on the given days; a call's locals say whose
\* row it wrote.
RequestsOf(u, asked) ==
    {c \in Calls : requests[c] # "none" /\ job[c].user = u /\ created[c] \in asked}

\* The join with requests: the day is the request's.
TranscribesOf(u, asked) == {c \in RequestsOf(u, asked) : transcribes[c] # "none"}

\* Mutant: the cost of a failed request is left out.
TodayCostNotFailed(u, asked) ==
    MapThenSumSet(LAMBDA c : job[c].cost,
                  {c \in RequestsOf(u, asked) : requests[c] # "failed"})

\* SUM(requests.cost), whatever the status and the module.
TodayCost(u, asked) == MapThenSumSet(LAMBDA c : job[c].cost, RequestsOf(u, asked))

\* SUM(transcribes.duration), whatever the status.
TodayDuration(u, asked) ==
    MapThenSumSet(LAMBDA c : job[c].cost \div CostPerSecond, TranscribesOf(u, asked))

TodayRequestsCount(u, asked) == Cardinality(RequestsOf(u, asked))

Figure(name, u, asked) ==
    CASE name = "costs"    -> TodayCost(u, asked)
      [] name = "time"     -> TodayDuration(u, asked)
      [] name = "requests" -> TodayRequestsCount(u, asked)

\* The days one query asks about, from its two readings of the clock: one
\* day, or two when midnight falls between the readings.
GetTodayRange(name, reading) == reading[2 * Order[name] - 1]..reading[2 * Order[name]]

RowsOf(u) == {row \in transactions : row.user = u}
DebitsOf(u, asked) ==
    {row \in RowsOf(u) : row.direction = "DEBIT" /\ created[row.request] \in asked}

\* totalCredit sums the amounts of all rows, whatever their direction:
\* a debit raises it.
TotalCredit(u) == AmountOf(RowsOf(u))

\* The entries of a user's wallet history.
LogCredits(u) == {[amount |-> row.amount, balanceAfter |-> row.balanceAfter] : row \in RowsOf(u)}

\* findByUserId: the inner join with the user's requests, of any day.
ListByUser(u) == TranscribesOf(u, 0..LastDay)

\* getById finds the record, then the request, and compares its user.
GetById(c, u) == transcribes[c] # "none" /\ requests[c] # "none" /\ job[c].user = u

\* Mutant: full hours are not taken off the minutes.
FormatDurationWhole(seconds) ==
    [hours |-> seconds \div 3600, minutes |-> seconds \div 60]

\* "h hours m min", the part that is zero left out unless both are.
FormatDuration(seconds) ==
    LET minutes == seconds \div 60 IN
    [hours |-> minutes \div 60, minutes |-> minutes % 60]

-----------------------------------------------------------------------------
\* Six readings of the clock, the first before of them yet on the old day.
Readings(before) == [i \in 1..6 |-> IF i <= before THEN today ELSE today + 1]

TodayInfo(d, u) ==
    /\ viewer[d] = NoUser
    /\ \E before \in 1..6 :
         LET asked == [name \in Figures |-> GetTodayRange(name, Readings(before))]
             now   == IF before < 6 THEN today + 1 ELSE today
         IN  /\ now <= LastDay
             /\ today' = now
             /\ days' = [days EXCEPT ![d] = asked]
             /\ since' = [since EXCEPT ![d] =
                    [first   |-> today, last |-> now,
                     figures |-> [name \in Figures |-> Figure(name, u, {today})],
                     debits  |-> AmountOf(DebitsOf(u, {today}))]]
    /\ viewer' = [viewer EXCEPT ![d] = u]
    /\ pending' = [pending EXCEPT ![d] = Figures]
    /\ UNCHANGED <<vars, created, panel>>

\* Mutant: the query computes its day when it is answered.
AnswerQueryLateRange(d, name) ==
    /\ name \in pending[d]
    /\ panel' = [panel EXCEPT ![d][name] = Figure(name, viewer[d], {today})]
    /\ pending' = [pending EXCEPT ![d] = @ \ {name}]
    /\ UNCHANGED <<vars, today, created, viewer, days, since>>

AnswerQuery(d, name) ==
    /\ name \in pending[d]
    /\ panel' = [panel EXCEPT ![d][name] = Figure(name, viewer[d], days[d][name])]
    /\ pending' = [pending EXCEPT ![d] = @ \ {name}]
    /\ UNCHANGED <<vars, today, created, viewer, days, since>>

Midnight ==
    /\ today < LastDay
    /\ today' = today + 1
    /\ UNCHANGED <<vars, created, dashboardVars>>

\* The column default of created_at, when the row is inserted.
StampRequests ==
    created' = [c \in Calls |-> IF requests[c] = "none" /\ requests'[c] # "none"
                                THEN today ELSE created[c]]

ReportsInit ==
    /\ Init
    /\ today = 0
    /\ created = [c \in Calls |-> 0]
    /\ days = [d \in Dashboards |-> [name \in Figures |-> {}]]
    /\ viewer = [d \in Dashboards |-> NoUser]
    /\ panel = [d \in Dashboards |-> [name \in Figures |-> 0]]
    /\ pending = [d \in Dashboards |-> {}]
    /\ since = [d \in Dashboards |->
                  [first |-> 0, last |-> 0,
                   figures |-> [name \in Figures |-> 0], debits |-> 0]]

ReportsNext ==
    \/ Next /\ StampRequests /\ UNCHANGED <<today, dashboardVars>>
    \/ Midnight
    \/ \E d \in Dashboards :
         \/ \E u \in Users : TodayInfo(d, u)
         \/ \E name \in Figures : AnswerQuery(d, name)

ReportsSpec == ReportsInit /\ [][ReportsNext]_<<vars, reportVars>>

-----------------------------------------------------------------------------
(* Properties. *)

Shown(d) == viewer[d] # NoUser /\ pending[d] = {}

\* The days the clock showed while the queries of d were sent.
CallDays(d) == since[d].first..since[d].last

\* The first reading of all is on the first of them; the later queries are
\* about the same day unless midnight fell between the readings.
SameDay(d, name) == name = "costs" \/ since[d].first = since[d].last

\* A dashboard that is shown is at least as new as its request and no newer
\* than the tables: each figure lies between its value on the day todayInfo
\* was called, when it was called, and its value now over the days of the
\* call, however requests succeed, fail or die meanwhile and wherever midnight
\* falls: nothing of the day is missed, nothing of another day is counted.
DashboardFresh ==
    \A d \in Dashboards : Shown(d) =>
        \A name \in Figures :
            /\ SameDay(d, name) => since[d].figures[name] <= panel[d][name]
            /\ panel[d][name] <= Figure(name, viewer[d], CallDays(d))

\* Read as hours and minutes, the time a dashboard shows never exceeds the
\* audio the user has uploaded, and is short of what there was when it was
\* asked for by less than a minute, whichever queries, uploads and midnight
\* came between.
TimeTellsDuration ==
    \A d \in Dashboards : Shown(d) =>
        LET time  == FormatDuration(panel[d]["time"])
            shown == 3600 * time.hours + 60 * time.minutes
        IN  /\ shown <= TodayDuration(viewer[d], CallDays(d))
            /\ SameDay(d, "time") => since[d].figures["time"] - shown < 60

\* The costs of a shown dashboard cover every debit the ledger held for that
\* day's requests when it was asked for: the requests row is written, and
\* kept, before the wallet_transactions row, and dated by itself.
CostsCoverDebits ==
    \A d \in Dashboards : Shown(d) => since[d].debits <= panel[d]["costs"]

\* What a call was answered with success for stays on record, whatever other
\* calls do, fail at or leave behind: the history has the entry with the
\* balance the call computed, and a transcription is in the list and can be
\* fetched, completed and with its text.
AnsweredIsOnRecord ==
    \A c \in Calls : At(c, "returned") =>
        LET u == job[c].user IN
        /\ [amount |-> job[c].cost, balanceAfter |-> NextBalance(c)] \in LogCredits(u)
        /\ IsTranscription(c) =>
             /\ c \in ListByUser(u) /\ GetById(c, u)
             /\ transcribes[c] = "completed" /\ c \in outputs

\* The total credit a user is told is never less than what the wallet holds,
\* whatever overlaps, fails or dies between the ledger row and the balance.
TotalCoversBalance == \A u \in Users : balance[u] <= TotalCredit(u)
=============================================================================
