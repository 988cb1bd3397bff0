------------------------ MODULE LedgerReportsProofs ------------------------
(* Theorems about LedgerReports, for every value of the constants.         *)
EXTENDS LedgerReports, WalletLedgerProofs

-----------------------------------------------------------------------------
(* The inductive invariant behind the properties. *)

ReportTypes ==
    /\ today \in 0..LastDay
    /\ created \in [Calls -> 0..LastDay]
    /\ viewer \in [Dashboards -> Users \cup {NoUser}]
    /\ days \in [Dashboards -> [Figures -> SUBSET (0..LastDay)]]
    /\ panel \in [Dashboards -> [Figures -> Nat]]
    /\ pending \in [Dashboards -> SUBSET Figures]
    /\ since \in [Dashboards -> [first : 0..LastDay, last : 0..LastDay,
                                 figures : [Figures -> Nat], debits : Nat]]

Requested == {c \in Calls : requests[c] # "none"}

\* The requests row is the first a call writes and the locals it was computed
\* from are final; a call that returned has it marked SUCCEED.
RequestFirst ==
    /\ IsFiniteSet(Requested)
    /\ \A c \in Requested : job[c] \in Jobs /\ pc[c] # "idle"
    /\ \A c \in Calls :
         /\ pc[c] \in Operations \ {"createRequest"} => c \in Requested
         /\ pc[c] = "returned" => requests[c] = "succeed"
    /\ \A row \in transactions : row.request \in Requested

\* One figure of a dashboard call, asked for and perhaps answered.
FigureSound(d, name) ==
    /\ days[d][name] \subseteq CallDays(d)
    /\ SameDay(d, name) => since[d].first \in days[d][name]
    /\ since[d].figures[name] <= Figure(name, viewer[d], {since[d].first})
    /\ name \notin pending[d] =>
         /\ SameDay(d, name) => since[d].figures[name] <= panel[d][name]
         /\ panel[d][name] <= Figure(name, viewer[d], CallDays(d))

DashboardSound(d) ==
    /\ viewer[d] = NoUser => pending[d] = {}
    /\ viewer[d] # NoUser =>
         /\ since[d].debits <= since[d].figures["costs"]
         /\ \A name \in Figures : FigureSound(d, name)

ReportsInvariant ==
    /\ AuditInvariant
    /\ ReportTypes
    /\ RequestFirst
    /\ \A d \in Dashboards : DashboardSound(d)

-----------------------------------------------------------------------------
(* What the figures are made of.                                            *)

CostsOver(j, calls)   == MapThenSumSet(LAMBDA c : j[c].cost, calls)
SecondsOver(j, calls) == MapThenSumSet(LAMBDA c : j[c].cost \div CostPerSecond, calls)

LEMMA CostsAreTotal ==
  ASSUME NEW j, NEW calls, IsFiniteSet(calls)
  PROVE  CostsOver(j, calls) = Total([c \in calls |-> j[c].cost], calls)
<1> DEFINE f == [c \in calls |-> j[c].cost]
           Fold(g) == g = [s \in SUBSET calls |->
                         IF s = {} THEN 0
                         ELSE j[CHOOSE x \in s : TRUE].cost + g[s \ {CHOOSE x \in s : TRUE}]]
<1>1. CostsOver(j, calls) = (CHOOSE g : Fold(g))[calls]
  BY DEF CostsOver, MapThenSumSet, MapThenFoldSet
<1>2. ASSUME NEW g PROVE Fold(g) <=> IsSumTable(g, f, calls)
  <2>1. \A s \in SUBSET calls : s # {} => f[CHOOSE x \in s : TRUE] = j[CHOOSE x \in s : TRUE].cost
    OBVIOUS
  <2> QED BY <2>1 DEF IsSumTable
<1> HIDE DEF Fold, f
<1>3. IsSumTable(CHOOSE g : Fold(g), f, calls)
  <2>1. PICK g : IsSumTable(g, f, calls)
    BY TableExists
  <2> QED BY <1>2, <2>1
<1>4. (CHOOSE g : Fold(g))[calls] = Total(f, calls)
  BY <1>3, TableIsTotal
<1> QED BY <1>1, <1>4 DEF f

LEMMA SecondsAreTotal ==
  ASSUME NEW j, NEW calls, IsFiniteSet(calls)
  PROVE  SecondsOver(j, calls) = Total([c \in calls |-> j[c].cost \div CostPerSecond], calls)
<1> DEFINE f == [c \in calls |-> j[c].cost \div CostPerSecond]
           Fold(g) == g = [s \in SUBSET calls |->
                         IF s = {} THEN 0
                         ELSE j[CHOOSE x \in s : TRUE].cost \div CostPerSecond
                              + g[s \ {CHOOSE x \in s : TRUE}]]
<1>1. SecondsOver(j, calls) = (CHOOSE g : Fold(g))[calls]
  BY DEF SecondsOver, MapThenSumSet, MapThenFoldSet
<1>2. ASSUME NEW g PROVE Fold(g) <=> IsSumTable(g, f, calls)
  <2>1. \A s \in SUBSET calls :
          s # {} => f[CHOOSE x \in s : TRUE] = j[CHOOSE x \in s : TRUE].cost \div CostPerSecond
    OBVIOUS
  <2> QED BY <2>1 DEF IsSumTable
<1> HIDE DEF Fold, f
<1>3. IsSumTable(CHOOSE g : Fold(g), f, calls)
  <2>1. PICK g : IsSumTable(g, f, calls)
    BY TableExists
  <2> QED BY <1>2, <2>1
<1>4. (CHOOSE g : Fold(g))[calls] = Total(f, calls)
  BY <1>3, TableIsTotal
<1> QED BY <1>1, <1>4 DEF f

\* A figure, from the locals of the calls and the rows a query selects.
FigureOf(name, j, asked, transcribed) ==
    CASE name = "costs"    -> CostsOver(j, asked)
      [] name = "time"     -> SecondsOver(j, transcribed)
      [] name = "requests" -> Cardinality(asked)

LEMMA FigureIs ==
  \A name \in Figures : \A u, asked :
     Figure(name, u, asked) = FigureOf(name, job, RequestsOf(u, asked), TranscribesOf(u, asked))
  BY DEF Figure, FigureOf, TodayCost, TodayDuration, TodayRequestsCount, CostsOver, SecondsOver

LEMMA FigureIsNext ==
  \A name \in Figures : \A u, asked :
     Figure(name, u, asked)'
        = FigureOf(name, job', RequestsOf(u, asked)', TranscribesOf(u, asked)')
<1>1. (\A name \in Figures : \A u, asked :
         Figure(name, u, asked)
            = FigureOf(name, job, RequestsOf(u, asked), TranscribesOf(u, asked)))'
  BY FigureIs, PTL
<1> QED BY <1>1

LEMMA SecondsNat ==
  ASSUME NEW cost \in Nat
  PROVE  cost \div CostPerSecond \in Nat
<1>1. CostPerSecond \in Nat /\ CostPerSecond > 0
  BY LedgerAssumption DEF Positive
<1>2. cost \div CostPerSecond \in Int
  BY <1>1
<1>3. cost \div CostPerSecond >= 0
  BY <1>1
<1> QED BY <1>2, <1>3

\* More requests, with the same locals, never make a figure smaller.
LEMMA FigureOrder ==
  ASSUME NEW name \in Figures, NEW j, NEW k,
         NEW many, IsFiniteSet(many), NEW few \in SUBSET many,
         NEW manyText \in SUBSET many, NEW fewText \in SUBSET manyText,
         \A c \in many : k[c].cost \in Nat,
         \A c \in few : j[c] = k[c],
         \A c \in fewText : j[c] = k[c]
  PROVE  /\ FigureOf(name, j, few, fewText) \in Nat
         /\ FigureOf(name, k, many, manyText) \in Nat
         /\ FigureOf(name, j, few, fewText) <= FigureOf(name, k, many, manyText)
<1>1. IsFiniteSet(few) /\ IsFiniteSet(manyText) /\ IsFiniteSet(fewText)
  BY FS_Subset
<1>2. CASE name = "costs"
  <2> DEFINE f == [c \in few |-> j[c].cost]
             g == [c \in many |-> k[c].cost]
  <2>1. CostsOver(j, few) = Total(f, few) /\ CostsOver(k, many) = Total(g, many)
    BY <1>1, CostsAreTotal
  <2>2. (\A c \in many : g[c] \in Nat) /\ (\A c \in few : f[c] = g[c])
    OBVIOUS
  <2> HIDE DEF f, g
  <2>3. Total(f, few) <= Total(g, many)
    BY <2>2, TotalOrder
  <2>4. Total(g, many) \in Int /\ Total(f, few) \in Int
    BY <1>1, <2>2, TotalRemove
  <2>5. Total(f, few) >= 0
    <3>1. Total(f, {}) <= Total(f, few)
      BY <1>1, <2>2, TotalOrder
    <3> QED BY <2>4, <3>1, TotalEmpty
  <2> QED BY <1>2, <2>1, <2>3, <2>4, <2>5 DEF FigureOf
<1>3. CASE name = "time"
  <2> DEFINE f == [c \in fewText |-> j[c].cost \div CostPerSecond]
             g == [c \in manyText |-> k[c].cost \div CostPerSecond]
  <2>1. SecondsOver(j, fewText) = Total(f, fewText) /\ SecondsOver(k, manyText) = Total(g, manyText)
    BY <1>1, SecondsAreTotal
  <2>2. (\A c \in manyText : g[c] \in Nat) /\ (\A c \in fewText : f[c] = g[c])
    <3>1. \A c \in manyText : k[c].cost \in Nat
      OBVIOUS
    <3> QED BY <3>1, SecondsNat
  <2> HIDE DEF f, g
  <2>3. Total(f, fewText) <= Total(g, manyText)
    BY <1>1, <2>2, TotalOrder
  <2>4. Total(g, manyText) \in Int /\ Total(f, fewText) \in Int
    BY <1>1, <2>2, TotalRemove
  <2>5. Total(f, fewText) >= 0
    <3>1. Total(f, {}) <= Total(f, fewText)
      BY <1>1, <2>2, TotalOrder
    <3> QED BY <2>4, <3>1, TotalEmpty
  <2> QED BY <1>3, <2>1, <2>3, <2>4, <2>5 DEF FigureOf
<1>4. CASE name = "requests"
  <2>1. Cardinality(few) \in Nat /\ Cardinality(many) \in Nat
    BY <1>1, FS_CardinalityType
  <2>2. Cardinality(few) <= Cardinality(many)
    BY FS_Subset
  <2> QED BY <1>4, <2>1, <2>2 DEF FigureOf
<1> QED BY <1>2, <1>3, <1>4 DEF Figures

\* What a query selects is among the requests written, whose locals are final.
LEMMA SelectedRequests ==
  ASSUME RequestFirst, NEW u, NEW asked
  PROVE  /\ RequestsOf(u, asked) \in SUBSET Requested
         /\ TranscribesOf(u, asked) \in SUBSET RequestsOf(u, asked)
         /\ IsFiniteSet(RequestsOf(u, asked))
         /\ \A c \in RequestsOf(u, asked) : job[c].cost \in Nat /\ job[c].cost > 0
<1>1. RequestsOf(u, asked) \in SUBSET Requested /\ TranscribesOf(u, asked) \in SUBSET RequestsOf(u, asked)
  BY DEF RequestsOf, TranscribesOf, Requested
<1>2. IsFiniteSet(RequestsOf(u, asked))
  BY <1>1, FS_Subset DEF RequestFirst
<1>3. \A c \in Requested : job[c].cost \in Nat /\ job[c].cost > 0
  BY DEF RequestFirst, Jobs, Positive
<1> QED BY <1>1, <1>2, <1>3

\* A figure is a number, and of more days it is no smaller.
LEMMA FigureOfDays ==
  ASSUME RequestFirst, NEW name \in Figures, NEW u, NEW wide, NEW narrow \in SUBSET wide
  PROVE  /\ Figure(name, u, narrow) \in Nat
         /\ Figure(name, u, wide) \in Nat
         /\ Figure(name, u, narrow) <= Figure(name, u, wide)
<1>1. /\ RequestsOf(u, narrow) \in SUBSET RequestsOf(u, wide)
      /\ TranscribesOf(u, narrow) \in SUBSET TranscribesOf(u, wide)
  BY DEF RequestsOf, TranscribesOf
<1>2. /\ IsFiniteSet(RequestsOf(u, wide))
      /\ TranscribesOf(u, wide) \in SUBSET RequestsOf(u, wide)
      /\ \A c \in RequestsOf(u, wide) : job[c].cost \in Nat
  BY SelectedRequests
<1> QED BY <1>1, <1>2, FigureOrder, FigureIs

\* What a step may do to the rows the figures are computed from: requests and
\* transcribes are never removed, and keep their user, cost and day.
RecordsKept ==
    \A c \in Requested :
        /\ requests'[c] # "none" /\ job'[c] = job[c] /\ created'[c] = created[c]
        /\ transcribes[c] # "none" => transcribes'[c] # "none"

\* No step makes a figure of given days smaller.
LEMMA FigureGrows ==
  ASSUME RequestFirst, RequestFirst', RecordsKept, NEW name \in Figures, NEW u, NEW asked
  PROVE  /\ Figure(name, u, asked) \in Nat
         /\ Figure(name, u, asked)' \in Nat
         /\ Figure(name, u, asked) <= Figure(name, u, asked)'
<1>1. /\ RequestsOf(u, asked) \in SUBSET RequestsOf(u, asked)'
      /\ TranscribesOf(u, asked) \in SUBSET TranscribesOf(u, asked)'
      /\ TranscribesOf(u, asked)' \in SUBSET RequestsOf(u, asked)'
      /\ \A c \in RequestsOf(u, asked) : job'[c] = job[c]
  BY DEF RecordsKept, RequestsOf, TranscribesOf, Requested
<1>2. TranscribesOf(u, asked) \in SUBSET RequestsOf(u, asked)
  BY DEF TranscribesOf
<1>3. IsFiniteSet(RequestsOf(u, asked)') /\ \A c \in RequestsOf(u, asked)' : job'[c].cost \in Nat
  <2>1. RequestsOf(u, asked)' \in SUBSET Requested'
    BY DEF RequestsOf, Requested
  <2>2. IsFiniteSet(Requested') /\ \A c \in Requested' : job'[c] \in Jobs
    BY DEF RequestFirst
  <2> QED BY <2>1, <2>2, FS_Subset DEF Jobs, Positive
<1>4. Figure(name, u, asked) = FigureOf(name, job, RequestsOf(u, asked), TranscribesOf(u, asked))
  BY FigureIs
<1>5. Figure(name, u, asked)' = FigureOf(name, job', RequestsOf(u, asked)', TranscribesOf(u, asked)')
  BY FigureIsNext
<1> QED BY <1>1, <1>2, <1>3, <1>4, <1>5, FigureOrder

-----------------------------------------------------------------------------
(* The ledger's own steps, as the reports see them.                         *)

\* An operation other than createRequest leaves the set of requests rows alone.
LEMMA StepRecords ==
  ASSUME TypeOK, HasJob, RequestFirst, NEW c \in Calls, Step(c)
  PROVE  /\ UNCHANGED job
         /\ Requested' = Requested \/ (CreateRequest(c) /\ Requested' = Requested \cup {c})
         /\ \A d \in Calls : d # c => pc'[d] = pc[d] /\ requests'[d] = requests[d]
         /\ \A d \in Calls : transcribes[d] # "none" => transcribes'[d] # "none"
         /\ pc[c] \in Operations /\ pc'[c] # "idle" /\ pc'[c] # "createRequest"
         /\ pc'[c] \in Operations => c \in Requested'
         /\ pc'[c] = "returned" => requests'[c] = "succeed"
<1> USE DEF TypeOK, HasJob, InFlight, Operations, RequestFirst, Requested, At, GoTo, Committed, Refused, tables
<1>1. CASE CreateRequest(c)     BY <1>1 DEF CreateRequest
<1>2. CASE CreateTranscribe(c)  BY <1>2 DEF CreateTranscribe
<1>3. CASE LinkTranscribe(c)    BY <1>3 DEF LinkTranscribe
<1>4. CASE MarkProcessing(c)    BY <1>4 DEF MarkProcessing
<1>5. CASE SpeechToText(c)      BY <1>5 DEF SpeechToText
<1>6. CASE MarkCompleted(c)     BY <1>6 DEF MarkCompleted
<1>7. CASE GetTranscribe(c)     BY <1>7 DEF GetTranscribe
<1>8. CASE CreateTransaction(c) BY <1>8 DEF CreateTransaction
<1>9. CASE UpdateWallet(c)      BY <1>9 DEF UpdateWallet
<1>10. CASE SucceedRequest(c)   BY <1>10 DEF SucceedRequest
<1>11. CASE MarkFailed(c)       BY <1>11 DEF MarkFailed
<1>12. CASE FailRequest(c)      BY <1>12 DEF FailRequest
<1> QED BY <1>1, <1>2, <1>3, <1>4, <1>5, <1>6, <1>7, <1>8, <1>9, <1>10, <1>11, <1>12 DEF Step

\* Only createTransaction inserts a row, and its request is there.
LEMMA StepInserts ==
  ASSUME TypeOK, HasJob, RequestFirst, NEW c \in Calls, Step(c)
  PROVE  \A row \in transactions' : row \in transactions \/ row.request \in Requested
<1> USE DEF TypeOK, At, GoTo, Committed, Refused, tables
<1>1. CASE CreateTransaction(c)
  <2>1. c \in Requested /\ TransactionRow(c).request = c
    BY <1>1 DEF CreateTransaction, RequestFirst, Operations, TransactionRow
  <2> QED BY <1>1, <2>1 DEF CreateTransaction
<1>2. CASE ~CreateTransaction(c)
  BY <1>2, StepKeepsRows DEF Typing
<1> QED BY <1>1, <1>2

LEMMA StepRequestFirst ==
  ASSUME TypeOK, HasJob, RequestFirst, NEW c \in Calls, Step(c)
  PROVE  RequestFirst' /\ \A d \in Requested : d \in Requested' /\ job'[d] = job[d]
<1>1. /\ UNCHANGED job
      /\ Requested' = Requested \/ Requested' = Requested \cup {c}
      /\ \A d \in Calls : d # c => pc'[d] = pc[d] /\ requests'[d] = requests[d]
      /\ pc[c] \in Operations /\ pc'[c] # "idle" /\ pc'[c] # "createRequest"
      /\ pc'[c] \in Operations => c \in Requested'
      /\ pc'[c] = "returned" => requests'[c] = "succeed"
  BY StepRecords
<1>2. job[c] \in Jobs
  BY <1>1 DEF HasJob, InFlight
<1>3. IsFiniteSet(Requested')
  BY <1>1, FS_AddElement DEF RequestFirst
<1>4. \A d \in Requested' : job'[d] \in Jobs /\ pc'[d] # "idle"
  BY <1>1, <1>2 DEF RequestFirst, Requested
<1>5. \A d \in Calls : /\ pc'[d] \in Operations \ {"createRequest"} => d \in Requested'
                       /\ pc'[d] = "returned" => requests'[d] = "succeed"
  BY <1>1 DEF RequestFirst
<1>6. \A row \in transactions' : row.request \in Requested'
  BY <1>1, StepInserts DEF RequestFirst
<1> QED BY <1>1, <1>3, <1>4, <1>5, <1>6 DEF RequestFirst

\* An arrival gives locals to a call that has written nothing yet.
LEMMA ArriveRequestFirst ==
  ASSUME TypeOK, RequestFirst, NEW c \in Calls, Arrive(c)
  PROVE  /\ RequestFirst' /\ UNCHANGED <<requests, transcribes>>
         /\ \A d \in Requested : d \in Requested' /\ job'[d] = job[d]
<1>1. /\ UNCHANGED tables
      /\ pc[c] = "idle"
      /\ pc'[c] \in {"createRequest", "threw"}
      /\ \A d \in Calls : d # c => job'[d] = job[d] /\ pc'[d] = pc[d]
  BY DEF Arrive, IncreaseWallet, UploadAndTranscribe, ReadWallet, At, GoTo, TypeOK
<1>2. c \notin Requested /\ Requested' = Requested /\ Requested \subseteq Calls
  BY <1>1 DEF RequestFirst, Requested, tables
<1>3. \A d \in Requested : pc'[d] = pc[d] /\ job'[d] = job[d]
  BY <1>1, <1>2
<1> QED BY <1>1, <1>2, <1>3 DEF RequestFirst, tables, Operations

LEMMA NextRequestFirst ==
  ASSUME TypeOK, HasJob, RequestFirst, [Next]_vars
  PROVE  /\ RequestFirst'
         /\ \A c \in Requested : /\ requests'[c] # "none" /\ job'[c] = job[c]
                                 /\ transcribes[c] # "none" => transcribes'[c] # "none"
<1>1. CASE UNCHANGED <<requests, transcribes, transactions, job, pc>>
  BY <1>1 DEF RequestFirst, Requested
<1>2. CASE \E u \in Users : CreateWallet(u)
  BY <1>1, <1>2 DEF CreateWallet
<1>3. CASE \E c \in Calls : Arrive(c)
  BY <1>3, ArriveRequestFirst DEF Requested
<1>4. CASE \E c \in Calls : Step(c)
  BY <1>4, StepRequestFirst, StepRecords DEF Requested
<1>5. CASE Crash
  <2>1. Requested' = Requested /\ UNCHANGED <<requests, transcribes, transactions, job>>
    BY <1>5 DEF Crash, tables, Requested
  <2>2. \A c \in Calls : pc'[c] = pc[c] \/ pc'[c] = "crashed"
    BY <1>5 DEF Crash
  <2> QED BY <2>1, <2>2 DEF RequestFirst, Requested, Operations
<1>6. CASE UNCHANGED vars
  BY <1>1, <1>6 DEF vars
<1> QED BY <1>2, <1>3, <1>4, <1>5, <1>6 DEF Next, Done

-----------------------------------------------------------------------------
(* The dashboards.                                                          *)

\* A step that leaves the calls of the dashboards alone, and only adds to the
\* records, leaves every dashboard as sound as it was.
LEMMA DashboardQuiet ==
  ASSUME ReportTypes, RequestFirst, RequestFirst', RecordsKept, NEW d \in Dashboards, DashboardSound(d),
         viewer'[d] = viewer[d], days'[d] = days[d], panel'[d] = panel[d],
         pending'[d] = pending[d], since'[d] = since[d]
  PROVE  DashboardSound(d)'
<1> SUFFICES ASSUME viewer[d] # NoUser
             PROVE  /\ since[d].debits <= since[d].figures["costs"]
                    /\ \A name \in Figures : FigureSound(d, name)'
  BY DEF DashboardSound
<1>1. since[d].debits <= since[d].figures["costs"]
  BY DEF DashboardSound
<1>2. ASSUME NEW name \in Figures PROVE FigureSound(d, name)'
  <2>. PICK u : u = viewer[d]
    OBVIOUS
  <2>. PICK first : first = since[d].first
    OBVIOUS
  <2>. PICK span : span = CallDays(d)
    OBVIOUS
  <2>1. FigureSound(d, name)
    BY DEF DashboardSound
  <2>2. CallDays(d)' = span /\ SameDay(d, name)' = SameDay(d, name) /\ viewer'[d] = u /\ since'[d].first = first
    BY DEF CallDays, SameDay
  <2>3. /\ Figure(name, u, {first}) \in Nat /\ Figure(name, u, {first})' \in Nat
        /\ Figure(name, u, {first}) <= Figure(name, u, {first})'
        /\ Figure(name, u, span) \in Nat /\ Figure(name, u, span)' \in Nat
        /\ Figure(name, u, span) <= Figure(name, u, span)'
    BY FigureGrows
  <2>4. since[d].figures[name] \in Nat /\ panel[d][name] \in Nat
    BY DEF ReportTypes
  <2>5. Figure(name, viewer[d], {since[d].first})' = Figure(name, u, {first})'
        /\ Figure(name, viewer[d], CallDays(d))' = Figure(name, u, span)'
    BY <2>2 DEF Figure
  <2>6. since[d].figures[name] <= Figure(name, u, {first})
        /\ (name \notin pending[d] =>
              /\ SameDay(d, name) => since[d].figures[name] <= panel[d][name]
              /\ panel[d][name] <= Figure(name, u, span))
    BY <2>1 DEF FigureSound
  <2>7. since'[d].figures[name] <= Figure(name, u, {first})'
    BY <2>3, <2>4, <2>6
  <2>8. name \notin pending'[d] =>
           /\ SameDay(d, name) => since'[d].figures[name] <= panel'[d][name]
           /\ panel'[d][name] <= Figure(name, u, span)'
    BY <2>3, <2>4, <2>6
  <2>9. days'[d][name] \subseteq span /\ (SameDay(d, name) => first \in days'[d][name])
    BY <2>1 DEF FigureSound
  <2> QED BY <2>2, <2>5, <2>7, <2>8, <2>9 DEF FigureSound
<1> QED BY <1>1, <1>2

\* An answer is the figure of days of the call, the first among them unless
\* midnight fell between the readings of the clock.
LEMMA AnswerSound ==
  ASSUME ReportTypes, RequestFirst, NEW d \in Dashboards, NEW name \in Figures,
         viewer[d] # NoUser, FigureSound(d, name)
  PROVE  LET answer == Figure(name, viewer[d], days[d][name]) IN
         /\ answer \in Nat
         /\ SameDay(d, name) => since[d].figures[name] <= answer
         /\ answer <= Figure(name, viewer[d], CallDays(d))
<1>1. /\ Figure(name, viewer[d], days[d][name]) \in Nat
      /\ Figure(name, viewer[d], days[d][name]) <= Figure(name, viewer[d], CallDays(d))
  BY FigureOfDays DEF FigureSound
<1>2. ASSUME SameDay(d, name)
      PROVE  since[d].figures[name] <= Figure(name, viewer[d], days[d][name])
  <2>1. {since[d].first} \in SUBSET days[d][name]
    BY <1>2 DEF FigureSound
  <2>2. /\ Figure(name, viewer[d], {since[d].first}) \in Nat
        /\ Figure(name, viewer[d], {since[d].first}) <= Figure(name, viewer[d], days[d][name])
    BY <2>1, FigureOfDays
  <2>3. since[d].figures[name] <= Figure(name, viewer[d], {since[d].first})
    BY DEF FigureSound
  <2>4. since[d].figures[name] \in Nat
    BY DEF ReportTypes
  <2> QED BY <1>1, <2>2, <2>3, <2>4
<1> QED BY <1>1, <1>2

LEMMA AnswerQueryDashboards ==
  ASSUME ReportTypes, RequestFirst, \A e \in Dashboards : DashboardSound(e),
         NEW d \in Dashboards, NEW name \in Figures, AnswerQuery(d, name)
  PROVE  ReportTypes' /\ \A e \in Dashboards : DashboardSound(e)'
<1>1. name \in pending[d] /\ viewer[d] # NoUser
  BY DEF AnswerQuery, DashboardSound
<1>. PICK answer : answer = Figure(name, viewer[d], days[d][name])
  OBVIOUS
<1>2. /\ panel' = [panel EXCEPT ![d][name] = answer]
      /\ pending' = [pending EXCEPT ![d] = @ \ {name}]
      /\ UNCHANGED <<vars, today, created, viewer, days, since>>
  BY DEF AnswerQuery
<1>3. FigureSound(d, name)
  BY <1>1 DEF DashboardSound
<1>4. /\ answer \in Nat
      /\ SameDay(d, name) => since[d].figures[name] <= answer
      /\ answer <= Figure(name, viewer[d], CallDays(d))
  BY <1>1, <1>3, AnswerSound
<1>5. ReportTypes'
  BY <1>2, <1>4 DEF ReportTypes
<1>6. \A e \in Dashboards : CallDays(e)' = CallDays(e) /\ \A n \in Figures : SameDay(e, n)' = SameDay(e, n)
  BY <1>2 DEF CallDays, SameDay
<1>7. \A n \in Figures : \A u, asked : Figure(n, u, asked)' = Figure(n, u, asked)
  <2>1. \A u, asked : /\ RequestsOf(u, asked)' = RequestsOf(u, asked)
                      /\ TranscribesOf(u, asked)' = TranscribesOf(u, asked)
    BY <1>2 DEF vars, RequestsOf, TranscribesOf
  <2>2. job' = job
    BY <1>2 DEF vars
  <2> QED BY <2>1, <2>2, FigureIs, FigureIsNext
<1>8. ASSUME NEW e \in Dashboards, NEW n \in Figures, viewer[e] # NoUser
      PROVE  FigureSound(e, n)'
  <2>1. FigureSound(e, n)
    BY <1>8 DEF DashboardSound
  <2>2. \/ e = d /\ n = name /\ panel'[e][n] = answer
        \/ panel'[e][n] = panel[e][n] /\ (n \notin pending'[e] => n \notin pending[e])
    BY <1>1, <1>2 DEF ReportTypes
  <2>3. /\ Figure(n, viewer[e], {since[e].first})' = Figure(n, viewer[e], {since[e].first})
        /\ Figure(n, viewer[e], CallDays(e))' = Figure(n, viewer[e], CallDays(e))
    <3>1. viewer'[e] = viewer[e] /\ since'[e].first = since[e].first
      BY <1>2
    <3>2. \A u, asked : Figure(n, u, asked)' = Figure(n, u, asked)
      BY <1>7
    <3> QED BY <1>6, <3>1, <3>2 DEF Figure
  <2> QED BY <1>2, <1>4, <1>6, <2>1, <2>2, <2>3 DEF FigureSound
<1>9. ASSUME NEW e \in Dashboards PROVE DashboardSound(e)'
  BY <1>1, <1>2, <1>8 DEF DashboardSound, ReportTypes
<1> QED BY <1>5, <1>9

\* Each debit on record is the row of a request, and costs what it costs.
LEMMA DebitsCovered ==
  ASSUME AuditInvariant, RequestFirst, NEW u, NEW asked
  PROVE  /\ AmountOf(DebitsOf(u, asked)) \in Nat
         /\ AmountOf(DebitsOf(u, asked)) <= Figure("costs", u, asked)
<1>1. transactions \in SUBSET Rows /\ RowPerCall
  BY DEF AuditInvariant, LedgerInvariant, TypeOK
<1> DEFINE debits == DebitsOf(u, asked)
           calls == RequestsOf(u, asked)
           f == [c \in calls |-> job[c].cost]
           callOf == [row \in debits |-> row.request]
           named == {callOf[row] : row \in debits}
<1>2. debits \in SUBSET transactions /\ debits \in SUBSET Rows
  BY <1>1 DEF DebitsOf, RowsOf
<1>3. IsFiniteSet(debits)
  BY <1>1, <1>2, FS_Subset DEF RowPerCall
<1>4. ASSUME NEW row \in debits
      PROVE  row.request \in calls /\ row.amount = job[row.request].cost
  <2>1. row = TransactionRow(row.request) /\ row.request \in Requested
    BY <1>1, <1>2 DEF RowPerCall, RequestFirst
  <2>2. row.user = job[row.request].user /\ row.amount = job[row.request].cost
    BY <2>1 DEF TransactionRow
  <2>3. row.user = u /\ created[row.request] \in asked
    BY DEF DebitsOf, RowsOf
  <2> QED BY <2>1, <2>2, <2>3 DEF RequestsOf, Requested
<1>5. \A row, other \in debits : row.request = other.request => row = other
  BY <1>1, <1>2 DEF RowPerCall
<1>6. IsFiniteSet(calls) /\ \A c \in calls : job[c].cost \in Nat
  BY SelectedRequests
<1>7. AmountOf(debits) \in Nat /\ AmountOf(debits) = Total(Amount, debits)
  BY <1>2, <1>3, AmountLaws, AmountIsTotal
<1>8. Figure("costs", u, asked) = Total(f, calls)
  BY <1>6, FigureIs, CostsAreTotal DEF FigureOf, Figures
<1>9. \A row \in debits : /\ Amount[row] \in Int /\ Amount[row] = f[callOf[row]]
                          /\ callOf[row] \in calls
  BY <1>2, <1>4, AmountPositive
<1>10. \A row, other \in debits : callOf[row] = callOf[other] => row = other
  BY <1>5
<1>11. \A c \in calls : f[c] \in Nat
  BY <1>6
<1>12. named \in SUBSET calls
  BY <1>9
<1> HIDE DEF debits, calls, f, callOf
<1>13. Total(Amount, debits) = Total(f, named)
  BY <1>3, <1>9, <1>10, TotalRenamed
<1>14. Total(f, named) <= Total(f, calls)
  BY <1>6, <1>11, <1>12, TotalOrder
<1>15. AmountOf(debits) <= Figure("costs", u, asked)
  BY <1>7, <1>8, <1>13, <1>14
<1> QED BY <1>7, <1>15 DEF debits

\* Whenever midnight falls, the days a query asks about are days of the call,
\* and the queries sent before it ask about the first of them.
LEMMA ReadingsOfCall ==
  ASSUME today \in Nat, NEW before \in 1..6, NEW name \in Figures
  PROVE  LET now   == IF before < 6 THEN today + 1 ELSE today
             asked == GetTodayRange(name, Readings(before))
         IN  /\ asked \subseteq today..now
             /\ name = "costs" \/ today = now => today \in asked
<1>1. \A i \in 1..6 : /\ Readings(before)[i] \in Int
                      /\ Readings(before)[i] = today \/ (before < 6 /\ Readings(before)[i] = today + 1)
  BY DEF Readings
<1>2. Readings(before)[1] = today
  BY DEF Readings
<1>3. CASE name = "costs"
  <2>1. GetTodayRange(name, Readings(before)) = Readings(before)[1]..Readings(before)[2]
    BY <1>3 DEF GetTodayRange, Order
  <2> QED BY <1>1, <1>2, <1>3, <2>1
<1>4. CASE name = "time"
  <2>1. GetTodayRange(name, Readings(before)) = Readings(before)[3]..Readings(before)[4]
    BY <1>4 DEF GetTodayRange, Order
  <2> QED BY <1>1, <1>4, <2>1
<1>5. CASE name = "requests"
  <2>1. GetTodayRange(name, Readings(before)) = Readings(before)[5]..Readings(before)[6]
    BY <1>5 DEF GetTodayRange, Order
  <2> QED BY <1>1, <1>5, <2>1
<1> QED BY <1>3, <1>4, <1>5 DEF Figures

LEMMA TodayInfoDashboards ==
  ASSUME ReportsInvariant, NEW d \in Dashboards, NEW u \in Users, TodayInfo(d, u)
  PROVE  ReportTypes' /\ \A e \in Dashboards : DashboardSound(e)'
<1>1. /\ AuditInvariant /\ ReportTypes /\ RequestFirst
      /\ \A e \in Dashboards : DashboardSound(e)
      /\ LastDay \in Nat /\ u # NoUser
  BY ReportsAssumption DEF ReportsInvariant
<1>. PICK first : first = today
  OBVIOUS
<1>2. PICK before \in 1..6 :
        LET asked == [name \in Figures |-> GetTodayRange(name, Readings(before))]
            now   == IF before < 6 THEN today + 1 ELSE today
        IN  /\ now <= LastDay
            /\ today' = now
            /\ days' = [days EXCEPT ![d] = asked]
            /\ since' = [since EXCEPT ![d] =
                   [first   |-> today, last |-> now,
                    figures |-> [name \in Figures |-> Figure(name, u, {today})],
                    debits  |-> AmountOf(DebitsOf(u, {today}))]]
  BY DEF TodayInfo
<1>. PICK now : now = IF before < 6 THEN first + 1 ELSE first
  OBVIOUS
<1>. PICK asked : asked = [name \in Figures |-> GetTodayRange(name, Readings(before))]
  OBVIOUS
<1>. PICK figures : figures = [name \in Figures |-> Figure(name, u, {first})]
  OBVIOUS
<1>. PICK debits : debits = AmountOf(DebitsOf(u, {first}))
  OBVIOUS
<1>3. /\ now <= LastDay
      /\ today' = now
      /\ days' = [days EXCEPT ![d] = asked]
      /\ since' = [since EXCEPT ![d] = [first |-> first, last |-> now, figures |-> figures, debits |-> debits]]
  BY <1>2
<1>4. /\ viewer' = [viewer EXCEPT ![d] = u]
      /\ pending' = [pending EXCEPT ![d] = Figures]
      /\ UNCHANGED <<vars, created, panel>>
  BY DEF TodayInfo
<1>5. first \in 0..LastDay /\ now \in 0..LastDay /\ first <= now
  BY <1>1, <1>3 DEF ReportTypes
<1>6. \A name \in Figures : /\ asked[name] \subseteq first..now
                            /\ name = "costs" \/ first = now => first \in asked[name]
  BY <1>5, ReadingsOfCall
<1>7. /\ figures \in [Figures -> Nat] /\ debits \in Nat
      /\ \A name \in Figures : figures[name] = Figure(name, u, {first})
      /\ debits <= figures["costs"]
  <2>1. \A name \in Figures : Figure(name, u, {first}) \in Nat
    BY <1>1, FigureOfDays
  <2>2. debits \in Nat /\ debits <= Figure("costs", u, {first})
    BY <1>1, DebitsCovered
  <2> QED BY <2>1, <2>2 DEF Figures
<1>8. ReportTypes'
  <2>1. asked \in [Figures -> SUBSET (0..LastDay)]
    BY <1>5, <1>6
  <2>2. [first |-> first, last |-> now, figures |-> figures, debits |-> debits]
          \in [first : 0..LastDay, last : 0..LastDay, figures : [Figures -> Nat], debits : Nat]
    BY <1>5, <1>7
  <2> QED BY <1>1, <1>3, <1>4, <1>5, <2>1, <2>2 DEF ReportTypes
<1>9. \A n \in Figures : \A v, some : Figure(n, v, some)' = Figure(n, v, some)
  <2>1. \A v, some : /\ RequestsOf(v, some)' = RequestsOf(v, some)
                     /\ TranscribesOf(v, some)' = TranscribesOf(v, some)
    BY <1>4 DEF vars, RequestsOf, TranscribesOf
  <2>2. job' = job
    BY <1>4 DEF vars
  <2> QED BY <2>1, <2>2, FigureIs, FigureIsNext
<1>10. DashboardSound(d)'
  <2>1. /\ viewer'[d] = u /\ pending'[d] = Figures /\ days'[d] = asked
        /\ since'[d].first = first /\ since'[d].last = now
        /\ since'[d].figures = figures /\ since'[d].debits = debits
    BY <1>1, <1>3, <1>4 DEF ReportTypes
  <2>2. ASSUME NEW name \in Figures PROVE FigureSound(d, name)'
    <3>1. Figure(name, viewer[d], {since[d].first})' = Figure(name, u, {first})'
      BY <2>1 DEF Figure
    <3>2. Figure(name, u, {first})' = figures[name] /\ figures[name] \in Nat
      BY <1>7, <1>9
    <3> QED BY <1>6, <2>1, <3>1, <3>2 DEF FigureSound, CallDays, SameDay
  <2> QED BY <1>1, <1>7, <2>1, <2>2 DEF DashboardSound
<1>11. ASSUME NEW e \in Dashboards, e # d PROVE DashboardSound(e)'
  <2>1. /\ viewer'[e] = viewer[e] /\ pending'[e] = pending[e] /\ days'[e] = days[e]
        /\ panel'[e] = panel[e] /\ since'[e] = since[e]
    BY <1>1, <1>3, <1>4, <1>11 DEF ReportTypes
  <2>2. RequestFirst' /\ RecordsKept
    BY <1>1, <1>4 DEF vars, RequestFirst, RecordsKept, Requested
  <2> QED BY <1>1, <2>1, <2>2, DashboardQuiet
<1> QED BY <1>8, <1>10, <1>11

-----------------------------------------------------------------------------
(* The invariant and what follows from it.                                  *)

LEMMA NextReports == ReportsInvariant /\ [ReportsNext]_<<vars, reportVars>> => ReportsInvariant'
<1> SUFFICES ASSUME ReportsInvariant, [ReportsNext]_<<vars, reportVars>> PROVE ReportsInvariant'
  OBVIOUS
<1>1. /\ AuditInvariant /\ TypeOK /\ HasJob /\ RequestFirst /\ ReportTypes
      /\ \A d \in Dashboards : DashboardSound(d)
  BY DEF ReportsInvariant, AuditInvariant, LedgerInvariant
<1>2. [Next]_vars
  BY DEF ReportsNext, Midnight, TodayInfo, AnswerQuery
<1>3. AuditInvariant'
  BY <1>1, <1>2, NextAudit
<1>4. /\ RequestFirst'
      /\ \A c \in Requested : /\ requests'[c] # "none" /\ job'[c] = job[c]
                              /\ transcribes[c] # "none" => transcribes'[c] # "none"
  BY <1>1, <1>2, NextRequestFirst
<1>5. CASE UNCHANGED dashboardVars /\ ReportTypes' /\ RecordsKept
  BY <1>1, <1>3, <1>4, <1>5, DashboardQuiet DEF dashboardVars, ReportsInvariant
<1>6. CASE Next /\ StampRequests /\ UNCHANGED <<today, dashboardVars>>
  <2>1. ReportTypes'
    BY <1>1, <1>6 DEF ReportTypes, StampRequests, dashboardVars
  <2>2. RecordsKept
    BY <1>1, <1>4, <1>6 DEF RecordsKept, StampRequests, Requested, ReportTypes
  <2> QED BY <1>5, <1>6, <2>1, <2>2
<1>7. CASE Midnight
  <2>1. today' \in 0..LastDay
    BY <1>1, <1>7, ReportsAssumption DEF Midnight, ReportTypes
  <2>2. ReportTypes' /\ UNCHANGED dashboardVars
    BY <1>1, <1>7, <2>1 DEF Midnight, ReportTypes, dashboardVars
  <2>3. RecordsKept
    BY <1>4, <1>7 DEF RecordsKept, Midnight
  <2> QED BY <1>5, <2>2, <2>3
<1>8. CASE \E d \in Dashboards : \E u \in Users : TodayInfo(d, u)
  BY <1>3, <1>4, <1>8, TodayInfoDashboards DEF ReportsInvariant
<1>9. CASE \E d \in Dashboards : \E name \in Figures : AnswerQuery(d, name)
  BY <1>1, <1>3, <1>4, <1>9, AnswerQueryDashboards DEF ReportsInvariant
<1>10. CASE UNCHANGED <<vars, reportVars>>
  BY <1>1, <1>4, <1>5, <1>10 DEF reportVars, ReportTypes, dashboardVars, RecordsKept
<1> QED BY <1>6, <1>7, <1>8, <1>9, <1>10 DEF ReportsNext

LEMMA InitReports == ReportsInit => ReportsInvariant
<1> SUFFICES ASSUME ReportsInit PROVE ReportsInvariant
  OBVIOUS
<1>1. Init /\ AuditInvariant
  BY InitAudit DEF ReportsInit
<1>2. Requested = {}
  BY <1>1 DEF Init, Requested
<1>3. RequestFirst
  BY <1>1, <1>2, FS_EmptySet DEF Init, RequestFirst, Operations
<1>4. ReportTypes
  BY ReportsAssumption DEF ReportsInit, ReportTypes
<1>5. \A d \in Dashboards : DashboardSound(d)
  BY DEF ReportsInit, DashboardSound
<1> QED BY <1>1, <1>3, <1>4, <1>5 DEF ReportsInvariant

\* Of any number of dashboards, asked for and answered between any steps of
\* any handlers and around any midnights, each figure brought so far lies
\* between what its day held when asked for and what the days hold now.
THEOREM ReportsCorrect == ReportsSpec => []ReportsInvariant
  BY InitReports, NextReports, PTL DEF ReportsSpec

\* A dashboard shown misses nothing of its day that was there when todayInfo
\* was called, and counts nothing that is not there by now.
THEOREM DashboardIsFresh == ReportsSpec => []DashboardFresh
<1>1. ReportsInvariant => DashboardFresh
  BY DEF ReportsInvariant, DashboardSound, FigureSound, DashboardFresh, Shown
<1> QED BY <1>1, ReportsCorrect, PTL

\* Hours and minutes lose less than a minute, and never gain.
LEMMA FormatLaws ==
  ASSUME NEW seconds \in Nat
  PROVE  LET time  == FormatDuration(seconds)
             shown == 3600 * time.hours + 60 * time.minutes
         IN  shown \in Nat /\ shown <= seconds /\ seconds - shown < 60
<1>. PICK minutes : minutes = seconds \div 60
  OBVIOUS
<1>1. minutes \in Nat /\ 60 * minutes <= seconds /\ seconds - 60 * minutes < 60
  OBVIOUS
<1>2. 60 * (minutes \div 60) + (minutes % 60) = minutes
  BY <1>1
<1>3. minutes \div 60 \in Nat /\ minutes % 60 \in Nat
  BY <1>1
<1>4. FormatDuration(seconds) = [hours |-> minutes \div 60, minutes |-> minutes % 60]
  BY DEF FormatDuration
<1> QED BY <1>1, <1>2, <1>3, <1>4

\* The time of a dashboard, as hours and minutes, never exceeds the audio
\* uploaded, and is short of what there was by less than a minute.
THEOREM TimeIsTold == ReportsSpec => []TimeTellsDuration
<1>1. ReportsInvariant => TimeTellsDuration
  <2> SUFFICES ASSUME ReportsInvariant, NEW d \in Dashboards, Shown(d)
               PROVE  LET time  == FormatDuration(panel[d]["time"])
                          shown == 3600 * time.hours + 60 * time.minutes
                      IN  /\ shown <= TodayDuration(viewer[d], CallDays(d))
                          /\ SameDay(d, "time") => since[d].figures["time"] - shown < 60
    BY DEF TimeTellsDuration
  <2>. PICK seconds : seconds = panel[d]["time"]
    OBVIOUS
  <2>. PICK had : had = since[d].figures["time"]
    OBVIOUS
  <2>1. seconds \in Nat /\ had \in Nat
    BY DEF ReportsInvariant, ReportTypes, Figures
  <2>2. FigureSound(d, "time") /\ "time" \notin pending[d] /\ RequestFirst
    BY DEF ReportsInvariant, DashboardSound, Shown, Figures
  <2>3. TodayDuration(viewer[d], CallDays(d)) = Figure("time", viewer[d], CallDays(d))
    BY DEF Figure
  <2>4. Figure("time", viewer[d], CallDays(d)) \in Nat
    BY <2>2, FigureOfDays DEF Figures
  <2>5. seconds <= TodayDuration(viewer[d], CallDays(d)) /\ (SameDay(d, "time") => had <= seconds)
    BY <2>2, <2>3 DEF FigureSound
  <2>. PICK shown : shown = 3600 * FormatDuration(seconds).hours + 60 * FormatDuration(seconds).minutes
    OBVIOUS
  <2>6. shown \in Nat /\ shown <= seconds /\ seconds - shown < 60
    BY <2>1, FormatLaws
  <2>7. shown <= TodayDuration(viewer[d], CallDays(d)) /\ (SameDay(d, "time") => had - shown < 60)
    BY <2>1, <2>3, <2>4, <2>5, <2>6
  <2> QED BY <2>7
<1> QED BY <1>1, ReportsCorrect, PTL

\* The costs of a dashboard cover the debits its day's ledger held when it was
\* asked for.
THEOREM DebitsAreCosted == ReportsSpec => []CostsCoverDebits
<1>1. ReportsInvariant => CostsCoverDebits
  <2> SUFFICES ASSUME ReportsInvariant, NEW d \in Dashboards, Shown(d)
               PROVE  since[d].debits <= panel[d]["costs"]
    BY DEF CostsCoverDebits
  <2>1. since[d].debits <= since[d].figures["costs"] /\ FigureSound(d, "costs") /\ "costs" \notin pending[d]
    BY DEF ReportsInvariant, DashboardSound, Shown, Figures
  <2>2. since[d].figures["costs"] <= panel[d]["costs"]
    BY <2>1 DEF FigureSound, SameDay
  <2>3. since[d].debits \in Nat /\ since[d].figures["costs"] \in Nat /\ panel[d]["costs"] \in Nat
    BY DEF ReportsInvariant, ReportTypes, Figures
  <2> QED BY <2>1, <2>2, <2>3
<1> QED BY <1>1, ReportsCorrect, PTL

\* What a call was answered with success for is in the history, and a
\* transcription in the list, for ever after.
THEOREM AnswersStayOnRecord == ReportsSpec => []AnsweredIsOnRecord
<1>1. ReportsInvariant => AnsweredIsOnRecord
  <2> SUFFICES ASSUME ReportsInvariant, NEW c \in Calls, pc[c] = "returned"
               PROVE  /\ [amount |-> job[c].cost, balanceAfter |-> NextBalance(c)] \in LogCredits(job[c].user)
                      /\ IsTranscription(c) =>
                           /\ c \in ListByUser(job[c].user) /\ GetById(c, job[c].user)
                           /\ transcribes[c] = "completed" /\ c \in outputs
    BY DEF AnsweredIsOnRecord, At
  <2>1. requests[c] = "succeed" /\ created[c] \in 0..LastDay
    BY DEF ReportsInvariant, RequestFirst, ReportTypes
  <2>2. /\ \E row \in transactions : row.request = c
        /\ IsTranscription(c) => transcribes[c] = "completed" /\ c \in outputs
    BY <2>1 DEF ReportsInvariant, AuditInvariant, LedgerInvariant, SucceedMeansSettled
  <2>3. TransactionRow(c) \in transactions
    BY <2>2 DEF ReportsInvariant, AuditInvariant, RowPerCall
  <2>4. TransactionRow(c) \in RowsOf(job[c].user)
    BY <2>3 DEF RowsOf, TransactionRow
  <2>5. [amount |-> job[c].cost, balanceAfter |-> NextBalance(c)] \in LogCredits(job[c].user)
    BY <2>4 DEF LogCredits, TransactionRow
  <2>6. IsTranscription(c) => c \in ListByUser(job[c].user) /\ GetById(c, job[c].user)
    BY <2>1, <2>2 DEF ListByUser, TranscribesOf, RequestsOf, GetById
  <2> QED BY <2>2, <2>5, <2>6
<1> QED BY <1>1, ReportsCorrect, PTL

\* The total credit a user is told is never less than the balance.
THEOREM TotalCreditCovers == ReportsSpec => []TotalCoversBalance
<1>1. ReportsSpec => Spec
  <2>1. ReportsInit => Init
    BY DEF ReportsInit
  <2>2. [ReportsNext]_<<vars, reportVars>> => [Next]_vars
    BY DEF ReportsNext, Midnight, TodayInfo, AnswerQuery
  <2> QED BY <2>1, <2>2, PTL DEF ReportsSpec, Spec
<1>2. ReportsInvariant /\ NoMoneyFromNothing => TotalCoversBalance
  <2> SUFFICES ASSUME ReportsInvariant, NoMoneyFromNothing, NEW u \in Users
               PROVE  balance[u] <= AmountOf(RowsOf(u))
    BY DEF TotalCoversBalance, TotalCredit
  <2>1. RowPerCall /\ transactions \in SUBSET Rows /\ balance[u] \in Int
    BY DEF ReportsInvariant, AuditInvariant, LedgerInvariant, TypeOK
  <2>2. RowsOf(u) \in SUBSET Rows /\ IsFiniteSet(RowsOf(u)) /\ CreditRows(u) \in SUBSET RowsOf(u)
    BY <2>1, FS_Subset DEF RowPerCall, RowsOf, CreditRows
  <2>3. AmountOf(CreditRows(u)) <= AmountOf(RowsOf(u)) /\ AmountOf(RowsOf(u)) \in Nat
    BY <2>2, AmountLaws
  <2>4. AmountOf(CreditRows(u)) \in Nat
    BY <2>1, CreditsCount, AmountLaws
  <2> QED BY <2>1, <2>3, <2>4 DEF NoMoneyFromNothing
<1> QED BY <1>1, <1>2, MoneyIsNotCreated, ReportsCorrect, PTL
=============================================================================
