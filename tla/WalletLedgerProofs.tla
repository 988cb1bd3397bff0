------------------------ MODULE WalletLedgerProofs ------------------------
(* Theorems about WalletLedger and LedgerAudit, for every value of the     *)
(* constants.                                                              *)
EXTENDS LedgerAudit, FiniteSums

-----------------------------------------------------------------------------
(* The inductive invariant behind the safety properties. *)

HasJob == \A c \in Calls : InFlight(c) => job[c] \in Jobs

\* The snapshot was a possible balance, and it covers what will be debited.
SnapshotCovers ==
    \A c \in Calls : job[c] # NoJob =>
        /\ job[c].seen \in 0..MaxBalance
        /\ IsTranscription(c) => job[c].cost <= job[c].seen

\* The snapshot was zero or some charged row's balance_after, and stays so:
\* rows are never removed.
SnapshotExplained ==
    \A c \in Calls : job[c] # NoJob =>
        \/ job[c].seen = 0
        \/ \E row \in transactions : /\ row.user = job[c].user
                                     /\ row.request \in charged
                                     /\ row.balanceAfter = job[c].seen

\* What a call about to write the wallet, or past it, has written before.
RowBeforeWrite ==
    \A c \in Calls : pc[c] \in {"updateWallet", "succeedRequest"} =>
        /\ Fits(NextBalance(c))
        /\ TransactionRow(c) \in transactions

\* What a call has behind it at each operation.
TranscriptBeforeCharge ==
    \A c \in Calls :
        /\ pc[c] = "markCompleted" => c \in outputs
        /\ pc[c] \in {"markProcessing", "speechToText", "markCompleted", "getTranscribe"} =>
             "transcribe" \in links[c]
        /\ pc[c] = "getTranscribe" => c \in outputs /\ transcribes[c] = "completed"
        /\ pc[c] \in {"createTransaction", "updateWallet", "succeedRequest"} =>
             (IsTranscription(c) => "transcribe" \in links[c] /\ c \in outputs
                                    /\ transcribes[c] = "completed")

ChargeBeforeSuccess ==
    \A c \in Calls :
        /\ c \in charged => pc[c] \in {"succeedRequest", "failRequest"} \cup Ended
        /\ pc[c] = "succeedRequest" => c \in charged
        /\ requests[c] = "succeed" => pc[c] \in {"failRequest"} \cup Ended

\* The inductive invariant: whatever overlaps, fails or crashes, balances and
\* rows stem from snapshots that were balances, and every handler has done
\* in order what uploadAndTranscribe and increaseWallet do in order.
LedgerInvariant ==
    /\ TypeOK
    /\ HasJob
    /\ BalanceInRange
    /\ SnapshotCovers
    /\ RowBeforeWrite
    /\ BalanceExplained
    /\ SnapshotExplained
    /\ RowsChain
    /\ TranscriptBeforeCharge
    /\ ChargeBeforeSuccess
    /\ NeverChargedWithoutTranscript
    /\ SucceedMeansSettled

-----------------------------------------------------------------------------
(* The inductive invariant behind the sums. *)

\* Each row is the one row of its call, as the call's locals say, and the call
\* has createTransaction behind it.
RowPerCall ==
    /\ IsFiniteSet(transactions)
    /\ \A row \in transactions :
         /\ row = TransactionRow(row.request)
         /\ job[row.request] \in Jobs
         /\ pc[row.request] \in {"updateWallet", "succeedRequest", "failRequest"} \cup Ended

\* No row promises more than the credits on record.
RowsCovered == \A row \in transactions : row.balanceAfter <= AmountOf(CreditRows(row.user))

\* A row whose balance write has not committed is about to see it done.
RowsAwaitBalance ==
    \A row \in transactions : row.request \in charged \/ pc[row.request] = "updateWallet"

AuditInvariant == LedgerInvariant /\ RowPerCall /\ RowsCovered

-----------------------------------------------------------------------------
Typing == TypeOK /\ HasJob

LEMMA InitTyping == Init => Typing
  BY LedgerAssumption DEF Init, Typing, TypeOK, HasJob, InFlight, Operations, Ended,
     RequestStatuses, TranscribeStatuses, Rows

\* No clip is free of seconds, whatever ffprobe reads and however small the file.
LEMMA DurationPositive ==
  ASSUME NEW file \in Files
  PROVE  CalculateDuration(file) \in Positive
<1>1. /\ file.probed \in Int \cup {NoDuration}
      /\ file.size \in Nat
      /\ BytesPerSecond \in Nat
      /\ BytesPerSecond > 0
  BY LedgerAssumption DEF Positive
<1>2. file.probed \in Int => Ceil(file.probed, 10) \in Int
  BY DEF Ceil
<1>3. ASSUME file.size > BytesPerSecond
      PROVE  Ceil(file.size, BytesPerSecond) \in Int /\ Ceil(file.size, BytesPerSecond) > 0
  BY <1>1, <1>3 DEF Ceil
<1> QED BY <1>1, <1>2, <1>3 DEF CalculateDuration, Positive

\* A cost computed from an upload is positive.
LEMMA CostPositive ==
  ASSUME NEW file \in Files
  PROVE  TranscriptionCost(CalculateDuration(file)) \in Positive
<1> DEFINE duration == CalculateDuration(file)
<1>1. duration \in Nat /\ duration > 0 /\ CostPerSecond \in Nat /\ CostPerSecond > 0
  BY DurationPositive, LedgerAssumption DEF Positive
<1> HIDE DEF duration
<1>2. duration * CostPerSecond \in Nat /\ duration * CostPerSecond > 0
  BY <1>1
<1> QED BY <1>2 DEF TranscriptionCost, Positive, duration

\* The pipe lets only positive amounts through.
LEMMA ValidAmountPositive ==
  ASSUME NEW amount \in TopUpAmounts, ValidAmount(amount)
  PROVE  amount \in Positive
  BY LedgerAssumption DEF ValidAmount, Positive

\* An arrival types the locals it fills.
LEMMA ReadWalletTyping ==
  ASSUME Typing, NEW c \in Calls, NEW u \in Users, NEW module \in Modules,
         NEW cost, NEW admitted, admitted => cost \in Positive,
         ReadWallet(c, u, module, cost, admitted)
  PROVE  Typing'
<1> USE DEF Typing, TypeOK, HasJob, InFlight, Operations, Ended
<1>1. admitted => [user |-> u, module |-> module, cost |-> cost, seen |-> balance[u]] \in Jobs
  BY DEF Jobs
<1>2. HasJob'
  BY <1>1 DEF ReadWallet, At, GoTo, tables
<1>3. TypeOK'
  BY <1>1 DEF ReadWallet, At, GoTo, tables
<1> QED BY <1>2, <1>3

LEMMA ArriveTyping ==
  ASSUME Typing, NEW c \in Calls, Arrive(c)
  PROVE  Typing'
<1>1. PICK u \in Users : \/ \E amount \in TopUpAmounts : IncreaseWallet(c, u, amount)
                         \/ \E file \in Files : UploadAndTranscribe(c, u, file)
  BY DEF Arrive
<1>2. CASE \E amount \in TopUpAmounts : IncreaseWallet(c, u, amount)
  BY <1>2, ReadWalletTyping, ValidAmountPositive DEF IncreaseWallet, Modules
<1>3. CASE \E file \in Files : UploadAndTranscribe(c, u, file)
  <2>1. PICK file \in Files : UploadAndTranscribe(c, u, file)
    BY <1>3
  <2> QED BY <2>1, ReadWalletTyping, CostPositive DEF UploadAndTranscribe, Modules
<1> QED BY <1>1, <1>2, <1>3

LEMMA RowTyping ==
  ASSUME NEW c \in Calls, job[c] \in Jobs
  PROVE  TransactionRow(c) \in Rows /\ NextBalance(c) \in Int
  BY DEF Jobs, TransactionRow, Rows, Direction, NextBalance, IsTranscription, Positive

LEMMA StepTyping ==
  ASSUME Typing, NEW c \in Calls, Step(c)
  PROVE  Typing'
<1> USE DEF Typing, TypeOK, HasJob, InFlight, Operations, Ended, At, GoTo, Committed, Refused,
        tables, RequestStatuses, TranscribeStatuses, Links
<1>1. CASE CreateRequest(c)     BY <1>1 DEF CreateRequest
<1>2. CASE CreateTranscribe(c)  BY <1>2 DEF CreateTranscribe
<1>3. CASE LinkTranscribe(c)    BY <1>3 DEF LinkTranscribe
<1>4. CASE MarkProcessing(c)    BY <1>4 DEF MarkProcessing
<1>5. CASE SpeechToText(c)      BY <1>5 DEF SpeechToText
<1>6. CASE MarkCompleted(c)     BY <1>6 DEF MarkCompleted
<1>7. CASE GetTranscribe(c)     BY <1>7 DEF GetTranscribe
<1>8. CASE CreateTransaction(c) BY <1>8, RowTyping DEF CreateTransaction
<1>9. CASE UpdateWallet(c)      BY <1>9, RowTyping DEF UpdateWallet, Jobs
<1>10. CASE SucceedRequest(c)   BY <1>10 DEF SucceedRequest
<1>11. CASE MarkFailed(c)       BY <1>11 DEF MarkFailed
<1>12. CASE FailRequest(c)      BY <1>12 DEF FailRequest
<1> QED BY <1>1, <1>2, <1>3, <1>4, <1>5, <1>6, <1>7, <1>8, <1>9, <1>10, <1>11, <1>12 DEF Step

LEMMA NextTyping == Typing /\ [Next]_vars => Typing'
<1> SUFFICES ASSUME Typing, [Next]_vars PROVE Typing'
  OBVIOUS
<1> USE DEF Typing, TypeOK, HasJob, InFlight, Operations, Ended
<1>1. CASE \E u \in Users : CreateWallet(u)  BY <1>1 DEF CreateWallet
<1>2. CASE \E c \in Calls : Arrive(c)        BY <1>2, ArriveTyping
<1>3. CASE \E c \in Calls : Step(c)          BY <1>3, StepTyping
<1>4. CASE Crash                             BY <1>4 DEF Crash, tables
<1>5. CASE UNCHANGED vars                    BY <1>5 DEF vars
<1> QED BY <1>1, <1>2, <1>3, <1>4, <1>5 DEF Next, Done

\* Every variable of the paid operations keeps its type, for any number of
\* users and calls and any set of faults.
THEOREM TypeCorrect == Spec => []TypeOK
<1>1. Spec => []Typing
  BY InitTyping, NextTyping, PTL DEF Spec
<1>2. Typing => TypeOK
  BY DEF Typing
<1> QED BY <1>1, <1>2, PTL

-----------------------------------------------------------------------------
(* The money part of the invariant: balances, snapshots and rows.           *)

MoneyInvariant ==
    /\ BalanceInRange
    /\ SnapshotCovers
    /\ RowBeforeWrite
    /\ BalanceExplained
    /\ SnapshotExplained
    /\ RowsChain

\* A step that touches neither balances, rows, locals nor charges, and takes no
\* call to its balance write, leaves the money part alone.
LEMMA QuietStep ==
  ASSUME MoneyInvariant, UNCHANGED <<balance, transactions, job, charged>>,
         \A d \in Calls : pc'[d] \in {"updateWallet", "succeedRequest"} => pc'[d] = pc[d]
  PROVE  MoneyInvariant'
<1> USE DEF MoneyInvariant, IsTranscription
<1>1. BalanceInRange' /\ BalanceExplained' /\ RowsChain'
  BY DEF BalanceInRange, BalanceExplained, RowsChain
<1>2. SnapshotCovers' /\ SnapshotExplained'
  BY DEF SnapshotCovers, SnapshotExplained
<1>3. RowBeforeWrite'
  BY DEF RowBeforeWrite, Fits, NextBalance, TransactionRow, Direction
<1> QED BY <1>1, <1>2, <1>3

\* All the operations but two are quiet.
LEMMA OtherStepsQuiet ==
  ASSUME Typing, NEW c \in Calls, Step(c), ~CreateTransaction(c), ~UpdateWallet(c)
  PROVE  /\ UNCHANGED <<balance, transactions, job, charged>>
         /\ \A d \in Calls : pc'[d] \in {"updateWallet", "succeedRequest"} => pc'[d] = pc[d]
<1> USE DEF Typing, TypeOK, At, GoTo, Committed, Refused, tables
<1>1. CASE CreateRequest(c)     BY <1>1 DEF CreateRequest
<1>2. CASE CreateTranscribe(c)  BY <1>2 DEF CreateTranscribe
<1>3. CASE LinkTranscribe(c)    BY <1>3 DEF LinkTranscribe
<1>4. CASE MarkProcessing(c)    BY <1>4 DEF MarkProcessing
<1>5. CASE SpeechToText(c)      BY <1>5 DEF SpeechToText
<1>6. CASE MarkCompleted(c)     BY <1>6 DEF MarkCompleted
<1>7. CASE GetTranscribe(c)     BY <1>7 DEF GetTranscribe
<1>8. CASE SucceedRequest(c)    BY <1>8 DEF SucceedRequest
<1>9. CASE MarkFailed(c)        BY <1>9 DEF MarkFailed
<1>10. CASE FailRequest(c)      BY <1>10 DEF FailRequest
<1> QED BY <1>1, <1>2, <1>3, <1>4, <1>5, <1>6, <1>7, <1>8, <1>9, <1>10 DEF Step

\* The row a call inserts starts from its snapshot.
LEMMA RowStartsFromSnapshot ==
  ASSUME NEW c \in Calls, job[c] \in Jobs
  PROVE  BalanceBefore(TransactionRow(c)) = job[c].seen
  BY DEF Jobs, Positive, BalanceBefore, TransactionRow, Direction, NextBalance, IsTranscription

LEMMA CreateTransactionMoney ==
  ASSUME Typing, MoneyInvariant, NEW c \in Calls, CreateTransaction(c)
  PROVE  MoneyInvariant'
<1> USE DEF Typing, MoneyInvariant
<1>1. CASE UNCHANGED <<balance, transactions, job, charged>> /\ pc' = [pc EXCEPT ![c] = "failRequest"]
  BY <1>1, QuietStep DEF TypeOK
<1>2. CASE /\ Fits(NextBalance(c))
           /\ transactions' = transactions \cup {TransactionRow(c)}
           /\ UNCHANGED <<balance, job, charged>>
           /\ \/ pc' = [pc EXCEPT ![c] = "updateWallet"]
              \/ pc' = [pc EXCEPT ![c] = "failRequest"]
  <2>1. job[c] \in Jobs /\ job[c] # NoJob
    BY LedgerAssumption DEF CreateTransaction, At, HasJob, InFlight, Operations
  <2>2. BalanceInRange' /\ SnapshotCovers'
    BY <1>2 DEF BalanceInRange, SnapshotCovers, IsTranscription
  <2>3. RowBeforeWrite'
    BY <1>2 DEF RowBeforeWrite, TypeOK, Fits, NextBalance, TransactionRow, Direction, IsTranscription
  <2>4. BalanceExplained' /\ SnapshotExplained'
    BY <1>2 DEF BalanceExplained, SnapshotExplained
  <2>5. RowsChain'
    <3>1. \/ BalanceBefore(TransactionRow(c)) = 0
          \/ \E prior \in transactions : /\ prior.user = TransactionRow(c).user
                                         /\ prior.request \in charged
                                         /\ prior.balanceAfter = BalanceBefore(TransactionRow(c))
      BY <2>1, RowStartsFromSnapshot DEF SnapshotExplained, TransactionRow
    <3> QED BY <1>2, <3>1 DEF RowsChain
  <2> QED BY <2>2, <2>3, <2>4, <2>5
<1> QED BY <1>1, <1>2 DEF CreateTransaction, Committed, Refused, GoTo, tables

LEMMA UpdateWalletMoney ==
  ASSUME Typing, MoneyInvariant, NEW c \in Calls, UpdateWallet(c)
  PROVE  MoneyInvariant'
<1> USE DEF Typing, MoneyInvariant
<1>1. CASE UNCHANGED <<balance, transactions, job, charged>> /\ pc' = [pc EXCEPT ![c] = "failRequest"]
  BY <1>1, QuietStep DEF TypeOK
<1>2. CASE /\ balance' = [balance EXCEPT ![job[c].user] = NextBalance(c)]
           /\ charged' = charged \cup {c}
           /\ UNCHANGED <<transactions, job>>
           /\ \/ pc' = [pc EXCEPT ![c] = "succeedRequest"]
              \/ pc' = [pc EXCEPT ![c] = "failRequest"]
  <2>1. job[c] \in Jobs /\ job[c] # NoJob
    BY LedgerAssumption DEF UpdateWallet, At, HasJob, InFlight, Operations
  <2>2. Fits(NextBalance(c)) /\ TransactionRow(c) \in transactions
    BY DEF UpdateWallet, At, RowBeforeWrite
  <2>3. NextBalance(c) \in 0..MaxBalance
    BY <2>1, <2>2, LedgerAssumption DEF SnapshotCovers, Fits, NextBalance, Jobs, Positive
  <2>4. BalanceInRange'
    BY <1>2, <2>3 DEF BalanceInRange, TypeOK
  <2>5. SnapshotCovers'
    BY <1>2 DEF SnapshotCovers, IsTranscription
  <2>6. RowBeforeWrite'
    BY <1>2, <2>2 DEF RowBeforeWrite, TypeOK, Fits, NextBalance, TransactionRow, Direction,
       IsTranscription
  <2>7. BalanceExplained'
    <3>1. /\ TransactionRow(c).user = job[c].user
          /\ TransactionRow(c).request = c
          /\ TransactionRow(c).balanceAfter = NextBalance(c)
      BY DEF TransactionRow
    <3> QED BY <1>2, <2>2, <3>1 DEF BalanceExplained, TypeOK
  <2>8. SnapshotExplained' /\ RowsChain'
    BY <1>2 DEF SnapshotExplained, RowsChain
  <2> QED BY <2>4, <2>5, <2>6, <2>7, <2>8
<1> QED BY <1>1, <1>2 DEF UpdateWallet, Committed, Refused, GoTo, tables

LEMMA ReadWalletMoney ==
  ASSUME Typing, MoneyInvariant, NEW c \in Calls, NEW u \in Users, NEW module \in Modules,
         NEW cost, NEW admitted, admitted => cost \in Positive,
         ReadWallet(c, u, module, cost, admitted),
         admitted /\ module = "transcription" => cost <= balance[u]
  PROVE  MoneyInvariant'
<1> DEFINE new == [user |-> u, module |-> module, cost |-> cost, seen |-> balance[u]]
<1> USE DEF Typing, MoneyInvariant
<1>1. CASE UNCHANGED <<tables, job>> /\ pc' = [pc EXCEPT ![c] = "threw"]
  BY <1>1, QuietStep DEF TypeOK, tables
<1>2. CASE /\ admitted
           /\ UNCHANGED tables
           /\ job' = [job EXCEPT ![c] = new]
           /\ pc' = [pc EXCEPT ![c] = "createRequest"]
  <2>1. BalanceInRange' /\ BalanceExplained' /\ RowsChain'
    BY <1>2 DEF BalanceInRange, BalanceExplained, RowsChain, tables
  <2>2. job'[c] = new /\ \A d \in Calls : d # c => job'[d] = job[d]
    BY <1>2 DEF TypeOK
  <2>3. SnapshotCovers'
    BY <1>2, <2>2 DEF SnapshotCovers, IsTranscription, BalanceInRange, Modules
  <2>4. SnapshotExplained'
    BY <1>2, <2>2 DEF SnapshotExplained, BalanceExplained, tables
  <2>5. RowBeforeWrite'
    BY <1>2, <2>2 DEF RowBeforeWrite, TypeOK, tables, Fits, NextBalance, TransactionRow, Direction,
       IsTranscription
  <2> QED BY <2>1, <2>3, <2>4, <2>5
<1> QED BY <1>1, <1>2 DEF ReadWallet, GoTo

LEMMA ArriveMoney ==
  ASSUME Typing, MoneyInvariant, NEW c \in Calls, Arrive(c)
  PROVE  MoneyInvariant'
<1>1. PICK u \in Users : \/ \E amount \in TopUpAmounts : IncreaseWallet(c, u, amount)
                         \/ \E file \in Files : UploadAndTranscribe(c, u, file)
  BY DEF Arrive
<1>2. CASE \E amount \in TopUpAmounts : IncreaseWallet(c, u, amount)
  BY <1>2, ReadWalletMoney, ValidAmountPositive DEF IncreaseWallet, Modules
<1>3. CASE \E file \in Files : UploadAndTranscribe(c, u, file)
  <2>1. PICK file \in Files : UploadAndTranscribe(c, u, file)
    BY <1>3
  <2> DEFINE cost == TranscriptionCost(CalculateDuration(file))
  <2>2. cost \in Positive
    BY CostPositive
  <2>3. ReadWallet(c, u, "transcription", cost, AcceptUpload(file) /\ CanAfford(u, cost))
    BY <2>1 DEF UploadAndTranscribe
  <2> HIDE DEF cost
  <2>4. CanAfford(u, cost) => cost <= balance[u]
    BY <2>2 DEF CanAfford, Typing, TypeOK, Positive
  <2> QED BY <2>2, <2>3, <2>4, ReadWalletMoney DEF Modules
<1> QED BY <1>1, <1>2, <1>3

LEMMA NextMoney ==
  ASSUME Typing, MoneyInvariant, [Next]_vars
  PROVE  MoneyInvariant'
<1>1. CASE \E u \in Users : CreateWallet(u)
  BY <1>1, QuietStep DEF CreateWallet
<1>2. CASE \E c \in Calls : Arrive(c)
  BY <1>2, ArriveMoney
<1>3. CASE \E c \in Calls : Step(c)
  BY <1>3, QuietStep, OtherStepsQuiet, CreateTransactionMoney, UpdateWalletMoney
<1>4. CASE Crash
  BY <1>4, QuietStep DEF Crash, tables
<1>5. CASE UNCHANGED vars
  BY <1>5, QuietStep DEF vars
<1> QED BY <1>1, <1>2, <1>3, <1>4, <1>5 DEF Next, Done

-----------------------------------------------------------------------------
(* The handler part of the invariant: what a call has behind it.            *)

HandlerInvariant ==
    /\ TranscriptBeforeCharge
    /\ ChargeBeforeSuccess
    /\ NeverChargedWithoutTranscript
    /\ SucceedMeansSettled

\* A call at "idle" has neither a charge nor a SUCCEED request, so the locals
\* it is given make no difference to the handler part.
LEMMA ArriveHandlers ==
  ASSUME Typing, HandlerInvariant, NEW c \in Calls, Arrive(c)
  PROVE  HandlerInvariant'
<1> USE DEF Typing, TypeOK, HandlerInvariant, IsTranscription
<1>1. /\ UNCHANGED tables
      /\ pc[c] = "idle"
      /\ pc' = [pc EXCEPT ![c] = "createRequest"] \/ pc' = [pc EXCEPT ![c] = "threw"]
      /\ \A d \in Calls : d # c => job'[d] = job[d]
  BY DEF Arrive, IncreaseWallet, UploadAndTranscribe, ReadWallet, At, GoTo
<1>2. c \notin charged /\ requests[c] # "succeed"
  BY <1>1 DEF ChargeBeforeSuccess, Ended
<1>3. TranscriptBeforeCharge'
  BY <1>1 DEF TranscriptBeforeCharge, tables
<1>4. ChargeBeforeSuccess'
  BY <1>1, <1>2 DEF ChargeBeforeSuccess, tables, Ended
<1>5. NeverChargedWithoutTranscript' /\ SucceedMeansSettled'
  BY <1>1, <1>2 DEF NeverChargedWithoutTranscript, SucceedMeansSettled, tables
<1> QED BY <1>3, <1>4, <1>5

LEMMA StepHandlers ==
  ASSUME Typing, RowBeforeWrite, HandlerInvariant, NEW c \in Calls, Step(c)
  PROVE  HandlerInvariant'
<1> USE DEF Typing, TypeOK, HandlerInvariant, IsTranscription, TranscriptBeforeCharge,
        ChargeBeforeSuccess, NeverChargedWithoutTranscript, SucceedMeansSettled,
        At, GoTo, Committed, Refused, tables, Ended, Links
<1>1. CASE CreateRequest(c)     BY <1>1 DEF CreateRequest
<1>2. CASE CreateTranscribe(c)  BY <1>2 DEF CreateTranscribe
<1>3. CASE LinkTranscribe(c)    BY <1>3 DEF LinkTranscribe
<1>4. CASE MarkProcessing(c)    BY <1>4 DEF MarkProcessing
<1>5. CASE SpeechToText(c)      BY <1>5 DEF SpeechToText
<1>6. CASE MarkCompleted(c)     BY <1>6 DEF MarkCompleted
<1>7. CASE GetTranscribe(c)     BY <1>7 DEF GetTranscribe
<1>8. CASE CreateTransaction(c) BY <1>8 DEF CreateTransaction
<1>9. CASE UpdateWallet(c)      BY <1>9 DEF UpdateWallet
<1>10. CASE SucceedRequest(c)
  <2>1. TransactionRow(c) \in transactions /\ TransactionRow(c).request = c
    BY <1>10 DEF SucceedRequest, RowBeforeWrite, TransactionRow
  <2>2. TranscriptBeforeCharge' /\ ChargeBeforeSuccess' /\ NeverChargedWithoutTranscript'
    BY <1>10 DEF SucceedRequest
  <2>3. SucceedMeansSettled'
    BY <1>10, <2>1 DEF SucceedRequest
  <2> QED BY <2>2, <2>3
<1>11. CASE MarkFailed(c)       BY <1>11 DEF MarkFailed
<1>12. CASE FailRequest(c)      BY <1>12 DEF FailRequest
<1> QED BY <1>1, <1>2, <1>3, <1>4, <1>5, <1>6, <1>7, <1>8, <1>9, <1>10, <1>11, <1>12 DEF Step

LEMMA NextHandlers ==
  ASSUME Typing, RowBeforeWrite, HandlerInvariant, [Next]_vars
  PROVE  HandlerInvariant'
<1> USE DEF HandlerInvariant, IsTranscription, TranscriptBeforeCharge, ChargeBeforeSuccess,
        NeverChargedWithoutTranscript, SucceedMeansSettled, Ended
<1>1. CASE \E u \in Users : CreateWallet(u)
  BY <1>1 DEF CreateWallet
<1>2. CASE \E c \in Calls : Arrive(c)
  BY <1>2, ArriveHandlers
<1>3. CASE \E c \in Calls : Step(c)
  BY <1>3, StepHandlers
<1>4. CASE Crash
  BY <1>4 DEF Crash, tables, InFlight, Operations
<1>5. CASE UNCHANGED vars
  BY <1>5 DEF vars
<1> QED BY <1>1, <1>2, <1>3, <1>4, <1>5 DEF Next, Done

-----------------------------------------------------------------------------
(* The invariant and what follows from it.                                  *)

LEMMA InitInvariant == Init => LedgerInvariant
<1> SUFFICES ASSUME Init PROVE LedgerInvariant
  OBVIOUS
<1> USE DEF Init
<1>1. TypeOK /\ HasJob
  BY InitTyping DEF Typing
<1>2. BalanceInRange /\ BalanceExplained /\ RowsChain
  BY LedgerAssumption DEF BalanceInRange, BalanceExplained, RowsChain
<1>3. SnapshotCovers /\ SnapshotExplained /\ RowBeforeWrite
  BY DEF SnapshotCovers, SnapshotExplained, RowBeforeWrite
<1>4. /\ TranscriptBeforeCharge
      /\ ChargeBeforeSuccess
      /\ NeverChargedWithoutTranscript
      /\ SucceedMeansSettled
  BY DEF TranscriptBeforeCharge, ChargeBeforeSuccess, NeverChargedWithoutTranscript,
     SucceedMeansSettled
<1> QED BY <1>1, <1>2, <1>3, <1>4 DEF LedgerInvariant

LEMMA NextInvariant == LedgerInvariant /\ [Next]_vars => LedgerInvariant'
  BY NextTyping, NextMoney, NextHandlers
     DEF LedgerInvariant, Typing, MoneyInvariant, HandlerInvariant

\* The whole invariant holds in every reachable state, for any number of users
\* and overlapping calls, any amounts, and any set of faults, crashes included.
THEOREM LedgerCorrect == Spec => []LedgerInvariant
  BY InitInvariant, NextInvariant, PTL DEF Spec

\* No overlap of top-ups and transcriptions, fault or crash takes a balance
\* below zero or past the column, although increaseWallet and
\* uploadAndTranscribe write what they computed many awaits earlier.
THEOREM BalanceNeverOutOfRange == Spec => []BalanceInRange
<1>1. LedgerInvariant => BalanceInRange
  BY DEF LedgerInvariant
<1> QED BY <1>1, LedgerCorrect, PTL

\* Every balance the wallet ever shows is the balance_after of one of its own
\* charged ledger rows, or the opening zero.
THEOREM LedgerExplainsBalances == Spec => []BalanceExplained
<1>1. LedgerInvariant => BalanceExplained
  BY DEF LedgerInvariant
<1> QED BY <1>1, LedgerCorrect, PTL

\* Every ledger row starts from zero or from a balance that was really
\* written: no handler builds on a row whose call failed or died before it.
THEOREM RowsStartFromBalances == Spec => []RowsChain
<1>1. LedgerInvariant => RowsChain
  BY DEF LedgerInvariant
<1> QED BY <1>1, LedgerCorrect, PTL

\* Nobody pays for a transcription that did not complete.
THEOREM PaidMeansTranscribed == Spec => []NeverChargedWithoutTranscript
<1>1. LedgerInvariant => NeverChargedWithoutTranscript
  BY DEF LedgerInvariant
<1> QED BY <1>1, LedgerCorrect, PTL

\* A request reported SUCCEED has its row, its charge and its transcript.
THEOREM PaidMeansDelivered == Spec => []SucceedMeansSettled
<1>1. LedgerInvariant => SucceedMeansSettled
  BY DEF LedgerInvariant
<1> QED BY <1>1, LedgerCorrect, PTL

-----------------------------------------------------------------------------
(* Failure before the balance write.                                        *)

LateWritesReliable == "updateWallet" \notin Faults /\ "succeedRequest" \notin Faults

\* A charged call can only succeed or die with the process; a request is
\* marked FAILED by the last step of its handler.
FailureInvariant ==
    \A c \in Calls :
        /\ c \in charged => pc[c] \in {"succeedRequest", "returned", "crashed"}
        /\ requests[c] = "failed" => pc[c] = "threw"

LEMMA StepFailure ==
  ASSUME LateWritesReliable, Typing, FailureInvariant, NEW c \in Calls, Step(c)
  PROVE  FailureInvariant'
<1> USE DEF Typing, TypeOK, FailureInvariant, LateWritesReliable, At, GoTo, Committed, Refused, tables
<1>1. CASE CreateRequest(c)     BY <1>1 DEF CreateRequest
<1>2. CASE CreateTranscribe(c)  BY <1>2 DEF CreateTranscribe
<1>3. CASE LinkTranscribe(c)    BY <1>3 DEF LinkTranscribe
<1>4. CASE MarkProcessing(c)    BY <1>4 DEF MarkProcessing
<1>5. CASE SpeechToText(c)      BY <1>5 DEF SpeechToText
<1>6. CASE MarkCompleted(c)     BY <1>6 DEF MarkCompleted
<1>7. CASE GetTranscribe(c)     BY <1>7 DEF GetTranscribe
<1>8. CASE CreateTransaction(c) BY <1>8 DEF CreateTransaction
<1>9. CASE UpdateWallet(c)      BY <1>9 DEF UpdateWallet
<1>10. CASE SucceedRequest(c)   BY <1>10 DEF SucceedRequest
<1>11. CASE MarkFailed(c)       BY <1>11 DEF MarkFailed
<1>12. CASE FailRequest(c)      BY <1>12 DEF FailRequest
<1> QED BY <1>1, <1>2, <1>3, <1>4, <1>5, <1>6, <1>7, <1>8, <1>9, <1>10, <1>11, <1>12 DEF Step

LEMMA NextFailure ==
  LateWritesReliable /\ Typing /\ FailureInvariant /\ [Next]_vars => FailureInvariant'
<1> SUFFICES ASSUME LateWritesReliable, Typing, FailureInvariant, [Next]_vars
             PROVE  FailureInvariant'
  OBVIOUS
<1>1. CASE \E u \in Users : CreateWallet(u)
  BY <1>1 DEF CreateWallet, FailureInvariant
<1>2. CASE \E c \in Calls : Arrive(c)
  <2>1. PICK c \in Calls : Arrive(c)
    BY <1>2
  <2>2. /\ UNCHANGED tables
        /\ pc[c] = "idle"
        /\ pc' = [pc EXCEPT ![c] = "createRequest"] \/ pc' = [pc EXCEPT ![c] = "threw"]
    BY <2>1 DEF Arrive, IncreaseWallet, UploadAndTranscribe, ReadWallet, At, GoTo
  <2> QED BY <2>2 DEF FailureInvariant, Typing, TypeOK, tables
<1>3. CASE \E c \in Calls : Step(c)
  BY <1>3, StepFailure
<1>4. CASE Crash
  BY <1>4 DEF Crash, tables, FailureInvariant, InFlight, Operations
<1>5. CASE UNCHANGED vars
  BY <1>5 DEF vars, FailureInvariant
<1> QED BY <1>1, <1>2, <1>3, <1>4, <1>5 DEF Next, Done

\* Where the balance write and what follows it cannot fail, a call answered
\* with an error has changed no balance, so the client may send it again;
\* everything before, and a crash at any point, may fail.
THEOREM FailureIsFree == LateWritesReliable /\ Spec => []FailedNotCharged
<1>1. Init => Typing /\ FailureInvariant
  BY InitTyping DEF Init, FailureInvariant
<1>2. LateWritesReliable /\ Typing /\ FailureInvariant /\ [Next]_vars
        => (Typing /\ FailureInvariant)'
  BY NextTyping, NextFailure
<1>3. FailureInvariant => FailedNotCharged
  BY DEF FailureInvariant, FailedNotCharged
<1>4. LateWritesReliable => LateWritesReliable'
  BY DEF LateWritesReliable
<1> QED BY <1>1, <1>2, <1>3, <1>4, PTL DEF Spec

-----------------------------------------------------------------------------
(* The sums of LedgerAudit.                                                 *)

Amount == [row \in Rows |-> row.amount]

LEMMA AmountIsTotal ==
  ASSUME NEW rows \in SUBSET Rows, IsFiniteSet(rows)
  PROVE  AmountOf(rows) = Total(Amount, rows)
<1> DEFINE Fold(g) == g = [s \in SUBSET rows |->
                         IF s = {} THEN 0
                         ELSE (CHOOSE x \in s : TRUE).amount + g[s \ {CHOOSE x \in s : TRUE}]]
<1>1. AmountOf(rows) = (CHOOSE g : Fold(g))[rows]
  BY DEF AmountOf, MapThenSumSet, MapThenFoldSet
<1>2. ASSUME NEW g PROVE Fold(g) <=> IsSumTable(g, Amount, rows)
  <2>1. \A s \in SUBSET rows :
          s # {} => Amount[CHOOSE x \in s : TRUE] = (CHOOSE x \in s : TRUE).amount
    BY DEF Amount
  <2> QED BY <2>1 DEF IsSumTable
<1> HIDE DEF Fold
<1>3. IsSumTable(CHOOSE g : Fold(g), Amount, rows)
  <2>1. PICK g : IsSumTable(g, Amount, rows)
    BY TableExists
  <2> QED BY <1>2, <2>1
<1>4. (CHOOSE g : Fold(g))[rows] = Total(Amount, rows)
  BY <1>3, TableIsTotal
<1> QED BY <1>1, <1>4

LEMMA AmountPositive == \A row \in Rows : Amount[row] = row.amount /\ row.amount \in Nat /\ row.amount > 0
  BY DEF Amount, Rows, Positive

\* A row more adds its amount; fewer rows never amount to more.
LEMMA AmountLaws ==
  ASSUME NEW rows \in SUBSET Rows, IsFiniteSet(rows)
  PROVE  /\ AmountOf(rows) \in Nat
         /\ \A row \in Rows \ rows : AmountOf(rows \cup {row}) = row.amount + AmountOf(rows)
         /\ \A fewer \in SUBSET rows : AmountOf(fewer) <= AmountOf(rows)
<1>1. ASSUME NEW fewer \in SUBSET rows PROVE AmountOf(fewer) <= AmountOf(rows)
  <2>1. IsFiniteSet(fewer)
    BY FS_Subset
  <2>2. Total(Amount, fewer) <= Total(Amount, rows)
    BY AmountPositive, TotalOrder
  <2> QED BY <2>1, <2>2, AmountIsTotal
<1>2. AmountOf(rows) \in Int
  BY AmountPositive, AmountIsTotal, TotalRemove
<1>3. AmountOf({}) = 0 /\ AmountOf({}) <= AmountOf(rows)
  BY <1>1, AmountIsTotal, TotalEmpty, FS_EmptySet
<1>4. ASSUME NEW row \in Rows \ rows
      PROVE  AmountOf(rows \cup {row}) = row.amount + AmountOf(rows)
  <2>1. IsFiniteSet(rows \cup {row})
    BY FS_AddElement
  <2>2. \A x \in rows \cup {row} : Amount[x] \in Int
    BY AmountPositive
  <2>3. Total(Amount, rows \cup {row}) = Amount[row] + Total(Amount, rows)
    BY <2>2, TotalAdd
  <2> QED BY <2>1, <2>3, AmountPositive, AmountIsTotal
<1> QED BY <1>1, <1>2, <1>3, <1>4

-----------------------------------------------------------------------------
(* The rows of LedgerAudit: one per call, covered by the credits.           *)

Rowed == {"updateWallet", "succeedRequest", "failRequest"} \cup Ended

\* A step that inserts no row, and leaves the calls alone that have inserted
\* theirs, leaves the rows as they were.
LEMMA QuietRows ==
  ASSUME RowPerCall, RowsCovered, UNCHANGED transactions,
         \A c \in Calls : pc[c] \in Rowed => job'[c] = job[c] /\ pc'[c] \in Rowed,
         transactions \subseteq Rows
  PROVE  RowPerCall' /\ RowsCovered'
<1>1. ASSUME NEW row \in transactions
      PROVE  /\ row = TransactionRow(row.request)'
             /\ job'[row.request] \in Jobs
             /\ pc'[row.request] \in Rowed
  <2>1. row.request \in Calls /\ row = TransactionRow(row.request) /\ pc[row.request] \in Rowed
    BY DEF RowPerCall, Rows, Rowed
  <2> QED BY <2>1 DEF RowPerCall, TransactionRow, Direction, NextBalance, IsTranscription
<1>2. RowPerCall'
  BY <1>1 DEF RowPerCall, Rowed
<1>3. RowsCovered'
  BY DEF RowsCovered, CreditRows
<1> QED BY <1>2, <1>3

\* Every operation but the insert is such a step.
LEMMA StepKeepsRows ==
  ASSUME Typing, NEW c \in Calls, Step(c), ~CreateTransaction(c)
  PROVE  /\ UNCHANGED <<transactions, job>>
         /\ \A d \in Calls : pc[d] \in Rowed => pc'[d] \in Rowed
<1> USE DEF Typing, TypeOK, At, GoTo, Committed, Refused, tables, Rowed, Ended
<1>1. CASE CreateRequest(c)     BY <1>1 DEF CreateRequest
<1>2. CASE CreateTranscribe(c)  BY <1>2 DEF CreateTranscribe
<1>3. CASE LinkTranscribe(c)    BY <1>3 DEF LinkTranscribe
<1>4. CASE MarkProcessing(c)    BY <1>4 DEF MarkProcessing
<1>5. CASE SpeechToText(c)      BY <1>5 DEF SpeechToText
<1>6. CASE MarkCompleted(c)     BY <1>6 DEF MarkCompleted
<1>7. CASE GetTranscribe(c)     BY <1>7 DEF GetTranscribe
<1>8. CASE UpdateWallet(c)      BY <1>8 DEF UpdateWallet
<1>9. CASE SucceedRequest(c)    BY <1>9 DEF SucceedRequest
<1>10. CASE MarkFailed(c)       BY <1>10 DEF MarkFailed
<1>11. CASE FailRequest(c)      BY <1>11 DEF FailRequest
<1> QED BY <1>1, <1>2, <1>3, <1>4, <1>5, <1>6, <1>7, <1>8, <1>9, <1>10, <1>11 DEF Step

\* The credit rows of a user amount to a number.
LEMMA CreditsCount ==
  ASSUME RowPerCall, transactions \subseteq Rows, NEW u
  PROVE  /\ CreditRows(u) \in SUBSET Rows /\ IsFiniteSet(CreditRows(u))
         /\ DebitRows(u) \in SUBSET Rows /\ IsFiniteSet(DebitRows(u))
  BY FS_Subset DEF RowPerCall, CreditRows, DebitRows

\* A new row is covered: it starts from zero or from a covered row, and a
\* credit adds its amount to the credits on record.
LEMMA InsertCovered ==
  ASSUME AuditInvariant, NEW c \in Calls, job[c] \in Jobs, job[c] # NoJob,
         TransactionRow(c) \notin transactions,
         transactions' = transactions \cup {TransactionRow(c)}
  PROVE  RowsCovered'
<1>. PICK u : u = job[c].user
  OBVIOUS
<1>. PICK new : new = TransactionRow(c)
  OBVIOUS
<1>1. new \in Rows /\ new.user = u /\ new.amount = job[c].cost /\ new.balanceAfter = NextBalance(c)
      /\ new.direction = Direction(c)
  BY RowTyping DEF TransactionRow
<1>2. transactions \in SUBSET Rows /\ RowPerCall /\ RowsCovered
  BY DEF AuditInvariant, LedgerInvariant, TypeOK
<1>3. \A v : AmountOf(CreditRows(v)) \in Nat /\ AmountOf(CreditRows(v)') \in Nat
             /\ AmountOf(CreditRows(v)) <= AmountOf(CreditRows(v)')
  <2> SUFFICES ASSUME NEW v
               PROVE  AmountOf(CreditRows(v)) \in Nat /\ AmountOf(CreditRows(v)') \in Nat
                      /\ AmountOf(CreditRows(v)) <= AmountOf(CreditRows(v)')
    OBVIOUS
  <2>1. CreditRows(v) \in SUBSET Rows /\ IsFiniteSet(CreditRows(v))
    BY <1>2, CreditsCount
  <2>2. CreditRows(v)' \in SUBSET (CreditRows(v) \cup {new})
    BY DEF CreditRows
  <2>3. CreditRows(v) \in SUBSET CreditRows(v)'
    BY DEF CreditRows
  <2>4. IsFiniteSet(CreditRows(v)') /\ CreditRows(v)' \in SUBSET Rows
    BY <1>1, <2>1, <2>2, FS_AddElement, FS_Subset
  <2> QED BY <2>1, <2>3, <2>4, AmountLaws
<1>4. job[c].seen \in Int /\ job[c].cost \in Nat /\ job[c].cost > 0
  BY DEF Jobs, Positive
<1>5. job[c].seen <= AmountOf(CreditRows(u))
  <2>1. \/ job[c].seen = 0
        \/ \E row \in transactions : row.user = u /\ row.balanceAfter = job[c].seen
    BY DEF AuditInvariant, LedgerInvariant, SnapshotExplained
  <2> QED BY <1>2, <1>3, <2>1 DEF RowsCovered
<1>6. new.balanceAfter <= AmountOf(CreditRows(u)')
  <2>1. CASE IsTranscription(c)
    BY <1>1, <1>3, <1>4, <1>5, <2>1 DEF NextBalance
  <2>2. CASE ~IsTranscription(c)
    <3>1. CreditRows(u)' = CreditRows(u) \cup {new} /\ new \notin CreditRows(u)
      BY <1>1, <2>2 DEF CreditRows, Direction
    <3>2. AmountOf(CreditRows(u)') = job[c].cost + AmountOf(CreditRows(u))
      BY <1>1, <1>2, <3>1, CreditsCount, AmountLaws
    <3> QED BY <1>1, <1>3, <1>4, <1>5, <2>2, <3>2 DEF NextBalance
  <2> QED BY <2>1, <2>2
<1>7. ASSUME NEW row \in transactions' PROVE row.balanceAfter <= AmountOf(CreditRows(row.user)')
  <2>1. CASE row = new
    BY <1>1, <1>6, <2>1
  <2>2. CASE row \in transactions
    <3>1. row.balanceAfter \in Int /\ row.balanceAfter <= AmountOf(CreditRows(row.user))
      BY <1>2, <2>2 DEF RowsCovered, Rows
    <3> QED BY <1>3, <3>1
  <2> QED BY <2>1, <2>2
<1> QED BY <1>7 DEF RowsCovered

LEMMA CreateTransactionRows ==
  ASSUME AuditInvariant, NEW c \in Calls, CreateTransaction(c)
  PROVE  RowPerCall' /\ RowsCovered'
<1>1. TypeOK /\ HasJob /\ RowPerCall /\ RowsCovered
  BY DEF AuditInvariant, LedgerInvariant
<1>2. pc[c] = "createTransaction" /\ job[c] \in Jobs /\ job[c] # NoJob
  BY <1>1, LedgerAssumption DEF CreateTransaction, At, HasJob, InFlight, Operations
<1>3. TransactionRow(c) \notin transactions /\ \A row \in transactions : row.request # c
  BY <1>1, <1>2 DEF RowPerCall, TransactionRow, Ended
<1>4. CASE UNCHANGED <<transactions, job>> /\ pc' = [pc EXCEPT ![c] = "failRequest"]
  BY <1>1, <1>4, QuietRows DEF TypeOK, Rowed
<1>5. CASE /\ transactions' = transactions \cup {TransactionRow(c)}
           /\ UNCHANGED job
           /\ \/ pc' = [pc EXCEPT ![c] = "updateWallet"]
              \/ pc' = [pc EXCEPT ![c] = "failRequest"]
  <2>1. IsFiniteSet(transactions')
    BY <1>1, <1>5, FS_AddElement DEF RowPerCall
  <2>2. \A d \in Calls : TransactionRow(d)' = TransactionRow(d)
    BY <1>5 DEF TransactionRow, Direction, NextBalance, IsTranscription
  <2>3. TransactionRow(c).request = c
    BY DEF TransactionRow
  <2>4. \A row \in transactions : row.request \in Calls
    BY <1>1 DEF TypeOK, Rows
  <2>5. RowPerCall'
    BY <1>1, <1>2, <1>5, <2>1, <2>2, <2>3, <2>4 DEF RowPerCall, TypeOK
  <2>6. RowsCovered'
    BY <1>2, <1>3, <1>5, InsertCovered
  <2> QED BY <2>5, <2>6
<1> QED BY <1>4, <1>5 DEF CreateTransaction, Committed, Refused, GoTo, tables

LEMMA NextRows ==
  ASSUME AuditInvariant, [Next]_vars
  PROVE  RowPerCall' /\ RowsCovered'
<1>1. TypeOK /\ Typing /\ RowPerCall /\ RowsCovered /\ transactions \subseteq Rows
  BY DEF AuditInvariant, LedgerInvariant, Typing, TypeOK
<1>2. CASE \E u \in Users : CreateWallet(u)
  BY <1>1, <1>2, QuietRows DEF CreateWallet
<1>3. CASE \E c \in Calls : Arrive(c)
  <2>1. PICK c \in Calls : Arrive(c)
    BY <1>3
  <2>2. pc[c] = "idle" /\ UNCHANGED transactions
        /\ \A d \in Calls : d # c => job'[d] = job[d] /\ pc'[d] = pc[d]
    BY <1>1, <2>1 DEF Arrive, IncreaseWallet, UploadAndTranscribe, ReadWallet, At, GoTo, tables, TypeOK
  <2> QED BY <1>1, <2>2, QuietRows DEF Rowed, Ended
<1>4. CASE \E c \in Calls : Step(c)
  <2>1. PICK c \in Calls : Step(c)
    BY <1>4
  <2>2. CASE CreateTransaction(c)
    BY <2>2, CreateTransactionRows
  <2>3. CASE ~CreateTransaction(c)
    BY <1>1, <2>1, <2>3, StepKeepsRows, QuietRows
  <2> QED BY <2>2, <2>3
<1>5. CASE Crash
  BY <1>1, <1>5, QuietRows DEF Crash, tables, InFlight, Rowed, Ended
<1>6. CASE UNCHANGED vars
  BY <1>1, <1>6, QuietRows DEF vars
<1> QED BY <1>2, <1>3, <1>4, <1>5, <1>6 DEF Next, Done

LEMMA InitAudit == Init => AuditInvariant
<1>1. Init => RowPerCall /\ RowsCovered
  BY FS_EmptySet DEF Init, RowPerCall, RowsCovered
<1> QED BY <1>1, InitInvariant DEF AuditInvariant

LEMMA NextAudit == AuditInvariant /\ [Next]_vars => AuditInvariant'
  BY NextInvariant, NextRows DEF AuditInvariant

\* Each ledger row is the one row of its call, as that call's handler computed
\* it, and its balance_after never exceeds the credits written for the wallet.
THEOREM RowsAreCovered == Spec => []AuditInvariant
  BY InitAudit, NextAudit, PTL DEF Spec

\* Overlaps, faults and crashes may lose a credit or a debit; none ever leaves
\* a wallet holding more than the credit rows written for it.
THEOREM MoneyIsNotCreated == Spec => []NoMoneyFromNothing
<1>1. AuditInvariant => NoMoneyFromNothing
  <2> SUFFICES ASSUME AuditInvariant, NEW u \in Users
               PROVE  balance[u] <= AmountOf(CreditRows(u))
    BY DEF NoMoneyFromNothing
  <2>1. RowPerCall /\ RowsCovered /\ transactions \subseteq Rows
    BY DEF AuditInvariant, LedgerInvariant, TypeOK
  <2>2. AmountOf(CreditRows(u)) \in Nat
    BY <2>1, CreditsCount, AmountLaws
  <2>3. balance[u] = 0 \/ \E row \in transactions : row.user = u /\ row.balanceAfter = balance[u]
    BY DEF AuditInvariant, LedgerInvariant, BalanceExplained
  <2> QED BY <2>1, <2>2, <2>3 DEF RowsCovered
<1> QED BY <1>1, RowsAreCovered, PTL
=============================================================================
