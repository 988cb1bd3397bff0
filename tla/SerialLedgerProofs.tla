------------------------ MODULE SerialLedgerProofs ------------------------
(* SerialLedger implements AtomicLedger, for every value of its constants. *)
EXTENDS SerialLedger, WalletLedgerProofs

-----------------------------------------------------------------------------
(* The invariants behind the refinement. *)

\* Until it writes the wallet, a call's snapshot is the balance.
SnapshotFresh ==
    \A c \in Calls : InFlight(c) =>
        c \in charged \/ (job[c].user \in wallets /\ job[c].seen = balance[job[c].user])

\* What a call costs is what its input said.
CostFromInput ==
    \A c \in Calls : InFlight(c) =>
        job[c].cost \in (IF IsTranscription(c) THEN Costs ELSE Deposits)

SerialInvariant == LedgerInvariant /\ OneCallPerUser /\ SnapshotFresh /\ CostFromInput

SerialAuditInvariant == SerialInvariant /\ RowPerCall /\ BalanceIsChargedSum

-----------------------------------------------------------------------------
\* A step that writes no balance and starts no call keeps the snapshots fresh.
LEMMA QuietSerial ==
  ASSUME SnapshotFresh, CostFromInput, UNCHANGED <<balance, charged, job>>, wallets \subseteq wallets',
         \A c \in Calls : InFlight(c)' => InFlight(c)
  PROVE  SnapshotFresh' /\ CostFromInput'
  BY DEF SnapshotFresh, CostFromInput, IsTranscription, Deposits, ValidAmount, Costs, AcceptUpload, TranscriptionCost,
     CalculateDuration, Ceil

LEMMA ArriveSerial ==
  ASSUME Typing, SnapshotFresh, CostFromInput, NEW c \in Calls, Arrive(c)
  PROVE  SnapshotFresh' /\ CostFromInput'
<1> USE DEF Typing, TypeOK, SnapshotFresh, CostFromInput, IsTranscription, InFlight, Operations
<1>1. PICK u, module, cost, admitted :
        /\ u \in Users /\ module \in Modules
        /\ ReadWallet(c, u, module, cost, admitted)
        /\ admitted => cost \in (IF module = "transcription" THEN Costs ELSE Deposits)
  <2>1. PICK u \in Users : \/ \E amount \in TopUpAmounts : IncreaseWallet(c, u, amount)
                           \/ \E file \in Files : UploadAndTranscribe(c, u, file)
    BY DEF Arrive
  <2>2. CASE \E amount \in TopUpAmounts : IncreaseWallet(c, u, amount)
    BY <2>2 DEF IncreaseWallet, Modules, Deposits
  <2>3. CASE \E file \in Files : UploadAndTranscribe(c, u, file)
    <3>1. PICK file \in Files : UploadAndTranscribe(c, u, file)
      BY <2>3
    <3> DEFINE cost == TranscriptionCost(CalculateDuration(file))
    <3>2. ReadWallet(c, u, "transcription", cost, AcceptUpload(file) /\ CanAfford(u, cost))
      BY <3>1 DEF UploadAndTranscribe
    <3>3. AcceptUpload(file) => cost \in Costs
      BY DEF Costs
    <3> HIDE DEF cost
    <3> QED BY <3>2, <3>3 DEF Modules
  <2> QED BY <2>1, <2>2, <2>3
<1>2. UNCHANGED tables /\ (\A d \in Calls : d # c => job'[d] = job[d] /\ pc'[d] = pc[d])
  BY <1>1 DEF ReadWallet, GoTo
<1>3. \/ pc'[c] = "threw"
      \/ u \in wallets /\ admitted /\ job'[c] = [user |-> u, module |-> module, cost |-> cost, seen |-> balance[u]]
  BY <1>1 DEF ReadWallet, GoTo
<1>4. SnapshotFresh'
  BY <1>2, <1>3 DEF tables
<1>5. CostFromInput'
  <2>1. Costs' = Costs /\ Deposits' = Deposits
    BY DEF Deposits, ValidAmount, Costs, AcceptUpload, TranscriptionCost, CalculateDuration, Ceil
  <2>2. \A d \in Calls : d # c => IsTranscription(d)' = IsTranscription(d)
    BY <1>2
  <2>3. InFlight(c)' => admitted /\ job'[c].cost = cost /\ job'[c].module = module
    BY <1>3
  <2> QED BY <1>1, <1>2, <2>1, <2>3
<1> QED BY <1>4, <1>5

LEMMA UpdateWalletSerial ==
  ASSUME Typing, OneCallPerUser, SnapshotFresh, CostFromInput, NEW c \in Calls, UpdateWallet(c)
  PROVE  SnapshotFresh' /\ CostFromInput'
<1> USE DEF Typing, TypeOK, InFlight, Operations
<1>1. /\ pc[c] = "updateWallet"
      /\ UNCHANGED <<wallets, job>>
      /\ \A d \in Calls : d # c => pc'[d] = pc[d]
  BY DEF UpdateWallet, At, Committed, Refused, GoTo, tables
<1>2. \/ UNCHANGED <<balance, charged>>
      \/ /\ charged' = charged \cup {c}
         /\ balance' = [balance EXCEPT ![job[c].user] = NextBalance(c)]
  BY DEF UpdateWallet, Refused, tables
<1>3. \A d \in Calls : d # c /\ InFlight(d) => job[d].user # job[c].user
  BY <1>1 DEF OneCallPerUser
<1>4. CostFromInput'
  BY <1>1 DEF CostFromInput, IsTranscription, Deposits, ValidAmount, Costs, AcceptUpload, TranscriptionCost,
     CalculateDuration, Ceil
<1>5. SnapshotFresh'
  BY <1>1, <1>2, <1>3 DEF SnapshotFresh, HasJob, Jobs
<1> QED BY <1>4, <1>5

\* Every other operation leaves the wallet row and the locals alone.
LEMMA StepQuiet ==
  ASSUME Typing, NEW c \in Calls, Step(c), ~UpdateWallet(c)
  PROVE  UNCHANGED <<wallets, balance, charged, job>> /\ (\A d \in Calls : InFlight(d)' => InFlight(d))
<1> USE DEF Typing, TypeOK, At, GoTo, Committed, Refused, tables, InFlight, Operations
<1>1. CASE CreateRequest(c)     BY <1>1 DEF CreateRequest
<1>2. CASE CreateTranscribe(c)  BY <1>2 DEF CreateTranscribe
<1>3. CASE LinkTranscribe(c)    BY <1>3 DEF LinkTranscribe
<1>4. CASE MarkProcessing(c)    BY <1>4 DEF MarkProcessing
<1>5. CASE SpeechToText(c)      BY <1>5 DEF SpeechToText
<1>6. CASE MarkCompleted(c)     BY <1>6 DEF MarkCompleted
<1>7. CASE GetTranscribe(c)     BY <1>7 DEF GetTranscribe
<1>8. CASE CreateTransaction(c) BY <1>8 DEF CreateTransaction
<1>9. CASE SucceedRequest(c)    BY <1>9 DEF SucceedRequest
<1>10. CASE MarkFailed(c)       BY <1>10 DEF MarkFailed
<1>11. CASE FailRequest(c)      BY <1>11 DEF FailRequest
<1> QED BY <1>1, <1>2, <1>3, <1>4, <1>5, <1>6, <1>7, <1>8, <1>9, <1>10, <1>11 DEF Step

LEMMA InitSerial == Init => SerialInvariant
<1>1. Init => OneCallPerUser /\ SnapshotFresh /\ CostFromInput
  BY DEF Init, OneCallPerUser, SnapshotFresh, CostFromInput, InFlight, Operations
<1> QED BY <1>1, InitInvariant DEF SerialInvariant

LEMMA NextSerial == SerialInvariant /\ [SerialNext]_vars => SerialInvariant'
<1> SUFFICES ASSUME SerialInvariant, [SerialNext]_vars PROVE SerialInvariant'
  OBVIOUS
<1>1. LedgerInvariant'
  BY NextInvariant DEF SerialInvariant, SerialNext
<1>2. OneCallPerUser'
  BY DEF SerialInvariant, SerialNext, OneCallPerUser, InFlight, vars
<1>3. Typing /\ SnapshotFresh /\ CostFromInput /\ OneCallPerUser
  BY DEF SerialInvariant, LedgerInvariant, Typing
<1>4. SnapshotFresh' /\ CostFromInput'
  <2>1. CASE \E u \in Users : CreateWallet(u)
    BY <2>1, <1>3, QuietSerial DEF CreateWallet, InFlight
  <2>2. CASE \E c \in Calls : Arrive(c)
    BY <2>2, <1>3, ArriveSerial
  <2>3. CASE \E c \in Calls : Step(c)
    BY <2>3, <1>3, QuietSerial, StepQuiet, UpdateWalletSerial
  <2>4. CASE Crash
    BY <2>4, <1>3, QuietSerial DEF Crash, tables, InFlight, Operations
  <2>5. CASE UNCHANGED vars
    BY <2>5, <1>3, QuietSerial DEF vars, InFlight
  <2> QED BY <2>1, <2>2, <2>3, <2>4, <2>5 DEF SerialNext, Next, Done
<1> QED BY <1>1, <1>2, <1>4 DEF SerialInvariant

\* The balance write is one atomic credit or debit by the call's own amount.
LEMMA UpdateWalletSettles ==
  ASSUME SerialInvariant, SerialInvariant', NEW c \in Calls, UpdateWallet(c)
  PROVE  [Atomic!Next]_<<wallets, balance, charged>>
<1> USE DEF SerialInvariant, LedgerInvariant
<1>1. /\ pc[c] = "updateWallet"
      /\ InFlight(c)
      /\ UNCHANGED wallets
  BY DEF UpdateWallet, At, InFlight, Operations, Refused, tables
<1>2. job[c] \in Jobs
  BY <1>1 DEF HasJob
<1>3. c \notin charged
  BY <1>1 DEF ChargeBeforeSuccess, Ended
<1>4. job[c].user \in wallets /\ job[c].seen = balance[job[c].user]
  BY <1>1, <1>3 DEF SnapshotFresh
<1>5. CASE UNCHANGED <<balance, charged>>
  BY <1>1, <1>5
<1>6. CASE /\ charged' = charged \cup {c}
           /\ balance' = [balance EXCEPT ![job[c].user] = NextBalance(c)]
  <2>1. job[c].user \in Users /\ job[c].cost \in Int /\ job[c].seen \in Int
    BY <1>2 DEF Jobs, Positive
  <2>2. NextBalance(c) \in 0..MaxBalance
    <3>1. balance'[job[c].user] = NextBalance(c)
      BY <1>6, <2>1 DEF TypeOK
    <3> QED BY <2>1, <3>1 DEF BalanceInRange
  <2>3. CASE IsTranscription(c)
    <3>1. job[c].cost \in Costs
      BY <1>1, <2>3 DEF CostFromInput
    <3>2. NextBalance(c) = balance[job[c].user] + (-job[c].cost)
      BY <1>4, <2>1, <2>3 DEF NextBalance
    <3>3. Atomic!Settle(c, job[c].user, -job[c].cost)
      BY <1>1, <1>3, <1>4, <1>6, <2>2, <3>2 DEF Atomic!Settle
    <3> QED BY <2>1, <3>1, <3>3 DEF Atomic!Next
  <2>4. CASE ~IsTranscription(c)
    <3>1. job[c].cost \in Deposits
      BY <1>1, <2>4 DEF CostFromInput
    <3>2. NextBalance(c) = balance[job[c].user] + job[c].cost
      BY <1>4, <2>1, <2>4 DEF NextBalance
    <3>3. Atomic!Settle(c, job[c].user, job[c].cost)
      BY <1>1, <1>3, <1>4, <1>6, <2>2, <3>2 DEF Atomic!Settle
    <3> QED BY <2>1, <3>1, <3>3 DEF Atomic!Next
  <2> QED BY <2>3, <2>4
<1> QED BY <1>5, <1>6 DEF UpdateWallet, Refused, tables

LEMMA NextRefines ==
  ASSUME SerialInvariant, SerialInvariant', [SerialNext]_vars
  PROVE  [Atomic!Next]_(Atomic!ledger)
<1>1. Typing
  BY DEF SerialInvariant, LedgerInvariant, Typing
<1>2. CASE \E u \in Users : CreateWallet(u)
  BY <1>2 DEF CreateWallet, Atomic!Next, Atomic!Open
<1>3. CASE \E c \in Calls : Arrive(c)
  BY <1>3 DEF Arrive, IncreaseWallet, UploadAndTranscribe, ReadWallet, tables, Atomic!ledger
<1>4. CASE \E c \in Calls : Step(c)
  BY <1>1, <1>4, StepQuiet, UpdateWalletSettles DEF Atomic!ledger
<1>5. CASE Crash
  BY <1>5 DEF Crash, tables, Atomic!ledger
<1>6. CASE UNCHANGED vars
  BY <1>6 DEF vars, Atomic!ledger
<1> QED BY <1>2, <1>3, <1>4, <1>5, <1>6 DEF SerialNext, Next, Done

\* Clients that send one paid call at a time see an atomic wallet: under any
\* refusals, lost replies and crashes each call is charged at most once, in
\* one step, by its own amount.
THEOREM SerialIsAtomic == SerialSpec => ImplementsAtomicLedger
<1>1. Init => Atomic!Init
  BY DEF Init, Atomic!Init
<1>2. SerialSpec => []SerialInvariant
  BY InitSerial, NextSerial, PTL DEF SerialSpec
<1>3. SerialInvariant /\ SerialInvariant' /\ [SerialNext]_vars => [Atomic!Next]_(Atomic!ledger)
  BY NextRefines
<1> QED BY <1>1, <1>2, <1>3, PTL DEF SerialSpec, ImplementsAtomicLedger, Atomic!Spec

-----------------------------------------------------------------------------
(* The sums of one call at a time.                                          *)

ChargedSum(u) == AmountOf(Charged(CreditRows(u))) - AmountOf(Charged(DebitRows(u)))

\* A step that neither writes a balance nor adds a charged row leaves the sums.
LEMMA QuietSums ==
  ASSUME BalanceIsChargedSum, UNCHANGED <<balance, charged>>, transactions \subseteq transactions',
         \A row \in transactions' : row.request \in charged => row \in transactions
  PROVE  BalanceIsChargedSum'
<1> SUFFICES ASSUME NEW u \in Users
             PROVE  balance[u]' = AmountOf(Charged(CreditRows(u))') - AmountOf(Charged(DebitRows(u))')
  BY DEF BalanceIsChargedSum
<1>1. Charged(CreditRows(u))' = Charged(CreditRows(u)) /\ Charged(DebitRows(u))' = Charged(DebitRows(u))
  BY DEF Charged, CreditRows, DebitRows
<1> QED BY <1>1 DEF BalanceIsChargedSum

\* The balance write adds the call's own row, and nothing else, to the sums.
LEMMA UpdateWalletSums ==
  ASSUME SerialAuditInvariant, NEW c \in Calls, UpdateWallet(c)
  PROVE  BalanceIsChargedSum'
<1>1. /\ TypeOK /\ RowPerCall /\ transactions \subseteq Rows
      /\ HasJob /\ RowBeforeWrite /\ ChargeBeforeSuccess /\ SnapshotFresh /\ BalanceIsChargedSum
  BY DEF SerialAuditInvariant, SerialInvariant, LedgerInvariant, TypeOK
<1>2. pc[c] = "updateWallet" /\ InFlight(c) /\ UNCHANGED <<transactions, job>>
  BY DEF UpdateWallet, At, InFlight, Operations, Refused, tables
<1>3. job[c] \in Jobs /\ c \notin charged /\ TransactionRow(c) \in transactions
  BY <1>1, <1>2 DEF HasJob, ChargeBeforeSuccess, Ended, RowBeforeWrite
<1>4. CASE UNCHANGED <<balance, charged>>
  BY <1>1, <1>2, <1>4, QuietSums
<1>5. CASE /\ charged' = charged \cup {c}
           /\ balance' = [balance EXCEPT ![job[c].user] = NextBalance(c)]
  <2>. PICK own : own = TransactionRow(c)
    OBVIOUS
  <2>. PICK owner : owner = job[c].user
    OBVIOUS
  <2>1. /\ own \in transactions /\ own \in Rows /\ own.request = c /\ own.user = owner
        /\ own.direction = Direction(c) /\ own.amount = job[c].cost
    BY <1>1, <1>3 DEF TransactionRow
  <2>2. \A row \in transactions : row.request = c => row = own
    BY <1>1 DEF RowPerCall
  <2>3. \A u : /\ Charged(CreditRows(u)) \in SUBSET Rows /\ IsFiniteSet(Charged(CreditRows(u)))
               /\ Charged(DebitRows(u)) \in SUBSET Rows /\ IsFiniteSet(Charged(DebitRows(u)))
    <3> SUFFICES ASSUME NEW u
                 PROVE  /\ Charged(CreditRows(u)) \in SUBSET Rows /\ IsFiniteSet(Charged(CreditRows(u)))
                        /\ Charged(DebitRows(u)) \in SUBSET Rows /\ IsFiniteSet(Charged(DebitRows(u)))
      OBVIOUS
    <3>1. CreditRows(u) \in SUBSET Rows /\ IsFiniteSet(CreditRows(u))
          /\ DebitRows(u) \in SUBSET Rows /\ IsFiniteSet(DebitRows(u))
      BY <1>1, CreditsCount
    <3> QED BY <3>1, FS_Subset DEF Charged
  <2>4. \A u : AmountOf(Charged(CreditRows(u))) \in Nat /\ AmountOf(Charged(DebitRows(u))) \in Nat
    BY <2>3, AmountLaws
  <2>5. own \notin Charged(CreditRows(owner)) /\ own \notin Charged(DebitRows(owner))
    BY <1>3, <2>1 DEF Charged
  <2>6. ASSUME NEW u \in Users, u # owner PROVE balance'[u] = ChargedSum(u)'
    <3>1. Charged(CreditRows(u))' = Charged(CreditRows(u)) /\ Charged(DebitRows(u))' = Charged(DebitRows(u))
      BY <1>2, <1>5, <2>1, <2>2, <2>6 DEF Charged, CreditRows, DebitRows
    <3>2. balance'[u] = balance[u]
      BY <1>1, <1>5, <2>6 DEF TypeOK
    <3> QED BY <1>1, <3>1, <3>2 DEF BalanceIsChargedSum, ChargedSum
  <2>7. /\ owner \in Users /\ balance[owner] = ChargedSum(owner) /\ balance[owner] = job[c].seen
        /\ balance'[owner] = NextBalance(c) /\ job[c].seen \in Int /\ job[c].cost \in Nat
    BY <1>1, <1>2, <1>3, <1>5 DEF SnapshotFresh, BalanceIsChargedSum, ChargedSum, TypeOK, Jobs, Positive
  <2>8. CASE IsTranscription(c)
    <3>1. own.direction = "DEBIT" /\ NextBalance(c) = job[c].seen - job[c].cost
      BY <2>1, <2>8 DEF Direction, NextBalance
    <3>2. /\ Charged(CreditRows(owner))' = Charged(CreditRows(owner))
          /\ Charged(DebitRows(owner))' = Charged(DebitRows(owner)) \cup {own}
      BY <1>2, <1>5, <2>1, <2>2, <3>1 DEF Charged, CreditRows, DebitRows
    <3>3. AmountOf(Charged(DebitRows(owner)) \cup {own}) = own.amount + AmountOf(Charged(DebitRows(owner)))
      BY <2>1, <2>3, <2>5, AmountLaws
    <3>4. balance'[owner] = ChargedSum(owner)'
      BY <2>1, <2>4, <2>7, <3>1, <3>2, <3>3 DEF ChargedSum
    <3> QED BY <2>6, <3>4 DEF BalanceIsChargedSum, ChargedSum
  <2>9. CASE ~IsTranscription(c)
    <3>1. own.direction = "CREDIT" /\ NextBalance(c) = job[c].seen + job[c].cost
      BY <2>1, <2>9 DEF Direction, NextBalance
    <3>2. /\ Charged(DebitRows(owner))' = Charged(DebitRows(owner))
          /\ Charged(CreditRows(owner))' = Charged(CreditRows(owner)) \cup {own}
      BY <1>2, <1>5, <2>1, <2>2, <3>1 DEF Charged, CreditRows, DebitRows
    <3>3. AmountOf(Charged(CreditRows(owner)) \cup {own}) = own.amount + AmountOf(Charged(CreditRows(owner)))
      BY <2>1, <2>3, <2>5, AmountLaws
    <3>4. balance'[owner] = ChargedSum(owner)'
      BY <2>1, <2>4, <2>7, <3>1, <3>2, <3>3 DEF ChargedSum
    <3> QED BY <2>6, <3>4 DEF BalanceIsChargedSum, ChargedSum
  <2> QED BY <2>8, <2>9
<1> QED BY <1>4, <1>5 DEF UpdateWallet, Refused, tables

LEMMA NextSums ==
  ASSUME SerialAuditInvariant, [SerialNext]_vars
  PROVE  BalanceIsChargedSum'
<1>1. Typing /\ RowPerCall /\ ChargeBeforeSuccess /\ BalanceIsChargedSum
  BY DEF SerialAuditInvariant, SerialInvariant, LedgerInvariant, Typing
<1>2. CASE \E u \in Users : CreateWallet(u)
  BY <1>1, <1>2, QuietSums DEF CreateWallet
<1>3. CASE \E c \in Calls : Arrive(c)
  BY <1>1, <1>3, QuietSums DEF Arrive, IncreaseWallet, UploadAndTranscribe, ReadWallet, tables
<1>4. CASE \E c \in Calls : Step(c)
  <2>1. PICK c \in Calls : Step(c)
    BY <1>4
  <2>2. CASE UpdateWallet(c)
    BY <2>2, UpdateWalletSums
  <2>3. CASE CreateTransaction(c)
    <3>1. pc[c] = "createTransaction" /\ UNCHANGED <<balance, charged>>
          /\ transactions \subseteq transactions'
          /\ transactions' \subseteq transactions \cup {TransactionRow(c)}
      BY <2>3 DEF CreateTransaction, At, Refused, tables
    <3>2. c \notin charged /\ TransactionRow(c).request = c
      BY <1>1, <3>1 DEF ChargeBeforeSuccess, TransactionRow, Ended
    <3> QED BY <1>1, <3>1, <3>2, QuietSums
  <2>4. CASE ~UpdateWallet(c) /\ ~CreateTransaction(c)
    BY <1>1, <2>1, <2>4, StepQuiet, StepKeepsRows, QuietSums
  <2> QED BY <2>2, <2>3, <2>4
<1>5. CASE Crash
  BY <1>1, <1>5, QuietSums DEF Crash, tables
<1>6. CASE UNCHANGED vars
  BY <1>1, <1>6, QuietSums DEF vars
<1> QED BY <1>2, <1>3, <1>4, <1>5, <1>6 DEF SerialNext, Next, Done

LEMMA InitSums == Init => BalanceIsChargedSum
<1> SUFFICES ASSUME Init, NEW u \in Users
             PROVE  balance[u] = AmountOf(Charged(CreditRows(u))) - AmountOf(Charged(DebitRows(u)))
  BY DEF BalanceIsChargedSum
<1>1. Charged(CreditRows(u)) = {} /\ Charged(DebitRows(u)) = {} /\ balance[u] = 0
  BY DEF Init, Charged, CreditRows, DebitRows
<1>2. AmountOf({}) = 0
  BY AmountIsTotal, TotalEmpty, FS_EmptySet
<1> QED BY <1>1, <1>2

\* With one call per user at a time the wallet holds, at every await of every
\* handler and after any fault or crash, the charged credits minus the charged
\* debits of its ledger.
THEOREM WalletIsItsChargedSum == SerialSpec => []BalanceIsChargedSum
<1>1. Init => SerialAuditInvariant
  BY InitSerial, InitAudit, InitSums DEF SerialAuditInvariant, AuditInvariant
<1>2. SerialSpec => []SerialInvariant
  BY InitSerial, NextSerial, PTL DEF SerialSpec
<1>3. SerialSpec => []AuditInvariant
  <2>1. [SerialNext]_vars => [Next]_vars
    BY DEF SerialNext
  <2> QED BY <2>1, RowsAreCovered, PTL DEF Spec, SerialSpec
<1>4. SerialInvariant /\ AuditInvariant /\ BalanceIsChargedSum => SerialAuditInvariant
  BY DEF SerialAuditInvariant, AuditInvariant
<1>5. SerialAuditInvariant /\ [SerialNext]_vars => BalanceIsChargedSum'
  BY NextSums
<1>6. SerialAuditInvariant => BalanceIsChargedSum
  BY DEF SerialAuditInvariant
<1> QED BY <1>1, <1>2, <1>3, <1>4, <1>5, <1>6, PTL DEF SerialSpec

-----------------------------------------------------------------------------
(* What the endpoints promise, and what it takes.                           *)

\* The insert of the row and the balance write neither fail nor lose a reply,
\* and the process does not stop between them.
LedgerWritesReliable == Faults \cap {"createTransaction", "updateWallet", "crash"} = {}

LEMMA StepAwaits ==
  ASSUME LedgerWritesReliable, Typing, ChargeBeforeSuccess, RowPerCall, RowsAwaitBalance,
         NEW c \in Calls, Step(c)
  PROVE  RowsAwaitBalance'
<1>1. CASE UpdateWallet(c)
  <2>1. /\ transactions' = transactions /\ charged' = charged \cup {c}
        /\ \A d \in Calls : d # c => pc'[d] = pc[d]
    BY <1>1 DEF LedgerWritesReliable, UpdateWallet, At, Committed, Refused, GoTo, Typing, TypeOK
  <2> QED BY <2>1 DEF RowsAwaitBalance, Typing, TypeOK, Rows
<1>2. CASE CreateTransaction(c)
  <2>1. /\ charged' = charged /\ transactions' \subseteq transactions \cup {TransactionRow(c)}
        /\ pc[c] = "createTransaction" /\ TransactionRow(c).request = c
        /\ \A d \in Calls : d # c => pc'[d] = pc[d]
    BY <1>2 DEF CreateTransaction, At, Committed, Refused, GoTo, tables, TransactionRow, Typing, TypeOK
  <2>2. transactions' = transactions \/ pc'[c] = "updateWallet"
    BY <1>2 DEF LedgerWritesReliable, CreateTransaction, At, Committed, Refused, GoTo, tables,
                Typing, TypeOK
  <2>3. \A row \in transactions : row.request \in Calls /\ row.request # c
    BY <2>1 DEF RowsAwaitBalance, ChargeBeforeSuccess, RowPerCall, Typing, TypeOK, Rows, Ended
  <2> QED BY <2>1, <2>2, <2>3 DEF RowsAwaitBalance
<1>3. CASE ~UpdateWallet(c) /\ ~CreateTransaction(c)
  <2>1. UNCHANGED <<transactions, balance, charged>>
    BY <1>3, StepQuiet, StepKeepsRows
  <2>2. pc[c] # "updateWallet" /\ \A d \in Calls : d # c => pc'[d] = pc[d]
    BY <1>3 DEF Step, CreateRequest, CreateTranscribe, LinkTranscribe, MarkProcessing, SpeechToText,
                MarkCompleted, GetTranscribe, SucceedRequest, MarkFailed, FailRequest,
                At, Committed, Refused, GoTo, Typing, TypeOK
  <2> QED BY <2>1, <2>2 DEF RowsAwaitBalance, Typing, TypeOK, Rows
<1> QED BY <1>1, <1>2, <1>3

LEMMA NextAwaits ==
  ASSUME LedgerWritesReliable, AuditInvariant, RowsAwaitBalance, [Next]_vars
  PROVE  RowsAwaitBalance'
<1>1. Typing /\ ChargeBeforeSuccess /\ RowPerCall
  BY DEF AuditInvariant, LedgerInvariant, Typing
<1>2. CASE \E u \in Users : CreateWallet(u)
  BY <1>2 DEF CreateWallet, RowsAwaitBalance
<1>3. CASE \E c \in Calls : Arrive(c)
  <2>1. PICK c \in Calls : Arrive(c)
    BY <1>3
  <2>2. UNCHANGED tables /\ pc[c] = "idle" /\ \A d \in Calls : d # c => pc'[d] = pc[d]
    BY <1>1, <2>1 DEF Arrive, IncreaseWallet, UploadAndTranscribe, ReadWallet, At, GoTo, Typing, TypeOK
  <2> QED BY <1>1, <2>2 DEF RowsAwaitBalance, Typing, TypeOK, Rows, tables
<1>4. CASE \E c \in Calls : Step(c)
  BY <1>1, <1>4, StepAwaits
<1>5. CASE Crash
  BY <1>5 DEF Crash, LedgerWritesReliable
<1>6. CASE UNCHANGED vars
  BY <1>6 DEF vars, RowsAwaitBalance
<1> QED BY <1>2, <1>3, <1>4, <1>5, <1>6 DEF Next, Done

\* The lost update is all that parts a wallet from its ledger: where the row
\* and the balance are written without a fault and a user's calls do not
\* overlap, the wallet of an idle system holds the credits minus the debits,
\* as the endpoints promise, whatever else fails.
THEOREM SerialKeepsPromise == LedgerWritesReliable /\ SerialSpec => []SettledBalance
<1>1. SerialSpec => Init /\ [][Next]_vars
  <2>1. [SerialNext]_vars => [Next]_vars
    BY DEF SerialNext
  <2> QED BY <2>1, PTL DEF SerialSpec
<1>2. SerialSpec => []AuditInvariant
  BY <1>1, RowsAreCovered, PTL DEF Spec
<1>3. Init => RowsAwaitBalance
  BY DEF Init, RowsAwaitBalance
<1>4. LedgerWritesReliable /\ AuditInvariant /\ RowsAwaitBalance /\ [Next]_vars => RowsAwaitBalance'
  BY NextAwaits
<1>5. AuditInvariant /\ RowsAwaitBalance /\ BalanceIsChargedSum => SettledBalance
  <2> SUFFICES ASSUME AuditInvariant, RowsAwaitBalance, BalanceIsChargedSum, NEW u \in Users,
                      \A c \in Calls : ~InFlight(c)
               PROVE  balance[u] = AmountOf(CreditRows(u)) - AmountOf(DebitRows(u))
    BY DEF SettledBalance
  <2>1. \A row \in transactions : row.request \in charged
    BY DEF AuditInvariant, LedgerInvariant, TypeOK, Rows, RowsAwaitBalance, InFlight, Operations
  <2>2. Charged(CreditRows(u)) = CreditRows(u) /\ Charged(DebitRows(u)) = DebitRows(u)
    BY <2>1 DEF Charged, CreditRows, DebitRows
  <2> QED BY <2>2 DEF BalanceIsChargedSum
<1>6. LedgerWritesReliable => []LedgerWritesReliable
  <2>1. LedgerWritesReliable => LedgerWritesReliable'
    BY DEF LedgerWritesReliable
  <2> QED BY <2>1, PTL
<1> QED BY <1>1, <1>2, <1>3, <1>4, <1>5, <1>6, WalletIsItsChargedSum, PTL
=============================================================================
