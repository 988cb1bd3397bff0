---------------------------- MODULE WalletLedger ----------------------------
(***************************************************************************)
(* The paid operations of the backend: WalletService.increaseWallet and    *)
(* TranscriptionService.uploadAndTranscribe, with the four tables they     *)
(* write (wallets, requests, transcribes, wallet_transactions).            *)
(*                                                                         *)
(* Each HTTP call runs one of the two handlers.  A handler awaits its      *)
(* repository operations one after the other, and the handlers of other    *)
(* calls run during every await, so one repository operation is one step.  *)
(* No database transaction spans two operations.  pc[c] names the          *)
(* operation call c awaits next; job[c] holds the handler's local          *)
(* variables, among them the balance it read when it started.              *)
(*                                                                         *)
(* An operation named in Faults may be refused (an error, nothing          *)
(* written) or may commit and lose its reply (an error, row written).      *)
(* "crash" in Faults lets the process stop between any two operations.     *)
(* A value a decimal(18,4) column cannot hold is refused whatever Faults   *)
(* says (MySQL in its default strict mode).                                *)
(***************************************************************************)
EXTENDS Integers, FiniteSets

CONSTANTS
    Users,          \* users, each with at most one MAIN wallet
    Calls,          \* HTTP calls; each runs one handler
    TopUpAmounts,   \* values clients send in the body of a top-up
    MinTopUp,       \* the @Min of IncreaseWalletDto
    Files,          \* uploads: an accepted MIME type or not, the tenths of a
                    \* second ffprobe reports, and the size
    MaxAudioSize,   \* MAX_AUDIO_SIZE_BYTES
    BytesPerSecond, \* FALLBACK_BYTES_PER_SECOND
    NoDuration,     \* ffprobe failed, or printed no finite number
    CostPerSecond,  \* TRANSCRIPTION_COST_PER_SECOND
    MaxBalance,     \* the largest amount a decimal(18,4) column holds
    Faults,         \* operations that may fail, and "crash"
    NoJob           \* the locals of a call that has read no wallet

Modules    == {"walletTopUp", "transcription"}
Positive   == {n \in Nat : n > 0}
Jobs       == [user : Users, module : Modules, cost : Positive, seen : Int]

Operations == {"createRequest", "createTranscribe", "linkTranscribe",
               "markProcessing", "speechToText", "markCompleted",
               "getTranscribe", "createTransaction", "updateWallet",
               "succeedRequest", "markFailed", "failRequest"}
Ended      == {"returned", "threw", "crashed"}

ASSUME LedgerAssumption ==
    /\ TopUpAmounts \subseteq Int
    /\ MinTopUp \in Positive
    /\ NoDuration \notin Int
    /\ Files \subseteq [audio : BOOLEAN, probed : Int \cup {NoDuration}, size : Nat]
    /\ MaxAudioSize \in Nat
    /\ BytesPerSecond \in Positive
    /\ CostPerSecond \in Positive
    /\ MaxBalance \in Nat
    /\ Faults \subseteq Operations \cup {"crash"}
    /\ NoJob \notin Jobs

VARIABLES
    wallets,       \* users whose MAIN wallet row exists
    balance,       \* wallets.balance
    requests,      \* requests.status of each call
    links,         \* foreign keys set in each call's requests row
    transcribes,   \* transcribes.status of each call
    outputs,       \* calls whose transcript file is on disk
    transactions,  \* the wallet_transactions rows
    pc,            \* the repository operation each call awaits next
    job,           \* the locals of each call's handler
    charged        \* history: calls whose balance write committed

tables == <<wallets, balance, requests, links, transcribes, outputs, transactions, charged>>
vars   == <<wallets, balance, requests, links, transcribes, outputs, transactions,
            pc, job, charged>>

Links              == {"transcribe", "walletTransaction"}
RequestStatuses    == {"none", "processing", "succeed", "failed"}
TranscribeStatuses == {"none", "pending", "processing", "completed", "failed"}
Rows == [request : Calls, user : Users, direction : {"CREDIT", "DEBIT"},
         amount : Positive, balanceAfter : Int]

Init ==
    /\ wallets = {}
    /\ balance = [u \in Users |-> 0]
    /\ requests = [c \in Calls |-> "none"]
    /\ links = [c \in Calls |-> {}]
    /\ transcribes = [c \in Calls |-> "none"]
    /\ outputs = {}
    /\ transactions = {}
    /\ pc = [c \in Calls |-> "idle"]
    /\ job = [c \in Calls |-> NoJob]
    /\ charged = {}

-----------------------------------------------------------------------------
(* How an awaited operation ends. *)

\* decimal(18,4) is signed: the column itself would hold a debt.
Fits(value) == value \in -MaxBalance..MaxBalance

At(c, operation) == pc[c] = operation

GoTo(c, label) == pc' = [pc EXCEPT ![c] = label]

\* The operation took effect; its reply arrives, or is lost and the
\* handler sees an error.
Committed(c, next, handler) ==
    \/ GoTo(c, next)
    \/ pc[c] \in Faults /\ GoTo(c, handler)

\* The operation had no effect and the handler sees an error.
Refused(c, handler) ==
    /\ GoTo(c, handler)
    /\ UNCHANGED <<tables, job>>

-----------------------------------------------------------------------------
(* What the handlers compute from their locals. *)

IsTranscription(c) == job[c].module = "transcription"

\* Mutant: the transcription copies the top-up's direction.
DirectionCopied(c) == "CREDIT"

Direction(c) == IF IsTranscription(c) THEN "DEBIT" ELSE "CREDIT"

\* Mutant: a transcription is added to the balance.
NextBalanceAdded(c) == job[c].seen + job[c].cost

NextBalance(c) == IF IsTranscription(c) THEN job[c].seen - job[c].cost
                                        ELSE job[c].seen + job[c].cost

TransactionRow(c) ==
    [request |-> c, user |-> job[c].user, direction |-> Direction(c),
     amount |-> job[c].cost, balanceAfter |-> NextBalance(c)]

Ceil(n, d) == (n + d - 1) \div d

\* Mutant: the probed duration is rounded down and not looked at again.
CalculateDurationFloor(file) ==
    IF file.probed # NoDuration THEN file.probed \div 10 ELSE Ceil(file.size, BytesPerSecond)

\* In whole seconds: what ffprobe says, else what the size suggests, at least one.
CalculateDuration(file) ==
    IF file.probed # NoDuration /\ Ceil(file.probed, 10) > 0
    THEN Ceil(file.probed, 10)
    ELSE IF file.size > BytesPerSecond THEN Ceil(file.size, BytesPerSecond) ELSE 1

TranscriptionCost(duration) == duration * CostPerSecond

\* Mutant: the wallet only has to be non-empty.
CanAffordAnything(u, cost) == balance[u] > 0

CanAfford(u, cost) == balance[u] >= cost

\* AppValidationPipe on the body of a top-up.
ValidAmount(amount) == amount >= MinTopUp

\* multer's filter and limit; an upload without a file is not audio either.
AcceptUpload(file) == file.audio /\ file.size <= MaxAudioSize

-----------------------------------------------------------------------------
(* Calls arrive. *)

\* TypeOrmAuthRepository.createWallet, the only creator of wallets.
CreateWallet(u) ==
    /\ u \notin wallets
    /\ wallets' = wallets \cup {u}
    /\ UNCHANGED <<balance, requests, links, transcribes, outputs, transactions, pc, job, charged>>

\* getMainWalletByUserId answered: the handler keeps the balance it read
\* and goes on; without a wallet, or with an input that is not admitted (by
\* the pipe, by multer or by the handler), the call ends before any write.
ReadWallet(c, u, module, cost, admitted) ==
    /\ At(c, "idle")
    /\ IF u \in wallets /\ admitted
       THEN /\ job' = [job EXCEPT ![c] = [user |-> u, module |-> module,
                                          cost |-> cost, seen |-> balance[u]]]
            /\ GoTo(c, "createRequest")
       ELSE /\ GoTo(c, "threw")
            /\ UNCHANGED job
    /\ UNCHANGED tables

IncreaseWallet(c, u, amount) ==
    ReadWallet(c, u, "walletTopUp", amount, ValidAmount(amount))

UploadAndTranscribe(c, u, file) ==
    LET cost == TranscriptionCost(CalculateDuration(file)) IN
    ReadWallet(c, u, "transcription", cost, AcceptUpload(file) /\ CanAfford(u, cost))

-----------------------------------------------------------------------------
(* The awaited operations, in the order a handler reaches them. *)

\* Outside the try block: an error leaves the handler at once.
CreateRequest(c) ==
    /\ At(c, "createRequest")
    /\ \/ /\ Fits(job[c].cost)
          /\ requests' = [requests EXCEPT ![c] = "processing"]
          /\ Committed(c, IF IsTranscription(c) THEN "createTranscribe"
                                                ELSE "createTransaction", "threw")
          /\ UNCHANGED <<wallets, balance, links, transcribes, outputs, transactions, job, charged>>
       \/ /\ "createRequest" \in Faults \/ ~Fits(job[c].cost)
          /\ Refused(c, "threw")

CreateTranscribe(c) ==
    /\ At(c, "createTranscribe")
    /\ \/ /\ transcribes' = [transcribes EXCEPT ![c] = "pending"]
          /\ Committed(c, "linkTranscribe", "threw")
          /\ UNCHANGED <<wallets, balance, requests, links, outputs, transactions, job, charged>>
       \/ /\ "createTranscribe" \in Faults
          /\ Refused(c, "threw")

LinkTranscribe(c) ==
    /\ At(c, "linkTranscribe")
    /\ \/ /\ links' = [links EXCEPT ![c] = @ \cup {"transcribe"}]
          /\ Committed(c, "markProcessing", "threw")
          /\ UNCHANGED <<wallets, balance, requests, transcribes, outputs, transactions, job, charged>>
       \/ /\ "linkTranscribe" \in Faults
          /\ Refused(c, "threw")

\* processTranscription: its own catch marks the transcribe failed.
MarkProcessing(c) ==
    /\ At(c, "markProcessing")
    /\ \/ /\ transcribes' = [transcribes EXCEPT ![c] = "processing"]
          /\ Committed(c, "speechToText", "markFailed")
          /\ UNCHANGED <<wallets, balance, requests, links, outputs, transactions, job, charged>>
       \/ /\ "markProcessing" \in Faults
          /\ Refused(c, "markFailed")

\* transcribeAudioFile, and saveTextFile in the same turn of the event loop.
SpeechToText(c) ==
    /\ At(c, "speechToText")
    /\ \/ /\ outputs' = outputs \cup {c}
          /\ GoTo(c, "markCompleted")
          /\ UNCHANGED <<wallets, balance, requests, links, transcribes, transactions, job, charged>>
       \/ /\ "speechToText" \in Faults
          /\ Refused(c, "markFailed")

MarkCompleted(c) ==
    /\ At(c, "markCompleted")
    /\ \/ /\ transcribes' = [transcribes EXCEPT ![c] = "completed"]
          /\ Committed(c, "getTranscribe", "markFailed")
          /\ UNCHANGED <<wallets, balance, requests, links, outputs, transactions, job, charged>>
       \/ /\ "markCompleted" \in Faults
          /\ Refused(c, "markFailed")

GetTranscribe(c) ==
    /\ At(c, "getTranscribe")
    /\ Committed(c, "createTransaction", "markFailed")
    /\ UNCHANGED <<tables, job>>

\* Mutant: an error of the insert is swallowed and the wallet still written.
CreateTransactionSwallowed(c) ==
    /\ At(c, "createTransaction")
    /\ \/ /\ Fits(NextBalance(c))
          /\ transactions' = transactions \cup {TransactionRow(c)}
          /\ Committed(c, "updateWallet", "updateWallet")
          /\ UNCHANGED <<wallets, balance, requests, links, transcribes, outputs, job, charged>>
       \/ /\ "createTransaction" \in Faults \/ ~Fits(NextBalance(c))
          /\ Refused(c, "updateWallet")

\* Mutant: the row and the balance are sent together, the answers checked after.
CreateTransactionAndBalance(c) ==
    /\ At(c, "createTransaction")
    /\ \/ /\ Fits(NextBalance(c))
          /\ transactions' = transactions \cup {TransactionRow(c)}
          /\ balance' = [balance EXCEPT ![job[c].user] = NextBalance(c)]
          /\ charged' = charged \cup {c}
          /\ Committed(c, "updateWallet", "failRequest")
          /\ UNCHANGED <<wallets, requests, links, transcribes, outputs, job>>
       \/ /\ "createTransaction" \in Faults \/ ~Fits(NextBalance(c))
          /\ Refused(c, "failRequest")

\* Inside the outer try block: an error goes to its catch, failRequest.
CreateTransaction(c) ==
    /\ At(c, "createTransaction")
    /\ \/ /\ Fits(NextBalance(c))
          /\ transactions' = transactions \cup {TransactionRow(c)}
          /\ Committed(c, "updateWallet", "failRequest")
          /\ UNCHANGED <<wallets, balance, requests, links, transcribes, outputs, job, charged>>
       \/ /\ "createTransaction" \in Faults \/ ~Fits(NextBalance(c))
          /\ Refused(c, "failRequest")

\* Mutant: the wallet is incremented, but the row keeps the snapshot's sum.
UpdateWalletIncrement(c) ==
    /\ At(c, "updateWallet")
    /\ \/ /\ balance' = [balance EXCEPT ![job[c].user] = @ + NextBalance(c) - job[c].seen]
          /\ charged' = charged \cup {c}
          /\ Committed(c, "succeedRequest", "failRequest")
          /\ UNCHANGED <<wallets, requests, links, transcribes, outputs, transactions, job>>
       \/ /\ "updateWallet" \in Faults
          /\ Refused(c, "failRequest")

\* Mutant: an increment that is repeated when its reply is lost.
UpdateWalletRetried(c) ==
    /\ At(c, "updateWallet")
    /\ balance' = [balance EXCEPT ![job[c].user] = @ + NextBalance(c) - job[c].seen]
    /\ charged' = charged \cup {c}
    /\ Committed(c, "succeedRequest", "updateWallet")
    /\ UNCHANGED <<wallets, requests, links, transcribes, outputs, transactions, job>>

\* Mutant: an error of the balance write is swallowed.
UpdateWalletSwallowed(c) ==
    /\ At(c, "updateWallet")
    /\ \/ /\ balance' = [balance EXCEPT ![job[c].user] = NextBalance(c)]
          /\ charged' = charged \cup {c}
          /\ Committed(c, "succeedRequest", "succeedRequest")
          /\ UNCHANGED <<wallets, requests, links, transcribes, outputs, transactions, job>>
       \/ /\ "updateWallet" \in Faults
          /\ Refused(c, "succeedRequest")

\* The absolute balance computed from the snapshot, not an increment.
UpdateWallet(c) ==
    /\ At(c, "updateWallet")
    /\ \/ /\ balance' = [balance EXCEPT ![job[c].user] = NextBalance(c)]
          /\ charged' = charged \cup {c}
          /\ Committed(c, "succeedRequest", "failRequest")
          /\ UNCHANGED <<wallets, requests, links, transcribes, outputs, transactions, job>>
       \/ /\ "updateWallet" \in Faults
          /\ Refused(c, "failRequest")

SucceedRequest(c) ==
    /\ At(c, "succeedRequest")
    /\ \/ /\ requests' = [requests EXCEPT ![c] = "succeed"]
          /\ links' = [links EXCEPT ![c] = @ \cup {"walletTransaction"}]
          /\ Committed(c, "returned", "failRequest")
          /\ UNCHANGED <<wallets, balance, transcribes, outputs, transactions, job, charged>>
       \/ /\ "succeedRequest" \in Faults
          /\ Refused(c, "failRequest")

\* Mutant: processTranscription returns instead of throwing again.
MarkFailedReturns(c) ==
    /\ At(c, "markFailed")
    /\ transcribes' = [transcribes EXCEPT ![c] = "failed"]
    /\ GoTo(c, "createTransaction")
    /\ UNCHANGED <<wallets, balance, requests, links, outputs, transactions, job, charged>>

\* Mutant: the outer catch is missing, the error leaves the handler.
MarkFailedEscapes(c) ==
    /\ At(c, "markFailed")
    /\ transcribes' = [transcribes EXCEPT ![c] = "failed"]
    /\ GoTo(c, "threw")
    /\ UNCHANGED <<wallets, balance, requests, links, outputs, transactions, job, charged>>

\* An error here replaces the first one and reaches the outer catch too.
MarkFailed(c) ==
    /\ At(c, "markFailed")
    /\ \/ /\ transcribes' = [transcribes EXCEPT ![c] = "failed"]
          /\ GoTo(c, "failRequest")
          /\ UNCHANGED <<wallets, balance, requests, links, outputs, transactions, job, charged>>
       \/ /\ "markFailed" \in Faults
          /\ Refused(c, "failRequest")

FailRequest(c) ==
    /\ At(c, "failRequest")
    /\ \/ /\ requests' = [requests EXCEPT ![c] = "failed"]
          /\ GoTo(c, "threw")
          /\ UNCHANGED <<wallets, balance, links, transcribes, outputs, transactions, job, charged>>
       \/ /\ "failRequest" \in Faults
          /\ Refused(c, "threw")

-----------------------------------------------------------------------------
(* The process stops: every handler in flight is gone, the tables stay and *)
(* nothing in the code resumes or repairs what was half done.              *)

InFlight(c) == pc[c] \in Operations

Crash ==
    /\ "crash" \in Faults
    /\ \E c \in Calls : InFlight(c)
    /\ pc' = [c \in Calls |-> IF InFlight(c) THEN "crashed" ELSE pc[c]]
    /\ UNCHANGED <<tables, job>>

Arrive(c) == \E u \in Users :
    \/ \E amount \in TopUpAmounts : IncreaseWallet(c, u, amount)
    \/ \E file \in Files : UploadAndTranscribe(c, u, file)

\* The handler of call c performs the operation it is waiting for.
Step(c) ==
    \/ CreateRequest(c)     \/ CreateTranscribe(c)  \/ LinkTranscribe(c)
    \/ MarkProcessing(c)    \/ SpeechToText(c)      \/ MarkCompleted(c)
    \/ GetTranscribe(c)     \/ CreateTransaction(c) \/ UpdateWallet(c)
    \/ SucceedRequest(c)    \/ MarkFailed(c)        \/ FailRequest(c)

\* All calls of the instance have been made and answered.
Done ==
    /\ \A c \in Calls : pc[c] \in Ended
    /\ UNCHANGED vars

Next ==
    \/ \E u \in Users : CreateWallet(u)
    \/ \E c \in Calls : Arrive(c) \/ Step(c)
    \/ Crash
    \/ Done

Spec == Init /\ [][Next]_vars

\* Node runs every handler whose awaited operation has ended; nothing obliges
\* a client to call, or the process to crash.
FairSpec == Spec /\ \A c \in Calls : WF_vars(Step(c))

-----------------------------------------------------------------------------
(* Properties. *)

\* Every variable has the type of the column or local it stands for: costs
\* and amounts are positive (calculateDuration returns at least one second
\* whatever ffprobe prints or the file's size), rows refer to calls and users.
TypeOK ==
    /\ wallets \subseteq Users
    /\ balance \in [Users -> Int]
    /\ requests \in [Calls -> RequestStatuses]
    /\ links \in [Calls -> SUBSET Links]
    /\ transcribes \in [Calls -> TranscribeStatuses]
    /\ outputs \subseteq Calls
    /\ transactions \subseteq Rows
    /\ pc \in [Calls -> {"idle"} \cup Operations \cup Ended]
    /\ job \in [Calls -> Jobs \cup {NoJob}]
    /\ charged \subseteq Calls

\* No interleaving of top-ups and transcriptions, no failure and no crash
\* ever leaves a balance below zero or above what the column holds, though
\* the check against the balance and the write are many awaits apart.
BalanceInRange == \A u \in Users : balance[u] \in 0..MaxBalance

\* A stored balance is always the balance_after of a row of that wallet's
\* own ledger (or the opening zero): whatever handlers overlap or die, the
\* statement logCredits prints contains the balance the wallet shows.
BalanceExplained ==
    \A u \in Users :
        \/ balance[u] = 0
        \/ \E row \in transactions : /\ row.user = u
                                     /\ row.request \in charged
                                     /\ row.balanceAfter = balance[u]

BalanceBefore(row) == IF row.direction = "CREDIT" THEN row.balanceAfter - row.amount
                                                  ELSE row.balanceAfter + row.amount

\* Every ledger row starts from zero or from the balance_after of a row of
\* the same wallet whose balance write did commit: a handler never builds on
\* the row of a call that failed or died before it wrote the wallet.
RowsChain ==
    \A row \in transactions :
        \/ BalanceBefore(row) = 0
        \/ \E prior \in transactions :
              /\ prior.user = row.user
              /\ prior.request \in charged
              /\ prior.balanceAfter = BalanceBefore(row)

\* A request reported SUCCEED has been paid for, has its ledger row linked,
\* and, for a transcription, a completed transcribe with a transcript file.
SucceedMeansSettled ==
    \A c \in Calls : requests[c] = "succeed" =>
        /\ c \in charged
        /\ "walletTransaction" \in links[c]
        /\ \E row \in transactions : row.request = c
        /\ IsTranscription(c) => /\ "transcribe" \in links[c]
                                 /\ transcribes[c] = "completed"
                                 /\ c \in outputs

\* The wallet is never debited for a transcription that did not complete:
\* processTranscription must have ended well before the balance is written,
\* and nothing marks the transcribe failed afterwards.
NeverChargedWithoutTranscript ==
    \A c \in charged : IsTranscription(c) => transcribes[c] = "completed" /\ c \in outputs

\* While the wallet write and what follows it cannot fail, a call answered
\* with an error, or whose request is FAILED, has not changed the balance:
\* the client may send it again.
FailedNotCharged ==
    \A c \in Calls : pc[c] = "threw" \/ requests[c] = "failed" => c \notin charged

\* Where only operations inside the try blocks fail, and the catch itself
\* does not, no request stays PROCESSING: it reaches SUCCEED or FAILED.
RequestsSettle ==
    \A c \in Calls : requests[c] = "processing"
                        ~> requests[c] \in {"succeed", "failed"}
=============================================================================
