---------------------------- MODULE SerialLedger ----------------------------
(***************************************************************************)
(* WalletLedger for clients that send one paid call at a time: a user's    *)
(* next call arrives only when the previous one has been answered.  The    *)
(* code does not enforce it.  Under it every failure, lost reply and crash *)
(* is still allowed, and the wallet behaves as AtomicLedger says.          *)
(***************************************************************************)
EXTENDS LedgerAudit

\* The calls of one user never overlap.
OneCallPerUser ==
    \A c, d \in Calls :
        InFlight(c) /\ InFlight(d) /\ job[c].user = job[d].user => c = d

SerialNext == Next /\ OneCallPerUser'
SerialSpec == Init /\ [][SerialNext]_vars

\* The amounts that pass validation.
Deposits == {amount \in TopUpAmounts : ValidAmount(amount)}

Costs == {TranscriptionCost(CalculateDuration(file)) : file \in {f \in Files : AcceptUpload(f)}}

Atomic == INSTANCE AtomicLedger
            WITH Credits <- Deposits, Debits <- Costs, settled <- charged

\* Read long before it is written, the balance still moves as if each charged
\* call had credited or debited it in one step: with one call per user the
\* snapshot cannot go stale, whatever fails or crashes on the way.
ImplementsAtomicLedger == Atomic!Spec

\* One call per user: at every moment, between any two awaits of any handler,
\* the wallet holds exactly the credits minus the debits of the ledger rows
\* whose balance write committed.
BalanceIsChargedSum ==
    \A u \in Users :
        balance[u] = AmountOf(Charged(CreditRows(u))) - AmountOf(Charged(DebitRows(u)))
=============================================================================
