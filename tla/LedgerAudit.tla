---------------------------- MODULE LedgerAudit ----------------------------
(* WalletLedger as an auditor reads it: sums over the rows of a wallet.     *)
EXTENDS WalletLedger, FiniteSetsExt

AmountOf(rows) == MapThenSumSet(LAMBDA row : row.amount, rows)

CreditRows(u) == {row \in transactions : row.user = u /\ row.direction = "CREDIT"}
DebitRows(u)  == {row \in transactions : row.user = u /\ row.direction = "DEBIT"}

\* The rows whose balance write committed.
Charged(rows) == {row \in rows : row.request \in charged}

-----------------------------------------------------------------------------
(* Properties. *)

\* Money is never created: overlapping handlers, failures and crashes may
\* lose a credit or a debit, but a wallet never holds more than the sum of
\* the credit rows written for it.
NoMoneyFromNothing == \A u \in Users : balance[u] <= AmountOf(CreditRows(u))

\* What the endpoints promise together: with every call of a user answered,
\* the wallet holds the credits minus the debits its ledger records.
SettledBalance ==
    \A u \in Users :
        (\A c \in Calls : ~InFlight(c)) =>
            balance[u] = AmountOf(CreditRows(u)) - AmountOf(DebitRows(u))
=============================================================================
