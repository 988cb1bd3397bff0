---------------------------- MODULE AtomicLedger ----------------------------
(***************************************************************************)
(* What a client may believe of a wallet: a call that is charged credits   *)
(* or debits the wallet in one step, by its own amount and at most once,   *)
(* and never past zero or past what the column holds.                      *)
(***************************************************************************)
EXTENDS Integers

CONSTANTS
    Users,
    Calls,
    Credits,     \* amounts a call may add
    Debits,      \* amounts a call may take
    MaxBalance

VARIABLES
    wallets,     \* users with a wallet
    balance,     \* their balances
    settled      \* calls that have been charged

ledger == <<wallets, balance, settled>>

Init ==
    /\ wallets = {}
    /\ balance = [u \in Users |-> 0]
    /\ settled = {}

Open(u) ==
    /\ u \notin wallets
    /\ wallets' = wallets \cup {u}
    /\ UNCHANGED <<balance, settled>>

\* amount is positive for a credit and negative for a debit.
Settle(c, u, amount) ==
    /\ c \notin settled
    /\ u \in wallets
    /\ balance[u] + amount \in 0..MaxBalance
    /\ balance' = [balance EXCEPT ![u] = balance[u] + amount]
    /\ settled' = settled \cup {c}
    /\ UNCHANGED wallets

Next ==
    \/ \E u \in Users : Open(u)
    \/ \E c \in Calls, u \in Users :
         \/ \E amount \in Credits : Settle(c, u, amount)
         \/ \E amount \in Debits : Settle(c, u, -amount)

Spec == Init /\ [][Next]_ledger
=============================================================================
