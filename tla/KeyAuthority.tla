---------------------------- MODULE KeyAuthority ----------------------------
(***************************************************************************)
(* What a holder of an API key may rely on, whatever the rows, the cache   *)
(* and the calls in flight look like: a key is issued once, is revoked     *)
(* once, may linger for a while after that and is then dead for good; a    *)
(* call is granted only while its key is live or lingers.                  *)
(***************************************************************************)
EXTENDS Integers

CONSTANTS
    Keys,
    Calls,
    NoKey       \* a call that asks about no key

VARIABLES
    standing,   \* absent, live, lingering or dead, for each key
    asks,       \* the key each call is about
    granted     \* calls whose last answer admitted their client

authority == <<standing, asks, granted>>

Init ==
    /\ standing = [k \in Keys |-> "absent"]
    /\ asks = [c \in Calls |-> NoKey]
    /\ granted = {}

Changes == {<<"absent", "live">>, <<"live", "lingering">>, <<"live", "dead">>,
            <<"lingering", "dead">>}

\* One step may answer a call and let its key lose standing.
Next ==
    /\ \A k \in Keys : standing'[k] # standing[k] => <<standing[k], standing'[k]>> \in Changes
    /\ \A c \in granted' \ granted :
         asks[c] # NoKey /\ standing[asks[c]] \in {"live", "lingering"}

Spec == Init /\ [][Next]_authority
=============================================================================
