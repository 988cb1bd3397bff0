--------------------------- MODULE MCRegistration ---------------------------
(* Instances of Registration for TLC.                                       *)
EXTENDS Registration

\* Two numbers, one of them written in two ways.
MCSpellings == {<<"+", "1">>, <<"+", " ", "1">>, <<"+", "2">>}
OneSpelling == {<<"+", "1">>}

\* Everything may fail but the wallet's insert after the user's.
AllButCreateWallet == Operations \ {"createWallet"}
=============================================================================
