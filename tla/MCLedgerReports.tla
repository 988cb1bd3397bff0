--------------------------- MODULE MCLedgerReports ---------------------------
(* Instances of LedgerReports for TLC.  Money is in rials, with the tariff   *)
(* and the size estimate of transcription.service.ts.                       *)
EXTENDS LedgerReports, MCWalletLedger

DayTopUpAmounts   == {5000000, 499999}
DayMinTopUp       == 500000
\* A clip of 3700 seconds, one of 95 seconds known by its size only, and one
\* above the limit.
DayFiles          == {[audio |-> TRUE, probed |-> 36995, size |-> 29600000],
                      [audio |-> TRUE, probed |-> NoDuration, size |-> 1520000],
                      [audio |-> TRUE, probed |-> NoDuration, size |-> 52428801]}
DayMaxAudioSize   == 52428800
DayBytesPerSecond == 16000
DayCostPerSecond  == 1000
DayMaxBalance     == 2000000000
=============================================================================
