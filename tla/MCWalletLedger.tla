--------------------------- MODULE MCWalletLedger ---------------------------
(* Instances of WalletLedger for TLC.                                       *)
EXTENDS LedgerAudit, TLC

\* One unit of money stands for 100 000 rials: a top-up of 3, a second of
\* audio for 2, and a column that holds at most 7, so that a third top-up
\* overflows and a second transcription is refused.  A top-up below the minimum
\* and a negative one are sent too.
MCTopUpAmounts  == {3, 1, -3}
MCMinTopUp      == 2
\* Clips of one and two seconds: one ffprobe reads, an empty one it reads as
\* zero, and one it cannot read; a file that is not audio, and one too large.
MCFiles == {[audio |-> TRUE, probed |-> 4, size |-> 5],
            [audio |-> TRUE, probed |-> 0, size |-> 0],
            [audio |-> TRUE, probed |-> NoDuration, size |-> 3],
            [audio |-> FALSE, probed |-> NoDuration, size |-> 1],
            [audio |-> TRUE, probed |-> 4, size |-> 6]}
MCMaxAudioSize   == 5
MCBytesPerSecond == 2
MCCostPerSecond == 2
MCMaxBalance    == 7

AllFaults    == Operations \cup {"crash"}
\* Everything inside the try blocks up to the ledger row, and the inner catch.
TryFaults    == {"markProcessing", "speechToText", "markCompleted", "getTranscribe",
                 "createTransaction", "markFailed"}

CallSymmetry == Permutations(Calls)
Symmetry     == Permutations(Calls) \cup Permutations(Users)
=============================================================================
