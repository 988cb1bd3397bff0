--------------------------- MODULE MCSerialLedger ---------------------------
(* SerialLedger for TLC, with the numbers of MCWalletLedger.                *)
EXTENDS SerialLedger, MCWalletLedger
=============================================================================
