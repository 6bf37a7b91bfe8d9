----------------------------- MODULE MCLedgers -----------------------------
(* An instance of Ledgers for TLC.                                         *)
EXTENDS Ledgers, MCPaidReading
=============================================================================
