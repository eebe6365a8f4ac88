------------------------------ MODULE MCTxPath ------------------------------
(***************************************************************************)
(* An instance of TxPath for TLC: frames of three, two and one bytes, two  *)
(* goroutines that send them and one that speaks.                          *)
(***************************************************************************)
EXTENDS TxPath

MCFrame == {"ack", "ident", "key"}
MCHigh == {"ack", "key"}
MCLength == [f \in MCFrame |-> IF f = "ident" THEN 3 ELSE IF f = "key" THEN 2 ELSE 1]
=============================================================================
