----------------------------- MODULE MCRxStream -----------------------------
(***************************************************************************)
(* An instance of RxStream for TLC: packets are the indices of the stream, *)
(* more of them than there are sequence numbers.                           *)
(***************************************************************************)
EXTENDS RxStream

ASSUME StreamAssumption

MCPacket == 0 .. LastIndex
MCSeqByte == [i \in MCPacket |-> i % (2 * Half)]
=============================================================================
