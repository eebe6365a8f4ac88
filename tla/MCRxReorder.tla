----------------------------- MODULE MCRxReorder -----------------------------
(***************************************************************************)
(* An instance of RxReorder for TLC: a sequence space of 2 * Half numbers, *)
(* an original and a second copy of every audio packet, and one packet     *)
(* that is not audio.                                                      *)
(***************************************************************************)
EXTENDS RxReorder

Numbers == 0 .. 2 * Half - 1
MCAudio == Numbers \X {"first", "second"}
MCPacket == MCAudio \union {<<0, "other">>}
MCSeqByte == [p \in MCAudio |-> p[1]]
=============================================================================
