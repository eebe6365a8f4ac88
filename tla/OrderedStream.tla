---------------------------- MODULE OrderedStream ----------------------------
(***************************************************************************)
(* What the reorder buffer promises to the code behind it (audio decoding  *)
(* and the control-byte stream): the packets of the peer's stream in the   *)
(* order they were sent, each at most once, some possibly missing.         *)
(***************************************************************************)
EXTENDS Integers, Sequences

CONSTANT LastIndex    \* the stream is the packets 0 .. LastIndex

VARIABLES
  sent,       \* how many packets of the stream have been sent
  delivered   \* the packets handed on so far, in order

Init == sent = 0 /\ delivered = <<>>

Send ==
  /\ sent <= LastIndex
  /\ sent' = sent + 1
  /\ UNCHANGED delivered

\* Hand on some of the packets sent, in order and newer than any before.
Deliver ==
  /\ Len(delivered') > Len(delivered)
  /\ SubSeq(delivered', 1, Len(delivered)) = delivered
  /\ \A k \in Len(delivered) + 1 .. Len(delivered') :
       /\ delivered'[k] \in 0 .. sent - 1
       /\ k > 1 => delivered'[k - 1] < delivered'[k]
  /\ UNCHANGED sent

Next == Send \/ Deliver
Spec == Init /\ [][Next]_<<sent, delivered>>
=============================================================================
