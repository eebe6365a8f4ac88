------------------------------ MODULE RxStream ------------------------------
(***************************************************************************)
(* The reorder buffer fed by one peer over UDP.  The peer numbers its      *)
(* packets with a byte that wraps; the network delays, reorders, loses and *)
(* duplicates them.                                                        *)
(*                                                                         *)
(* A packet is its index in the peer's stream, so that the model can tell  *)
(* two packets with the same sequence number apart where the code cannot.  *)
(***************************************************************************)
EXTENDS RxReorder

CONSTANTS
  LastIndex,   \* bound: the peer sends the packets 0 .. LastIndex
  MaxCopies    \* bound: how many packets the network duplicates

StreamAssumption ==
  /\ LastIndex \in Nat /\ MaxCopies \in Nat
  /\ Packet = 0 .. LastIndex
  /\ Audio = Packet
  /\ SeqByte = [i \in Packet |-> i % SeqSpace]

VARIABLES
  sent,       \* how many packets the peer has sent
  net,        \* copies of each packet in flight
  copies,     \* how many duplicates the network has made
  delivered   \* everything handed to processPacket so far

streamVars == <<vars, sent, net, copies, delivered>>

\* The index the receiver expects, once it has handed a packet on.
ExpectedIndex == delivered[Len(delivered)] + 1

\* The environment a byte of sequence number can serve: the network holds no
\* packet back by half the space, and neither a burst of losses nor the wait for
\* a missing packet lasts for half the space.
InStep(i) ==
  /\ \A j \in Packet : net[j] > 0 => i - j < Half
  /\ initialized => i - ExpectedIndex < Half

StreamInit ==
  /\ Init
  /\ sent = 0
  /\ net = [i \in Packet |-> 0]
  /\ copies = 0
  /\ delivered = <<>>

Send ==
  /\ sent \in Packet
  /\ InStep(sent)
  /\ sent' = sent + 1
  /\ net' = [net EXCEPT ![sent] = @ + 1]
  /\ UNCHANGED <<vars, copies, delivered>>

Duplicate(i) ==
  /\ net[i] > 0 /\ copies < MaxCopies
  /\ net' = [net EXCEPT ![i] = @ + 1]
  /\ copies' = copies + 1
  /\ UNCHANGED <<vars, sent, delivered>>

Lose(i) ==
  /\ net[i] > 0
  /\ net' = [net EXCEPT ![i] = @ - 1]
  /\ UNCHANGED <<vars, sent, copies, delivered>>

Arrive(i) ==
  /\ net[i] > 0
  /\ Receive(i)
  /\ net' = [net EXCEPT ![i] = @ - 1]
  /\ delivered' = delivered \o ready'
  /\ UNCHANGED <<sent, copies>>

\* The receiver's loop and its clock.
StreamArm == Arm /\ UNCHANGED <<sent, net, copies, delivered>>
StreamTick == Tick /\ UNCHANGED <<sent, net, copies, delivered>>
StreamNoPacket == NoPacket /\ UNCHANGED <<sent, net, copies, delivered>>
StreamTimeout ==
  /\ Timeout
  /\ delivered' = delivered \o ready'
  /\ UNCHANGED <<sent, net, copies>>

StreamNext ==
  \/ Send
  \/ \E i \in Packet : Duplicate(i) \/ Lose(i) \/ Arrive(i)
  \/ StreamArm
  \/ StreamNoPacket
  \/ StreamTimeout
  \/ StreamTick

StreamSpec == StreamInit /\ [][StreamNext]_streamVars

\* The receiver's loop and its clock go on; the peer and the network may stop.
FairStreamSpec ==
  /\ StreamSpec
  /\ WF_streamVars(StreamArm) /\ WF_streamVars(StreamTimeout) /\ WF_streamVars(StreamTick)

-----------------------------------------------------------------------------
\* The byte the receiver expects is the one of the packet after the newest it
\* handed on, and a buffered packet is one the peer sent within the next half of
\* the space: a packet is never mistaken for one of another lap.
SameLap ==
  /\ initialized => expected = ExpectedIndex % SeqSpace
  /\ \A s \in DOMAIN pending :
       /\ pending[s] - ExpectedIndex \in 1 .. Half - 1
       /\ pending[s] < sent

\* A packet is dropped only when it comes too late to be played in order or is a
\* second copy of one already buffered.
DropsOnlyLate ==
  [][\A i \in Packet :
       Arrive(i) /\ stats'.stale > 0 =>
         \/ \E k \in DOMAIN delivered : delivered[k] >= i
         \/ \E s \in DOMAIN pending : pending[s] = i]_streamVars

Ordered == INSTANCE OrderedStream
  WITH LastIndex <- LastIndex, sent <- sent, delivered <- delivered

\* The receiver implements the ordered stream, and withholds from it only what is too late
\* (rxReorderBuffer.push).
ImplementsOrdered == Ordered!Spec /\ DropsOnlyLate

\* A buffered packet is eventually handed on: once the peer's stream ends nothing
\* stays in the buffer, unless datagrams that are no packets never stop coming.
BufferedIsDelivered ==
  \/ \A i \in Packet :
       (\E s \in DOMAIN pending : pending[s] = i) ~> (\E k \in DOMAIN delivered : delivered[k] = i)
  \/ []<><<StreamNoPacket>>_streamVars
=============================================================================
