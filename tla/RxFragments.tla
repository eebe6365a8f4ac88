---------------------------- MODULE RxFragments ----------------------------
(***************************************************************************)
(* The assembler that joins audio packets a peer sent in several UDP       *)
(* datagrams, in front of the reorder buffer.  A datagram is a run of      *)
(* units (bytes) of one packet; the model can tell which packet a unit     *)
(* comes from, where the code sees only lengths, addresses, the time and   *)
(* the first bytes of what it has joined.                                  *)
(***************************************************************************)
EXTENDS Integers, Sequences

CONSTANTS
  Senders,
  Sent,      \* the datagrams each sender sends, in order
  Size,      \* AudioFrameSize, in units
  Limit,     \* 100 ms, in ticks
  Header     \* the units, as <<packet, part>>, whose bytes read as a packet's header

Datagram == [from : Senders, packet : Nat, first : Nat, size : Nat]

None == "none"

FragmentAssumption ==
  /\ Size \in Nat \ {0} /\ Limit \in Nat /\ None \notin Senders
  /\ Sent \in [Senders -> Seq(Datagram)]
  /\ \A s \in Senders : \A k \in DOMAIN Sent[s] : Sent[s][k].from = s

\* The peer sends the pieces of a packet one after the other, the first longer than half
\* of it, and only packets begin with what reads as a header.
Continues(d, e) == e.packet = d.packet /\ e.first = d.first + d.size
PeerAssumption ==
  \A s \in Senders : \A k \in DOMAIN Sent[s] :
    LET d == Sent[s][k] IN
      IF d.size \notin 1 .. Size THEN d.first = 0
      ELSE /\ d.first \in 1 .. Size + 1 - d.size
           /\ d.first = 1 => 2 * d.size > Size
           /\ d.first > 1 => k > 1 /\ Continues(Sent[s][k - 1], d)
           /\ d.first + d.size <= Size => k < Len(Sent[s]) /\ Continues(d, Sent[s][k + 1])
           /\ \A part \in 1 .. Size : <<d.packet, part>> \in Header <=> part = 1

VARIABLES
  addr, startedAge, buf,   \* the assembler; the age stands for startedAt
  out,                     \* what the last call handed on
  dropped,                 \* rxFragmentStats.dropped of the last call
  next, held,              \* the network: next datagram of each sender, one held back
  damaged,                 \* packets that lost or delayed a piece, or got a delayed one among theirs
  prev, quiet, since, sync \* what an observer of the arrivals knows, see Observe

code == <<addr, startedAge, buf, out, dropped>>
observer == <<prev, quiet, since, sync>>
fragments == <<code, next, held, damaged, observer>>

NoPiece == [from |-> None, packet |-> 0, first |-> 0, size |-> 0]

Units(d) == [k \in 1 .. d.size |->
               [from |-> d.from, packet |-> d.packet, part |-> d.first + k - 1, age |-> 0]]
Older(n) == IF n > Limit THEN n ELSE n + 1
JoinedToPacketByLength(units) == Len(units) = Size
JoinedToPacket(units) == Len(units) = Size /\ <<units[1].packet, units[1].part>> \in Header

Whole(d) == d.size = Size
LastPiece(d) == d.first + d.size - 1 = Size

FragmentsInit ==
  /\ addr = None /\ startedAge = 0 /\ buf = <<>>
  /\ out = <<>> /\ dropped = 0
  /\ next = [s \in Senders |-> 1] /\ held = [s \in Senders |-> NoPiece]
  /\ damaged = {}
  /\ prev = NoPiece /\ quiet = 0 /\ since = 0 /\ sync = TRUE

-----------------------------------------------------------------------------
Reset == buf' = <<>> /\ addr' = None /\ startedAge' = 0
Buffered == IF buf = <<>> THEN 0 ELSE 1

PushWholeKeeps(d) ==
  /\ Whole(d)
  /\ UNCHANGED <<addr, startedAge, buf>>
  /\ dropped' = 0
  /\ out' = Units(d)

\* A datagram of the right length is handed on as it is; what was buffered is lost.
PushWhole(d) ==
  /\ Whole(d)
  /\ Reset
  /\ dropped' = Buffered
  /\ out' = Units(d)

\* Nothing can be made of an empty or an oversized datagram.
PushInvalid(d) ==
  /\ d.size = 0 \/ d.size > Size
  /\ Reset
  /\ dropped' = Buffered + 1
  /\ out' = <<>>

UnrelatedAnySender(d) == buf # <<>> /\ (startedAge > Limit \/ Len(buf) + d.size > Size)
\* The fragment does not continue what is buffered: another sender, too late, too long.
Unrelated(d) ==
  /\ buf # <<>>
  /\ addr # d.from \/ startedAge > Limit \/ Len(buf) + d.size > Size

PushFragment(d) ==
  /\ d.size \in 1 .. Size - 1
  /\ LET base == IF Unrelated(d) THEN <<>> ELSE buf
         joined == base \o Units(d)
         lost == IF Unrelated(d) THEN 1 ELSE 0
     IN \/ /\ Len(joined) < Size
           /\ buf' = joined
           /\ addr' = IF base = <<>> THEN d.from ELSE addr
           /\ startedAge' = IF base = <<>> THEN 0 ELSE startedAge
           /\ dropped' = lost /\ out' = <<>>
        \/ /\ Len(joined) >= Size
           /\ Reset
           /\ IF JoinedToPacket(joined)
                THEN out' = joined /\ dropped' = lost
                ELSE out' = <<>> /\ dropped' = lost + 1

\* What can be known without the assembler.  The arrivals are in step when the
\* datagram d starts a packet after a pause, after another sender's datagram or
\* after a packet in step, or when it continues such a packet in time.
Observe(d) ==
  /\ prev' = d /\ quiet' = 0
  /\ since' = IF d.first = 1 THEN 0 ELSE since
  /\ sync' = \/ Whole(d)
             \/ /\ d.first = 1
                /\ quiet > Limit \/ d.from # prev.from \/ (sync /\ LastPiece(prev))
             \/ /\ sync /\ since <= Limit
                /\ d.from = prev.from /\ d.packet = prev.packet
                /\ d.first = prev.first + prev.size

Push(d) ==
  /\ PushWhole(d) \/ PushInvalid(d) \/ PushFragment(d)
  /\ Observe(d)

-----------------------------------------------------------------------------
\* The network, for each sender.
InFlight(s) == next[s] \in DOMAIN Sent[s]
Head1(s) == Sent[s][next[s]]
Advance(s) == next' = [next EXCEPT ![s] = @ + 1]
Damage(d) == damaged' = damaged \cup {<<d.from, d.packet>>}

Deliver(s) ==
  /\ InFlight(s)
  /\ Push(Head1(s))
  /\ Advance(s)
  /\ UNCHANGED <<held, damaged>>

Lose(s) ==
  /\ InFlight(s)
  /\ Damage(Head1(s))
  /\ Advance(s)
  /\ UNCHANGED <<code, held, observer>>

HoldBack(s) ==
  /\ InFlight(s) /\ held[s] = NoPiece
  /\ Damage(Head1(s))
  /\ held' = [held EXCEPT ![s] = Head1(s)]
  /\ Advance(s)
  /\ UNCHANGED <<code, observer>>

DeliverHeld(s) ==
  /\ held[s] # NoPiece
  /\ Push(held[s])
  /\ held' = [held EXCEPT ![s] = NoPiece]
  /\ Damage(Sent[s][next[s] - 1])
  /\ UNCHANGED next

Tick ==
  /\ quiet <= Limit
  /\ quiet' = quiet + 1 /\ since' = Older(since)
  /\ startedAge' = IF buf = <<>> THEN 0 ELSE Older(startedAge)
  /\ buf' = [k \in DOMAIN buf |-> [buf[k] EXCEPT !.age = Older(@)]]
  /\ UNCHANGED <<addr, out, dropped, next, held, damaged, prev, sync>>

FragmentsNext ==
  \/ \E s \in Senders : Deliver(s) \/ Lose(s) \/ HoldBack(s) \/ DeliverHeld(s)
  \/ Tick

FragmentsSpec == FragmentsInit /\ [][FragmentsNext]_fragments

-----------------------------------------------------------------------------
FragmentsTypeOK ==
  /\ addr \in Senders \cup {None} /\ (addr = None <=> buf = <<>>)
  /\ startedAge \in 0 .. Limit + 1
  /\ Len(buf) < Size
  /\ Len(out) \in {0, Size}
  /\ dropped \in 0 .. 2

\* A packet the assembler hands on comes from one sender and from bytes that
\* arrived within the limit of each other, whatever arrived in between.
OneOrigin ==
  \A j, k \in DOMAIN out :
    /\ out[j].from = out[k].from
    /\ out[j].age <= Limit

\* An intact packet never loses its bytes to a mixture: a packet joined from the
\* pieces of two packets contains only packets the network damaged.  True of a peer
\* whose first piece is longer than half a packet, as in the test's split.
MixedOnlyFromDamaged ==
  \A j, k \in DOMAIN out :
    out[j].packet # out[k].packet =>
      {<<out[j].from, out[j].packet>>, <<out[k].from, out[k].packet>>} \subseteq damaged

\* Whatever was lost before, after a pause, a whole packet or another sender's
\* datagram the assembler is in step: packets whose pieces arrive in order and in
\* time are handed on, each as it was sent.
Recovers ==
  [][prev' # prev /\ sync' /\ LastPiece(prev') =>
       /\ Len(out') = Size
       /\ \A k \in 1 .. Size :
            <<out'[k].from, out'[k].packet, out'[k].part>> = <<prev'.from, prev'.packet, k>>]_fragments

\* What the assembler makes of pieces comes from one sender, in time, and is mixed from
\* damaged packets only; whatever it has met, it is back in step after a pause or a whole
\* packet (rxFragmentAssembler.push).
Reassembles == [](FragmentsTypeOK /\ OneOrigin /\ MixedOnlyFromDamaged) /\ Recovers
=============================================================================
