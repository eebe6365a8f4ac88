--------------------------- MODULE IncomingProofs ---------------------------
(***************************************************************************)
(* Proofs about what comes in from the peer.  Of RxFragments, for any      *)
(* senders, any sequences of datagrams that a peer may send, packets of    *)
(* any size, and any limit; of RxControl, for any payloads of the matrix,  *)
(* any packets it may put them in and any number of losses.                *)
(***************************************************************************)
EXTENDS RxControl, RxFragments, SequenceTheorems, FiniteSetTheorems, WellFoundedInduction, TLAPS

Unit == [from : Senders, packet : Nat, part : Nat, age : Nat]

-----------------------------------------------------------------------------
(***************************************************************************)
(* What a call of push does.                                               *)
(***************************************************************************)

\* The units of a datagram, one by one.
LEMMA UnitsOf ==
  ASSUME NEW d \in Datagram
  PROVE  /\ Units(d) \in Seq(Unit) /\ Len(Units(d)) = d.size
         /\ \A k \in 1 .. d.size :
              Units(d)[k] = [from |-> d.from, packet |-> d.packet, part |-> d.first + k - 1, age |-> 0]
<1>1. \A k \in 1 .. d.size :
        [from |-> d.from, packet |-> d.packet, part |-> d.first + k - 1, age |-> 0] \in Unit
  BY DEF Datagram, Unit
<1>2. d.size \in Nat
  BY DEF Datagram
<1> QED
  BY <1>1, <1>2 DEF Units

\* Units put behind others, one by one.
LEMMA Joining ==
  ASSUME NEW s \in Seq(Unit), NEW d \in Datagram
  PROVE  /\ s \o Units(d) \in Seq(Unit) /\ Len(s \o Units(d)) = Len(s) + d.size
         /\ \A k \in 1 .. Len(s) : (s \o Units(d))[k] = s[k]
         /\ \A k \in 1 .. d.size :
              (s \o Units(d))[Len(s) + k]
                = [from |-> d.from, packet |-> d.packet, part |-> d.first + k - 1, age |-> 0]
         /\ \A k \in Len(s) + 1 .. Len(s) + d.size :
              (s \o Units(d))[k] = [from |-> d.from, packet |-> d.packet,
                                    part |-> d.first + (k - Len(s)) - 1, age |-> 0]
<1> DEFINE t == Units(d)
           unit(k) == [from |-> d.from, packet |-> d.packet, part |-> d.first + k - 1, age |-> 0]
<1>1. t \in Seq(Unit) /\ Len(t) = d.size /\ \A k \in 1 .. d.size : t[k] = unit(k)
  BY UnitsOf
<1>2. d.size \in Nat
  BY DEF Datagram
<1> HIDE DEF t, unit
<1>3. /\ s \o t \in Seq(Unit) /\ Len(s \o t) = Len(s) + d.size
      /\ \A k \in 1 .. Len(s) : (s \o t)[k] = s[k]
      /\ \A k \in Len(s) + 1 .. Len(s) + d.size : (s \o t)[k] = t[k - Len(s)]
  BY <1>1, <1>2
<1>4. \A k \in 1 .. d.size : (s \o t)[Len(s) + k] = unit(k)
  BY <1>1, <1>2, <1>3
<1>5. \A k \in Len(s) + 1 .. Len(s) + d.size : (s \o t)[k] = unit(k - Len(s))
  BY <1>1, <1>2, <1>3
<1> QED
  BY <1>3, <1>4, <1>5 DEF t, unit

\* The ways a datagram is taken: as a packet, not at all, as the first of a packet, behind
\* what is buffered, or as the last of a packet.
Emptied == buf' = <<>> /\ addr' = None /\ startedAge' = 0
AsPacket(d) == Whole(d) /\ Emptied /\ out' = Units(d) /\ dropped' \in 0 .. 1
Refused(d) == d.size \notin 1 .. Size /\ Emptied /\ out' = <<>> /\ dropped' \in 1 .. 2
Begun(d) ==
  /\ d.size \in 1 .. Size - 1 /\ (buf = <<>> \/ Unrelated(d))
  /\ buf' = Units(d) /\ addr' = d.from /\ startedAge' = 0 /\ out' = <<>> /\ dropped' \in 0 .. 1
Related(d) ==
  d.size \in 1 .. Size - 1 /\ buf # <<>> /\ addr = d.from /\ startedAge <= Limit
Continued(d) ==
  /\ Related(d) /\ Len(buf) + d.size < Size
  /\ buf' = buf \o Units(d) /\ UNCHANGED <<addr, startedAge>> /\ out' = <<>> /\ dropped' = 0
Completed(d) ==
  /\ Related(d) /\ Len(buf) + d.size = Size /\ Emptied
  /\ \/ /\ <<buf[1].packet, buf[1].part>> \in Header
        /\ out' = buf \o Units(d) /\ dropped' = 0
     \/ /\ <<buf[1].packet, buf[1].part>> \notin Header
        /\ out' = <<>> /\ dropped' = 1

\* Each push is one of these.
LEMMA Pushing ==
  ASSUME FragmentAssumption, buf \in Seq(Unit), Len(buf) < Size, startedAge \in Nat,
         NEW d \in Datagram, Push(d)
  PROVE  AsPacket(d) \/ Refused(d) \/ Begun(d) \/ Continued(d) \/ Completed(d)
<1> USE FragmentAssumption DEF FragmentAssumption
<1>0. d.size \in Nat
  BY DEF Datagram
<1>1. CASE PushWhole(d)
  BY <1>1 DEF PushWhole, AsPacket, Emptied, Reset, Buffered
<1>2. CASE PushInvalid(d)
  BY <1>0, <1>2 DEF PushInvalid, Refused, Emptied, Reset, Buffered
<1>3. CASE PushFragment(d) /\ (buf = <<>> \/ Unrelated(d))
  <2> DEFINE base == IF Unrelated(d) THEN <<>> ELSE buf
  <2>1. base = <<>>
    BY <1>3
  <2>2. <<>> \o Units(d) = Units(d) /\ Len(Units(d)) = d.size
    BY UnitsOf
  <2>3. d.size \in 1 .. Size - 1
    BY <1>3 DEF PushFragment
  <2> DEFINE count == IF Unrelated(d) THEN 1 ELSE 0
             joined == base \o Units(d)
  <2>4. \/ /\ Len(joined) < Size
           /\ buf' = joined
           /\ addr' = IF base = <<>> THEN d.from ELSE addr
           /\ startedAge' = IF base = <<>> THEN 0 ELSE startedAge
           /\ dropped' = count /\ out' = <<>>
        \/ Len(joined) >= Size
    BY <1>3 DEF PushFragment
  <2>5. joined = Units(d) /\ Len(joined) = d.size
    BY <2>1, <2>2
  <2>6. count \in 0 .. 1
    OBVIOUS
  <2> HIDE DEF base, count, joined
  <2>7. ~(d.size >= Size)
    BY <2>3
  <2>8. buf' = Units(d) /\ addr' = d.from /\ startedAge' = 0 /\ dropped' = count /\ out' = <<>>
    BY <2>1, <2>4, <2>5, <2>7
  <2> QED
    BY <1>3, <2>3, <2>6, <2>8 DEF Begun
<1>4. CASE PushFragment(d) /\ buf # <<>> /\ ~Unrelated(d)
  <2> DEFINE joined == buf \o Units(d)
  <2>1. Related(d) /\ Len(buf) + d.size <= Size
    BY <1>0, <1>4 DEF PushFragment, Related, Unrelated
  <2>2. Len(joined) = Len(buf) + d.size /\ joined[1] = buf[1]
    BY <1>4, Joining
  <2>3. \/ /\ Len(joined) < Size
           /\ buf' = joined /\ addr' = addr /\ startedAge' = startedAge
           /\ dropped' = 0 /\ out' = <<>>
        \/ /\ Len(joined) >= Size
           /\ Reset
           /\ IF JoinedToPacket(joined)
                THEN out' = joined /\ dropped' = 0
                ELSE out' = <<>> /\ dropped' = 1
    BY <1>4 DEF PushFragment
  <2> HIDE DEF joined
  <2>4. CASE Len(joined) < Size
    BY <1>0, <2>1, <2>2, <2>3, <2>4 DEF Continued, joined
  <2>5. CASE Len(joined) >= Size
    <3>1. Len(buf) + d.size = Size /\ Len(joined) = Size
      BY <1>0, <2>1, <2>2, <2>5
    <3>2. JoinedToPacket(joined) <=> <<buf[1].packet, buf[1].part>> \in Header
      BY <2>2, <3>1 DEF JoinedToPacket
    <3> QED
      BY <2>1, <2>3, <3>1, <3>2 DEF Completed, Emptied, Reset, joined
  <2> QED
    BY <1>0, <2>2, <2>4, <2>5
<1> QED
  BY <1>1, <1>2, <1>3, <1>4 DEF Push

\* A datagram that arrives is one its sender sent.
Arrives(d) == \E s \in Senders : \E k \in DOMAIN Sent[s] : d = Sent[s][k]

\* What arrives is a datagram of its sender.
LEMMA ArrivedPiece ==
  ASSUME FragmentAssumption, NEW d, Arrives(d)
  PROVE  d \in Datagram /\ d.from \in Senders /\ d.from # None /\ d # NoPiece /\ d.size \in Nat
<1>1. PICK s \in Senders : \E k \in DOMAIN Sent[s] : d = Sent[s][k]
  BY DEF Arrives
<1>2. PICK k \in DOMAIN Sent[s] : d = Sent[s][k]
  BY <1>1
<1>3. Sent[s] \in Seq(Datagram)
  BY DEF FragmentAssumption
<1>4. d \in Datagram
  BY <1>2, <1>3
<1> QED
  BY <1>4 DEF FragmentAssumption, Datagram, NoPiece

\* What the pieces of a packet grow to as they age.
LEMMA Aging ==
  ASSUME FragmentAssumption, buf \in Seq(Unit), Tick
  PROVE  /\ buf' \in Seq(Unit) /\ Len(buf') = Len(buf) /\ (buf' = <<>> <=> buf = <<>>)
         /\ DOMAIN buf' = DOMAIN buf
         /\ \A k \in DOMAIN buf :
              /\ buf'[k].from = buf[k].from /\ buf'[k].packet = buf[k].packet
              /\ buf'[k].part = buf[k].part /\ buf'[k].age = Older(buf[k].age)
<1> DEFINE aged(k) == [buf[k] EXCEPT !.age = Older(@)]
<1>1. buf' = [k \in 1 .. Len(buf) |-> aged(k)]
  BY DEF Tick
<1>2. ASSUME NEW k \in 1 .. Len(buf)
      PROVE  /\ aged(k) \in Unit
             /\ aged(k).from = buf[k].from /\ aged(k).packet = buf[k].packet
             /\ aged(k).part = buf[k].part /\ aged(k).age = Older(buf[k].age)
  <2>1. buf[k] \in Unit
    OBVIOUS
  <2>2. buf[k].age \in Nat
    BY <2>1 DEF Unit
  <2>3. Older(buf[k].age) \in Nat
    BY <2>2 DEF Older, FragmentAssumption
  <2> QED
    BY <2>1, <2>3 DEF Unit
<1> HIDE DEF aged
<1>3. Len(buf) \in Nat
  OBVIOUS
<1>4. buf' \in Seq(Unit) /\ Len(buf') = Len(buf)
  BY <1>1, <1>2, <1>3
<1> QED
  BY <1>1, <1>2, <1>3, <1>4

-----------------------------------------------------------------------------
(***************************************************************************)
(* The assembler's shape, and where the bytes it joins come from.  This    *)
(* asks nothing of the peer.                                               *)
(***************************************************************************)
FragmentShapes ==
  /\ buf \in Seq(Unit) /\ out \in Seq(Unit)
  /\ addr \in Senders \cup {None} /\ (addr = None <=> buf = <<>>)
  /\ startedAge \in 0 .. Limit + 1
  /\ Len(buf) < Size /\ Len(out) \in {0, Size} /\ dropped \in 0 .. 2

\* What is buffered comes from the sender the assembler remembers, none of it older than
\* the piece it began with.
FromOne == \A k \in DOMAIN buf : buf[k].from = addr /\ buf[k].age <= startedAge

Sound == FragmentShapes /\ FromOne /\ OneOrigin

\* A datagram leaves the assembler sound.
LEMMA PushSound ==
  ASSUME FragmentAssumption, Sound, NEW d, Arrives(d), Push(d)
  PROVE  Sound'
<1> USE FragmentAssumption DEF Sound
<1>0. d \in Datagram /\ d.from \in Senders /\ d.from # None /\ d.size \in Nat
  BY ArrivedPiece
<1>1. FragmentShapes /\ Limit \in Nat /\ Size \in Nat \ {0}
  BY DEF FragmentAssumption
<1>2. /\ Units(d) \in Seq(Unit) /\ Len(Units(d)) = d.size
      /\ \A k \in 1 .. d.size : Units(d)[k].from = d.from /\ Units(d)[k].age = 0
  <2>1. \A k \in 1 .. d.size :
          Units(d)[k] = [from |-> d.from, packet |-> d.packet, part |-> d.first + k - 1, age |-> 0]
    BY <1>0, UnitsOf
  <2>2. Units(d) \in Seq(Unit) /\ Len(Units(d)) = d.size
    BY <1>0, UnitsOf
  <2>3. ASSUME NEW k \in 1 .. d.size
        PROVE  Units(d)[k].from = d.from /\ Units(d)[k].age = 0
    <3>1. Units(d)[k] = [from |-> d.from, packet |-> d.packet, part |-> d.first + k - 1, age |-> 0]
      BY <2>1
    <3> QED
      BY <3>1
  <2> QED
    BY <2>2, <2>3
<1>3. AsPacket(d) \/ Refused(d) \/ Begun(d) \/ Continued(d) \/ Completed(d)
  BY <1>0, <1>1, Pushing DEF FragmentShapes
<1>4. CASE AsPacket(d)
  <2>1. FragmentShapes' /\ FromOne'
    BY <1>0, <1>1, <1>2, <1>4 DEF AsPacket, Emptied, Whole, FragmentShapes, FromOne
  <2>2. OneOrigin'
    BY <1>1, <1>2, <1>4 DEF AsPacket, OneOrigin
  <2> QED
    BY <2>1, <2>2
<1>5. CASE Refused(d)
  BY <1>1, <1>5 DEF Refused, Emptied, FragmentShapes, FromOne, OneOrigin
<1>6. CASE Begun(d)
  <2>1. FragmentShapes'
    BY <1>0, <1>1, <1>2, <1>6 DEF Begun, FragmentShapes
  <2>2. FromOne'
    BY <1>1, <1>2, <1>6 DEF Begun, FromOne
  <2>3. OneOrigin'
    BY <1>6 DEF Begun, OneOrigin
  <2> QED
    BY <2>1, <2>2, <2>3
<1> DEFINE joined == buf \o Units(d)
<1>7. ASSUME Related(d)
      PROVE  /\ joined \in Seq(Unit) /\ Len(joined) = Len(buf) + d.size
             /\ \A k \in 1 .. Len(joined) : joined[k].from = addr /\ joined[k].age <= startedAge
  <2>1. buf \in Seq(Unit)
    BY <1>1 DEF FragmentShapes
  <2>2. /\ joined \in Seq(Unit) /\ Len(joined) = Len(buf) + d.size
        /\ \A k \in 1 .. Len(buf) : joined[k] = buf[k]
        /\ \A k \in Len(buf) + 1 .. Len(buf) + d.size : joined[k].from = d.from /\ joined[k].age = 0
    <3>1. \A k \in Len(buf) + 1 .. Len(buf) + d.size :
            joined[k] = [from |-> d.from, packet |-> d.packet,
                         part |-> d.first + (k - Len(buf)) - 1, age |-> 0]
      BY <1>0, <2>1, Joining
    <3>2. /\ joined \in Seq(Unit) /\ Len(joined) = Len(buf) + d.size
          /\ \A k \in 1 .. Len(buf) : joined[k] = buf[k]
      BY <1>0, <2>1, Joining
    <3>3. ASSUME NEW k \in Len(buf) + 1 .. Len(buf) + d.size
          PROVE  joined[k].from = d.from /\ joined[k].age = 0
      <4>1. joined[k] = [from |-> d.from, packet |-> d.packet,
                         part |-> d.first + (k - Len(buf)) - 1, age |-> 0]
        BY <3>1
      <4> QED
        BY <4>1
    <3> HIDE DEF joined
    <3> QED
      BY <3>2, <3>3
  <2>3. addr = d.from /\ startedAge >= 0
    BY <1>1, <1>7 DEF Related, FragmentShapes
  <2> HIDE DEF joined
  <2>4. ASSUME NEW k \in 1 .. Len(joined)
        PROVE  joined[k].from = addr /\ joined[k].age <= startedAge
    <3>1. CASE k \in 1 .. Len(buf)
      BY <2>1, <2>2, <3>1 DEF FromOne
    <3>2. CASE k \in Len(buf) + 1 .. Len(buf) + d.size
      BY <2>2, <2>3, <3>2
    <3> QED
      BY <1>0, <2>1, <2>2, <3>1, <3>2
  <2> QED
    BY <2>2, <2>4
<1> HIDE DEF joined
<1>8. CASE Continued(d)
  <2>1. /\ Related(d) /\ Len(buf) + d.size < Size /\ d.size > 0
        /\ buf' = joined /\ addr' = addr /\ startedAge' = startedAge /\ out' = <<>> /\ dropped' = 0
    BY <1>8 DEF Continued, Related, joined
  <2>2. FragmentShapes'
    <3>1. buf' # <<>> /\ buf # <<>>
      BY <1>0, <1>1, <1>7, <2>1 DEF FragmentShapes, Related
    <3> QED
      BY <1>1, <1>7, <2>1, <3>1 DEF FragmentShapes
  <2>3. FromOne'
    BY <1>7, <2>1 DEF FromOne
  <2>4. OneOrigin'
    BY <2>1 DEF OneOrigin
  <2> QED
    BY <2>2, <2>3, <2>4
<1>9. CASE Completed(d)
  <2>1. /\ Related(d) /\ Len(buf) + d.size = Size /\ Emptied /\ dropped' \in 0 .. 1
        /\ out' \in {joined, <<>>} /\ startedAge <= Limit
    BY <1>9 DEF Completed, Related, joined
  <2>2. buf' = <<>> /\ addr' = None /\ startedAge' = 0
    BY <2>1 DEF Emptied
  <2>4. out' \in Seq(Unit) /\ Len(out') \in {0, Size}
    <3>1. joined \in Seq(Unit) /\ Len(joined) = Size
      BY <1>7, <2>1
    <3>2. <<>> \in Seq(Unit) /\ Len(<<>>) = 0
      OBVIOUS
    <3>3. out' = joined \/ out' = <<>>
      BY <2>1
    <3> QED
      BY <3>1, <3>2, <3>3
  <2>5. FragmentShapes'
    BY <1>1, <2>1, <2>2, <2>4 DEF FragmentShapes
  <2>6. FromOne'
    BY <2>2 DEF FromOne
  <2>3. OneOrigin'
    <3>1. CASE out' = <<>>
      BY <3>1 DEF OneOrigin
    <3>2. CASE out' = joined
      <4>1. \A k \in 1 .. Len(joined) : joined[k].from = addr /\ joined[k].age <= Limit
        <5>1. \A k \in 1 .. Len(joined) : joined[k].age \in Nat
          <6>1. \A k \in 1 .. Len(joined) : joined[k] \in Unit
            BY <1>7, <2>1
          <6> QED
            BY <6>1 DEF Unit
        <5> QED
          BY <1>1, <1>7, <2>1, <5>1 DEF FragmentShapes
      <4>2. DOMAIN joined = 1 .. Len(joined)
        BY <1>7, <2>1
      <4> QED
        BY <3>2, <4>1, <4>2 DEF OneOrigin
    <3> QED
      BY <2>1, <3>1, <3>2
  <2> QED
    BY <2>3, <2>5, <2>6
<1> QED
  BY <1>3, <1>4, <1>5, <1>6, <1>8, <1>9

\* So does the passing of time.
LEMMA TickSound ==
  ASSUME FragmentAssumption, Sound, Tick
  PROVE  Sound'
<1> USE FragmentAssumption DEF Sound
<1>1. FragmentShapes /\ Limit \in Nat /\ Size \in Nat
  BY DEF FragmentAssumption
<1>2. /\ buf' \in Seq(Unit) /\ Len(buf') = Len(buf) /\ (buf' = <<>> <=> buf = <<>>)
      /\ DOMAIN buf' = DOMAIN buf
      /\ \A k \in DOMAIN buf : buf'[k].from = buf[k].from /\ buf'[k].age = Older(buf[k].age)
  BY <1>1, Aging DEF FragmentShapes
<1>3. /\ startedAge' = IF buf = <<>> THEN 0 ELSE Older(startedAge)
      /\ addr' = addr /\ out' = out /\ dropped' = dropped
  BY DEF Tick
<1>4. FragmentShapes'
  BY <1>1, <1>2, <1>3 DEF FragmentShapes, Older
<1>5. FromOne'
  <2>1. \A k \in DOMAIN buf : buf[k].age \in Nat /\ buf[k].age <= startedAge
    <3>1. \A k \in DOMAIN buf : buf[k] \in Unit
      BY <1>1 DEF FragmentShapes
    <3> QED
      BY <3>1 DEF FromOne, Unit
  <2>2. buf # <<>> => \A k \in DOMAIN buf : Older(buf[k].age) <= Older(startedAge)
    BY <1>1, <2>1 DEF FragmentShapes, Older
  <2> QED
    BY <1>2, <1>3, <2>2 DEF FromOne
<1>6. OneOrigin'
  BY <1>3 DEF OneOrigin
<1> QED
  BY <1>4, <1>5, <1>6

-----------------------------------------------------------------------------
(***************************************************************************)
(* The network, and what a peer that PeerAssumption describes sends.       *)
(***************************************************************************)
Network ==
  /\ next \in [Senders -> Nat \ {0}]
  /\ held \in [Senders -> Datagram \cup {NoPiece}]
  /\ \A s \in Senders : held[s] # NoPiece =>
       /\ \E k \in DOMAIN Sent[s] : held[s] = Sent[s][k]
       /\ next[s] - 1 \in DOMAIN Sent[s]
       /\ <<s, held[s].packet>> \in damaged

\* What is in flight was sent.
LEMMA HeadSent ==
  ASSUME FragmentAssumption, NEW s \in Senders, InFlight(s)
  PROVE  /\ Arrives(Head1(s)) /\ Head1(s) \in Datagram /\ Head1(s).from = s
         /\ \E k \in DOMAIN Sent[s] : Head1(s) = Sent[s][k]
<1>1. Arrives(Head1(s)) /\ \E k \in DOMAIN Sent[s] : Head1(s) = Sent[s][k]
  BY DEF InFlight, Head1, Arrives
<1>2. Head1(s) \in Datagram
  BY <1>1, ArrivedPiece
<1>3. Head1(s).from = s
  BY DEF InFlight, Head1, FragmentAssumption
<1> QED
  BY <1>1, <1>2, <1>3

\* Every delivery is one of a datagram the peer sent.
LEMMA Delivering ==
  ASSUME FragmentAssumption, Network, NEW s \in Senders
  PROVE  /\ Deliver(s) => Arrives(Head1(s)) /\ Head1(s).from = s /\ Push(Head1(s))
         /\ DeliverHeld(s) => Arrives(held[s]) /\ held[s].from = s /\ Push(held[s])
<1>1. ASSUME Deliver(s)
      PROVE  Arrives(Head1(s)) /\ Head1(s).from = s /\ Push(Head1(s))
  BY <1>1, HeadSent DEF Deliver
<1>2. ASSUME DeliverHeld(s)
      PROVE  Arrives(held[s]) /\ held[s].from = s /\ Push(held[s])
  <2>1. PICK k \in DOMAIN Sent[s] : held[s] = Sent[s][k]
    BY <1>2 DEF DeliverHeld, Network
  <2>2. held[s].from = s
    BY <2>1 DEF FragmentAssumption
  <2> QED
    BY <1>2, <2>1, <2>2 DEF DeliverHeld, Arrives
<1> QED
  BY <1>1, <1>2

\* Each step leaves the network one that only holds back what was sent.
LEMMA NetworkStep ==
  ASSUME FragmentAssumption, Network, FragmentsNext
  PROVE  Network' /\ damaged \subseteq damaged'
<1> USE FragmentAssumption DEF Network
<1>1. ASSUME NEW s \in Senders, Deliver(s)
      PROVE  Network' /\ damaged' = damaged
  BY <1>1 DEF Deliver, Advance, InFlight
<1>2. ASSUME NEW s \in Senders, Lose(s)
      PROVE  Network' /\ damaged \subseteq damaged'
  BY <1>2 DEF Lose, Advance, InFlight, Damage
<1>3. ASSUME NEW s \in Senders, HoldBack(s)
      PROVE  Network' /\ damaged \subseteq damaged'
  <2> DEFINE d == Head1(s)
  <2>1. d \in Datagram /\ d.from = s /\ \E k \in DOMAIN Sent[s] : d = Sent[s][k]
    BY <1>3, HeadSent DEF HoldBack
  <2>2. /\ held' = [held EXCEPT ![s] = d] /\ next' = [next EXCEPT ![s] = @ + 1]
        /\ damaged' = damaged \cup {<<s, d.packet>>} /\ next[s] \in DOMAIN Sent[s]
    BY <1>3, <2>1 DEF HoldBack, Advance, InFlight, Damage
  <2> HIDE DEF d
  <2>3. next' \in [Senders -> Nat \ {0}] /\ held' \in [Senders -> Datagram \cup {NoPiece}]
    BY <2>1, <2>2
  <2>4. ASSUME NEW r \in Senders, held'[r] # NoPiece
        PROVE  /\ \E k \in DOMAIN Sent[r] : held'[r] = Sent[r][k]
               /\ next'[r] - 1 \in DOMAIN Sent[r]
               /\ <<r, held'[r].packet>> \in damaged'
    <3>1. CASE r = s
      <4>1. held'[s] = d /\ next'[s] = next[s] + 1 /\ next[s] \in Nat
        BY <2>2
      <4>2. next'[s] - 1 = next[s]
        BY <4>1
      <4> QED
        BY <2>1, <2>2, <3>1, <4>1, <4>2
    <3>2. CASE r # s
      BY <2>2, <2>4, <3>2
    <3> QED
      BY <3>1, <3>2
  <2> QED
    BY <2>2, <2>3, <2>4
<1>4. ASSUME NEW s \in Senders, DeliverHeld(s)
      PROVE  Network' /\ damaged \subseteq damaged'
  BY <1>4 DEF DeliverHeld, Damage
<1>5. ASSUME Tick
      PROVE  Network' /\ damaged' = damaged
  BY <1>5 DEF Tick
<1> QED
  BY <1>1, <1>2, <1>3, <1>4, <1>5 DEF FragmentsNext

\* The assembler is sound throughout.
LEMMA SoundInvariance == ASSUME FragmentAssumption PROVE FragmentsSpec => [](Sound /\ Network)
<1>1. FragmentsInit => Sound /\ Network
  <2>1. FragmentsInit => FragmentShapes /\ FromOne /\ OneOrigin
    BY DEF FragmentsInit, FragmentShapes, FromOne, OneOrigin, FragmentAssumption
  <2>2. FragmentsInit => Network
    BY DEF FragmentsInit, Network
  <2> QED
    BY <2>1, <2>2 DEF Sound
<1>2. ASSUME Sound, Network, [FragmentsNext]_fragments
      PROVE  Sound' /\ Network'
  <2>1. CASE UNCHANGED fragments
    BY <1>2, <2>1 DEF fragments, code, observer, Sound, FragmentShapes, FromOne, OneOrigin, Network
  <2>2. ASSUME NEW s \in Senders, Lose(s) \/ HoldBack(s)
        PROVE  Sound'
    BY <1>2, <2>2 DEF Lose, HoldBack, code, Sound, FragmentShapes, FromOne, OneOrigin
  <2>3. ASSUME NEW s \in Senders, Deliver(s) \/ DeliverHeld(s)
        PROVE  Sound'
    BY <1>2, <2>3, Delivering, PushSound
  <2>4. ASSUME Tick
        PROVE  Sound'
    BY <1>2, <2>4, TickSound
  <2> QED
    BY <1>2, <2>1, <2>2, <2>3, <2>4, NetworkStep DEF FragmentsNext
<1> QED
  BY <1>1, <1>2, PTL DEF FragmentsSpec

\* Whatever arrives, what is handed on has the length of a packet, comes from one sender
\* and from pieces that arrived within the limit of each other.
THEOREM OneOriginCorrect ==
  ASSUME FragmentAssumption
  PROVE  FragmentsSpec => [](FragmentsTypeOK /\ OneOrigin)
<1>1. Sound => FragmentsTypeOK /\ OneOrigin
  BY DEF Sound, FragmentShapes, FragmentsTypeOK
<1> QED
  BY <1>1, SoundInvariance, PTL

-----------------------------------------------------------------------------
(***************************************************************************)
(* Mixtures.  A buffer that begins with the first piece of a packet is     *)
(* either continued by what its sender sends next, or all its packets were *)
(* damaged, and the one its sender continues next as well.  A mixture can  *)
(* then be completed by a damaged packet only: what begins a packet is     *)
(* longer than half of it, so that a beginning never completes another.    *)
(***************************************************************************)

\* A piece of a packet, and the pieces the peer sends before and after it.
LEMMA PeerSends ==
  ASSUME FragmentAssumption, PeerAssumption,
         NEW s \in Senders, NEW k \in DOMAIN Sent[s], NEW d, d = Sent[s][k]
  PROVE  /\ d \in Datagram /\ d.first \in Nat /\ d.size \in Nat /\ d.packet \in Nat
         /\ d.size \in 1 .. Size => d.first \in 1 .. Size + 1 - d.size
         /\ d.first >= 1 => d.size \in 1 .. Size
         /\ d.first = 1 => 2 * d.size > Size
         /\ d.first > 1 => k - 1 \in DOMAIN Sent[s] /\ Sent[s][k - 1].packet = d.packet
         /\ d.size \in 1 .. Size /\ d.first + d.size <= Size =>
              /\ k + 1 \in DOMAIN Sent[s] /\ Sent[s][k + 1].packet = d.packet
              /\ Sent[s][k + 1].first = d.first + d.size
         /\ d.size \in 1 .. Size =>
              \A part \in 1 .. Size : <<d.packet, part>> \in Header <=> part = 1
<1>1. Sent[s] \in Seq(Datagram) /\ Size \in Nat
  BY DEF FragmentAssumption
<1>2. d \in Datagram
  BY <1>1
<1>3. d.first \in Nat /\ d.size \in Nat /\ d.packet \in Nat
  BY <1>2 DEF Datagram
<1>4. IF d.size \notin 1 .. Size THEN d.first = 0
      ELSE /\ d.first \in 1 .. Size + 1 - d.size
           /\ d.first = 1 => 2 * d.size > Size
           /\ d.first > 1 => k > 1 /\ Continues(Sent[s][k - 1], d)
           /\ d.first + d.size <= Size => k < Len(Sent[s]) /\ Continues(d, Sent[s][k + 1])
           /\ \A part \in 1 .. Size : <<d.packet, part>> \in Header <=> part = 1
  BY DEF PeerAssumption
<1>5. k \in 1 .. Len(Sent[s]) /\ DOMAIN Sent[s] = 1 .. Len(Sent[s]) /\ Len(Sent[s]) \in Nat
  BY <1>1
<1> QED
  BY <1>1, <1>2, <1>3, <1>4, <1>5 DEF Continues

\* Units behind others come from the packets of both.
LEMMA JoinedFields ==
  ASSUME NEW s \in Seq(Unit), NEW d \in Datagram
  PROVE  /\ s \o Units(d) \in Seq(Unit) /\ Len(s \o Units(d)) = Len(s) + d.size
         /\ \A k \in 1 .. Len(s) : (s \o Units(d))[k] = s[k]
         /\ \A k \in Len(s) + 1 .. Len(s) + d.size :
              /\ (s \o Units(d))[k].from = d.from /\ (s \o Units(d))[k].packet = d.packet
              /\ (s \o Units(d))[k].part = d.first + (k - Len(s)) - 1
<1>1. ASSUME NEW k \in Len(s) + 1 .. Len(s) + d.size
      PROVE  /\ (s \o Units(d))[k].from = d.from /\ (s \o Units(d))[k].packet = d.packet
             /\ (s \o Units(d))[k].part = d.first + (k - Len(s)) - 1
  <2>1. (s \o Units(d))[k] = [from |-> d.from, packet |-> d.packet,
                              part |-> d.first + (k - Len(s)) - 1, age |-> 0]
    BY Joining
  <2> QED
    BY <2>1
<1>2. /\ s \o Units(d) \in Seq(Unit) /\ Len(s \o Units(d)) = Len(s) + d.size
      /\ \A k \in 1 .. Len(s) : (s \o Units(d))[k] = s[k]
  BY Joining
<1> QED
  BY <1>1, <1>2

\* The sender, packet and place of a datagram's units.
LEMMA UnitFields ==
  ASSUME NEW d \in Datagram
  PROVE  /\ Units(d) \in Seq(Unit) /\ Len(Units(d)) = d.size
         /\ \A k \in 1 .. d.size :
              /\ Units(d)[k].from = d.from /\ Units(d)[k].packet = d.packet
              /\ Units(d)[k].part = d.first + k - 1
<1>1. ASSUME NEW k \in 1 .. d.size
      PROVE  /\ Units(d)[k].from = d.from /\ Units(d)[k].packet = d.packet
             /\ Units(d)[k].part = d.first + k - 1
  <2>1. Units(d)[k] = [from |-> d.from, packet |-> d.packet, part |-> d.first + k - 1, age |-> 0]
    BY UnitsOf
  <2> QED
    BY <2>1
<1>2. Units(d) \in Seq(Unit) /\ Len(Units(d)) = d.size
  BY UnitsOf
<1> QED
  BY <1>1, <1>2

\* Joined units are of the packets the parts are of.
LEMMA JoinedPackets ==
  ASSUME NEW s \in Seq(Unit), NEW d \in Datagram, NEW P, d.packet \in P,
         \A k \in DOMAIN s : s[k].packet \in P
  PROVE  \A k \in DOMAIN (s \o Units(d)) : (s \o Units(d))[k].packet \in P
<1> DEFINE t == s \o Units(d)
<1>1. /\ t \in Seq(Unit) /\ Len(t) = Len(s) + d.size
      /\ \A k \in 1 .. Len(s) : t[k] = s[k]
      /\ \A k \in Len(s) + 1 .. Len(s) + d.size : t[k].packet = d.packet
  BY JoinedFields
<1>2. Len(s) \in Nat /\ d.size \in Nat /\ DOMAIN s = 1 .. Len(s)
  BY DEF Datagram
<1> HIDE DEF t
<1>3. DOMAIN t = 1 .. Len(t)
  BY <1>1
<1>4. \A k \in DOMAIN t : t[k].packet \in P
  BY <1>1, <1>2, <1>3
<1> QED
  BY <1>4 DEF t

\* A buffer begins with a header just when it begins a packet, and then holds more than half.
Headed ==
  buf # <<>> => /\ <<buf[1].packet, buf[1].part>> \in Header <=> buf[1].part = 1
                /\ buf[1].part = 1 => 2 * Len(buf) > Size

\* A datagram keeps that.
LEMMA PushHeaded ==
  ASSUME FragmentAssumption, PeerAssumption, Sound, Headed, NEW d, Arrives(d), Push(d)
  PROVE  Headed'
<1>0. PICK s \in Senders : \E k \in DOMAIN Sent[s] : d = Sent[s][k]
  BY DEF Arrives
<1>1. PICK k \in DOMAIN Sent[s] : d = Sent[s][k]
  BY <1>0
<1>2. d \in Datagram /\ Size \in Nat /\ buf \in Seq(Unit) /\ Len(buf) < Size /\ startedAge \in Nat
  BY <1>1, PeerSends DEF FragmentAssumption, Sound, FragmentShapes
<1>3. AsPacket(d) \/ Refused(d) \/ Begun(d) \/ Continued(d) \/ Completed(d)
  BY <1>2, Pushing
<1>4. CASE AsPacket(d) \/ Refused(d) \/ Completed(d)
  BY <1>4 DEF AsPacket, Refused, Completed, Emptied, Headed
<1>5. CASE Begun(d)
  <2>1. d.size \in 1 .. Size - 1 /\ buf' = Units(d)
    BY <1>5 DEF Begun
  <2>2. d.size \in 1 .. Size
    BY <1>2, <2>1
  <2>3. /\ d.first \in 1 .. Size + 1 - d.size /\ (d.first = 1 => 2 * d.size > Size)
        /\ \A part \in 1 .. Size : <<d.packet, part>> \in Header <=> part = 1
    BY <1>1, <2>2, PeerSends
  <2>4. d.first \in 1 .. Size /\ d.first + 1 - 1 = d.first /\ 1 \in 1 .. d.size
    BY <1>2, <2>2, <2>3
  <2>5. /\ Len(Units(d)) = d.size
        /\ Units(d)[1].packet = d.packet /\ Units(d)[1].part = d.first + 1 - 1
    BY <1>2, <2>4, UnitFields
  <2>6. Len(buf') = d.size /\ buf'[1].packet = d.packet /\ buf'[1].part = d.first
    BY <2>1, <2>4, <2>5
  <2> QED
    BY <2>3, <2>4, <2>6 DEF Headed
<1>6. CASE Continued(d)
  <2>1. buf # <<>> /\ buf' = buf \o Units(d) /\ d.size \in Nat
    BY <1>2, <1>6 DEF Continued, Related
  <2>2. Len(buf') >= Len(buf) /\ buf'[1] = buf[1] /\ Len(buf) \in Nat /\ Len(buf') \in Nat
    BY <1>2, <2>1, JoinedFields
  <2> QED
    BY <1>2, <2>1, <2>2 DEF Headed
<1> QED
  BY <1>3, <1>4, <1>5, <1>6

\* What comes behind more than half a packet does not begin one.
LEMMA NotABeginning ==
  ASSUME FragmentAssumption, PeerAssumption, Sound, Headed, NEW d, Arrives(d), Related(d),
         buf[1].part = 1, Len(buf) + d.size <= Size
  PROVE  d.first > 1
<1>0. PICK s \in Senders : \E k \in DOMAIN Sent[s] : d = Sent[s][k]
  BY DEF Arrives
<1>1. PICK k \in DOMAIN Sent[s] : d = Sent[s][k]
  BY <1>0
<1>2. Size \in Nat /\ Len(buf) \in Nat /\ 2 * Len(buf) > Size
  BY DEF Related, Headed, FragmentAssumption, Sound, FragmentShapes
<1>3. d.size \in 1 .. Size /\ d.size \in Nat
  BY <1>2 DEF Related
<1>4. 2 * d.size <= Size
  BY <1>2, <1>3
<1>5. d.first \in 1 .. Size + 1 - d.size /\ (d.first = 1 => 2 * d.size > Size)
  BY <1>1, <1>3, PeerSends
<1> QED
  BY <1>2, <1>3, <1>4, <1>5

\* The sender of the buffer continues it next.
InRun(s) ==
  /\ InFlight(s) /\ Head1(s).first = Len(buf) + 1
  /\ \A k \in DOMAIN buf : buf[k].packet = Head1(s).packet

Hurt(s) == {p \in Nat : <<s, p>> \in damaged}
HeadHurt(s) == InFlight(s) /\ Head1(s).first > 1 => Head1(s).packet \in Hurt(s)
Spoilt(s) == HeadHurt(s) /\ \A k \in DOMAIN buf : buf[k].packet \in Hurt(s)

Kept ==
  \A s \in Senders :
    buf # <<>> /\ addr = s /\ buf[1].part = 1 => InRun(s) \/ Spoilt(s)

\* A sender whose packet was damaged continues a damaged packet, if it continues one.
LEMMA NextHurt ==
  ASSUME FragmentAssumption, PeerAssumption, NEW s \in Senders, NEW n \in DOMAIN Sent[s],
         NEW D, <<s, Sent[s][n].packet>> \in D,
         n + 1 \in DOMAIN Sent[s], Sent[s][n + 1].first > 1
  PROVE  <<s, Sent[s][n + 1].packet>> \in D
<1> DEFINE m == n + 1
<1>1. n \in Nat /\ m - 1 = n
  BY DEF FragmentAssumption
<1>2. Sent[s][m - 1].packet = Sent[s][m].packet
  <2> HIDE DEF m
  <2> QED
    BY PeerSends DEF m
<1> QED
  BY <1>1, <1>2

\* All of a buffer that one joins come from its sender.
LEMMA JoinedSender ==
  ASSUME FragmentAssumption, Sound, NEW d \in Datagram, Related(d)
  PROVE  \A k \in DOMAIN (buf \o Units(d)) : (buf \o Units(d))[k].from = d.from
<1> DEFINE t == buf \o Units(d)
<1>1. buf \in Seq(Unit) /\ Len(buf) \in Nat /\ d.size \in Nat
  BY DEF Sound, FragmentShapes, Datagram
<1>2. /\ t \in Seq(Unit) /\ Len(t) = Len(buf) + d.size
      /\ \A k \in 1 .. Len(buf) : t[k] = buf[k]
      /\ \A k \in Len(buf) + 1 .. Len(buf) + d.size : t[k].from = d.from
  BY <1>1, JoinedFields
<1>3. \A k \in 1 .. Len(buf) : buf[k].from = d.from
  BY <1>1 DEF Sound, FromOne, Related
<1> HIDE DEF t
<1>4. DOMAIN t = 1 .. Len(t)
  BY <1>2
<1>5. \A k \in DOMAIN t : t[k].from = d.from
  BY <1>1, <1>2, <1>3, <1>4
<1> QED
  BY <1>5 DEF t

\* What one delivery hands on is mixed only if what it joins is all damaged.
LEMMA PushMixes ==
  ASSUME FragmentAssumption, PeerAssumption, Sound, Headed, NEW d, Arrives(d), Push(d),
         NEW P, d.packet \in P, damaged \subseteq damaged',
         Related(d) /\ buf[1].part = 1 /\ Len(buf) + d.size <= Size =>
           \A k \in DOMAIN buf : buf[k].packet \in P,
         \/ \A p \in P : p = d.packet
         \/ \A p \in P : <<d.from, p>> \in damaged'
  PROVE  MixedOnlyFromDamaged'
<1>2. d \in Datagram /\ Size \in Nat /\ buf \in Seq(Unit) /\ Len(buf) < Size /\ startedAge \in Nat
  BY ArrivedPiece DEF FragmentAssumption, Sound, FragmentShapes
<1>3. AsPacket(d) \/ Refused(d) \/ Begun(d) \/ Continued(d) \/ Completed(d)
  BY <1>2, Pushing
<1>4. CASE out' = <<>>
  BY <1>4 DEF MixedOnlyFromDamaged
<1>5. CASE AsPacket(d)
  <2>1. /\ out' \in Seq(Unit) /\ Len(out') = d.size
        /\ \A k \in 1 .. d.size : out'[k].packet = d.packet
    BY <1>2, <1>5, UnitFields DEF AsPacket
  <2>2. DOMAIN out' = 1 .. d.size
    BY <2>1
  <2> QED
    BY <2>1, <2>2 DEF MixedOnlyFromDamaged
<1>6. CASE Completed(d) /\ out' # <<>>
  <2>1. /\ Related(d) /\ Len(buf) + d.size = Size
        /\ <<buf[1].packet, buf[1].part>> \in Header /\ out' = buf \o Units(d)
    BY <1>6 DEF Completed
  <2>2. buf[1].part = 1 /\ Len(buf) + d.size <= Size
    BY <1>2, <2>1 DEF Related, Headed
  <2>3. \A k \in DOMAIN buf : buf[k].packet \in P
    BY <2>1, <2>2
  <2>4. \A k \in DOMAIN out' : out'[k].packet \in P
    BY <1>2, <2>1, <2>3, JoinedPackets
  <2>5. \A k \in DOMAIN out' : out'[k].from = d.from
    BY <1>2, <2>1, JoinedSender
  <2> QED
    BY <2>4, <2>5 DEF MixedOnlyFromDamaged
<1> QED
  BY <1>3, <1>4, <1>5, <1>6 DEF Refused, Begun, Continued

\* A datagram that arrives when it was sent.
LEMMA DeliverMixes ==
  ASSUME FragmentAssumption, PeerAssumption, Sound, Network, Headed, Kept,
         NEW s \in Senders, Deliver(s)
  PROVE  MixedOnlyFromDamaged' /\ Kept'
<1> DEFINE d == Head1(s)
           n == next[s]
<1>1. /\ Arrives(d) /\ d.from = s /\ Push(d) /\ damaged' = damaged
      /\ n \in DOMAIN Sent[s] /\ d = Sent[s][n] /\ next' = [next EXCEPT ![s] = n + 1]
  BY Delivering DEF Deliver, InFlight, Head1, Advance
<1>2. /\ d \in Datagram /\ d.size \in Nat /\ d.first \in Nat /\ d.packet \in Nat
      /\ Size \in Nat /\ buf \in Seq(Unit) /\ Len(buf) \in Nat
      /\ Len(buf) < Size /\ startedAge \in Nat
  BY <1>1, PeerSends DEF FragmentAssumption, Sound, FragmentShapes
<1>3. /\ next'[s] = n + 1 /\ InFlight(s)
      /\ InFlight(s)' <=> n + 1 \in DOMAIN Sent[s]
      /\ Head1(s)' = Sent[s][n + 1]
  BY <1>1 DEF InFlight, Head1, Network
<1> HIDE DEF d, n
<1>4. ASSUME Related(d), buf[1].part = 1, Len(buf) + d.size <= Size
      PROVE  /\ addr = s /\ d.first > 1
             /\ \/ d.first = Len(buf) + 1 /\ \A k \in DOMAIN buf : buf[k].packet = d.packet
                \/ d.packet \in Hurt(s) /\ \A k \in DOMAIN buf : buf[k].packet \in Hurt(s)
  <2>1. d.first > 1 /\ addr = s
    BY <1>1, <1>4, NotABeginning DEF Related
  <2> QED
    BY <1>3, <1>4, <2>1 DEF Kept, Related, InRun, Spoilt, HeadHurt, d
<1>5. MixedOnlyFromDamaged'
  <2>1. CASE Related(d) /\ buf[1].part = 1 /\ Len(buf) + d.size <= Size
              /\ ~ \A k \in DOMAIN buf : buf[k].packet = d.packet
    <3>1. d.packet \in Hurt(s) /\ \A k \in DOMAIN buf : buf[k].packet \in Hurt(s)
      BY <1>4, <2>1
    <3>2. \A p \in Hurt(s) : <<d.from, p>> \in damaged'
      BY <1>1 DEF Hurt
    <3> QED
      BY <1>1, <3>1, <3>2, PushMixes
  <2>2. CASE ~(Related(d) /\ buf[1].part = 1 /\ Len(buf) + d.size <= Size
                 /\ ~ \A k \in DOMAIN buf : buf[k].packet = d.packet)
    <3> DEFINE P == {d.packet}
    <3>1. /\ d.packet \in P /\ \A p \in P : p = d.packet
          /\ Related(d) /\ buf[1].part = 1 /\ Len(buf) + d.size <= Size =>
               \A k \in DOMAIN buf : buf[k].packet \in P
      BY <2>2
    <3> HIDE DEF P
    <3> QED
      BY <1>1, <3>1, PushMixes
  <2> QED
    BY <2>1, <2>2
<1>6. AsPacket(d) \/ Refused(d) \/ Begun(d) \/ Continued(d) \/ Completed(d)
  BY <1>1, <1>2, Pushing
<1>7. CASE buf' = <<>>
  BY <1>5, <1>7 DEF Kept
<1>8. CASE Begun(d) /\ buf'[1].part = 1
  <2>1. d.size \in 1 .. Size - 1 /\ buf' = Units(d) /\ addr' = s
    BY <1>1, <1>8 DEF Begun
  <2>2. /\ buf' \in Seq(Unit) /\ Len(buf') = d.size
        /\ \A k \in 1 .. d.size : buf'[k].packet = d.packet /\ buf'[k].part = d.first + k - 1
    BY <1>2, <2>1, UnitFields
  <2>3. d.first = 1 /\ d.size \in 1 .. Size
    BY <1>2, <1>8, <2>1, <2>2
  <2>4. d.first + d.size <= Size
    BY <1>2, <2>1, <2>3
  <2>5. /\ n + 1 \in DOMAIN Sent[s] /\ Sent[s][n + 1].packet = d.packet
        /\ Sent[s][n + 1].first = d.first + d.size
    BY <1>1, <2>3, <2>4, PeerSends
  <2>6. DOMAIN buf' = 1 .. d.size
    BY <2>2
  <2>7. InRun(s)'
    BY <1>2, <1>3, <2>2, <2>3, <2>5, <2>6 DEF InRun
  <2> QED
    BY <1>5, <2>1, <2>7 DEF Kept
<1>9. CASE Continued(d) /\ buf'[1].part = 1
  <2>1. /\ Related(d) /\ d.size \in 1 .. Size /\ Len(buf) + d.size < Size
        /\ buf # <<>> /\ buf' = buf \o Units(d) /\ addr' = addr
    BY <1>2, <1>9 DEF Continued, Related
  <2>2. Len(buf') = Len(buf) + d.size /\ buf'[1] = buf[1]
    BY <1>2, <2>1, JoinedFields
  <2>3. buf[1].part = 1 /\ Len(buf) + d.size <= Size
    BY <1>2, <1>9, <2>1, <2>2
  <2>4. addr = s
    BY <1>4, <2>1, <2>3
  <2>5. CASE d.first = Len(buf) + 1 /\ \A k \in DOMAIN buf : buf[k].packet = d.packet
    <3>1. d.first + d.size <= Size
      BY <1>2, <2>1, <2>5
    <3>2. /\ n + 1 \in DOMAIN Sent[s] /\ Sent[s][n + 1].packet = d.packet
          /\ Sent[s][n + 1].first = d.first + d.size
      BY <1>1, <2>1, <3>1, PeerSends
    <3>3. \A k \in DOMAIN buf' : buf'[k].packet = d.packet
      <4> DEFINE P == {d.packet}
      <4>1. d.packet \in P /\ \A k \in DOMAIN buf : buf[k].packet \in P
        BY <2>5
      <4>2. \A p \in P : p = d.packet
        OBVIOUS
      <4> HIDE DEF P
      <4>3. \A k \in DOMAIN buf' : buf'[k].packet \in P
        BY <1>2, <2>1, <4>1, JoinedPackets
      <4> QED
        BY <4>2, <4>3
    <3>4. InFlight(s)' /\ Head1(s)'.first = Len(buf') + 1 /\ Head1(s)'.packet = d.packet
      <4>1. Sent[s][n + 1].first = Len(buf') + 1
        <5>1. d.first + d.size = (Len(buf) + d.size) + 1
          BY <1>2, <2>5
        <5>2. (Len(buf) + d.size) + 1 = Len(buf') + 1
          BY <2>2
        <5> QED
          BY <3>2, <5>1, <5>2
      <4>2. InFlight(s)' /\ Head1(s)' = Sent[s][n + 1]
        BY <1>3, <3>2
      <4> QED
        BY <3>2, <4>1, <4>2
    <3>5. InRun(s)'
      BY <3>3, <3>4 DEF InRun
    <3> QED
      BY <1>5, <2>1, <2>4, <3>5 DEF Kept
  <2>6. CASE d.packet \in Hurt(s) /\ \A k \in DOMAIN buf : buf[k].packet \in Hurt(s)
    <3>1. \A k \in DOMAIN buf' : buf'[k].packet \in Hurt(s)
      BY <1>2, <2>1, <2>6, JoinedPackets
    <3>2. n + 1 \in DOMAIN Sent[s] /\ Sent[s][n + 1].first > 1 =>
            <<s, Sent[s][n + 1].packet>> \in damaged
      BY <1>1, <2>6, NextHurt DEF Hurt
    <3>3. n + 1 \in DOMAIN Sent[s] => Sent[s][n + 1].packet \in Nat
      BY PeerSends
    <3>4. Spoilt(s)'
      BY <1>1, <1>3, <3>1, <3>2, <3>3 DEF Spoilt, HeadHurt, Hurt
    <3> QED
      BY <1>5, <2>1, <2>4, <3>4 DEF Kept
  <2> QED
    BY <1>4, <2>1, <2>3, <2>5, <2>6
<1> QED
  BY <1>5, <1>6, <1>7, <1>8, <1>9 DEF AsPacket, Refused, Completed, Emptied, Kept

\* A datagram that was held back is of a damaged packet, and damages the one it arrives in.
LEMMA DeliverHeldMixes ==
  ASSUME FragmentAssumption, PeerAssumption, Sound, Network, Network', Headed, Kept,
         NEW s \in Senders, DeliverHeld(s)
  PROVE  MixedOnlyFromDamaged' /\ Kept'
<1> DEFINE d == held[s]
           n == next[s]
           P == {p \in Nat : <<s, p>> \in damaged'}
<1>1. /\ Arrives(d) /\ d.from = s /\ Push(d) /\ next' = next
      /\ damaged' = damaged \cup {<<Sent[s][n - 1].from, Sent[s][n - 1].packet>>}
      /\ n - 1 \in DOMAIN Sent[s] /\ <<s, d.packet>> \in damaged
  BY Delivering DEF DeliverHeld, Damage, Network
<1>2. /\ d \in Datagram /\ d.size \in Nat /\ d.packet \in Nat
      /\ Size \in Nat /\ buf \in Seq(Unit) /\ Len(buf) < Size /\ startedAge \in Nat
  <2>1. d \in Datagram
    BY <1>1, ArrivedPiece
  <2>2. d.size \in Nat /\ d.packet \in Nat
    BY <2>1 DEF Datagram
  <2> QED
    BY <2>1, <2>2 DEF FragmentAssumption, Sound, FragmentShapes
<1>3. n \in Nat /\ Sent[s][n - 1].from = s /\ Sent[s][n - 1].packet \in Nat
  BY <1>1, PeerSends DEF FragmentAssumption, Network
<1>4. InFlight(s) /\ Head1(s).first > 1 => Head1(s).packet = Sent[s][n - 1].packet
  <2>1. ASSUME n \in DOMAIN Sent[s], Sent[s][n].first > 1
        PROVE  Sent[s][n].packet = Sent[s][n - 1].packet
    BY <2>1, PeerSends
  <2> QED
    BY <2>1 DEF InFlight, Head1
<1> HIDE DEF d, n, P
<1>5. /\ Sent[s][n - 1].packet \in P /\ d.packet \in P /\ Hurt(s) \subseteq P
      /\ damaged \subseteq damaged' /\ \A p \in P : <<d.from, p>> \in damaged'
  BY <1>1, <1>2, <1>3 DEF P, Hurt
<1>6. ASSUME Related(d), buf[1].part = 1
      PROVE  \A k \in DOMAIN buf : buf[k].packet \in P
  <2>1. addr = s /\ buf # <<>> /\ Len(buf) \in Nat /\ Len(buf) > 0
    BY <1>1, <1>2, <1>6 DEF Related
  <2>2. CASE InRun(s)
    <3>1. Head1(s).first > 1
      BY <2>1, <2>2 DEF InRun
    <3> QED
      BY <1>4, <1>5, <2>2, <3>1 DEF InRun
  <2>3. CASE Spoilt(s)
    BY <1>5, <2>3 DEF Spoilt
  <2> QED
    BY <1>6, <2>1, <2>2, <2>3 DEF Kept
<1>7. MixedOnlyFromDamaged'
  BY <1>1, <1>5, <1>6, PushMixes
<1>8. AsPacket(d) \/ Refused(d) \/ Begun(d) \/ Continued(d) \/ Completed(d)
  BY <1>1, <1>2, Pushing
<1>9. HeadHurt(s)'
  <2>1. InFlight(s)' = InFlight(s) /\ Head1(s)' = Head1(s)
    BY <1>1 DEF InFlight, Head1
  <2>2. Hurt(s)' = P
    BY DEF P, Hurt
  <2> QED
    BY <1>4, <1>5, <2>1, <2>2 DEF HeadHurt
<1>10. Hurt(s)' = P
  BY DEF P, Hurt
<1>11. CASE Begun(d)
  <2>1. d.size \in 1 .. Size - 1 /\ buf' = Units(d) /\ addr' = s
    BY <1>1, <1>11 DEF Begun
  <2>2. buf' \in Seq(Unit) /\ Len(buf') = d.size /\ \A k \in 1 .. d.size : buf'[k].packet = d.packet
    BY <1>2, <2>1, UnitFields
  <2>3. DOMAIN buf' = 1 .. d.size
    BY <2>2
  <2>4. Spoilt(s)'
    BY <1>5, <1>9, <1>10, <2>2, <2>3 DEF Spoilt
  <2> QED
    BY <1>7, <2>1, <2>4 DEF Kept
<1>12. CASE Continued(d) /\ buf'[1].part = 1
  <2>1. Related(d) /\ buf # <<>> /\ buf' = buf \o Units(d) /\ addr' = addr
    BY <1>12 DEF Continued, Related
  <2>2. buf[1].part = 1 /\ addr = s
    BY <1>1, <1>2, <1>12, <2>1, JoinedFields DEF Related
  <2>3. \A k \in DOMAIN buf' : buf'[k].packet \in P
    BY <1>2, <1>5, <1>6, <2>1, <2>2, JoinedPackets
  <2>4. Spoilt(s)'
    BY <1>9, <1>10, <2>3 DEF Spoilt
  <2> QED
    BY <1>7, <2>1, <2>2, <2>4 DEF Kept
<1> QED
  BY <1>7, <1>8, <1>11, <1>12 DEF AsPacket, Refused, Completed, Emptied, Kept

\* A datagram that does not arrive now damages what its sender has begun.
LEMMA MissMixes ==
  ASSUME FragmentAssumption, PeerAssumption, Sound, Network, MixedOnlyFromDamaged, Kept,
         NEW s \in Senders, Lose(s) \/ HoldBack(s)
  PROVE  MixedOnlyFromDamaged' /\ Kept'
<1> DEFINE d == Head1(s)
           n == next[s]
<1>1. /\ n \in DOMAIN Sent[s] /\ d = Sent[s][n] /\ d.from = s /\ d.packet \in Nat /\ InFlight(s)
      /\ next' = [next EXCEPT ![s] = n + 1] /\ damaged' = damaged \cup {<<s, d.packet>>}
      /\ buf' = buf /\ addr' = addr /\ out' = out
  BY HeadSent DEF Lose, HoldBack, InFlight, Head1, Advance, Damage, code, Datagram
<1> HIDE DEF d, n
<1>2. MixedOnlyFromDamaged'
  BY <1>1 DEF MixedOnlyFromDamaged
<1>3. /\ next'[s] = n + 1
      /\ InFlight(s)' <=> n + 1 \in DOMAIN Sent[s]
      /\ Head1(s)' = Sent[s][n + 1]
      /\ \A r \in Senders \ {s} : InFlight(r)' = InFlight(r) /\ Head1(r)' = Head1(r)
  BY <1>1 DEF InFlight, Head1, Network
<1>4. \A r \in Senders : Hurt(r) \subseteq Hurt(r)'
  BY <1>1 DEF Hurt
<1>5. d.packet \in Hurt(s)'
  BY <1>1 DEF Hurt
<1>6. HeadHurt(s)'
  <2>1. ASSUME n + 1 \in DOMAIN Sent[s], Sent[s][n + 1].first > 1
        PROVE  <<s, Sent[s][n + 1].packet>> \in damaged' /\ Sent[s][n + 1].packet \in Nat
    <3>1. <<s, Sent[s][n].packet>> \in damaged'
      BY <1>1
    <3>2. <<s, Sent[s][n + 1].packet>> \in damaged'
      BY <1>1, <2>1, <3>1, NextHurt
    <3>3. Sent[s][n + 1].packet \in Nat
      BY <2>1, PeerSends
    <3> QED
      BY <3>2, <3>3
  <2> QED
    BY <1>3, <2>1 DEF HeadHurt, Hurt
<1>7. ASSUME NEW r \in Senders, buf' # <<>>, addr' = r, buf'[1].part = 1
      PROVE  InRun(r)' \/ Spoilt(r)'
  <2>1. InRun(r) \/ Spoilt(r)
    BY <1>1, <1>7 DEF Kept
  <2>2. CASE r = s
    <3>1. \A k \in DOMAIN buf : buf[k].packet \in Hurt(s)'
      BY <1>4, <1>5, <2>1, <2>2 DEF InRun, Spoilt, d
    <3> QED
      BY <1>1, <1>6, <2>2, <3>1 DEF Spoilt
  <2>3. CASE r # s
    BY <1>1, <1>3, <1>4, <2>1, <2>3 DEF InRun, Spoilt, HeadHurt
  <2> QED
    BY <2>2, <2>3
<1>8. Kept'
  BY <1>7 DEF Kept
<1> QED
  BY <1>2, <1>8

\* So does the passing of time.
LEMMA TickMixes ==
  ASSUME FragmentAssumption, Sound, Headed, MixedOnlyFromDamaged, Kept, Tick
  PROVE  Headed' /\ MixedOnlyFromDamaged' /\ Kept'
<1>1. /\ Len(buf') = Len(buf) /\ (buf' = <<>> <=> buf = <<>>) /\ DOMAIN buf' = DOMAIN buf
      /\ \A k \in DOMAIN buf : buf'[k].packet = buf[k].packet /\ buf'[k].part = buf[k].part
  BY Aging DEF Sound, FragmentShapes
<1>2. addr' = addr /\ out' = out /\ next' = next /\ damaged' = damaged
  BY DEF Tick
<1>3. buf # <<>> => buf'[1].packet = buf[1].packet /\ buf'[1].part = buf[1].part
  <2>1. buf # <<>> => 1 \in DOMAIN buf
    BY DEF Sound, FragmentShapes
  <2> QED
    BY <1>1, <2>1
<1>4. Headed' /\ MixedOnlyFromDamaged'
  BY <1>1, <1>2, <1>3 DEF Headed, MixedOnlyFromDamaged
<1>5. ASSUME NEW s \in Senders
      PROVE  (InRun(s) => InRun(s)') /\ (Spoilt(s) => Spoilt(s)')
  BY <1>1, <1>2 DEF InRun, Spoilt, HeadHurt, Hurt, InFlight, Head1
<1>6. Kept'
  BY <1>1, <1>2, <1>3, <1>5 DEF Kept
<1> QED
  BY <1>4, <1>6

MixInv == Sound /\ Network /\ Headed /\ Kept /\ MixedOnlyFromDamaged

\* Each step keeps the invariant.
LEMMA MixStep ==
  ASSUME FragmentAssumption, PeerAssumption, MixInv, Sound', Network', [FragmentsNext]_fragments
  PROVE  MixInv'
<1> USE DEF MixInv
<1>1. CASE UNCHANGED fragments
  <2>1. /\ buf' = buf /\ addr' = addr /\ out' = out /\ next' = next /\ damaged' = damaged
    BY <1>1 DEF fragments, code
  <2>2. Kept'
    BY <2>1 DEF Kept, InRun, Spoilt, HeadHurt, Hurt, InFlight, Head1
  <2> QED
    BY <2>1, <2>2 DEF Headed, MixedOnlyFromDamaged
<1>2. ASSUME NEW s \in Senders, Deliver(s)
      PROVE  Headed' /\ Kept' /\ MixedOnlyFromDamaged'
  BY <1>2, Delivering, PushHeaded, DeliverMixes
<1>3. ASSUME NEW s \in Senders, DeliverHeld(s)
      PROVE  Headed' /\ Kept' /\ MixedOnlyFromDamaged'
  BY <1>3, Delivering, PushHeaded, DeliverHeldMixes
<1>4. ASSUME NEW s \in Senders, Lose(s) \/ HoldBack(s)
      PROVE  Headed' /\ Kept' /\ MixedOnlyFromDamaged'
  <2>1. Headed'
    BY <1>4 DEF Lose, HoldBack, code, Headed
  <2> QED
    BY <1>4, <2>1, MissMixes
<1>5. ASSUME Tick
      PROVE  Headed' /\ Kept' /\ MixedOnlyFromDamaged'
  BY <1>5, TickMixes
<1> QED
  BY <1>1, <1>2, <1>3, <1>4, <1>5 DEF FragmentsNext

-----------------------------------------------------------------------------
(***************************************************************************)
(* Recovery.  While the arrivals are in step the buffer holds what has     *)
(* come of the packet of the last piece, from its first unit on, and when  *)
(* that piece ends its packet the buffer is empty.  The assembler's clock  *)
(* starts no later than the observer's pause.                              *)
(***************************************************************************)
IsRun(units, d, n) ==
  /\ Len(units) = n
  /\ \A k \in 1 .. n :
       units[k].from = d.from /\ units[k].packet = d.packet /\ units[k].part = k

InStep ==
  /\ prev.first >= 1
  /\ prev.first + prev.size <= Size =>
       startedAge = since /\ IsRun(buf, prev, prev.first + prev.size - 1)
  /\ prev.first + prev.size > Size => buf = <<>>

Following ==
  /\ quiet \in Nat /\ quiet <= Limit + 1 /\ since \in Nat
  /\ prev = NoPiece => buf = <<>>
  /\ prev # NoPiece => Arrives(prev)
  /\ buf # <<>> => addr = prev.from /\ startedAge >= quiet
  /\ sync /\ prev # NoPiece => InStep

HandedOn(d) == Len(out') = Size /\ IsRun(out', d, Size)

\* A piece that puts or keeps the arrivals in step.
LEMMA PushInStep ==
  ASSUME FragmentAssumption, PeerAssumption, Sound, Following,
         NEW d, Arrives(d), Push(d), sync'
  PROVE  InStep' /\ (LastPiece(d) => HandedOn(d))
<1>0. PICK s \in Senders : \E k \in DOMAIN Sent[s] : d = Sent[s][k]
  BY DEF Arrives
<1>1. PICK k \in DOMAIN Sent[s] : d = Sent[s][k]
  BY <1>0
<1>2. /\ d \in Datagram /\ d.first \in Nat /\ d.size \in Nat /\ d.from \in Senders
      /\ Size \in Nat \ {0} /\ Limit \in Nat
      /\ buf \in Seq(Unit) /\ Len(buf) < Size /\ startedAge \in Nat
  BY <1>1, ArrivedPiece, PeerSends DEF FragmentAssumption, Sound, FragmentShapes
<1>3. AsPacket(d) \/ Refused(d) \/ Begun(d) \/ Continued(d) \/ Completed(d)
  BY <1>2, Pushing
<1>4. /\ d.size \in 1 .. Size => d.first \in 1 .. Size + 1 - d.size
      /\ d.first >= 1 => d.size \in 1 .. Size
  BY <1>1, PeerSends
<1>5. prev' = d /\ since' = (IF d.first = 1 THEN 0 ELSE since)
  BY DEF Push, Observe
<1>6. CASE Whole(d)
  <2>1. d.size = Size /\ d.first = 1 /\ Size \in 1 .. Size
    BY <1>2, <1>4, <1>6 DEF Whole
  <2>2. AsPacket(d)
    BY <1>2, <1>3, <2>1 DEF Refused, Begun, Continued, Completed, Related
  <2>3. buf' = <<>> /\ out' = Units(d)
    BY <2>2 DEF AsPacket, Emptied
  <2>4. HandedOn(d)
    <3>1. /\ Len(out') = d.size
          /\ \A i \in 1 .. d.size : /\ out'[i].from = d.from /\ out'[i].packet = d.packet
                                    /\ out'[i].part = d.first + i - 1
      BY <1>2, <2>3, UnitFields
    <3>2. \A i \in 1 .. Size : d.first + i - 1 = i
      BY <2>1
    <3> QED
      BY <2>1, <3>1, <3>2 DEF HandedOn, IsRun
  <2>5. InStep'
    BY <1>2, <1>5, <2>1, <2>3 DEF InStep
  <2> QED
    BY <2>4, <2>5
<1>7. CASE ~Whole(d) /\ d.first = 1
           /\ (quiet > Limit \/ d.from # prev.from \/ (sync /\ LastPiece(prev)))
  <2>1. d.size \in 1 .. Size - 1
    BY <1>2, <1>4, <1>7 DEF Whole
  <2>2. ~Related(d)
    <3>1. ASSUME buf # <<>>, addr = d.from
          PROVE  startedAge > Limit
      <4>1. prev # NoPiece /\ d.from = prev.from /\ startedAge >= quiet /\ quiet \in Nat
        BY <3>1 DEF Following
      <4>2. ~(sync /\ LastPiece(prev))
        <5>1. prev \in Datagram
          BY <4>1, ArrivedPiece DEF Following
        <5>2. prev.first \in Nat /\ prev.size \in Nat
          BY <5>1 DEF Datagram
        <5>3. LastPiece(prev) => prev.first + prev.size > Size
          BY <1>2, <5>2 DEF LastPiece
        <5> QED
          BY <3>1, <4>1, <5>3 DEF Following, InStep
      <4> QED
        BY <1>2, <1>7, <4>1, <4>2
    <3> QED
      BY <1>2, <3>1 DEF Related
  <2>3. Begun(d)
    BY <1>2, <1>3, <2>1, <2>2 DEF AsPacket, Whole, Refused, Continued, Completed
  <2>4. buf' = Units(d) /\ startedAge' = 0 /\ since' = 0
    BY <1>5, <1>7, <2>3 DEF Begun
  <2>5. IsRun(buf', d, d.size)
    <3>1. /\ Len(buf') = d.size
          /\ \A i \in 1 .. d.size : /\ buf'[i].from = d.from /\ buf'[i].packet = d.packet
                                    /\ buf'[i].part = d.first + i - 1
      BY <1>2, <2>4, UnitFields
    <3>2. \A i \in 1 .. d.size : d.first + i - 1 = i
      BY <1>2, <1>7
    <3> QED
      BY <3>1, <3>2 DEF IsRun
  <2>6. d.first + d.size - 1 = d.size /\ d.first + d.size <= Size /\ ~LastPiece(d)
    BY <1>2, <1>7, <2>1 DEF LastPiece
  <2>7. InStep'
    BY <1>2, <1>5, <1>7, <2>4, <2>5, <2>6 DEF InStep
  <2> QED
    BY <2>6, <2>7
<1>8. CASE ~Whole(d) /\ sync /\ since <= Limit /\ d.from = prev.from /\ d.packet = prev.packet
           /\ d.first = prev.first + prev.size
  <2> DEFINE e == prev.first + prev.size - 1
  <2>1. prev # NoPiece
    BY <1>2, <1>8 DEF NoPiece, FragmentAssumption
  <2>2. InStep /\ Arrives(prev)
    BY <1>8, <2>1 DEF Following
  <2>3. prev.first \in Nat /\ prev.size \in Nat /\ prev.size >= 1 /\ prev.first >= 1
    <3>0. PICK r \in Senders : \E i \in DOMAIN Sent[r] : prev = Sent[r][i]
      BY <2>2 DEF Arrives
    <3>1. PICK i \in DOMAIN Sent[r] : prev = Sent[r][i]
      BY <3>0
    <3>2. prev.first \in Nat /\ prev.size \in Nat /\ (prev.first >= 1 => prev.size \in 1 .. Size)
      BY <3>1, PeerSends
    <3>3. prev.first >= 1
      BY <2>2 DEF InStep
    <3> QED
      BY <3>2, <3>3
  <2>4. d.first >= 2 /\ d.size \in 1 .. Size - 1 /\ d.first + d.size <= Size + 1
    BY <1>2, <1>4, <1>8, <2>3 DEF Whole
  <2>5. prev.first + prev.size <= Size /\ e \in 1 .. Size - 1 /\ d.first = e + 1
    <3>1. d.first = prev.first + prev.size
      BY <1>8
    <3>2. d.first <= Size
      BY <1>2, <2>4
    <3>3. e = d.first - 1
      BY <1>2, <2>3, <3>1
    <3> QED
      BY <1>2, <2>4, <3>1, <3>2, <3>3
  <2> HIDE DEF e
  <2>6. startedAge = since /\ IsRun(buf, prev, e)
    BY <2>2, <2>5 DEF InStep, e
  <2>7. buf # <<>> /\ Len(buf) = e /\ addr = d.from /\ startedAge <= Limit
    BY <1>2, <1>8, <2>5, <2>6 DEF IsRun, Following
  <2>8. ~Unrelated(d)
    BY <1>2, <2>4, <2>5, <2>7 DEF Unrelated
  <2>9. IsRun(buf \o Units(d), d, e + d.size)
    <3> DEFINE t == buf \o Units(d)
    <3>1. /\ Len(t) = Len(buf) + d.size
          /\ \A i \in 1 .. Len(buf) : t[i] = buf[i]
          /\ \A i \in Len(buf) + 1 .. Len(buf) + d.size :
               /\ t[i].from = d.from /\ t[i].packet = d.packet
               /\ t[i].part = d.first + (i - Len(buf)) - 1
      BY <1>2, JoinedFields
    <3> HIDE DEF t
    <3>2. \A i \in e + 1 .. e + d.size : d.first + (i - e) - 1 = i
      BY <1>2, <2>5
    <3>3. \A i \in 1 .. e :
            buf[i].from = d.from /\ buf[i].packet = d.packet /\ buf[i].part = i
      BY <1>8, <2>6 DEF IsRun
    <3>4. ASSUME NEW i \in 1 .. e + d.size
          PROVE  t[i].from = d.from /\ t[i].packet = d.packet /\ t[i].part = i
      <4>1. CASE i \in 1 .. e
        BY <2>7, <3>1, <3>3, <4>1
      <4>2. CASE i \in e + 1 .. e + d.size
        BY <2>7, <3>1, <3>2, <4>2
      <4> QED
        BY <1>2, <2>5, <4>1, <4>2
    <3>5. Len(t) = e + d.size
      BY <2>7, <3>1
    <3> QED
      BY <3>4, <3>5 DEF IsRun, t
  <2>10. since' = since
    BY <1>5, <2>4
  <2>11. CASE Len(buf) + d.size < Size
    <3>1. Continued(d)
      BY <1>2, <1>3, <2>4, <2>7, <2>8, <2>11
        DEF AsPacket, Whole, Refused, Begun, Completed
    <3>2. buf' = buf \o Units(d) /\ startedAge' = startedAge
      BY <3>1 DEF Continued
    <3>3. d.first + d.size - 1 = e + d.size /\ d.first + d.size <= Size /\ ~LastPiece(d)
      <4>1. d.first = e + 1 /\ d.size \in Nat /\ e \in Nat /\ Size \in Nat /\ e + d.size < Size
        BY <1>2, <2>5, <2>7, <2>11
      <4> QED
        BY <4>1 DEF LastPiece
    <3>4. InStep'
      BY <1>2, <1>5, <2>4, <2>6, <2>9, <2>10, <3>2, <3>3 DEF InStep
    <3> QED
      BY <3>3, <3>4
  <2>12. CASE Len(buf) + d.size = Size
    <3>1. Completed(d)
      BY <1>2, <1>3, <2>4, <2>7, <2>8, <2>12
        DEF AsPacket, Whole, Refused, Begun, Continued
    <3>2. buf' = <<>>
      BY <3>1 DEF Completed, Emptied
    <3>3. <<buf[1].packet, buf[1].part>> \in Header
      <4>1. buf[1].packet = d.packet /\ buf[1].part = 1
        BY <1>8, <2>5, <2>6 DEF IsRun
      <4>2. d.size \in 1 .. Size /\ 1 \in 1 .. Size
        BY <1>2, <2>4
      <4>3. <<d.packet, 1>> \in Header
        BY <1>1, <4>2, PeerSends
      <4> QED
        BY <4>1, <4>3
    <3>4. out' = buf \o Units(d)
      BY <3>1, <3>3 DEF Completed
    <3>5. HandedOn(d)
      BY <2>7, <2>9, <2>12, <3>4 DEF HandedOn, IsRun
    <3>6. d.first + d.size = Size + 1
      BY <1>2, <2>5, <2>7, <2>12
    <3>7. InStep'
      BY <1>2, <1>5, <2>4, <3>2, <3>6 DEF InStep
    <3> QED
      BY <3>5, <3>7
  <2> QED
    BY <1>2, <2>4, <2>5, <2>7, <2>11, <2>12
<1> QED
  BY <1>6, <1>7, <1>8 DEF Push, Observe

\* In step a datagram is followed, and hands on its packet when it is the last of it.
LEMMA PushFollows ==
  ASSUME FragmentAssumption, PeerAssumption, Sound, Following, NEW d, Arrives(d), Push(d)
  PROVE  Following' /\ (sync' /\ LastPiece(d) => HandedOn(d))
<1>1. /\ d \in Datagram /\ d # NoPiece /\ d.from # None
      /\ buf \in Seq(Unit) /\ Len(buf) < Size /\ startedAge \in Nat /\ Limit \in Nat
  BY ArrivedPiece DEF FragmentAssumption, Sound, FragmentShapes
<1>2. AsPacket(d) \/ Refused(d) \/ Begun(d) \/ Continued(d) \/ Completed(d)
  BY <1>1, Pushing
<1>3. prev' = d /\ quiet' = 0 /\ since' = (IF d.first = 1 THEN 0 ELSE since)
  BY DEF Push, Observe
<1>4. buf' # <<>> => addr' = d.from /\ startedAge' \in Nat
  BY <1>1, <1>2 DEF AsPacket, Refused, Begun, Continued, Completed, Emptied, Related
<1>5. sync' => InStep' /\ (LastPiece(d) => HandedOn(d))
  BY PushInStep
<1>6. Arrives(d)'
  BY DEF Arrives
<1>7. /\ quiet' \in Nat /\ quiet' <= Limit + 1 /\ since' \in Nat
  BY <1>1, <1>3 DEF Following
<1>8. Arrives(prev)'
  BY <1>3 DEF Arrives
<1>9. buf' # <<>> => addr' = prev'.from /\ startedAge' >= quiet'
  BY <1>3, <1>4
<1> QED
  BY <1>1, <1>3, <1>5, <1>7, <1>8, <1>9 DEF Following

\* So does the passing of time.
LEMMA TickFollows ==
  ASSUME FragmentAssumption, PeerAssumption, Sound, Following, Tick
  PROVE  Following'
<1>1. /\ Len(buf') = Len(buf) /\ (buf' = <<>> <=> buf = <<>>) /\ DOMAIN buf' = DOMAIN buf
      /\ \A k \in DOMAIN buf : /\ buf'[k].from = buf[k].from
                               /\ buf'[k].packet = buf[k].packet /\ buf'[k].part = buf[k].part
  BY Aging DEF Sound, FragmentShapes
<1>2. /\ addr' = addr /\ prev' = prev /\ sync' = sync
      /\ quiet <= Limit /\ quiet' = quiet + 1 /\ since' = Older(since)
      /\ startedAge' = IF buf = <<>> THEN 0 ELSE Older(startedAge)
  BY DEF Tick
<1>3. Limit \in Nat /\ startedAge \in Nat /\ DOMAIN buf = 1 .. Len(buf)
  BY DEF FragmentAssumption, Sound, FragmentShapes
<1>4. /\ quiet' \in Nat /\ quiet' <= Limit + 1 /\ since' \in Nat
  BY <1>2, <1>3 DEF Following, Older
<1>5. buf' # <<>> => addr' = prev'.from /\ startedAge' >= quiet'
  BY <1>1, <1>2, <1>3 DEF Following, Older
<1>6. ASSUME sync', prev' # NoPiece
      PROVE  InStep'
  <2>1. InStep /\ Arrives(prev)
    BY <1>2, <1>6 DEF Following
  <2>2. ASSUME prev.first + prev.size <= Size
        PROVE  startedAge' = since' /\ IsRun(buf', prev, prev.first + prev.size - 1)
    <3>1. startedAge = since /\ IsRun(buf, prev, prev.first + prev.size - 1)
      BY <2>1, <2>2 DEF InStep
    <3>2. prev.first + prev.size - 1 >= 1
      <4>1. PICK r \in Senders : \E i \in DOMAIN Sent[r] : prev = Sent[r][i]
        BY <2>1 DEF Arrives
      <4>2. PICK i \in DOMAIN Sent[r] : prev = Sent[r][i]
        BY <4>1
      <4>3. prev.first \in Nat /\ prev.size \in Nat /\ (prev.first >= 1 => prev.size \in 1 .. Size)
        BY <4>2, PeerSends
      <4> QED
        BY <2>1, <4>3 DEF InStep, FragmentAssumption
    <3> QED
      BY <1>1, <1>2, <1>3, <3>1, <3>2 DEF IsRun
  <2> QED
    BY <1>1, <1>2, <2>1, <2>2 DEF InStep
<1> QED
  BY <1>1, <1>2, <1>4, <1>5, <1>6 DEF Following, Arrives

ReassemblyInv == MixInv /\ Following

\* Both invariants hold throughout.
LEMMA ReassemblyInvariance ==
  ASSUME FragmentAssumption, PeerAssumption
  PROVE  FragmentsSpec => []ReassemblyInv
<1>1. FragmentsInit => Headed /\ Kept /\ MixedOnlyFromDamaged /\ Following
  BY DEF FragmentsInit, Headed, Kept, MixedOnlyFromDamaged, Following, FragmentAssumption
<1>2. ASSUME Sound, Network, Sound', Network', MixInv, Following, [FragmentsNext]_fragments
      PROVE  MixInv' /\ Following'
  <2>1. MixInv'
    BY <1>2, MixStep
  <2>2. CASE UNCHANGED fragments
    <3>1. /\ buf' = buf /\ addr' = addr /\ startedAge' = startedAge
          /\ prev' = prev /\ quiet' = quiet /\ since' = since /\ sync' = sync
      BY <2>2 DEF fragments, code, observer
    <3>2. (InStep <=> InStep') /\ (Arrives(prev) <=> Arrives(prev)')
      BY <3>1 DEF InStep, IsRun, Arrives
    <3> QED
      BY <1>2, <2>1, <3>1, <3>2 DEF Following
  <2>3. ASSUME NEW s \in Senders, Lose(s) \/ HoldBack(s)
        PROVE  Following'
    BY <1>2, <2>3 DEF Lose, HoldBack, code, observer, Following, InStep, IsRun, Arrives
  <2>4. ASSUME NEW s \in Senders, Deliver(s) \/ DeliverHeld(s)
        PROVE  Following'
    BY <1>2, <2>4, Delivering, PushFollows
  <2>5. ASSUME Tick
        PROVE  Following'
    BY <1>2, <2>5, TickFollows
  <2> QED
    BY <1>2, <2>1, <2>2, <2>3, <2>4, <2>5 DEF FragmentsNext
<1>3. Sound /\ Network /\ Headed /\ Kept /\ MixedOnlyFromDamaged => MixInv
  BY DEF MixInv
<1>4. ReassemblyInv <=> MixInv /\ Following
  BY DEF ReassemblyInv
<1> QED
  BY <1>1, <1>2, <1>3, <1>4, SoundInvariance, PTL DEF FragmentsSpec

\* Whatever datagrams were lost, delayed or mixed with those of others, what is handed on
\* comes from one sender and in time, packets no datagram of which was lost or delayed
\* are never mixed with others, and when the arrivals are in step, as they are after a
\* pause or after a whole packet, every packet is handed on as it was sent.
THEOREM ReassemblesCorrect ==
  ASSUME FragmentAssumption, PeerAssumption
  PROVE  FragmentsSpec => Reassembles
<1>1. ReassemblyInv => FragmentsTypeOK /\ OneOrigin /\ MixedOnlyFromDamaged
  BY DEF ReassemblyInv, MixInv, Sound, FragmentShapes, FragmentsTypeOK
<1>2. ASSUME ReassemblyInv, [FragmentsNext]_fragments, prev' # prev, sync', LastPiece(prev')
      PROVE  /\ Len(out') = Size
             /\ \A k \in 1 .. Size :
                  <<out'[k].from, out'[k].packet, out'[k].part>>
                    = <<prev'.from, prev'.packet, k>>
  <2>1. PICK s \in Senders : Deliver(s) \/ DeliverHeld(s)
    BY <1>2 DEF FragmentsNext, fragments, observer, Lose, HoldBack, Tick
  <2>2. \E d : Arrives(d) /\ Push(d)
    BY <1>2, <2>1, Delivering DEF ReassemblyInv, MixInv
  <2>3. PICK d : Arrives(d) /\ Push(d)
    BY <2>2
  <2>4. prev' = d
    BY <2>3 DEF Push, Observe
  <2>5. HandedOn(d)
    BY <1>2, <2>3, <2>4, PushFollows DEF ReassemblyInv, MixInv
  <2> QED
    BY <2>4, <2>5 DEF HandedOn, IsRun
<1>3. ReassemblyInv /\ [FragmentsNext]_fragments =>
        [prev' # prev /\ sync' /\ LastPiece(prev') =>
           /\ Len(out') = Size
           /\ \A k \in 1 .. Size :
                <<out'[k].from, out'[k].packet, out'[k].part>>
                  = <<prev'.from, prev'.packet, k>>]_fragments
  BY <1>2
<1> QED
  BY <1>1, <1>3, ReassemblyInvariance, PTL DEF FragmentsSpec, Reassembles, Recovers
-----------------------------------------------------------------------------
\* A number with a property has a least one at or below it.
LEMMA LeastOne ==
  ASSUME NEW n \in Nat, NEW T, n \in T
  PROVE  \E x \in 0 .. n : x \in T /\ \A y \in 0 .. x - 1 : y \notin T
<1> DEFINE Below == {p \in Nat \X Nat : p[1] < p[2]}
           S == T \cap 0 .. n
<1>1. IsWellFoundedOn(Below, Nat)
  <2>1. OpToRel(<, Nat) = Below
    BY DEF OpToRel
  <2> QED
    BY <2>1, NatLessThanWellFounded
<1>2. S \subseteq Nat /\ S # {}
  OBVIOUS
<1> HIDE DEF S, Below
<1>3. PICK x \in S : \A y \in S : ~ (<<y, x>> \in Below)
  BY <1>1, <1>2, WFMin
<1>4. \A y \in S : ~ (y < x)
  <2> SUFFICES ASSUME NEW y \in S, y < x PROVE FALSE
    OBVIOUS
  <2>1. <<y, x>> \in Nat \X Nat /\ <<y, x>>[1] = y /\ <<y, x>>[2] = x
    BY <1>2
  <2> QED
    BY <1>3, <2>1 DEF Below
<1> QED
  BY <1>3, <1>4 DEF S

\* What holds of zero and goes on to the next number holds up to n.
LEMMA Climbs ==
  ASSUME NEW n \in Nat, NEW T, 0 \in T, \A k \in 0 .. n - 1 : k \in T => k + 1 \in T
  PROVE  \A k \in 0 .. n : k \in T
<1> SUFFICES ASSUME NEW k \in 0 .. n, k \notin T PROVE FALSE
  OBVIOUS
<1> DEFINE Missing == {j \in 0 .. n : j \notin T}
<1>1. k \in Nat /\ k \in Missing
  OBVIOUS
<1>2. PICK x \in 0 .. k : x \in Missing /\ \A y \in 0 .. x - 1 : y \notin Missing
  BY <1>1, LeastOne, Zenon
<1>3. x # 0 /\ x - 1 \in 0 .. n - 1 /\ x - 1 \in T
  <2>1. x # 0 /\ x \in 0 .. n
    BY <1>2
  <2>2. x - 1 \in 0 .. x - 1 /\ x - 1 \in 0 .. n - 1
    BY <1>1, <2>1
  <2> QED
    BY <1>2, <2>1, <2>2
<1>4. x - 1 + 1 = x
  BY <1>2, <1>3
<1> QED
  BY <1>2, <1>3, <1>4
-----------------------------------------------------------------------------
(***************************************************************************)
(* Pieces put one after the other.                                         *)
(***************************************************************************)

\* The first k pieces, as FlattenSeq goes through them.
Flattening(ss, n) ==
  CHOOSE flatten : flatten = [i \in 1 .. n |-> IF i = 1 THEN ss[i] ELSE flatten[i - 1] \o ss[i]]
Upto(ss, k) == IF k = 0 THEN <<>> ELSE Flattening(ss, Len(ss))[k]
Start(ss, k) == Len(Upto(ss, k - 1))

\* The function that flattens is there, though only one step of it is written down.
LEMMA FlatteningIs ==
  ASSUME NEW ss, NEW n \in Nat
  PROVE  LET f == Flattening(ss, n)
         IN f = [i \in 1 .. n |-> IF i = 1 THEN ss[i] ELSE f[i - 1] \o ss[i]]
<1> DEFINE T == {m \in 0 .. n : \E f : f = [i \in 1 .. m |-> IF i = 1 THEN ss[i] ELSE f[i - 1] \o ss[i]]}
<1>1. 0 \in T
  <2>1. \E f : f = [i \in 1 .. 0 |-> IF i = 1 THEN ss[i] ELSE f[i - 1] \o ss[i]]
    <3> DEFINE f == [i \in 1 .. 0 |-> <<>>]
    <3>1. f = [i \in 1 .. 0 |-> IF i = 1 THEN ss[i] ELSE f[i - 1] \o ss[i]]
      OBVIOUS
    <3> QED
      BY <3>1, Zenon
  <2>2. 0 \in 0 .. n
    OBVIOUS
  <2> QED
    BY <2>1, <2>2, Zenon
<1>2. ASSUME NEW m \in 0 .. n - 1, m \in T PROVE m + 1 \in T
  <2>1. PICK f : f = [i \in 1 .. m |-> IF i = 1 THEN ss[i] ELSE f[i - 1] \o ss[i]]
    BY <1>2
  <2> DEFINE h == [i \in 1 .. m + 1 |->
                     IF i = m + 1 THEN IF i = 1 THEN ss[i] ELSE f[m] \o ss[i] ELSE f[i]]
  <2>2. ASSUME NEW i \in 1 .. m + 1 PROVE h[i] = IF i = 1 THEN ss[i] ELSE h[i - 1] \o ss[i]
    <3>1. CASE i = m + 1
      <4>1. i # 1 => h[i - 1] = f[m]
        BY <1>2, <3>1
      <4> QED
        BY <3>1, <4>1
    <3>2. CASE i # m + 1
      <4>1. i \in 1 .. m /\ h[i] = f[i]
        BY <1>2, <3>2
      <4>2. f[i] = IF i = 1 THEN ss[i] ELSE f[i - 1] \o ss[i]
        BY <2>1, <4>1, Zenon
      <4>3. i # 1 => h[i - 1] = f[i - 1]
        BY <1>2, <4>1
      <4> QED
        BY <4>1, <4>2, <4>3
    <3> QED
      BY <3>1, <3>2
  <2>3. h = [i \in 1 .. m + 1 |-> IF i = 1 THEN ss[i] ELSE h[i - 1] \o ss[i]]
    <3>1. h = [i \in 1 .. m + 1 |-> h[i]]
      BY Zenon
    <3> HIDE DEF h
    <3> QED
      BY <2>2, <3>1, Zenon
  <2>4. m + 1 \in 0 .. n
    BY <1>2
  <2> HIDE DEF h
  <2> QED
    BY <2>3, <2>4
<1>3. n \in T
  <2> HIDE DEF T
  <2>1. \A k \in 0 .. n : k \in T
    BY <1>1, <1>2, Climbs
  <2> QED
    BY <2>1
<1>4. \E f : f = [i \in 1 .. n |-> IF i = 1 THEN ss[i] ELSE f[i - 1] \o ss[i]]
  BY <1>3
<1> QED
  BY <1>4, Zenon DEF Flattening

\* FlattenSeq, piece by piece.
LEMMA FlattenUpto ==
  ASSUME NEW A, NEW ss \in Seq(Seq(A))
  PROVE  /\ Len(ss) \in Nat /\ FlattenSeq(ss) = Upto(ss, Len(ss)) /\ Upto(ss, 0) = <<>>
         /\ \A k \in 1 .. Len(ss) : Upto(ss, k) = Upto(ss, k - 1) \o ss[k]
         /\ \A k \in 0 .. Len(ss) : Upto(ss, k) \in Seq(A)
<1> DEFINE n == Len(ss)
           f == Flattening(ss, n)
<1>1. n \in Nat /\ \A k \in 1 .. n : ss[k] \in Seq(A)
  OBVIOUS
<1>2. f = [i \in 1 .. n |-> IF i = 1 THEN ss[i] ELSE f[i - 1] \o ss[i]]
  BY <1>1, FlatteningIs, Zenon
<1>3. FlattenSeq(ss) = Upto(ss, n)
  <2>1. CASE n = 0
    <3>1. ss = <<>>
      BY <2>1, EmptySeq
    <3> QED
      BY <2>1, <3>1 DEF FlattenSeq, Upto
  <2>2. CASE n # 0
    BY <2>2 DEF FlattenSeq, Upto, Flattening
  <2> QED
    BY <2>1, <2>2
<1>4. Upto(ss, 0) = <<>> /\ \A k \in 1 .. n : Upto(ss, k) = f[k]
  BY <1>1 DEF Upto
<1> HIDE DEF f
<1>5. ASSUME NEW k \in 1 .. n PROVE Upto(ss, k) = Upto(ss, k - 1) \o ss[k]
  <2>1. f[k] = IF k = 1 THEN ss[k] ELSE f[k - 1] \o ss[k]
    BY <1>2, Zenon
  <2>2. CASE k = 1
    <3>1. <<>> \o ss[k] = ss[k]
      BY <1>1, ConcatEmptySeq
    <3> QED
      BY <1>4, <2>1, <2>2, <3>1
  <2>3. CASE k # 1
    <3>1. k - 1 \in 1 .. n
      BY <1>1, <2>3
    <3>2. Upto(ss, k) = f[k] /\ Upto(ss, k - 1) = f[k - 1]
      BY <1>4, <3>1, Zenon
    <3> QED
      BY <2>1, <2>3, <3>2, Zenon
  <2> QED
    BY <2>2, <2>3
<1>6. \A k \in 0 .. n : Upto(ss, k) \in Seq(A)
  <2> DEFINE T == {k \in 0 .. n : Upto(ss, k) \in Seq(A)}
  <2>1. 0 \in T
    <3>1. <<>> \in Seq(A) /\ 0 \in 0 .. n
      BY <1>1
    <3> QED
      BY <1>4, <3>1, Zenon
  <2>2. ASSUME NEW k \in 0 .. n - 1, k \in T PROVE k + 1 \in T
    <3>1. k + 1 \in 1 .. n /\ (k + 1) - 1 = k /\ k + 1 \in 0 .. n
      BY <1>1
    <3>2. Upto(ss, k + 1) = Upto(ss, (k + 1) - 1) \o ss[k + 1] /\ ss[k + 1] \in Seq(A) /\ Upto(ss, k) \in Seq(A)
      BY <1>1, <1>5, <2>2, <3>1, Zenon
    <3>3. Upto(ss, k + 1) \in Seq(A)
      <4>1. Upto(ss, k + 1) = Upto(ss, k) \o ss[k + 1]
        BY <3>1, <3>2
      <4>2. \A a, b \in Seq(A) : a \o b \in Seq(A)
        BY ConcatProperties
      <4> QED
        BY <3>2, <4>1, <4>2, Zenon
    <3> QED
      BY <3>1, <3>3, Zenon
  <2> HIDE DEF T
  <2>3. \A k \in 0 .. n : k \in T
    BY <1>1, <2>1, <2>2, Climbs
  <2> QED
    BY <2>3 DEF T
<1> QED
  BY <1>1, <1>3, <1>4, <1>5, <1>6

\* Each piece is where it begins.
LEMMA FlattenPlaces ==
  ASSUME NEW A, NEW ss \in Seq(Seq(A)), NEW m \in 0 .. Len(ss)
  PROVE  /\ \A k \in 1 .. m : /\ Start(ss, k) \in Nat /\ Start(ss, k) + Len(ss[k]) <= Len(Upto(ss, m))
                              /\ \A t \in 1 .. Len(ss[k]) : Upto(ss, m)[Start(ss, k) + t] = ss[k][t]
<1> DEFINE n == Len(ss)
           Placed(j) == \A k \in 1 .. j :
                          /\ Start(ss, k) \in Nat /\ Start(ss, k) + Len(ss[k]) <= Len(Upto(ss, j))
                          /\ \A t \in 1 .. Len(ss[k]) : Upto(ss, j)[Start(ss, k) + t] = ss[k][t]
           T == {j \in 0 .. n : Placed(j)}
<1>1. /\ n \in Nat /\ \A k \in 1 .. n : ss[k] \in Seq(A)
      /\ \A k \in 1 .. n : Upto(ss, k) = Upto(ss, k - 1) \o ss[k]
      /\ \A k \in 0 .. n : Upto(ss, k) \in Seq(A)
  <2>1. \A k \in 1 .. n : ss[k] \in Seq(A)
    OBVIOUS
  <2> QED
    BY <2>1, FlattenUpto, Zenon
<1>2. 0 \in T
  BY <1>1
<1>3. ASSUME NEW j \in 0 .. n - 1, j \in T PROVE j + 1 \in T
  <2> DEFINE u == Upto(ss, j)
             v == Upto(ss, j + 1)
             s == ss[j + 1]
  <2>1. j + 1 \in 1 .. n /\ j \in 0 .. n /\ (j + 1) - 1 = j /\ j + 1 \in 0 .. n
    BY <1>1
  <2>2. v = u \o s /\ u \in Seq(A) /\ s \in Seq(A)
    <3>1. Upto(ss, j + 1) = Upto(ss, (j + 1) - 1) \o ss[j + 1]
      BY <1>1, <2>1, Zenon
    <3> QED
      BY <1>1, <2>1, <3>1, Zenon
  <2>3. Start(ss, j + 1) = Len(u)
    BY <2>1 DEF Start
  <2> HIDE DEF u, v, s
  <2>4. /\ Len(v) = Len(u) + Len(s) /\ Len(u) \in Nat /\ Len(s) \in Nat
        /\ \A i \in 1 .. Len(u) + Len(s) : v[i] = IF i <= Len(u) THEN u[i] ELSE s[i - Len(u)]
    BY <2>2, ConcatProperties
  <2>5. ASSUME NEW k \in 1 .. j + 1
        PROVE  /\ Start(ss, k) \in Nat /\ Start(ss, k) + Len(ss[k]) <= Len(v)
               /\ \A t \in 1 .. Len(ss[k]) : v[Start(ss, k) + t] = ss[k][t]
    <3>1. CASE k = j + 1
      <4>1. \A t \in 1 .. Len(s) : v[Len(u) + t] = s[t]
        <5> SUFFICES ASSUME NEW t \in 1 .. Len(s) PROVE v[Len(u) + t] = s[t]
          OBVIOUS
        <5>1. Len(u) + t \in 1 .. Len(u) + Len(s) /\ ~ (Len(u) + t <= Len(u)) /\ Len(u) + t - Len(u) = t
          BY <2>4
        <5> QED
          BY <2>4, <5>1
      <4>2. Start(ss, k) = Len(u) /\ ss[k] = s
        BY <2>3, <3>1, Zenon DEF s
      <4>3. Len(u) + Len(s) <= Len(v)
        BY <2>4
      <4> QED
        BY <2>4, <4>1, <4>2, <4>3, Zenon
    <3>2. CASE k # j + 1
      <4>1. k \in 1 .. j /\ k \in 1 .. n
        BY <2>1, <3>2
      <4>2. /\ Start(ss, k) \in Nat /\ Start(ss, k) + Len(ss[k]) <= Len(u)
            /\ \A t \in 1 .. Len(ss[k]) : u[Start(ss, k) + t] = ss[k][t]
        BY <1>3, <4>1 DEF u
      <4>3. Len(ss[k]) \in Nat
        BY <1>1, <4>1
      <4>4. ASSUME NEW t \in 1 .. Len(ss[k]) PROVE v[Start(ss, k) + t] = ss[k][t]
        <5> DEFINE x == Start(ss, k)
                   y == Len(ss[k])
        <5>1. x \in Nat /\ x + y <= Len(u) /\ y \in Nat /\ t \in 1 .. y
          BY <4>2, <4>3
        <5> HIDE DEF x, y
        <5>2. x + t \in 1 .. Len(u) + Len(s) /\ x + t <= Len(u)
          BY <2>4, <5>1
        <5>3. v[x + t] = u[x + t]
          BY <2>4, <5>2, Zenon
        <5> QED
          BY <4>2, <5>3, Zenon DEF x
      <4>5. Start(ss, k) + Len(ss[k]) <= Len(v)
        BY <2>4, <4>2, <4>3
      <4> QED
        BY <4>2, <4>4, <4>5, Zenon
    <3> QED
      BY <3>1, <3>2
  <2>6. Placed(j + 1)
    BY <2>5 DEF v
  <2> HIDE DEF Placed
  <2> QED
    BY <2>1, <2>6
<1>4. m \in T
  <2> HIDE DEF T
  <2>1. \A k \in 0 .. n : k \in T
    BY <1>1, <1>2, <1>3, Climbs
  <2> QED
    BY <2>1
<1> QED
  BY <1>4
-----------------------------------------------------------------------------
(***************************************************************************)
(* The check byte.                                                         *)
(***************************************************************************)

Residues(frame) ==
  CHOOSE residue : residue = [k \in 1 .. Len(frame) |->
                                IF k = 1 THEN frame[1] ELSE ShiftByte(residue[k - 1], frame[k])]

\* The residues of a frame exist, one for each of its bytes.
LEMMA ResiduesAre ==
  ASSUME NEW frame, Len(frame) \in Nat
  PROVE  LET f == Residues(frame)
         IN f = [k \in 1 .. Len(frame) |-> IF k = 1 THEN frame[1] ELSE ShiftByte(f[k - 1], frame[k])]
<1> DEFINE n == Len(frame)
           T == {m \in 0 .. n : \E f : f = [k \in 1 .. m |-> IF k = 1 THEN frame[1] ELSE ShiftByte(f[k - 1], frame[k])]}
<1>1. 0 \in T
  <2>1. \E f : f = [k \in 1 .. 0 |-> IF k = 1 THEN frame[1] ELSE ShiftByte(f[k - 1], frame[k])]
    <3> DEFINE f == [k \in 1 .. 0 |-> 0]
    <3>1. f = [k \in 1 .. 0 |-> IF k = 1 THEN frame[1] ELSE ShiftByte(f[k - 1], frame[k])]
      OBVIOUS
    <3> QED
      BY <3>1, Zenon
  <2>2. 0 \in 0 .. n
    OBVIOUS
  <2> QED
    BY <2>1, <2>2, Zenon
<1>2. ASSUME NEW m \in 0 .. n - 1, m \in T PROVE m + 1 \in T
  <2>1. PICK f : f = [k \in 1 .. m |-> IF k = 1 THEN frame[1] ELSE ShiftByte(f[k - 1], frame[k])]
    BY <1>2
  <2> DEFINE h == [k \in 1 .. m + 1 |->
                     IF k = m + 1 THEN IF k = 1 THEN frame[1] ELSE ShiftByte(f[m], frame[k]) ELSE f[k]]
  <2>2. ASSUME NEW k \in 1 .. m + 1 PROVE h[k] = IF k = 1 THEN frame[1] ELSE ShiftByte(h[k - 1], frame[k])
    <3>1. CASE k = m + 1
      <4>1. k # 1 => h[k - 1] = f[m]
        BY <1>2, <3>1
      <4> QED
        BY <3>1, <4>1
    <3>2. CASE k # m + 1
      <4>1. k \in 1 .. m /\ h[k] = f[k]
        BY <1>2, <3>2
      <4>2. f[k] = IF k = 1 THEN frame[1] ELSE ShiftByte(f[k - 1], frame[k])
        BY <2>1, <4>1, Zenon
      <4>3. k # 1 => h[k - 1] = f[k - 1]
        BY <1>2, <4>1
      <4> QED
        BY <4>1, <4>2, <4>3
    <3> QED
      BY <3>1, <3>2
  <2>3. h = [k \in 1 .. m + 1 |-> IF k = 1 THEN frame[1] ELSE ShiftByte(h[k - 1], frame[k])]
    <3>1. h = [k \in 1 .. m + 1 |-> h[k]]
      BY Zenon
    <3> HIDE DEF h
    <3> QED
      BY <2>2, <3>1, Zenon
  <2>4. m + 1 \in 0 .. n
    BY <1>2
  <2> HIDE DEF h
  <2> QED
    BY <2>3, <2>4
<1>3. n \in T
  <2> HIDE DEF T
  <2>1. \A k \in 0 .. n : k \in T
    BY <1>1, <1>2, Climbs
  <2> QED
    BY <2>1
<1>4. \E f : f = [k \in 1 .. n |-> IF k = 1 THEN frame[1] ELSE ShiftByte(f[k - 1], frame[k])]
  BY <1>3
<1> QED
  BY <1>4, Zenon DEF Residues

\* The residue of a frame, byte by byte.
LEMMA ResidueIs ==
  ASSUME NEW frame, Len(frame) \in Nat, frame # <<>>, Len(frame) # 0
  PROVE  /\ CRCResidue(frame) = Residues(frame)[Len(frame)]
         /\ Residues(frame)[1] = frame[1]
         /\ \A k \in 2 .. Len(frame) : Residues(frame)[k] = ShiftByte(Residues(frame)[k - 1], frame[k])
<1>1. CRCResidue(frame) = Residues(frame)[Len(frame)]
  BY DEF CRCResidue, Residues
<1> DEFINE f == Residues(frame)
<1>2. f = [k \in 1 .. Len(frame) |-> IF k = 1 THEN frame[1] ELSE ShiftByte(f[k - 1], frame[k])]
  BY ResiduesAre, Zenon
<1> HIDE DEF f
<1>3. \A k \in 1 .. Len(frame) : f[k] = IF k = 1 THEN frame[1] ELSE ShiftByte(f[k - 1], frame[k])
  BY <1>2, Zenon
<1>4. 1 \in 1 .. Len(frame) /\ \A k \in 2 .. Len(frame) : k \in 1 .. Len(frame) /\ k # 1
  OBVIOUS
<1> QED
  BY <1>1, <1>3, <1>4, Zenon DEF f

\* The residue is a byte, and one more byte is shifted in.
LEMMA ResidueOf ==
  ASSUME CheckByteCancels, NEW s \in Seq(Byte), s # <<>>, NEW x \in Byte
  PROVE  /\ CRCResidue(s) \in Byte
         /\ CRCResidue(Append(s, x)) = ShiftByte(CRCResidue(s), x)
<1> DEFINE n == Len(s)
           t == Append(s, x)
           f == Residues(s)
           g == Residues(t)
<1>1. /\ n \in Nat \ {0} /\ \A k \in 1 .. n : s[k] \in Byte
      /\ t # <<>> /\ Len(t) = n + 1 /\ t[n + 1] = x /\ \A k \in 1 .. n : t[k] = s[k]
  BY EmptySeq, AppendProperties
<1>2. CRCResidue(s) = f[n] /\ f[1] = s[1] /\ \A k \in 2 .. n : f[k] = ShiftByte(f[k - 1], s[k])
  BY <1>1, ResidueIs
<1>3. CRCResidue(t) = g[n + 1] /\ g[1] = t[1] /\ \A k \in 2 .. n + 1 : g[k] = ShiftByte(g[k - 1], t[k])
  <2>1. Len(t) \in Nat /\ Len(t) # 0 /\ Len(t) = n + 1
    BY <1>1
  <2>2. CRCResidue(t) = g[Len(t)] /\ g[1] = t[1] /\ \A k \in 2 .. Len(t) : g[k] = ShiftByte(g[k - 1], t[k])
    BY <1>1, <2>1, ResidueIs, Zenon
  <2> QED
    BY <2>1, <2>2, Zenon
<1> HIDE DEF f, g, t, n
<1> DEFINE T == {k \in 0 .. n : k >= 1 => f[k] \in Byte /\ g[k] = f[k]}
<1>4. 0 \in T
  BY <1>1
<1>5. ASSUME NEW k \in 0 .. n - 1, k \in T PROVE k + 1 \in T
  <2>0. k + 1 \in 1 .. n /\ k + 1 \in 0 .. n /\ (k + 1) - 1 = k /\ k \in Nat
    BY <1>1
  <2>1. CASE k = 0
    <3>1. f[1] \in Byte /\ g[1] = f[1] /\ 0 + 1 = 1
      BY <1>1, <1>2, <1>3
    <3> QED
      BY <2>0, <2>1, <3>1
  <2>2. CASE k # 0
    <3>1. k >= 1 /\ k + 1 \in 2 .. n /\ k + 1 \in 2 .. n + 1
      BY <1>1, <2>0, <2>2
    <3>2. f[k] \in Byte /\ g[k] = f[k]
      BY <1>5, <3>1
    <3>3. f[k + 1] = ShiftByte(f[(k + 1) - 1], s[k + 1]) /\ g[k + 1] = ShiftByte(g[(k + 1) - 1], t[k + 1])
      BY <1>2, <1>3, <3>1, Zenon
    <3>4. t[k + 1] = s[k + 1] /\ s[k + 1] \in Byte
      BY <1>1, <2>0, Zenon
    <3>5. f[k + 1] = ShiftByte(f[k], s[k + 1]) /\ g[k + 1] = ShiftByte(g[k], s[k + 1])
      BY <2>0, <3>3, <3>4
    <3>6. f[k + 1] \in Byte /\ g[k + 1] = f[k + 1]
      BY <3>2, <3>4, <3>5, Zenon DEF CheckByteCancels
    <3> QED
      BY <2>0, <3>6, Zenon
  <2> QED
    BY <2>1, <2>2
<1>6. f[n] \in Byte /\ g[n] = f[n]
  <2> HIDE DEF T
  <2>1. n \in Nat
    BY <1>1
  <2>2. \A k \in 0 .. n : k \in T
    BY <1>4, <1>5, <2>1, Climbs
  <2>3. n \in T /\ n >= 1
    BY <1>1, <2>2
  <2> QED
    BY <2>3 DEF T
<1>7. g[n + 1] = ShiftByte(g[n], x)
  <2>1. n + 1 \in 2 .. n + 1 /\ (n + 1) - 1 = n
    BY <1>1
  <2>2. g[n + 1] = ShiftByte(g[(n + 1) - 1], t[n + 1])
    BY <1>3, <2>1, Zenon
  <2> QED
    BY <1>1, <2>1, <2>2
<1> QED
  BY <1>2, <1>3, <1>6, <1>7 DEF t

\* A payload with its check byte is valid.
LEMMA FrameIsValid ==
  ASSUME CheckByteCancels, NEW s \in Seq(Byte), s # <<>>
  PROVE  /\ CRC(s) \in Byte /\ Append(s, CRC(s)) \in Seq(Byte)
         /\ Valid(Append(s, CRC(s))) /\ Front(Append(s, CRC(s))) = s
<1> DEFINE r == CRCResidue(s)
           c == ShiftByte(r, 0)
<1>1. r \in Byte /\ 0 \in Byte
  <2>1. 0 \in Byte
    BY DEF Byte
  <2> QED
    BY <2>1, ResidueOf, Zenon
<1>2. CRC(s) = c
  BY <1>1, ResidueOf DEF CRC
<1>3. c \in Byte /\ ShiftByte(r, c) = 0
  <2> HIDE DEF r
  <2> QED
    BY <1>1, Zenon DEF CheckByteCancels
<1> HIDE DEF c
<1>4. CRCResidue(Append(s, c)) = 0
  BY <1>3, ResidueOf DEF r
<1>5. Append(s, c) \in Seq(Byte) /\ Len(Append(s, c)) = Len(s) + 1 /\ Len(s) \in Nat /\ Len(s) # 0
  BY <1>3, EmptySeq, AppendProperties
<1>6. Front(Append(s, c)) = s
  BY <1>3 DEF Front
<1> QED
  BY <1>2, <1>3, <1>4, <1>5, <1>6 DEF Valid
-----------------------------------------------------------------------------
(***************************************************************************)
(* Stuffed bytes.                                                          *)
(***************************************************************************)

Special == {Escape, Terminator}
Stuffed(u) == [k \in DOMAIN u |-> IF u[k] \in Special THEN <<Escape, u[k]>> ELSE <<u[k]>>]

\* How many bytes the first i become.
Upon(u, i) == Len(Upto(Stuffed(u), i))

\* What each byte becomes when it is stuffed, and where.
LEMMA Stuffing ==
  ASSUME NEW u \in Seq(Byte)
  PROVE  /\ Stuff(u) \in Seq(Byte) /\ Len(Stuff(u)) = Upon(u, Len(u)) /\ Upon(u, 0) = 0
         /\ \A i \in 0 .. Len(u) : Upon(u, i) \in Nat
         /\ \A i \in 0 .. Len(u) - 1 :
              /\ Upon(u, i + 1) = Upon(u, i) + (IF u[i + 1] \in Special THEN 2 ELSE 1)
              /\ Upon(u, i + 1) <= Len(Stuff(u))
              /\ u[i + 1] \in Special => /\ Stuff(u)[Upon(u, i) + 1] = Escape
                                         /\ Stuff(u)[Upon(u, i) + 2] = u[i + 1]
              /\ u[i + 1] \notin Special => Stuff(u)[Upon(u, i) + 1] = u[i + 1]
<1> DEFINE ss == Stuffed(u)
           n == Len(u)
<1>1. n \in Nat /\ DOMAIN u = 1 .. n /\ \A k \in 1 .. n : u[k] \in Byte
  OBVIOUS
<1>2. Escape \in Byte /\ Terminator \in Byte
  BY DEF Byte, Escape, Terminator
<1>3. \A k \in 1 .. n : /\ ss[k] = IF u[k] \in Special THEN <<Escape, u[k]>> ELSE <<u[k]>>
                        /\ ss[k] \in Seq(Byte)
  BY <1>1, <1>2 DEF Stuffed
<1>4. ss \in Seq(Seq(Byte)) /\ Len(ss) = n
  <2>1. ss = [k \in 1 .. n |-> ss[k]]
    BY <1>1 DEF Stuffed
  <2>2. ss \in [1 .. n -> Seq(Byte)]
    <3> HIDE DEF ss
    <3> QED
      BY <1>3, <2>1
  <2> HIDE DEF ss
  <2> QED
    BY <1>1, <2>2
<1>5. Stuff(u) = FlattenSeq(ss)
  BY DEF Stuff, Stuffed, Special
<1> HIDE DEF ss
<1>6. /\ FlattenSeq(ss) = Upto(ss, Len(ss)) /\ Upto(ss, 0) = <<>>
      /\ \A k \in 1 .. Len(ss) : Upto(ss, k) = Upto(ss, k - 1) \o ss[k]
      /\ \A k \in 0 .. Len(ss) : Upto(ss, k) \in Seq(Byte)
  BY <1>4, FlattenUpto, Zenon
<1>7. Stuff(u) = Upto(ss, n) /\ Stuff(u) \in Seq(Byte)
  <2>1. n \in 0 .. n
    BY <1>1
  <2> QED
    BY <1>4, <1>5, <1>6, <2>1
<1>8. \A i \in 0 .. n : Upon(u, i) \in Nat /\ Upon(u, i) = Len(Upto(ss, i))
  BY <1>4, <1>6 DEF Upon, ss
<1>9. Upon(u, 0) = 0 /\ Len(Stuff(u)) = Upon(u, n)
  BY <1>1, <1>6, <1>7, <1>8
<1>10. \A k \in 1 .. n : /\ Start(ss, k) \in Nat /\ Start(ss, k) + Len(ss[k]) <= Len(Upto(ss, n))
                         /\ \A t \in 1 .. Len(ss[k]) : Upto(ss, n)[Start(ss, k) + t] = ss[k][t]
  <2>1. n \in 0 .. Len(ss)
    BY <1>1, <1>4
  <2> QED
    BY <1>4, <2>1, FlattenPlaces, Zenon
<1>11. ASSUME NEW i \in 0 .. n - 1
       PROVE  /\ Upon(u, i + 1) = Upon(u, i) + (IF u[i + 1] \in Special THEN 2 ELSE 1)
              /\ Upon(u, i + 1) <= Len(Stuff(u))
              /\ u[i + 1] \in Special => /\ Stuff(u)[Upon(u, i) + 1] = Escape
                                         /\ Stuff(u)[Upon(u, i) + 2] = u[i + 1]
              /\ u[i + 1] \notin Special => Stuff(u)[Upon(u, i) + 1] = u[i + 1]
  <2> DEFINE k == i + 1
             b == u[k]
  <2>1. k \in 1 .. n /\ k - 1 = i /\ i \in 0 .. n /\ k \in 0 .. n
    BY <1>1
  <2>2. Start(ss, k) = Upon(u, i)
    BY <1>8, <2>1 DEF Start
  <2>0. ss[k] = IF b \in Special THEN <<Escape, b>> ELSE <<b>>
    BY <1>3, <2>1, Zenon
  <2>3. Len(ss[k]) = (IF b \in Special THEN 2 ELSE 1)
    <3> HIDE DEF ss, b
    <3> QED
      BY <2>0
  <2>4. Upon(u, k) = Upon(u, i) + Len(ss[k])
    <3>1. Upto(ss, k) = Upto(ss, i) \o ss[k] /\ Upto(ss, i) \in Seq(Byte) /\ ss[k] \in Seq(Byte)
      BY <1>3, <1>4, <1>6, <2>1
    <3>2. Len(Upto(ss, k)) = Len(Upto(ss, i)) + Len(ss[k])
      BY <3>1, ConcatProperties
    <3> QED
      BY <1>8, <2>1, <3>2
  <2>5. Upon(u, k) <= Len(Stuff(u))
    BY <1>7, <1>10, <2>1, <2>2, <2>4
  <2>6. \A t \in 1 .. Len(ss[k]) : Stuff(u)[Upon(u, i) + t] = ss[k][t]
    BY <1>7, <1>10, <2>1, <2>2, Zenon
  <2>7. CASE b \in Special
    <3>1. ss[k][1] = Escape /\ ss[k][2] = b /\ 1 \in 1 .. Len(ss[k]) /\ 2 \in 1 .. Len(ss[k])
      <4> HIDE DEF ss, b
      <4> QED
        BY <2>0, <2>7
    <3>2. Stuff(u)[Upon(u, i) + 1] = Escape /\ Stuff(u)[Upon(u, i) + 2] = b
      BY <2>6, <3>1, Zenon
    <3> QED
      BY <2>3, <2>4, <2>5, <2>7, <3>2, Zenon
  <2>8. CASE b \notin Special
    <3>1. ss[k][1] = b /\ 1 \in 1 .. Len(ss[k])
      <4> HIDE DEF ss, b
      <4> QED
        BY <2>0, <2>8
    <3>2. Stuff(u)[Upon(u, i) + 1] = b
      BY <2>6, <3>1, Zenon
    <3> QED
      BY <2>3, <2>4, <2>5, <2>8, <3>2, Zenon
  <2> QED
    BY <2>7, <2>8
<1> QED
  BY <1>7, <1>8, <1>9, <1>11

\* Of the frame of u, j bytes have been read and i of the bytes it stands for been taken.
Within(u, j, i, esc) ==
  /\ i \in 0 .. Len(u)
  /\ \/ j = Upon(u, i) /\ ~esc
     \/ j = Upon(u, i) + 1 /\ esc /\ i < Len(u) /\ u[i + 1] \in Special
FrameOf(u) == Append(Stuff(u), Terminator)

\* What the next byte can be, and where it leads.
NextByte(u, j, i, esc, b) ==
  \/ ~esc /\ i < Len(u) /\ b = u[i + 1] /\ b \notin Special
     /\ Within(u, j + 1, i + 1, FALSE) /\ j + 1 < Len(FrameOf(u))
  \/ ~esc /\ b = Escape /\ Within(u, j + 1, i, TRUE) /\ j + 1 < Len(FrameOf(u))
  \/ esc /\ i < Len(u) /\ b = u[i + 1]
     /\ Within(u, j + 1, i + 1, FALSE) /\ j + 1 < Len(FrameOf(u))
  \/ ~esc /\ i = Len(u) /\ b = Terminator /\ j + 1 = Len(FrameOf(u))

\* Between two bytes of a stuffed frame there is one way to go on.
LEMMA FrameBytes ==
  ASSUME NEW u \in Seq(Byte), NEW j \in Nat, NEW i, NEW esc \in BOOLEAN, Within(u, j, i, esc)
  PROVE  NextByte(u, j, i, esc, FrameOf(u)[j + 1])
<1> DEFINE n == Len(u)
           s == Stuff(u)
           w == Upon(u, i)
<1>1. /\ n \in Nat /\ s \in Seq(Byte) /\ Len(s) = Upon(u, n) /\ i \in 0 .. n /\ w \in Nat
      /\ i < n => /\ Upon(u, i + 1) = w + (IF u[i + 1] \in Special THEN 2 ELSE 1)
                  /\ Upon(u, i + 1) <= Len(s)
                  /\ u[i + 1] \in Special => s[w + 1] = Escape /\ s[w + 2] = u[i + 1]
                  /\ u[i + 1] \notin Special => s[w + 1] = u[i + 1]
  <2>1. i \in 0 .. n /\ n \in Nat
    BY DEF Within
  <2>2. i < n => i \in 0 .. n - 1
    BY <2>1
  <2>3. s \in Seq(Byte) /\ Len(s) = Upon(u, n) /\ w \in Nat
    BY <2>1, Stuffing, Zenon
  <2>4. i < n => /\ Upon(u, i + 1) = w + (IF u[i + 1] \in Special THEN 2 ELSE 1)
                 /\ Upon(u, i + 1) <= Len(s)
                 /\ u[i + 1] \in Special => s[w + 1] = Escape /\ s[w + 2] = u[i + 1]
                 /\ u[i + 1] \notin Special => s[w + 1] = u[i + 1]
    BY <2>2, Stuffing, Zenon
  <2> QED
    BY <2>1, <2>3, <2>4
<1> HIDE DEF w, s
<1>2. /\ FrameOf(u) = Append(s, Terminator) /\ Len(s) \in Nat /\ Len(FrameOf(u)) = Len(s) + 1
      /\ \A k \in 1 .. Len(s) : FrameOf(u)[k] = s[k]
      /\ FrameOf(u)[Len(s) + 1] = Terminator
  <2>1. FrameOf(u) = Append(s, Terminator) /\ Terminator \in Byte
    <3>1. Terminator \in Byte
      BY DEF Terminator, Byte
    <3> QED
      BY <3>1, Zenon DEF FrameOf, s
  <2> QED
    BY <1>1, <2>1
<1>3. i + 1 \in 0 .. n \/ i = n
  BY <1>1
<1>4. CASE ~esc /\ i = n
  <2>1. j = Len(s)
    BY <1>1, <1>4 DEF Within, w
  <2> QED
    BY <1>2, <1>4, <2>1, Zenon DEF NextByte
<1>5. CASE ~esc /\ i < n /\ u[i + 1] \notin Special
  <2>1. j = w /\ Upon(u, i + 1) = j + 1 /\ j + 1 <= Len(s) /\ s[j + 1] = u[i + 1]
    BY <1>1, <1>5 DEF Within, w
  <2>2. FrameOf(u)[j + 1] = u[i + 1] /\ j + 1 < Len(FrameOf(u))
    BY <1>2, <2>1
  <2>3. Within(u, j + 1, i + 1, FALSE)
    BY <1>1, <1>5, <2>1 DEF Within
  <2> QED
    BY <1>5, <2>2, <2>3, Zenon DEF NextByte
<1>6. CASE ~esc /\ i < n /\ u[i + 1] \in Special
  <2>1. j = w /\ Upon(u, i + 1) = j + 2 /\ j + 2 <= Len(s) /\ s[j + 1] = Escape
    BY <1>1, <1>6 DEF Within, w
  <2>2. FrameOf(u)[j + 1] = Escape /\ j + 1 < Len(FrameOf(u))
    BY <1>2, <2>1
  <2>3. Within(u, j + 1, i, TRUE)
    BY <1>1, <1>6, <2>1 DEF Within, w
  <2> QED
    BY <1>6, <2>2, <2>3, Zenon DEF NextByte
<1>7. CASE esc
  <2>1. j = w + 1 /\ i < n /\ u[i + 1] \in Special
    BY <1>7 DEF Within, w
  <2>2. Upon(u, i + 1) = j + 1 /\ j + 1 <= Len(s) /\ s[j + 1] = u[i + 1]
    <3>1. w + 2 = j + 1
      BY <1>1, <2>1
    <3> QED
      BY <1>1, <2>1, <3>1
  <2>3. FrameOf(u)[j + 1] = u[i + 1] /\ j + 1 < Len(FrameOf(u))
    BY <1>2, <2>2
  <2>4. Within(u, j + 1, i + 1, FALSE)
    BY <1>1, <2>1, <2>2 DEF Within
  <2> QED
    BY <1>7, <2>1, <2>3, <2>4, Zenon DEF NextByte
<1>8. i < n \/ i = n
  BY <1>1
<1> QED
  BY <1>4, <1>5, <1>6, <1>7, <1>8
-----------------------------------------------------------------------------
(***************************************************************************)
(* Where the frames are in the stream.                                     *)
(***************************************************************************)

\* Flattening the first pieces is flattening them up to the last of those.
LEMMA UptoSub ==
  ASSUME NEW A, NEW ss \in Seq(Seq(A)), NEW m \in 0 .. Len(ss)
  PROVE  FlattenSeq(SubSeq(ss, 1, m)) = Upto(ss, m)
<1> DEFINE s == SubSeq(ss, 1, m)
           n == Len(ss)
<1>1. /\ n \in Nat /\ m \in Nat /\ m <= n /\ \A k \in 1 .. n : ss[k] \in Seq(A)
  OBVIOUS
<1>2. s \in Seq(Seq(A)) /\ Len(s) = m /\ \A k \in 1 .. m : s[k] = ss[k]
  <2>1. \A S : \A x \in Seq(S) : \A j \in 0 .. Len(x) :
          SubSeq(x, 1, j) \in Seq(S) /\ Len(SubSeq(x, 1, j)) = j /\ \A i \in 1 .. j : SubSeq(x, 1, j)[i] = x[i]
    OBVIOUS
  <2> QED
    BY <2>1, Zenon
<1> HIDE DEF s
<1>3. /\ FlattenSeq(s) = Upto(s, m) /\ Upto(s, 0) = <<>>
      /\ \A k \in 1 .. m : Upto(s, k) = Upto(s, k - 1) \o s[k]
  BY <1>2, FlattenUpto, Zenon
<1>4. Upto(ss, 0) = <<>> /\ \A k \in 1 .. n : Upto(ss, k) = Upto(ss, k - 1) \o ss[k]
  BY FlattenUpto, Zenon
<1> DEFINE T == {k \in 0 .. m : Upto(s, k) = Upto(ss, k)}
<1>5. 0 \in T
  <2>1. 0 \in 0 .. m
    BY <1>1
  <2> QED
    BY <1>3, <1>4, <2>1
<1>6. ASSUME NEW k \in 0 .. m - 1, k \in T PROVE k + 1 \in T
  <2>1. k + 1 \in 1 .. m /\ k + 1 \in 1 .. n /\ k + 1 \in 0 .. m /\ (k + 1) - 1 = k
    BY <1>1
  <2>2. Upto(s, k + 1) = Upto(s, (k + 1) - 1) \o s[k + 1] /\ Upto(ss, k + 1) = Upto(ss, (k + 1) - 1) \o ss[k + 1]
    BY <1>3, <1>4, <2>1, Zenon
  <2>3. s[k + 1] = ss[k + 1] /\ Upto(s, k) = Upto(ss, k)
    BY <1>2, <1>6, <2>1, Zenon
  <2>4. Upto(s, k + 1) = Upto(ss, k + 1)
    <3>1. Upto(s, (k + 1) - 1) = Upto(ss, (k + 1) - 1)
      BY <2>1, <2>3
    <3> QED
      BY <2>2, <2>3, <3>1, Zenon
  <2> QED
    BY <2>1, <2>4, Zenon
<1>7. m \in T
  <2> HIDE DEF T
  <2>1. \A k \in 0 .. m : k \in T
    BY <1>1, <1>5, <1>6, Climbs
  <2> QED
    BY <1>1, <2>1
<1> QED
  BY <1>3, <1>7 DEF s

\* What a frame stands for.
Content(k) == Append(Script[k], CRC(Script[k]))

\* The frames of the script.
LEMMA FramesAre ==
  ASSUME ControlAssumption
  PROVE  /\ Frames \in Seq(Seq(Byte)) /\ Len(Frames) = Len(Script) /\ Len(Script) \in Nat
         /\ DOMAIN Script = 1 .. Len(Script)
         /\ \A k \in 1 .. Len(Script) :
              /\ Script[k] \in Seq(Byte) /\ Script[k] # <<>> /\ Script[k][1] \notin Special
              /\ Content(k) \in Seq(Byte) /\ Frames[k] = FrameOf(Content(k))
<1>1. /\ CheckByteCancels /\ Len(Script) \in Nat /\ DOMAIN Script = 1 .. Len(Script)
      /\ \A k \in 1 .. Len(Script) : Script[k] \in Seq(Byte)
  <2>1. Script \in Seq(Seq(Byte)) /\ CheckByteCancels
    BY DEF ControlAssumption
  <2>2. \A S : \A x \in Seq(S) : Len(x) \in Nat /\ DOMAIN x = 1 .. Len(x) /\ \A k \in 1 .. Len(x) : x[k] \in S
    OBVIOUS
  <2> QED
    BY <2>1, <2>2, Zenon
<1>2. \A k \in 1 .. Len(Script) : Script[k] # <<>> /\ Script[k][1] \notin Special
  BY <1>1, Zenon DEF ControlAssumption, Special
<1>3. ASSUME NEW k \in 1 .. Len(Script)
      PROVE  Content(k) \in Seq(Byte) /\ Frames[k] = FrameOf(Content(k)) /\ Frames[k] \in Seq(Byte)
  <2>1. Content(k) \in Seq(Byte)
    BY <1>1, <1>2, FrameIsValid, Zenon DEF Content
  <2>2. Frames[k] = FrameOf(Content(k))
    BY <1>1, Zenon DEF Frames, BuildFrame, FrameOf, Content
  <2>3. Stuff(Content(k)) \in Seq(Byte) /\ Terminator \in Byte
    <3>1. Terminator \in Byte
      BY DEF Terminator, Byte
    <3> QED
      BY <2>1, <3>1, Stuffing, Zenon
  <2>4. \A s \in Seq(Byte), e \in Byte : Append(s, e) \in Seq(Byte)
    OBVIOUS
  <2> QED
    BY <2>1, <2>2, <2>3, <2>4, Zenon DEF FrameOf
<1>4. Frames \in Seq(Seq(Byte)) /\ Len(Frames) = Len(Script)
  <2>1. Frames = [k \in 1 .. Len(Script) |-> Frames[k]]
    BY <1>1, Zenon DEF Frames
  <2>2. \A n \in Nat : \A f, S :
          f = [k \in 1 .. n |-> f[k]] /\ (\A k \in 1 .. n : f[k] \in S) => f \in Seq(S) /\ Len(f) = n
    OBVIOUS
  <2> QED
    BY <1>1, <1>3, <2>1, <2>2, Zenon
<1> QED
  BY <1>1, <1>2, <1>3, <1>4, Zenon

\* Where the frames are: one after the other, without gaps.
Placed(k) ==
  /\ End[k - 1] \in Nat /\ End[k] \in Nat /\ End[k] = End[k - 1] + Len(Frames[k]) /\ End[k] <= Len(Stream)
  /\ Len(Frames[k]) >= 2
  /\ \A t \in 1 .. Len(Frames[k]) : Stream[End[k - 1] + t] = Frames[k][t]

\* The stream is the frames, one behind the other.
LEMMA StreamIs ==
  ASSUME ControlAssumption
  PROVE  /\ Stream \in Seq(Byte) /\ Len(Stream) \in Nat /\ End[0] = 0 /\ End[Len(Script)] = Len(Stream)
         /\ \A k \in 0 .. Len(Script) : End[k] \in Nat
         /\ \A k \in 1 .. Len(Script) : Placed(k)
<1> DEFINE n == Len(Script)
<1>1. /\ Frames \in Seq(Seq(Byte)) /\ Len(Frames) = n /\ n \in Nat
      /\ \A k \in 1 .. n : /\ Script[k] \in Seq(Byte) /\ Script[k] # <<>>
                           /\ Content(k) \in Seq(Byte) /\ Frames[k] = FrameOf(Content(k))
  BY FramesAre, Zenon
<1>2. /\ Stream = Upto(Frames, n) /\ Upto(Frames, 0) = <<>>
      /\ \A k \in 1 .. n : Upto(Frames, k) = Upto(Frames, k - 1) \o Frames[k]
      /\ \A k \in 0 .. n : Upto(Frames, k) \in Seq(Byte)
  BY <1>1, FlattenUpto, Zenon DEF Stream
<1>3. \A k \in 0 .. n : End[k] = Len(Upto(Frames, k))
  BY <1>1, UptoSub, Zenon DEF End
<1>4. \A k \in 0 .. n : End[k] \in Nat
  <2>1. \A s \in Seq(Byte) : Len(s) \in Nat
    OBVIOUS
  <2> QED
    BY <1>2, <1>3, <2>1, Zenon
<1>5. Stream \in Seq(Byte) /\ Len(Stream) \in Nat /\ End[0] = 0 /\ End[n] = Len(Stream)
  <2>1. 0 \in 0 .. n /\ n \in 0 .. n /\ Len(<<>>) = 0
    BY <1>1
  <2> QED
    BY <1>2, <1>3, <1>4, <2>1, Zenon
<1>6. ASSUME NEW k \in 1 .. n PROVE Placed(k)
  <2>1. k - 1 \in 0 .. n /\ k \in 0 .. n /\ n \in 0 .. n
    BY <1>1
  <2>2. End[k - 1] = Start(Frames, k) /\ End[k - 1] \in Nat /\ End[k] \in Nat
    BY <1>3, <1>4, <2>1, Zenon DEF Start
  <2>3. Frames[k] \in Seq(Byte) /\ Len(Frames[k]) \in Nat
    <3>1. \A S : \A x \in Seq(S) : \A j \in 1 .. Len(x) : x[j] \in S
      OBVIOUS
    <3>2. Frames[k] \in Seq(Byte)
      BY <1>1, <3>1, Zenon
    <3> QED
      BY <3>2
  <2>4. End[k] = End[k - 1] + Len(Frames[k])
    <3>1. \A a, b \in Seq(Byte) : Len(a \o b) = Len(a) + Len(b)
      BY ConcatProperties
    <3>2. Upto(Frames, k) = Upto(Frames, k - 1) \o Frames[k] /\ Upto(Frames, k - 1) \in Seq(Byte)
      BY <1>2, <2>1, Zenon
    <3>3. Len(Upto(Frames, k)) = Len(Upto(Frames, k - 1)) + Len(Frames[k])
      BY <2>3, <3>1, <3>2, Zenon
    <3>4. End[k] = Len(Upto(Frames, k)) /\ End[k - 1] = Len(Upto(Frames, k - 1))
      BY <1>3, <2>1, Zenon
    <3> QED
      BY <3>3, <3>4, Zenon
  <2>5. /\ End[k - 1] + Len(Frames[k]) <= Len(Stream)
        /\ \A t \in 1 .. Len(Frames[k]) : Stream[End[k - 1] + t] = Frames[k][t]
    <3>1. n \in 0 .. Len(Frames)
      BY <1>1, <2>1
    <3>2. \A i \in 1 .. n :
            /\ Start(Frames, i) + Len(Frames[i]) <= Len(Upto(Frames, n))
            /\ \A t \in 1 .. Len(Frames[i]) : Upto(Frames, n)[Start(Frames, i) + t] = Frames[i][t]
      BY <1>1, <3>1, FlattenPlaces, Zenon
    <3> QED
      BY <1>2, <2>2, <3>2, Zenon
  <2>6. Len(Frames[k]) >= 2
    <3> DEFINE u == Content(k)
               s == Stuff(u)
    <3>1. u \in Seq(Byte) /\ Len(u) \in Nat /\ Len(u) >= 1
      <4>1. Script[k] \in Seq(Byte) /\ CRC(Script[k]) \in Byte /\ u = Append(Script[k], CRC(Script[k]))
        <5>1. CheckByteCancels
          BY DEF ControlAssumption
        <5> QED
          BY <1>1, <5>1, FrameIsValid, Zenon DEF Content
      <4> HIDE DEF u
      <4> QED
        BY <4>1
    <3>2. /\ s \in Seq(Byte) /\ Upon(u, 0) \in Nat /\ Upon(u, 0 + 1) <= Len(s)
          /\ Upon(u, 0 + 1) = Upon(u, 0) + (IF u[0 + 1] \in Special THEN 2 ELSE 1)
      <4>1. 0 \in 0 .. Len(u) - 1 /\ 0 \in 0 .. Len(u)
        BY <3>1
      <4> QED
        BY <3>1, <4>1, Stuffing, Zenon
    <3>3. Frames[k] = Append(s, Terminator) /\ Terminator \in Byte
      <4>1. Terminator \in Byte
        BY DEF Terminator, Byte
      <4> QED
        BY <1>1, <4>1, Zenon DEF FrameOf
    <3> HIDE DEF u, s
    <3>4. Len(Frames[k]) = Len(s) + 1 /\ Len(s) \in Nat
      BY <3>2, <3>3
    <3> QED
      BY <3>2, <3>4
  <2>7. End[k] <= Len(Stream)
    BY <2>4, <2>5
  <2> QED
    BY <2>2, <2>4, <2>5, <2>6, <2>7, Zenon DEF Placed
<1> QED
  BY <1>4, <1>5, <1>6, Zenon

\* Later frames end later.
LEMMA EndsRise ==
  ASSUME ControlAssumption, NEW i \in 0 .. Len(Script), NEW k \in 0 .. Len(Script), i <= k
  PROVE  End[i] <= End[k]
<1> DEFINE n == Len(Script)
           T == {j \in 0 .. n : j >= i => End[i] <= End[j]}
<1>1. n \in Nat /\ \A j \in 0 .. n : End[j] \in Nat
  BY FramesAre, StreamIs, Zenon
<1>2. \A j \in 1 .. n : End[j - 1] <= End[j]
  <2> SUFFICES ASSUME NEW j \in 1 .. n PROVE End[j - 1] <= End[j]
    OBVIOUS
  <2>1. Placed(j)
    BY StreamIs, Zenon
  <2>2. End[j - 1] \in Nat /\ End[j] = End[j - 1] + Len(Frames[j]) /\ Len(Frames[j]) >= 2 /\ End[j] \in Nat
    BY <2>1, Zenon DEF Placed
  <2>3. Len(Frames[j]) \in Nat
    BY FramesAre
  <2> QED
    BY <2>2, <2>3
<1>3. 0 \in T
  BY <1>1
<1>4. ASSUME NEW j \in 0 .. n - 1, j \in T PROVE j + 1 \in T
  <2>1. j + 1 \in 1 .. n /\ j + 1 \in 0 .. n /\ (j + 1) - 1 = j /\ j \in 0 .. n
    BY <1>1
  <2>2. End[j] <= End[j + 1] /\ End[j] \in Nat /\ End[j + 1] \in Nat /\ End[i] \in Nat
    BY <1>1, <1>2, <2>1
  <2>3. CASE i <= j
    BY <1>4, <2>1, <2>2, <2>3
  <2>4. CASE i = j + 1
    BY <2>1, <2>2, <2>4
  <2>5. CASE i > j + 1
    BY <2>1, <2>5
  <2> QED
    BY <2>1, <2>3, <2>4, <2>5
<1>5. k \in T
  <2> HIDE DEF T
  <2>1. \A j \in 0 .. n : j \in T
    BY <1>1, <1>3, <1>4, Climbs
  <2> QED
    BY <2>1
<1> QED
  BY <1>5

\* Position p + 1 of the stream is one of the bytes of frame k.
Inside(k, p) == End[k - 1] <= p /\ p < End[k]

\* Each byte of the stream is a frame's.
LEMMA FrameAt ==
  ASSUME ControlAssumption, NEW p \in 0 .. Len(Stream) - 1
  PROVE  \E k \in 1 .. Len(Script) : Inside(k, p)
<1> SUFFICES ASSUME \A k \in 1 .. Len(Script) : ~ Inside(k, p) PROVE FALSE
  OBVIOUS
<1> DEFINE n == Len(Script)
           T == {k \in 0 .. n : End[k] <= p}
<1>1. n \in Nat /\ Len(Stream) \in Nat /\ End[0] = 0 /\ End[n] = Len(Stream) /\ \A j \in 0 .. n : End[j] \in Nat
  BY FramesAre, StreamIs, Zenon
<1>2. 0 \in T
  BY <1>1
<1>3. ASSUME NEW j \in 0 .. n - 1, j \in T PROVE j + 1 \in T
  <2>1. j + 1 \in 1 .. n /\ j + 1 \in 0 .. n /\ (j + 1) - 1 = j
    BY <1>1
  <2>2. ~ (p < End[j + 1])
    BY <1>3, <2>1 DEF Inside
  <2> QED
    BY <1>1, <2>1, <2>2
<1>4. n \in T
  <2> HIDE DEF T
  <2>1. \A j \in 0 .. n : j \in T
    BY <1>1, <1>2, <1>3, Climbs
  <2> QED
    BY <1>1, <2>1
<1> QED
  BY <1>1, <1>4

\* No other frame has that byte, and the next one begins where it ends.
LEMMA OneFrame ==
  ASSUME ControlAssumption, NEW p \in Nat, NEW k \in 1 .. Len(Script), NEW m \in 1 .. Len(Script), Inside(k, p)
  PROVE  /\ Inside(m, p) => m = k
         /\ Inside(m, p + 1) => \/ m = k /\ p + 1 < End[k]
                                \/ m = k + 1 /\ p + 1 = End[k]
         /\ End[m] = p + 1 => m = k
         /\ End[m] <= p => m < k
<1> DEFINE n == Len(Script)
<1>1. n \in Nat /\ \A j \in 0 .. n : End[j] \in Nat
  BY FramesAre, StreamIs, Zenon
<1>2. /\ End[k - 1] <= p /\ p < End[k] /\ k \in 0 .. n /\ k - 1 \in 0 .. n /\ m \in 0 .. n /\ m - 1 \in 0 .. n
      /\ End[k] \in Nat /\ End[k - 1] \in Nat /\ End[m] \in Nat /\ End[m - 1] \in Nat /\ k \in Nat /\ m \in Nat
  BY <1>1 DEF Inside
<1>3. m < k => End[m] <= End[k - 1]
  <2>1. m < k => m <= k - 1
    BY <1>2
  <2> QED
    BY <1>2, <2>1, EndsRise
<1>4. k < m => End[k] <= End[m - 1]
  <2>1. k < m => k <= m - 1
    BY <1>2
  <2> QED
    BY <1>2, <2>1, EndsRise
<1>5. End[m - 1] < End[m]
  <2>1. Placed(m)
    BY StreamIs, Zenon
  <2>2. End[m] = End[m - 1] + Len(Frames[m]) /\ Len(Frames[m]) >= 2
    BY <2>1, Zenon DEF Placed
  <2>3. Len(Frames[m]) \in Nat
    BY FramesAre
  <2> QED
    BY <1>2, <2>2, <2>3
<1>6. m > k + 1 => End[k + 1] <= End[m - 1] /\ End[k] < End[k + 1] /\ End[k + 1] \in Nat
  <2> SUFFICES ASSUME m > k + 1 PROVE End[k + 1] <= End[m - 1] /\ End[k] < End[k + 1] /\ End[k + 1] \in Nat
    OBVIOUS
  <2>1. k + 1 <= m - 1 /\ k + 1 \in 0 .. n /\ k + 1 \in 1 .. n /\ (k + 1) - 1 = k
    BY <1>1, <1>2
  <2>2. Placed(k + 1)
    BY <2>1, StreamIs, Zenon
  <2>3. End[k + 1] = End[(k + 1) - 1] + Len(Frames[k + 1]) /\ Len(Frames[k + 1]) >= 2 /\ End[k + 1] \in Nat
    BY <2>2, Zenon DEF Placed
  <2>4. Len(Frames[k + 1]) \in Nat
    BY <2>1, FramesAre
  <2>5. End[k + 1] <= End[m - 1]
    BY <1>2, <2>1, EndsRise
  <2> QED
    BY <1>2, <2>1, <2>3, <2>4, <2>5
<1>7. ASSUME m < k
      PROVE End[m] <= p
  BY <1>2, <1>3, <1>7
<1>8. ASSUME k < m
      PROVE  p + 1 <= End[m - 1] /\ p + 1 < End[m]
  BY <1>2, <1>4, <1>5, <1>8
<1>9. Inside(m, p) => m = k
  BY <1>2, <1>7, <1>8 DEF Inside
<1>10. Inside(m, p + 1) => (m = k /\ p + 1 < End[k]) \/ (m = k + 1 /\ p + 1 = End[k])
  <2> SUFFICES ASSUME Inside(m, p + 1) PROVE (m = k /\ p + 1 < End[k]) \/ (m = k + 1 /\ p + 1 = End[k])
    OBVIOUS
  <2>1. End[m - 1] <= p + 1 /\ p + 1 < End[m]
    BY DEF Inside
  <2>2. CASE m < k
    BY <1>2, <1>7, <2>1, <2>2
  <2>3. CASE m = k
    BY <2>1, <2>3, Zenon
  <2>4. CASE m = k + 1
    <3>1. m - 1 = k /\ k < m
      BY <1>2, <2>4
    <3>2. End[k] <= p + 1
      BY <1>2, <1>4, <2>1, <3>1
    <3> QED
      BY <1>2, <2>4, <3>2
  <2>5. CASE m > k + 1
    BY <1>2, <1>6, <2>1, <2>5
  <2> QED
    BY <1>2, <2>2, <2>3, <2>4, <2>5
<1>11. (End[m] = p + 1 => m = k) /\ (End[m] <= p => m < k)
  <2>1. m < k => End[m] <= p
    BY <1>7
  <2>2. k < m => End[m] > p + 1
    BY <1>2, <1>8
  <2> QED
    BY <1>2, <2>1, <2>2
<1> QED
  BY <1>9, <1>10, <1>11
-----------------------------------------------------------------------------
(***************************************************************************)
(* One byte for the reader.                                                *)
(***************************************************************************)

Parsers == [esc : BOOLEAN, acc : Seq(Byte), frames : {<<>>}]
Handled == [at : Nat, payload : Seq(Byte)]
Events == {Event(payload) : payload \in Seq(Byte)}
Outgoing == {Ack, Nack, Sync, Normal(Identity)}
States == [parser : Parsers, sentSync : BOOLEAN, crcErrors : Nat,
           handled : Seq(Handled), events : Seq(Events), replies : Seq(Outgoing)]

\* What a frame of its own, and one that fails its check, leave behind.
Told(st, payload, at) ==
  [parser |-> Empty, sentSync |-> (st.sentSync \/ AsksForSync(payload, st.sentSync)),
   crcErrors |-> st.crcErrors, handled |-> Append(st.handled, [at |-> at, payload |-> payload]),
   events |-> Append(st.events, Event(payload)), replies |-> st.replies \o Replies(payload, st.sentSync)]
AfterBad(st) ==
  [parser |-> Empty, sentSync |-> st.sentSync, crcErrors |-> st.crcErrors + 1, handled |-> st.handled,
   events |-> st.events, replies |-> IF emulation = "BP7100" THEN Append(st.replies, Nack) ELSE st.replies]
Goes(st, r) == [st EXCEPT !.parser = r]

Fed(st, b, at, t) ==
  LET acc == st.parser.acc
      esc == st.parser.esc
  IN \/ /\ esc \/ b \notin Special
        /\ t = Goes(st, [esc |-> FALSE, acc |-> Append(acc, b), frames |-> <<>>])
     \/ /\ ~esc /\ b = Escape
        /\ t = Goes(st, [esc |-> TRUE, acc |-> acc, frames |-> <<>>])
     \/ /\ ~esc /\ b = Terminator
        /\ \/ Len(acc) < 2 /\ t = Goes(st, Empty)
           \/ Len(acc) >= 2 /\ Valid(acc) /\ t = Told(st, DecodeFrame(acc), at)
           \/ Len(acc) >= 2 /\ ~Valid(acc) /\ t = AfterBad(st)

\* Records with the fields of the read loop's state.
Records(A, B, C, D, E, F) == [parser : A, sentSync : B, crcErrors : C, handled : D, events : E, replies : F]
Cleared == Records({Empty}, BOOLEAN, Nat, Seq(Handled), Seq(Events), Seq(Outgoing))

\* What BadFrame does, field by field.
LEMMA Spoils ==
  ASSUME NEW s \in Cleared
  PROVE  BadFrame(s) = [parser |-> s.parser, sentSync |-> s.sentSync, crcErrors |-> s.crcErrors + 1,
                        handled |-> s.handled, events |-> s.events,
                        replies |-> IF emulation = "BP7100" THEN Append(s.replies, Nack) ELSE s.replies]
<1> DEFINE c == s.crcErrors + 1
           r == IF emulation = "BP7100" THEN Append(s.replies, Nack) ELSE s.replies
           s1 == [s EXCEPT !.crcErrors = c]
           s2 == [s1 EXCEPT !.replies = r]
<1>0. BadFrame(s) = [s EXCEPT !.crcErrors = c, !.replies = r]
  BY Zenon DEF BadFrame
<1> HIDE DEF c, r
<1>1. [s EXCEPT !.crcErrors = c, !.replies = r] = s2
  BY DEF Cleared, Records
<1>2. /\ s1 \in Records({Empty}, BOOLEAN, {c}, Seq(Handled), Seq(Events), Seq(Outgoing))
      /\ s1.parser = s.parser /\ s1.sentSync = s.sentSync /\ s1.handled = s.handled /\ s1.events = s.events
  BY DEF Cleared, Records
<1> HIDE DEF s1
<1>3. /\ s2 \in Records({Empty}, BOOLEAN, {c}, Seq(Handled), Seq(Events), {r})
      /\ s2.parser = s1.parser /\ s2.sentSync = s1.sentSync /\ s2.handled = s1.handled /\ s2.events = s1.events
  BY <1>2 DEF Records
<1> HIDE DEF s2
<1>4. s2 = [parser |-> s.parser, sentSync |-> s.sentSync, crcErrors |-> c,
            handled |-> s.handled, events |-> s.events, replies |-> r]
  BY <1>2, <1>3 DEF Records
<1> QED
  BY <1>0, <1>1, <1>4, Zenon DEF c, r

\* What EmitInfo does, field by field.
LEMMA Emits ==
  ASSUME NEW s \in Cleared, NEW m, NEW at
  PROVE  EmitInfo(s, m, at) =
           [parser |-> s.parser, sentSync |-> (s.sentSync \/ AsksForSync(m, s.sentSync)),
            crcErrors |-> s.crcErrors, handled |-> Append(s.handled, [at |-> at, payload |-> m]),
            events |-> Append(s.events, Event(m)), replies |-> s.replies \o Replies(m, s.sentSync)]
<1> DEFINE y == s.sentSync \/ AsksForSync(m, s.sentSync)
           h == Append(s.handled, [at |-> at, payload |-> m])
           e == Append(s.events, Event(m))
           r == s.replies \o Replies(m, s.sentSync)
           s1 == [s EXCEPT !.handled = h]
           s2 == [s1 EXCEPT !.events = e]
           s3 == [s2 EXCEPT !.replies = r]
           s4 == [s3 EXCEPT !.sentSync = y]
<1>0. EmitInfo(s, m, at) = [s EXCEPT !.handled = h, !.events = e, !.replies = r, !.sentSync = y]
  BY Zenon DEF EmitInfo
<1> HIDE DEF y, h, e, r
<1>1. [s EXCEPT !.handled = h, !.events = e, !.replies = r, !.sentSync = y] = s4
  BY DEF Cleared, Records
<1>2. /\ s1 \in Records({Empty}, BOOLEAN, Nat, {h}, Seq(Events), Seq(Outgoing))
      /\ s1.parser = s.parser /\ s1.crcErrors = s.crcErrors
  BY DEF Cleared, Records
<1> HIDE DEF s1
<1>3. /\ s2 \in Records({Empty}, BOOLEAN, Nat, {h}, {e}, Seq(Outgoing))
      /\ s2.parser = s1.parser /\ s2.crcErrors = s1.crcErrors
  BY <1>2 DEF Records
<1> HIDE DEF s2
<1>4. s3 \in Records({Empty}, BOOLEAN, Nat, {h}, {e}, {r}) /\ s3.parser = s2.parser /\ s3.crcErrors = s2.crcErrors
  BY <1>3 DEF Records
<1> HIDE DEF s3
<1>5. s4 \in Records({Empty}, {y}, Nat, {h}, {e}, {r}) /\ s4.parser = s3.parser /\ s4.crcErrors = s3.crcErrors
  BY <1>4 DEF Records
<1> HIDE DEF s4
<1>6. s4 = [parser |-> s.parser, sentSync |-> y, crcErrors |-> s.crcErrors,
            handled |-> h, events |-> e, replies |-> r]
  BY <1>2, <1>3, <1>4, <1>5 DEF Records
<1> QED
  BY <1>0, <1>1, <1>6, Zenon DEF y, h, e, r

\* What the read loop does with a byte.
LEMMA TakesByte ==
  ASSUME NEW st \in States, NEW at, Stream[at] \in Byte
  PROVE  Fed(st, Stream[at], at, TakeControlByte(st, at))
<1> DEFINE r == st.parser
           b == Stream[at]
           n == TakeByte(r, b)
<1>1. r \in Parsers /\ r.esc \in BOOLEAN /\ r.acc \in Seq(Byte) /\ r.frames = <<>>
      /\ Len(r.acc) \in Nat
  BY DEF States, Parsers
<1>2. TakeControlByte(st, at) =
        IF n.frames = <<>> THEN [st EXCEPT !.parser = n]
        ELSE IF Valid(n.frames[1])
          THEN EmitInfo([st EXCEPT !.parser = [n EXCEPT !.frames = <<>>]], DecodeFrame(n.frames[1]), at)
          ELSE BadFrame([st EXCEPT !.parser = [n EXCEPT !.frames = <<>>]])
  BY DEF TakeControlByte
<1> HIDE DEF b
<1>3. CASE r.esc
  <2>1. n = [esc |-> FALSE, acc |-> Append(r.acc, b), frames |-> <<>>]
    BY <1>1, <1>3 DEF TakeByte, Parsers
  <2> QED
    BY <1>2, <1>3, <2>1 DEF Fed, Goes, b
<1>4. CASE ~r.esc /\ b = Escape
  <2>1. n = [esc |-> TRUE, acc |-> r.acc, frames |-> <<>>]
    BY <1>1, <1>4 DEF TakeByte, Parsers
  <2> QED
    BY <1>2, <1>4, <2>1 DEF Fed, Goes, b
<1>5. CASE ~r.esc /\ b = Terminator
  <2>0. Escape # Terminator
    BY DEF Escape, Terminator
  <2>1. n = [esc |-> FALSE, acc |-> <<>>, frames |-> IF Len(r.acc) < 2 THEN <<>> ELSE Append(<<>>, r.acc)]
    BY <1>1, <1>5, <2>0 DEF TakeByte, Parsers
  <2>2. CASE Len(r.acc) < 2
    <3>1. n = Empty /\ n.frames = <<>>
      BY <2>1, <2>2 DEF Empty
    <3> QED
      BY <1>2, <1>5, <2>2, <3>1 DEF Fed, Goes, b
  <2>3. CASE Len(r.acc) >= 2
    <3>1. n.frames = <<r.acc>> /\ n.frames # <<>> /\ n.frames[1] = r.acc /\ [n EXCEPT !.frames = <<>>] = Empty
      <4>1. Append(<<>>, r.acc) = <<r.acc>>
        BY <1>1
      <4>2. n = [esc |-> FALSE, acc |-> <<>>, frames |-> <<r.acc>>]
        <5>1. ~ (Len(r.acc) < 2)
          BY <1>1, <2>3
        <5> QED
          BY <2>1, <4>1, <5>1, Zenon
      <4> DEFINE a == r.acc
      <4>3. n = [esc |-> FALSE, acc |-> <<>>, frames |-> <<a>>]
        BY <4>2
      <4> HIDE DEF n, a
      <4>4. n.frames = <<a>> /\ <<a>> # <<>> /\ <<a>>[1] = a
        BY <4>3
      <4>5. [n EXCEPT !.frames = <<>>] = Empty
        <5>1. n \in [esc : BOOLEAN, acc : {<<>>}, frames : {<<a>>}] /\ n.esc = FALSE /\ n.acc = <<>>
          BY <4>3
        <5>2. [n EXCEPT !.frames = <<>>] = [esc |-> n.esc, acc |-> n.acc, frames |-> <<>>]
          BY <5>1
        <5> QED
          BY <5>1, <5>2, Zenon DEF Empty
      <4> QED
        BY <4>4, <4>5 DEF a
    <3> DEFINE s == [st EXCEPT !.parser = Empty]
    <3>2. /\ s.parser = Empty /\ s.sentSync = st.sentSync /\ s.crcErrors = st.crcErrors
          /\ s.handled = st.handled /\ s.events = st.events /\ s.replies = st.replies
          /\ s \in Cleared
      BY DEF States, Cleared, Records
    <3>3. TakeControlByte(st, at) = IF Valid(r.acc) THEN EmitInfo(s, DecodeFrame(r.acc), at) ELSE BadFrame(s)
      BY <1>2, <3>1, Zenon
    <3> HIDE DEF s, n
    <3>4. EmitInfo(s, DecodeFrame(r.acc), at) = Told(st, DecodeFrame(r.acc), at)
      <4> DEFINE m == DecodeFrame(r.acc)
      <4> HIDE DEF m
      <4>1. EmitInfo(s, m, at) =
           [parser |-> s.parser, sentSync |-> (s.sentSync \/ AsksForSync(m, s.sentSync)),
            crcErrors |-> s.crcErrors, handled |-> Append(s.handled, [at |-> at, payload |-> m]),
            events |-> Append(s.events, Event(m)), replies |-> s.replies \o Replies(m, s.sentSync)]
        BY <3>2, Emits, Zenon
      <4>2. EmitInfo(s, m, at) = Told(st, m, at)
        BY <3>2, <4>1 DEF Told
      <4> QED
        BY <4>2 DEF m
    <3>5. BadFrame(s) = AfterBad(st)
      <4>1. BadFrame(s) =
              [parser |-> s.parser, sentSync |-> s.sentSync, crcErrors |-> s.crcErrors + 1,
               handled |-> s.handled, events |-> s.events,
               replies |-> IF emulation = "BP7100" THEN Append(s.replies, Nack) ELSE s.replies]
        BY <3>2, Spoils, Zenon
      <4> QED
        BY <3>2, <4>1 DEF AfterBad
    <3> QED
      BY <1>5, <2>3, <3>3, <3>4, <3>5, Zenon DEF Fed, b
  <2> QED
    BY <1>1, <2>2, <2>3
<1>6. CASE ~r.esc /\ b \notin Special
  <2>1. n = [esc |-> FALSE, acc |-> Append(r.acc, b), frames |-> <<>>]
    BY <1>1, <1>6 DEF TakeByte, Parsers, Special
  <2> QED
    BY <1>2, <1>6, <2>1 DEF Fed, Goes, b
<1> QED
  BY <1>3, <1>4, <1>5, <1>6, Zenon DEF Special

\* A frame that is long enough is decoded to bytes, at least one.
LEMMA Decodes ==
  ASSUME NEW s \in Seq(Byte), Len(s) >= 2
  PROVE  DecodeFrame(s) \in Seq(Byte) /\ DecodeFrame(s) # <<>>
<1>1. Front(s) \in Seq(Byte) /\ Front(s) # <<>>
  <2> DEFINE n == Len(s) - 1
  <2>1. n \in Int /\ n >= 1 /\ 1 \in Int /\ \A i \in 1 .. n : s[i] \in Byte
    OBVIOUS
  <2> HIDE DEF n
  <2>4. SubSeq(s, 1, n) \in Seq(Byte) /\ Len(SubSeq(s, 1, n)) # 0
    BY <2>1, SubSeqProperties
  <2>2. Front(s) \in Seq(Byte) /\ Len(Front(s)) # 0
    BY <2>4, Zenon DEF Front, n
  <2>3. Len(<<>>) = 0
    OBVIOUS
  <2> QED
    BY <2>2, <2>3, Zenon
<1> DEFINE raw == Front(s)
<1>2. DecodeFrame(s) = NormalizePayload(raw)
  BY DEF DecodeFrame
<1> HIDE DEF raw
<1>3. raw \in Seq(Byte) /\ raw # <<>>
  BY <1>1 DEF raw
<1>4. Len(raw) >= 2 => Tail(raw) \in Seq(Byte) /\ Tail(raw) # <<>>
  <2>1. Tail(raw) \in Seq(Byte) /\ Len(Tail(raw)) = Len(raw) - 1
    BY <1>3, HeadTailProperties, Zenon
  <2>4. Len(raw) \in Nat
    BY <1>3
  <2>2. Len(raw) >= 2 => Len(Tail(raw)) # 0
    BY <2>1, <2>4
  <2>3. Len(<<>>) = 0
    OBVIOUS
  <2> QED
    BY <2>1, <2>2, <2>3, Zenon
<1> QED
  BY <1>2, <1>3, <1>4, Zenon DEF NormalizePayload

\* The replies are of the four kinds.
LEMMA RepliesSent ==
  ASSUME NEW m, NEW synced
  PROVE  Replies(m, synced) \in Seq(Outgoing)
<1> DEFINE a == IF m[1] \in {80, 82, 67} \/ IsInfo(m) THEN <<Ack>> ELSE <<>>
           b == IF AsksForSync(m, synced) THEN <<Sync>> ELSE <<>>
           c == IF AsksForIdentity(m) THEN <<Normal(Identity)>> ELSE <<>>
<1>1. Replies(m, synced) = (a \o b) \o c
  <2>1. Replies(m, synced) = a \o b \o c
    BY Zenon DEF Replies
  <2>2. a \in Seq(Outgoing) /\ b \in Seq(Outgoing) /\ c \in Seq(Outgoing)
    <3>1. Ack \in Outgoing /\ Sync \in Outgoing /\ Normal(Identity) \in Outgoing
      BY DEF Outgoing
    <3>2. \A x \in Outgoing : <<x>> \in Seq(Outgoing) /\ <<>> \in Seq(Outgoing)
      <4> HIDE DEF Outgoing
      <4> QED
        OBVIOUS
    <3> QED
      BY <3>1, <3>2, Zenon
  <2> HIDE DEF a, b, c
  <2> QED
    BY <2>1
<1>2. a \in Seq(Outgoing) /\ b \in Seq(Outgoing) /\ c \in Seq(Outgoing)
  <2>1. Ack \in Outgoing /\ Sync \in Outgoing /\ Normal(Identity) \in Outgoing
    BY DEF Outgoing
  <2>2. \A x \in Outgoing : <<x>> \in Seq(Outgoing) /\ <<>> \in Seq(Outgoing)
    OBVIOUS
  <2> QED
    BY <2>1, <2>2, Zenon
<1> HIDE DEF a, b, c
<1>3. \A x, y \in Seq(Outgoing) : x \o y \in Seq(Outgoing)
  OBVIOUS
<1> QED
  BY <1>1, <1>2, <1>3, Zenon

\* A byte leaves the state one of the read loop's.
LEMMA FeedsType ==
  ASSUME NEW st \in States, NEW b \in Byte, NEW at \in Nat, NEW t, Fed(st, b, at, t)
  PROVE  t \in States
<1> DEFINE acc == st.parser.acc
<1>1. /\ st.parser \in Parsers /\ acc \in Seq(Byte) /\ st.sentSync \in BOOLEAN /\ st.crcErrors \in Nat
      /\ st.handled \in Seq(Handled) /\ st.events \in Seq(Events) /\ st.replies \in Seq(Outgoing)
  BY DEF States, Parsers
<1>2. ASSUME NEW r \in Parsers PROVE Goes(st, r) \in States
  BY <1>2 DEF States, Goes
<1>3. Append(acc, b) \in Seq(Byte)
  BY <1>1
<1>4. [esc |-> FALSE, acc |-> Append(acc, b), frames |-> <<>>] \in Parsers
  BY <1>3 DEF Parsers
<1>5. [esc |-> TRUE, acc |-> acc, frames |-> <<>>] \in Parsers
  BY <1>1 DEF Parsers
<1>6. Empty \in Parsers
  BY DEF Parsers, Empty
<1>7. ASSUME Len(acc) >= 2 PROVE Told(st, DecodeFrame(acc), at) \in States
  <2> DEFINE m == DecodeFrame(acc)
             y == st.sentSync \/ AsksForSync(m, st.sentSync)
             h == Append(st.handled, [at |-> at, payload |-> m])
             e == Append(st.events, Event(m))
             q == st.replies \o Replies(m, st.sentSync)
  <2>1. m \in Seq(Byte)
    BY <1>1, <1>7, Decodes, Zenon
  <2>2. h \in Seq(Handled)
    <3> HIDE DEF m
    <3>1. [at |-> at, payload |-> m] \in Handled
      BY <2>1 DEF Handled
    <3> QED
      BY <1>1, <3>1
  <2>3. e \in Seq(Events)
    <3>1. Event(m) \in Events
      BY <2>1, Zenon DEF Events
    <3> QED
      BY <1>1, <3>1
  <2>4. q \in Seq(Outgoing)
    <3>1. Replies(m, st.sentSync) \in Seq(Outgoing)
      BY RepliesSent, Zenon
    <3>2. \A v, w \in Seq(Outgoing) : v \o w \in Seq(Outgoing)
      OBVIOUS
    <3> QED
      BY <1>1, <3>1, <3>2, Zenon
  <2>5. y \in BOOLEAN
    BY Zenon DEF AsksForSync
  <2>6. Told(st, m, at) = [parser |-> Empty, sentSync |-> y, crcErrors |-> st.crcErrors,
                           handled |-> h, events |-> e, replies |-> q]
    BY Zenon DEF Told
  <2> HIDE DEF m, y, h, e, q
  <2>7. Told(st, m, at) \in States
    BY <1>1, <1>6, <2>2, <2>3, <2>4, <2>5, <2>6 DEF States
  <2> QED
    BY <2>7 DEF m
<1>8. AfterBad(st) \in States
  <2> DEFINE q == IF emulation = "BP7100" THEN Append(st.replies, Nack) ELSE st.replies
  <2>1. q \in Seq(Outgoing)
    <3>1. Nack \in Outgoing
      BY DEF Outgoing
    <3>2. \A v \in Seq(Outgoing), w \in Outgoing : Append(v, w) \in Seq(Outgoing)
      OBVIOUS
    <3> QED
      BY <1>1, <3>1, <3>2, Zenon
  <2>2. AfterBad(st) = [parser |-> Empty, sentSync |-> st.sentSync, crcErrors |-> st.crcErrors + 1,
                      handled |-> st.handled, events |-> st.events, replies |-> q]
    BY Zenon DEF AfterBad
  <2>3. st.crcErrors + 1 \in Nat
    BY <1>1
  <2> HIDE DEF q
  <2> QED
    BY <1>1, <1>6, <2>1, <2>2, <2>3 DEF States
<1> QED
  BY <1>2, <1>4, <1>5, <1>6, <1>7, <1>8, Zenon DEF Fed
-----------------------------------------------------------------------------
(***************************************************************************)
(* The reader in step with a frame.                                        *)
(***************************************************************************)

WholeFrame(k) == BytesOf(k) \cap lost = {}
Follows(k) == k = 1 \/ WholeFrame(k - 1)

\* Until byte p of frame k the reader has collected what the frame stands for; when the
\* frame before was spoilt it is at least between the same two bytes.
Collects(r, j, u) ==
  /\ Within(u, j, Len(r.acc), r.esc)
  /\ \A x \in 1 .. Len(r.acc) : r.acc[x] = u[x]
FrameInStep(r, p, k) ==
  /\ Follows(k) => Collects(r, p - End[k - 1], Content(k))
  /\ p - End[k - 1] >= 1 => \E i : Within(Content(k), p - End[k - 1], i, r.esc)

\* What byte p + 1, of frame k, does.
Advanced(st, t, p, k) ==
  /\ p + 1 < End[k] => FrameInStep(t.parser, p + 1, k)
  /\ p + 1 = End[k] => t.parser = Empty
  /\ p + 1 = End[k] /\ Follows(k) => t = Told(st, NormalizePayload(Script[k]), p + 1)
  /\ Follows(k) => t.crcErrors = st.crcErrors

\* How the state looks after the byte.
AsFed(st, b, at, t) ==
  LET r == st.parser IN
    /\ r.esc \/ b \notin Special => /\ t.parser.esc = FALSE /\ t.parser.acc = Append(r.acc, b)
                                    /\ t.crcErrors = st.crcErrors
    /\ ~r.esc /\ b = Escape => /\ t.parser.esc = TRUE /\ t.parser.acc = r.acc
                               /\ t.crcErrors = st.crcErrors
    /\ ~r.esc /\ b = Terminator => t.parser = Empty
    /\ ~r.esc /\ b = Terminator /\ Len(r.acc) >= 2 /\ Valid(r.acc) =>
         t = Told(st, DecodeFrame(r.acc), at) /\ t.crcErrors = st.crcErrors

\* What a byte does, said of the parser and of the end of a frame.
LEMMA FedParser ==
  ASSUME NEW st \in States, NEW b \in Byte, NEW at, NEW t, Fed(st, b, at, t)
  PROVE  AsFed(st, b, at, t)
<1> DEFINE r == st.parser
           grown == [esc |-> FALSE, acc |-> Append(r.acc, b), frames |-> <<>>]
           escaped == [esc |-> TRUE, acc |-> r.acc, frames |-> <<>>]
<1>1. \A q : Goes(st, q).parser = q /\ Goes(st, q).crcErrors = st.crcErrors
  BY DEF States, Goes
<1>2. /\ grown.esc = FALSE /\ grown.acc = Append(r.acc, b)
      /\ escaped.esc = TRUE /\ escaped.acc = r.acc
  OBVIOUS
<1>3. \A m : Told(st, m, at).parser = Empty /\ Told(st, m, at).crcErrors = st.crcErrors
  BY DEF Told
<1>4. AfterBad(st).parser = Empty
  BY DEF AfterBad
<1>5. Special = {Escape, Terminator} /\ Escape # Terminator
  BY DEF Special, Escape, Terminator
<1>6. Len(r.acc) \in Nat /\ ~ (Len(r.acc) < 2 /\ Len(r.acc) >= 2)
  BY DEF States, Parsers
<1>7. \/ /\ r.esc \/ b \notin Special
         /\ t = Goes(st, grown)
      \/ /\ ~r.esc /\ b = Escape
         /\ t = Goes(st, escaped)
      \/ /\ ~r.esc /\ b = Terminator
         /\ \/ Len(r.acc) < 2 /\ t = Goes(st, Empty)
            \/ Len(r.acc) >= 2 /\ Valid(r.acc) /\ t = Told(st, DecodeFrame(r.acc), at)
            \/ Len(r.acc) >= 2 /\ ~Valid(r.acc) /\ t = AfterBad(st)
  BY Zenon DEF Fed
<1> HIDE DEF grown, escaped, r
<1>8. CASE r.esc \/ b \notin Special
  <2>1. t = Goes(st, grown)
    BY <1>5, <1>7, <1>8, Zenon
  <2> QED
    BY <1>1, <1>2, <1>5, <1>8, <2>1, Zenon DEF r, AsFed
<1>9. CASE ~r.esc /\ b = Escape
  <2>1. t = Goes(st, escaped)
    BY <1>5, <1>7, <1>9, Zenon
  <2> QED
    BY <1>1, <1>2, <1>5, <1>9, <2>1, Zenon DEF r, AsFed
<1>10. CASE ~r.esc /\ b = Terminator
  <2>1. \/ Len(r.acc) < 2 /\ t = Goes(st, Empty)
        \/ Len(r.acc) >= 2 /\ Valid(r.acc) /\ t = Told(st, DecodeFrame(r.acc), at)
        \/ Len(r.acc) >= 2 /\ ~Valid(r.acc) /\ t = AfterBad(st)
    BY <1>5, <1>7, <1>10, Zenon
  <2> QED
    BY <1>1, <1>3, <1>4, <1>5, <1>6, <1>10, <2>1, Zenon DEF r, AsFed
<1> QED
  BY <1>5, <1>7, <1>8, <1>9, <1>10, Zenon

\* In step with the content u the reader goes on to the next byte or to the end.
Moves(st, t, u, j, i) ==
  \/ /\ j + 1 < Len(FrameOf(u)) /\ t.crcErrors = st.crcErrors
     /\ \/ /\ i < Len(u) /\ Within(u, j + 1, i + 1, t.parser.esc)
           /\ t.parser.acc = Append(st.parser.acc, u[i + 1])
        \/ Within(u, j + 1, i, t.parser.esc) /\ t.parser.acc = st.parser.acc
  \/ j + 1 = Len(FrameOf(u)) /\ i = Len(u) /\ ~st.parser.esc /\ t.parser = Empty

\* The reader that is in step with a content goes on with it.
LEMMA ReaderMoves ==
  ASSUME NEW u \in Seq(Byte), NEW j \in Nat, NEW i, NEW st \in States, NEW at, NEW t, NEW b \in Byte,
         b = FrameOf(u)[j + 1], Within(u, j, i, st.parser.esc), Fed(st, b, at, t)
  PROVE  Moves(st, t, u, j, i) /\ (j + 1 = Len(FrameOf(u)) => b = Terminator)
<1> DEFINE esc == st.parser.esc
<1>1. esc \in BOOLEAN
  BY DEF States, Parsers
<1>2. NextByte(u, j, i, esc, b)
  <2>1. NextByte(u, j, i, esc, FrameOf(u)[j + 1])
    BY <1>1, FrameBytes, Zenon
  <2> HIDE DEF esc
  <2> QED
    BY <2>1, Zenon
<1>3. AsFed(st, b, at, t)
  BY FedParser, Zenon
<1>4. j + 1 < Len(FrameOf(u)) => j + 1 # Len(FrameOf(u))
  <2>1. Stuff(u) \in Seq(Byte) /\ Terminator \in Byte
    <3>1. Terminator \in Byte
      BY DEF Terminator, Byte
    <3> QED
      BY <3>1, Stuffing, Zenon
  <2>2. Len(FrameOf(u)) = Len(Stuff(u)) + 1 /\ Len(Stuff(u)) \in Nat
    BY <2>1, AppendProperties DEF FrameOf
  <2> QED
    BY <2>2
<1> HIDE DEF esc
<1>5. CASE ~esc /\ i < Len(u) /\ b = u[i + 1] /\ b \notin Special
           /\ Within(u, j + 1, i + 1, FALSE) /\ j + 1 < Len(FrameOf(u))
  BY <1>3, <1>4, <1>5, Zenon DEF Moves, AsFed, esc
<1>6. CASE ~esc /\ b = Escape /\ Within(u, j + 1, i, TRUE) /\ j + 1 < Len(FrameOf(u))
  BY <1>3, <1>4, <1>6, Zenon DEF Moves, AsFed, esc
<1>7. CASE esc /\ i < Len(u) /\ b = u[i + 1]
           /\ Within(u, j + 1, i + 1, FALSE) /\ j + 1 < Len(FrameOf(u))
  BY <1>3, <1>4, <1>7, Zenon DEF Moves, AsFed, esc
<1>8. CASE ~esc /\ i = Len(u) /\ b = Terminator /\ j + 1 = Len(FrameOf(u))
  BY <1>3, <1>8, Zenon DEF Moves, AsFed, esc
<1> QED
  BY <1>2, <1>5, <1>6, <1>7, <1>8, Zenon DEF NextByte

\* A frame that is read to its end from the right place.
LEMMA FrameGoesOn ==
  ASSUME ControlAssumption, NEW k \in 1 .. Len(Script), NEW st \in States, NEW p \in Nat, Inside(k, p),
         NEW t, Fed(st, Stream[p + 1], p + 1, t), FrameInStep(st.parser, p, k)
  PROVE  Advanced(st, t, p, k)
<1> DEFINE u == Content(k)
           j == p - End[k - 1]
           b == Stream[p + 1]
           r == st.parser
<1>1. /\ Script[k] \in Seq(Byte) /\ Script[k] # <<>> /\ Script[k][1] \notin Special
      /\ u \in Seq(Byte) /\ Frames[k] = FrameOf(u) /\ CRC(Script[k]) \in Byte
      /\ Valid(u) /\ Front(u) = Script[k] /\ u = Append(Script[k], CRC(Script[k]))
  <2>1. Script[k] \in Seq(Byte) /\ Script[k] # <<>> /\ CheckByteCancels
    BY FramesAre, Zenon DEF ControlAssumption
  <2> QED
    BY <2>1, FramesAre, FrameIsValid, Zenon DEF Content
<1>2. /\ End[k - 1] \in Nat /\ End[k] \in Nat /\ End[k] = End[k - 1] + Len(FrameOf(u)) /\ End[k] <= Len(Stream)
      /\ \A x \in 1 .. Len(FrameOf(u)) : Stream[End[k - 1] + x] = FrameOf(u)[x]
  <2>1. Placed(k)
    BY StreamIs, Zenon
  <2> QED
    BY <1>1, <2>1, Zenon DEF Placed
<1>3. Len(FrameOf(u)) \in Nat /\ FrameOf(u) \in Seq(Byte)
  <2>1. Stuff(u) \in Seq(Byte) /\ Terminator \in Byte
    <3>1. Terminator \in Byte
      BY DEF Terminator, Byte
    <3> QED
      BY <1>1, <3>1, Stuffing, Zenon
  <2> QED
    BY <2>1, AppendProperties DEF FrameOf
<1>4. Len(u) \in Nat /\ Len(u) >= 2 /\ u[1] \notin Special
  <2>1. Len(u) = Len(Script[k]) + 1 /\ \A x \in 1 .. Len(Script[k]) : u[x] = Script[k][x]
    <3> DEFINE s == Script[k]
               c == CRC(Script[k])
    <3>1. s \in Seq(Byte) /\ c \in Byte /\ u = Append(s, c)
      BY <1>1
    <3> HIDE DEF s, c, u
    <3>2. Len(u) = Len(s) + 1 /\ \A x \in 1 .. Len(s) : u[x] = s[x]
      BY <3>1, AppendProperties
    <3> QED
      BY <3>2 DEF s
  <2>2. Len(Script[k]) \in Nat /\ Len(Script[k]) # 0
    BY <1>1, EmptySeq
  <2>3. Len(Script[k]) >= 1 /\ 1 \in 1 .. Len(Script[k])
    BY <2>2
  <2> QED
    BY <1>1, <2>1, <2>2, <2>3
<1>5. /\ j \in Nat /\ (p + 1) - End[k - 1] = j + 1 /\ End[k - 1] + (j + 1) = p + 1
      /\ j + 1 \in 1 .. Len(FrameOf(u))
      /\ p + 1 = End[k] <=> j + 1 = Len(FrameOf(u))
      /\ p + 1 < End[k] <=> j + 1 < Len(FrameOf(u))
  <2> DEFINE n == Len(FrameOf(u))
             e == End[k - 1]
             f == End[k]
  <2>1. e \in Nat /\ f = e + n /\ n \in Nat /\ e <= p /\ p < f
    BY <1>2, <1>3 DEF Inside
  <2> HIDE DEF n, e, f
  <2>2. /\ p - e \in Nat /\ (p + 1) - e = p - e + 1 /\ e + (p - e + 1) = p + 1
        /\ p - e + 1 \in 1 .. n
        /\ p + 1 = f <=> p - e + 1 = n
        /\ p + 1 < f <=> p - e + 1 < n
    BY <2>1
  <2> QED
    BY <2>2 DEF n, e, f
<1>6. b = FrameOf(u)[j + 1] /\ b \in Byte
  <2>1. FrameOf(u)[j + 1] \in Byte
    BY <1>3, <1>5, ElementOfSeq, Zenon
  <2>2. Stream[End[k - 1] + (j + 1)] = FrameOf(u)[j + 1]
    BY <1>2, <1>5, Zenon
  <2>3. b = Stream[End[k - 1] + (j + 1)]
    BY <1>5
  <2> QED
    BY <2>1, <2>2, <2>3, Zenon
<1> HIDE DEF b, u, j
<1>7. FrameInStep(r, p, k) <=> /\ Follows(k) => Collects(r, j, u)
                               /\ j >= 1 => \E i : Within(u, j, i, r.esc)
  BY Zenon DEF FrameInStep, u, j
<1>8. FrameInStep(t.parser, p + 1, k) <=> /\ Follows(k) => Collects(t.parser, j + 1, u)
                                          /\ j + 1 >= 1 => \E i : Within(u, j + 1, i, t.parser.esc)
  BY <1>5, Zenon DEF FrameInStep, u
<1>9. Fed(st, b, p + 1, t)
  BY DEF b
<1>10. CASE Follows(k)
  <2>1. Within(u, j, Len(r.acc), r.esc) /\ \A x \in 1 .. Len(r.acc) : r.acc[x] = u[x]
    BY <1>7, <1>10, Zenon DEF Collects
  <2>2. Moves(st, t, u, j, Len(r.acc)) /\ (j + 1 = Len(FrameOf(u)) => b = Terminator)
    BY <1>1, <1>5, <1>6, <1>9, <2>1, ReaderMoves, Zenon
  <2>3. r.acc \in Seq(Byte) /\ Len(r.acc) \in Nat
    BY DEF States, Parsers
  <2>4. ASSUME j + 1 < Len(FrameOf(u))
        PROVE  Collects(t.parser, j + 1, u) /\ t.crcErrors = st.crcErrors
    <3>1. /\ t.crcErrors = st.crcErrors
          /\ \/ /\ Len(r.acc) < Len(u) /\ Within(u, j + 1, Len(r.acc) + 1, t.parser.esc)
                /\ t.parser.acc = Append(r.acc, u[Len(r.acc) + 1])
             \/ Within(u, j + 1, Len(r.acc), t.parser.esc) /\ t.parser.acc = r.acc
      BY <1>3, <1>5, <2>2, <2>4 DEF Moves
    <3>2. CASE /\ Len(r.acc) < Len(u) /\ Within(u, j + 1, Len(r.acc) + 1, t.parser.esc)
               /\ t.parser.acc = Append(r.acc, u[Len(r.acc) + 1])
      <4> DEFINE v == t.parser.acc
      <4>1. u[Len(r.acc) + 1] \in Byte
        <5>1. Len(r.acc) + 1 \in 1 .. Len(u)
          BY <1>4, <2>3, <3>2
        <5> QED
          BY <1>1, <5>1, ElementOfSeq, Zenon
      <4>2. Len(v) = Len(r.acc) + 1 /\ \A x \in 1 .. Len(r.acc) + 1 : v[x] = u[x]
        BY <2>1, <2>3, <3>2, <4>1, AppendProperties
      <4> QED
        BY <3>1, <3>2, <4>2, Zenon DEF Collects
    <3>3. CASE Within(u, j + 1, Len(r.acc), t.parser.esc) /\ t.parser.acc = r.acc
      BY <2>1, <3>1, <3>3, Zenon DEF Collects
    <3> QED
      BY <3>1, <3>2, <3>3, Zenon
  <2>5. ASSUME j + 1 = Len(FrameOf(u))
        PROVE  t = Told(st, NormalizePayload(Script[k]), p + 1) /\ t.crcErrors = st.crcErrors /\ t.parser = Empty
    <3>1. Len(r.acc) = Len(u) /\ ~r.esc /\ t.parser = Empty /\ b = Terminator
      BY <1>3, <1>5, <2>2, <2>5 DEF Moves
    <3>2. r.acc = u
      BY <1>1, <2>1, <2>3, <3>1, SeqEqual
    <3>3. t = Told(st, DecodeFrame(r.acc), p + 1) /\ t.crcErrors = st.crcErrors
      <4>1. Len(r.acc) >= 2 /\ Valid(r.acc)
        BY <1>1, <1>4, <3>2, Zenon
      <4> QED
        <5>1. ~r.esc /\ b = Terminator /\ Len(r.acc) >= 2 /\ Valid(r.acc) =>
                t = Told(st, DecodeFrame(r.acc), p + 1) /\ t.crcErrors = st.crcErrors
          BY <1>6, <1>9, FedParser, Zenon DEF AsFed
        <5> QED
          BY <3>1, <4>1, <5>1, Zenon
    <3>4. DecodeFrame(r.acc) = NormalizePayload(Script[k])
      BY <1>1, <3>2, Zenon DEF DecodeFrame
    <3> QED
      BY <3>1, <3>3, <3>4, Zenon
  <2>6. j + 1 < Len(FrameOf(u)) => \E i : Within(u, j + 1, i, t.parser.esc)
    BY <2>4, Zenon DEF Collects
  <2>7. j + 1 < Len(FrameOf(u)) \/ j + 1 = Len(FrameOf(u))
    BY <1>3, <1>5
  <2> QED
    BY <1>5, <1>8, <2>4, <2>5, <2>6, <2>7, Zenon DEF Advanced
<1>11. CASE ~Follows(k) /\ j >= 1
  <2>1. PICK i : Within(u, j, i, r.esc)
    BY <1>7, <1>11, Zenon
  <2>2. Moves(st, t, u, j, i)
    BY <1>1, <1>5, <1>6, <1>9, <2>1, ReaderMoves, Zenon
  <2>3. j + 1 < Len(FrameOf(u)) => \E x : Within(u, j + 1, x, t.parser.esc)
    BY <1>3, <1>5, <2>2 DEF Moves
  <2>4. j + 1 = Len(FrameOf(u)) => t.parser = Empty
    BY <1>3, <1>5, <2>2 DEF Moves
  <2> QED
    BY <1>5, <1>8, <1>11, <2>3, <2>4, Zenon DEF Advanced
<1>12. CASE ~Follows(k) /\ j = 0
  <2>1. Within(u, 0, 0, FALSE)
    <3>1. Upon(u, 0) = 0
      BY <1>1, Stuffing, Zenon
    <3> QED
      BY <1>4, <3>1 DEF Within
  <2>2. b = FrameOf(u)[0 + 1]
    BY <1>6, <1>12
  <2>3. b = u[1] /\ b \notin Special /\ Within(u, 1, 1, FALSE) /\ 1 < Len(FrameOf(u))
    <3>1. FALSE \in BOOLEAN /\ 0 \in Nat /\ 0 + 1 = 1
      OBVIOUS
    <3>2. NextByte(u, 0, 0, FALSE, FrameOf(u)[0 + 1])
      BY <1>1, <2>1, <3>1, FrameBytes, Zenon
    <3>3. ~ (0 = Len(u))
      BY <1>4
    <3>4. ~ Within(u, 1, 0, TRUE)
      BY <1>4 DEF Within
    <3> QED
      BY <2>2, <3>1, <3>2, <3>3, <3>4 DEF NextByte
  <2>4. t.parser.esc = FALSE
    BY <1>6, <1>9, <2>3, FedParser, Zenon DEF AsFed
  <2>5. j + 1 < Len(FrameOf(u)) /\ j + 1 # Len(FrameOf(u)) /\ Within(u, j + 1, 1, t.parser.esc)
    <3>1. j + 1 = 1 /\ 1 < Len(FrameOf(u)) /\ 1 # Len(FrameOf(u))
      <4>1. j = 0
        BY <1>12
      <4>2. j + 1 = 1
        BY <4>1
      <4>3. 1 < Len(FrameOf(u))
        BY <2>3, Zenon
      <4> DEFINE n == Len(FrameOf(u))
      <4>4. n \in Nat /\ 1 < n
        BY <1>3, <4>3
      <4> HIDE DEF n
      <4>5. 1 # n
        BY <4>4
      <4> QED
        BY <4>2, <4>3, <4>5, Zenon DEF n
    <3> QED
      BY <2>3, <2>4, <3>1, Zenon
  <2> QED
    BY <1>5, <1>8, <1>12, <2>5, Zenon DEF Advanced
<1>13. j >= 1 \/ j = 0
  BY <1>5
<1> QED
  BY <1>10, <1>11, <1>12, <1>13, Zenon
-----------------------------------------------------------------------------
(***************************************************************************)
(* The invariant of the reader, byte by byte.                              *)
(***************************************************************************)

Safe(k, p) == (End[k - 1] + 1 .. p) \cap lost = {}
Entry(k) == [at |-> End[k], payload |-> NormalizePayload(Script[k])]
HasTold(st, k) == \E i \in DOMAIN st.handled : st.handled[i] = Entry(k)

Reads(st, p) == \A k \in 1 .. Len(Script) : Inside(k, p) /\ Safe(k, p) => FrameInStep(st.parser, p, k)
Tells(st, p) == \A k \in 1 .. Len(Script) : End[k] <= p /\ WholeFrame(k) /\ Follows(k) => HasTold(st, k)
Clean(st) == lost = {} => st.crcErrors = 0

\* What has been handled stays.
LEMMA Keeps ==
  ASSUME NEW st \in States, NEW b \in Byte, NEW at \in Nat, NEW t, Fed(st, b, at, t)
  PROVE  \A k : HasTold(st, k) => HasTold(t, k)
<1>1. st.handled \in Seq(Handled)
  BY DEF States
<1>2. \A r : Goes(st, r).handled = st.handled
  BY DEF States, Goes
<1>3. /\ AfterBad(st).handled = st.handled
      /\ \A m : Told(st, m, at).handled = Append(st.handled, [at |-> at, payload |-> m])
  BY DEF AfterBad, Told
<1>4. t.handled = st.handled \/ \E x \in Handled : t.handled = Append(st.handled, x)
  <2>1. ASSUME Len(st.parser.acc) >= 2, t = Told(st, DecodeFrame(st.parser.acc), at)
        PROVE  \E x \in Handled : t.handled = Append(st.handled, x)
    <3> DEFINE m == DecodeFrame(st.parser.acc)
    <3>1. st.parser.acc \in Seq(Byte)
      BY DEF States, Parsers
    <3>2. m \in Seq(Byte)
      BY <2>1, <3>1, Decodes, Zenon
    <3> HIDE DEF m
    <3>3. [at |-> at, payload |-> m] \in Handled
      BY <3>2 DEF Handled
    <3> QED
      BY <1>3, <2>1, <3>3, Zenon DEF m
  <2> QED
    BY <1>2, <1>3, <2>1, Zenon DEF Fed
<1>5. ASSUME NEW x \in Handled
      PROVE  \A i \in DOMAIN st.handled : i \in DOMAIN Append(st.handled, x) /\ Append(st.handled, x)[i] = st.handled[i]
  BY <1>1, AppendProperties
<1> QED
  BY <1>4, <1>5, Zenon DEF HasTold

\* A byte that arrives keeps the reader in step and tells a frame that ends with it.
LEMMA ReadsOn ==
  ASSUME ControlAssumption, NEW p \in 0 .. Len(Stream) - 1, p + 1 \notin lost, NEW st \in States,
         Reads(st, p), Tells(st, p), Clean(st), NEW t, Fed(st, Stream[p + 1], p + 1, t)
  PROVE  Reads(t, p + 1) /\ Tells(t, p + 1) /\ Clean(t)
<1>1. /\ p \in Nat /\ p + 1 \in Nat /\ Len(Script) \in Nat /\ Stream[p + 1] \in Byte
      /\ \A k \in 0 .. Len(Script) : End[k] \in Nat
  <2>1. Stream \in Seq(Byte) /\ Len(Stream) \in Nat /\ Len(Script) \in Nat
    BY StreamIs, FramesAre, Zenon
  <2>2. p + 1 \in 1 .. Len(Stream) /\ p \in Nat /\ p + 1 \in Nat
    BY <2>1
  <2>3. Stream[p + 1] \in Byte
    BY <2>1, <2>2, ElementOfSeq, Zenon
  <2> QED
    BY <2>1, <2>2, <2>3, StreamIs, Zenon
<1>2. PICK k \in 1 .. Len(Script) : Inside(k, p)
  BY FrameAt, Zenon
<1>3. End[k - 1] \in Nat /\ End[k] \in Nat /\ End[k - 1] <= p /\ p < End[k]
  <2>1. k \in 0 .. Len(Script) /\ k - 1 \in 0 .. Len(Script)
    BY <1>1
  <2> QED
    BY <1>1, <1>2, <2>1 DEF Inside
<1>4. Safe(k, p) => Advanced(st, t, p, k)
  BY <1>1, <1>2, FrameGoesOn, Zenon DEF Reads
<1>5. Safe(k, p + 1) => Safe(k, p)
  BY <1>1, <1>3 DEF Safe
<1>6. p + 1 = End[k] /\ WholeFrame(k) => Safe(k, p)
  <2>1. p + 1 = End[k] /\ WholeFrame(k) => Safe(k, p + 1)
    BY <1>1, <1>3 DEF Safe, WholeFrame, BytesOf
  <2> QED
    BY <1>5, <2>1
<1>7. Reads(t, p + 1)
  <2> SUFFICES ASSUME NEW m \in 1 .. Len(Script), Inside(m, p + 1), Safe(m, p + 1)
               PROVE  FrameInStep(t.parser, p + 1, m)
    BY DEF Reads
  <2>1. (m = k /\ p + 1 < End[k]) \/ (m = k + 1 /\ p + 1 = End[k])
    BY <1>1, <1>2, OneFrame, Zenon
  <2>2. CASE m = k /\ p + 1 < End[k]
    BY <1>4, <1>5, <2>2, Zenon DEF Advanced
  <2>3. CASE m = k + 1 /\ p + 1 = End[k]
    <3>1. m - 1 = k /\ m # 1 /\ (p + 1) - End[m - 1] = 0
      BY <1>1, <1>3, <2>3
    <3>2. Follows(m) => t.parser = Empty
      BY <1>4, <1>6, <2>3, <3>1, Zenon DEF Follows, Advanced
    <3>3. Collects(Empty, 0, Content(m))
      <4>1. Content(m) \in Seq(Byte)
        BY FramesAre, Zenon
      <4>2. Upon(Content(m), 0) = 0
        BY <4>1, Stuffing, Zenon
      <4>3. Len(Empty.acc) = 0 /\ Empty.esc = FALSE
        BY DEF Empty
      <4>4. 0 \in 0 .. Len(Content(m))
        BY <4>1
      <4>5. Within(Content(m), 0, 0, FALSE)
        BY <4>2, <4>4 DEF Within
      <4>6. \A x \in 1 .. 0 : Empty.acc[x] = Content(m)[x]
        OBVIOUS
      <4> QED
        BY <4>3, <4>5, <4>6 DEF Collects
    <3>4. ~ ((p + 1) - End[m - 1] >= 1)
      BY <3>1
    <3> QED
      BY <3>1, <3>2, <3>3, <3>4, Zenon DEF FrameInStep
  <2> QED
    BY <2>1, <2>2, <2>3
<1>8. Tells(t, p + 1)
  <2> SUFFICES ASSUME NEW m \in 1 .. Len(Script), End[m] <= p + 1, WholeFrame(m), Follows(m)
               PROVE  HasTold(t, m)
    BY DEF Tells
  <2>0. End[m] \in Nat
    <3>1. m \in 0 .. Len(Script)
      BY <1>1
    <3> QED
      BY <1>1, <3>1
  <2>1. CASE End[m] <= p
    <3>1. HasTold(st, m)
      BY <2>1, Zenon DEF Tells
    <3> QED
      BY <1>1, <3>1, Keeps, Zenon
  <2>2. CASE End[m] = p + 1
    <3>1. m = k
      BY <1>1, <1>2, <2>2, OneFrame, Zenon
    <3>2. t = Told(st, NormalizePayload(Script[k]), p + 1)
      BY <1>4, <1>6, <2>2, <3>1, Zenon DEF Advanced
    <3> DEFINE n == NormalizePayload(Script[k])
               x == [at |-> p + 1, payload |-> n]
    <3>3. t.handled = Append(st.handled, x)
      BY <3>2 DEF Told
    <3>4. x = Entry(m)
      BY <2>2, <3>1, Zenon DEF Entry
    <3> HIDE DEF x
    <3>5. st.handled \in Seq(Handled) /\ t.handled \in Seq(Handled)
      <4>1. t \in States
        BY <1>1, FeedsType, Zenon
      <4> QED
        BY <4>1 DEF States
    <3>6. Len(st.handled) + 1 \in DOMAIN t.handled /\ t.handled[Len(st.handled) + 1] = x
      BY <3>3, <3>5
    <3> QED
      BY <3>4, <3>6, Zenon DEF HasTold
  <2>3. End[m] <= p \/ End[m] = p + 1
    BY <1>1, <2>0
  <2> QED
    BY <2>1, <2>2, <2>3
<1>9. Clean(t)
  <2> SUFFICES ASSUME lost = {} PROVE t.crcErrors = 0
    BY DEF Clean
  <2>1. Follows(k) /\ Safe(k, p)
    BY Zenon DEF Follows, WholeFrame, Safe
  <2>2. t.crcErrors = st.crcErrors
    BY <1>4, <2>1, Zenon DEF Advanced
  <2> QED
    BY <2>2 DEF Clean
<1> QED
  BY <1>7, <1>8, <1>9
-----------------------------------------------------------------------------
(***************************************************************************)
(* Replies and events.                                                     *)
(***************************************************************************)

Count(s, W) == Cardinality({i \in DOMAIN s : s[i] \in W})

\* One more entry counts once, where it counts.
LEMMA Counts ==
  ASSUME NEW S, NEW s \in Seq(S), NEW x \in S, NEW W
  PROVE  Count(s, W) \in Nat /\ Count(Append(s, x), W) = Count(s, W) + (IF x \in W THEN 1 ELSE 0)
<1> DEFINE n == Len(s)
           a == Append(s, x)
           A == {i \in DOMAIN s : s[i] \in W}
           B == {i \in DOMAIN a : a[i] \in W}
<1>1. /\ n \in Nat /\ DOMAIN s = 1 .. n /\ DOMAIN a = 1 .. n + 1
      /\ \A i \in 1 .. n : a[i] = s[i]
      /\ a[n + 1] = x
  BY AppendProperties
<1> HIDE DEF a
<1>2. IsFiniteSet(A)
  <2>1. IsFiniteSet(1 .. n) /\ A \subseteq 1 .. n
    BY <1>1, FS_Interval
  <2> QED
    BY <2>1, FS_Subset
<1>3. B = IF x \in W THEN A \cup {n + 1} ELSE A
  <2>1. \A i \in 1 .. n + 1 : i \in 1 .. n \/ i = n + 1
    BY <1>1
  <2>2. \A i \in 1 .. n : i \in 1 .. n + 1
    BY <1>1
  <2>3. n + 1 \in 1 .. n + 1
    BY <1>1
  <2> QED
    BY <1>1, <2>1, <2>2, <2>3
<1>4. n + 1 \notin A
  BY <1>1
<1> HIDE DEF A, B
<1>5. Cardinality(A) \in Nat /\ Cardinality(A \cup {n + 1}) = Cardinality(A) + 1
  BY <1>2, <1>4, FS_CardinalityType, FS_AddElement
<1>6. Count(s, W) = Cardinality(A) /\ Count(a, W) = Cardinality(B)
  BY DEF Count, A, B
<1> QED
  BY <1>3, <1>5, <1>6 DEF a

Answers(m) == m[1] \in {80, 82, 67} \/ IsInfo(m)
Untold == {"ack", "nack", "unknown"}
Telling == {e \in Events : e.kind \notin Untold}

\* An info frame is always understood.
LEMMA InfoKind ==
  ASSUME NEW m PROVE InfoEvent(m).kind \notin Untold
<1> DEFINE sub == 16 * (m[2] \div 16)
           count == m[2] % 16
           a == [kind |-> "key_event", index |-> m[3] % 128, pressed |-> m[3] >= 128]
           b == [kind |-> "keys", groups |-> Take(m, 3, count)]
           c == [kind |-> "leds", mode |-> Modes[sub], groups |-> Take(m, 3, count)]
           d == [kind |-> "label", index |-> m[3], text |-> Take(m, 4, IF count = 0 THEN 0 ELSE count - 1)]
           e == [kind |-> "ident", text |-> IdentityText(m)]
           f == [kind |-> "i_unknown", sub |-> sub]
           g == [kind |-> "none"]
<1>1. InfoEvent(m) = CASE Len(m) >= 3 /\ m[2] = 0 -> a
                       [] sub = 64 -> b
                       [] sub \in DOMAIN Modes -> c
                       [] sub = 144 -> IF Len(m) < 3 THEN g ELSE d
                       [] sub = 208 -> IF ToSet(IdentityText(m)) \subseteq Blank THEN g ELSE e
                       [] OTHER -> f
  BY Zenon DEF InfoEvent
<1>2. /\ a.kind = "key_event" /\ b.kind = "keys" /\ c.kind = "leds" /\ d.kind = "label"
      /\ e.kind = "ident" /\ f.kind = "i_unknown" /\ g.kind = "none"
  OBVIOUS
<1> HIDE DEF a, b, c, d, e, f, g, sub
<1>3. InfoEvent(m) \in {a, b, c, d, e, f, g}
  BY <1>1
<1> QED
  BY <1>2, <1>3 DEF Untold

\* The frames that are shown as understood are those that are acknowledged.
LEMMA KindIs ==
  ASSUME NEW m PROVE Event(m).kind \notin Untold <=> Answers(m)
<1> DEFINE a == [kind |-> "ping"]
           b == [kind |-> "ack"]
           c == [kind |-> "nack"]
           d == [kind |-> "r", state |-> IF Len(m) >= 2 THEN m[2] ELSE 0]
           e == [kind |-> "cmd"]
           f == [kind |-> "unknown", t0 |-> m[1]]
<1>1. Event(m) = CASE m[1] = 80 -> a
                   [] m[1] = 65 -> b
                   [] m[1] = 78 -> c
                   [] m[1] = 82 -> d
                   [] m[1] = 67 -> e
                   [] IsInfo(m) -> InfoEvent(m)
                   [] OTHER -> f
  BY Zenon DEF Event
<1>2. /\ a.kind = "ping" /\ b.kind = "ack" /\ c.kind = "nack" /\ d.kind = "r" /\ e.kind = "cmd" /\ f.kind = "unknown"
  OBVIOUS
<1>3. InfoEvent(m).kind \notin Untold
  BY InfoKind
<1>4. IsInfo(m) => m[1] = 73
  BY DEF IsInfo
<1> HIDE DEF a, b, c, d, e, f
<1> QED
  BY <1>1, <1>2, <1>3, <1>4 DEF Answers, Untold

\* The replies to a frame, of which there are four.
LEMMA RepliesAre ==
  ASSUME NEW m, NEW synced
  PROVE  \/ ~Answers(m) /\ ~AsksForSync(m, synced) /\ Replies(m, synced) = <<>>
         \/ Answers(m) /\ AsksForSync(m, synced) /\ Replies(m, synced) = <<Ack, Sync>>
         \/ Answers(m) /\ ~AsksForSync(m, synced) /\ Replies(m, synced) = <<Ack>>
         \/ Answers(m) /\ ~AsksForSync(m, synced) /\ Replies(m, synced) = <<Ack, Normal(Identity)>>
<1> DEFINE a == IF Answers(m) THEN <<Ack>> ELSE <<>>
           b == IF AsksForSync(m, synced) THEN <<Sync>> ELSE <<>>
           c == IF AsksForIdentity(m) THEN <<Normal(Identity)>> ELSE <<>>
<1>1. Replies(m, synced) = a \o b \o c
  BY Zenon DEF Replies, Answers
<1>2. AsksForSync(m, synced) => Answers(m) /\ ~AsksForIdentity(m)
  BY DEF AsksForSync, Answers, AsksForIdentity, IsInfo
<1>3. AsksForIdentity(m) => Answers(m)
  BY DEF Answers, AsksForIdentity
<1>4. \A x, y : /\ <<>> \o <<>> = <<>> /\ <<x>> \o <<>> = <<x>> /\ <<x>> \o <<y>> = <<x, y>>
                /\ <<x, y>> \o <<>> = <<x, y>>
  <2> SUFFICES ASSUME NEW x, NEW y
               PROVE  /\ <<>> \o <<>> = <<>> /\ <<x>> \o <<>> = <<x>> /\ <<x>> \o <<y>> = <<x, y>>
                      /\ <<x, y>> \o <<>> = <<x, y>>
    OBVIOUS
  <2> DEFINE S == {x, y}
  <2>1. <<>> \in Seq(S) /\ <<x>> \in Seq(S) /\ <<x, y>> \in Seq(S) /\ y \in S
    OBVIOUS
  <2>2. <<x, y>> = Append(<<x>>, y)
    OBVIOUS
  <2> HIDE DEF S
  <2>3. <<x>> \o <<y>> = Append(<<x>>, y)
    BY <2>1, AppendIsConcat, Zenon
  <2>4. <<>> \o <<>> = <<>> /\ <<x>> \o <<>> = <<x>> /\ <<x, y>> \o <<>> = <<x, y>>
    BY <2>1, ConcatEmptySeq, Zenon
  <2> QED
    BY <2>2, <2>3, <2>4, Zenon
<1>5. CASE ~Answers(m)
  <2>1. a = <<>> /\ b = <<>> /\ c = <<>>
    BY <1>2, <1>3, <1>5, Zenon
  <2> QED
    BY <1>1, <1>2, <1>4, <1>5, <2>1, Zenon
<1>6. CASE Answers(m) /\ AsksForSync(m, synced)
  <2>1. a = <<Ack>> /\ b = <<Sync>> /\ c = <<>>
    BY <1>2, <1>6, Zenon
  <2> QED
    BY <1>1, <1>4, <1>6, <2>1, Zenon
<1>7. CASE Answers(m) /\ ~AsksForSync(m, synced) /\ ~AsksForIdentity(m)
  <2>1. a = <<Ack>> /\ b = <<>> /\ c = <<>>
    BY <1>7, Zenon
  <2> QED
    BY <1>1, <1>4, <1>7, <2>1, Zenon
<1>8. CASE Answers(m) /\ ~AsksForSync(m, synced) /\ AsksForIdentity(m)
  <2>1. a = <<Ack>> /\ b = <<>> /\ c = <<Normal(Identity)>>
    BY <1>8, Zenon
  <2> QED
    BY <1>1, <1>4, <1>8, <2>1, Zenon
<1> QED
  BY <1>5, <1>6, <1>7, <1>8, Zenon

\* No reply is taken for another.
LEMMA Different ==
  /\ Ack # Nack /\ Ack # Sync /\ Nack # Sync
  /\ Normal(Identity) \notin {Ack, Nack, Sync}
<1>1. /\ Ack.class = "high" /\ Nack.class = "high" /\ Sync.class = "high" /\ Normal(Identity).class = "normal"
      /\ Ack.payload = <<65>> /\ Nack.payload = <<78>> /\ Sync.payload = <<83>>
  BY DEF Ack, Nack, Sync, High, Normal
<1>2. <<65>> # <<78>> /\ <<65>> # <<83>> /\ <<78>> # <<83>>
  OBVIOUS
<1> QED
  BY <1>1, <1>2

\* What the replies to a frame add.
LEMMA RepliesGrow ==
  ASSUME NEW r \in Seq(Outgoing), NEW m, NEW synced
  PROVE  LET q == r \o Replies(m, synced) IN
         \/ ~Answers(m) /\ ~AsksForSync(m, synced) /\ q = r
         \/ Answers(m) /\ AsksForSync(m, synced) /\ q = Append(Append(r, Ack), Sync)
         \/ /\ Answers(m) /\ ~AsksForSync(m, synced)
            /\ q = Append(r, Ack) \/ q = Append(Append(r, Ack), Normal(Identity))
<1>1. Ack \in Outgoing /\ Sync \in Outgoing /\ Normal(Identity) \in Outgoing
  BY DEF Outgoing
<1>2. r \o <<>> = r
  BY ConcatEmptySeq, Zenon
<1>3. ASSUME NEW x \in Outgoing PROVE r \o <<x>> = Append(r, x)
  BY AppendIsConcat, Zenon
<1>4. ASSUME NEW x \in Outgoing, NEW y \in Outgoing PROVE r \o <<x, y>> = Append(Append(r, x), y)
  <2>1. /\ <<x>> \in Seq(Outgoing) /\ <<y>> \in Seq(Outgoing)
        /\ Append(r, x) \in Seq(Outgoing) /\ <<x, y>> = Append(<<x>>, y)
    OBVIOUS
  <2>2. Append(<<x>>, y) = <<x>> \o <<y>> /\ Append(Append(r, x), y) = Append(r, x) \o <<y>>
    BY <2>1, AppendIsConcat, Zenon
  <2>3. r \o (<<x>> \o <<y>>) = (r \o <<x>>) \o <<y>>
    BY <2>1, ConcatAssociative
  <2> QED
    BY <1>3, <2>1, <2>2, <2>3, Zenon
<1> DEFINE a == Replies(m, synced)
<1>5. r \o <<Ack>> = Append(r, Ack) /\ r \o <<Ack, Sync>> = Append(Append(r, Ack), Sync)
      /\ r \o <<Ack, Normal(Identity)>> = Append(Append(r, Ack), Normal(Identity))
  BY <1>1, <1>3, <1>4, Zenon
<1>6. \/ ~Answers(m) /\ ~AsksForSync(m, synced) /\ a = <<>>
      \/ Answers(m) /\ AsksForSync(m, synced) /\ a = <<Ack, Sync>>
      \/ Answers(m) /\ ~AsksForSync(m, synced) /\ a = <<Ack>>
      \/ Answers(m) /\ ~AsksForSync(m, synced) /\ a = <<Ack, Normal(Identity)>>
  BY RepliesAre, Zenon
<1> HIDE DEF a
<1>7. \/ ~Answers(m) /\ ~AsksForSync(m, synced) /\ r \o a = r
      \/ Answers(m) /\ AsksForSync(m, synced) /\ r \o a = Append(Append(r, Ack), Sync)
      \/ /\ Answers(m) /\ ~AsksForSync(m, synced)
         /\ r \o a = Append(r, Ack) \/ r \o a = Append(Append(r, Ack), Normal(Identity))
  BY <1>2, <1>5, <1>6
<1> QED
  BY <1>7, Zenon DEF a

\* The state is synchronised once, right after an acknowledgement, or not yet.
SyncsAre(r, synced) ==
  \/ synced /\ \E j \in DOMAIN r : /\ j > 1 /\ r[j] = Sync /\ r[j - 1] = Ack
                                   /\ \A i \in DOMAIN r : r[i] = Sync => i = j
  \/ ~synced /\ \A i \in DOMAIN r : r[i] # Sync

\* Other replies leave the synchronisation where it was.
LEMMA SyncKeeps ==
  ASSUME NEW r \in Seq(Outgoing), NEW x \in Outgoing, x # Sync, NEW synced, SyncsAre(r, synced)
  PROVE  SyncsAre(Append(r, x), synced)
<1> DEFINE q == Append(r, x)
           n == Len(r)
<1>1. /\ n \in Nat /\ DOMAIN r = 1 .. n /\ DOMAIN q = 1 .. n + 1 /\ q[n + 1] = x
      /\ \A i \in 1 .. n : q[i] = r[i]
  BY AppendProperties
<1> HIDE DEF q, n
<1>2. \A i \in 1 .. n + 1 : i \in 1 .. n \/ i = n + 1
  BY <1>1
<1>3. \A i \in 1 .. n : i \in 1 .. n + 1 /\ (i > 1 => i - 1 \in 1 .. n)
  BY <1>1
<1> QED
  BY <1>1, <1>2, <1>3, Zenon DEF SyncsAre, q

\* The synchronisation comes behind the acknowledgement.
LEMMA SyncBegins ==
  ASSUME NEW r \in Seq(Outgoing), SyncsAre(r, FALSE)
  PROVE  SyncsAre(Append(Append(r, Ack), Sync), TRUE)
<1> DEFINE p == Append(r, Ack)
           q == Append(p, Sync)
           n == Len(r)
<1>1. Ack \in Outgoing /\ Sync \in Outgoing
  BY DEF Outgoing
<1>2. /\ n \in Nat /\ DOMAIN r = 1 .. n /\ Len(p) = n + 1 /\ p \in Seq(Outgoing) /\ p[n + 1] = Ack
      /\ \A i \in 1 .. n : p[i] = r[i]
  BY <1>1, AppendProperties
<1> HIDE DEF p
<1>3. /\ DOMAIN q = 1 .. (n + 1) + 1 /\ q[(n + 1) + 1] = Sync
      /\ \A i \in 1 .. n + 1 : q[i] = p[i]
  BY <1>1, <1>2, AppendProperties
<1> HIDE DEF q, n
<1>4. /\ \A i \in 1 .. (n + 1) + 1 : i \in 1 .. n \/ i = n + 1 \/ i = (n + 1) + 1
      /\ \A i \in 1 .. n : i \in 1 .. n + 1
      /\ n + 1 \in 1 .. n + 1 /\ (n + 1) + 1 \in 1 .. (n + 1) + 1
      /\ (n + 1) + 1 > 1 /\ ((n + 1) + 1) - 1 = n + 1
  BY <1>2
<1>5. \A i \in 1 .. n : r[i] # Sync
  BY <1>2, Zenon DEF SyncsAre
<1>6. Ack # Sync
  BY Different
<1>7. \A i \in 1 .. (n + 1) + 1 : q[i] = Sync => i = (n + 1) + 1
  BY <1>2, <1>3, <1>4, <1>5, <1>6, Zenon
<1>8. q[((n + 1) + 1) - 1] = Ack
  BY <1>2, <1>3, <1>4
<1> QED
  BY <1>3, <1>4, <1>7, <1>8, Zenon DEF SyncsAre, q, p

\* The counts: acknowledgements against events, repeats against spoilt frames.
IsPing(x) == x.payload[1] = 80
Accounted(st) ==
  /\ Count(st.replies, {Ack}) = Count(st.events, Telling)
  /\ Count(st.replies, {Nack}) = IF emulation = "BP7100" THEN st.crcErrors ELSE 0
  /\ SyncsAre(st.replies, st.sentSync)
  /\ st.sentSync <=> emulation # "BP7100" /\ \E i \in DOMAIN st.handled : IsPing(st.handled[i])

\* A frame that is told is accounted for.
LEMMA AccountsTold ==
  ASSUME NEW st \in States, Accounted(st), NEW m \in Seq(Byte), NEW at \in Nat
  PROVE  Accounted(Told(st, m, at))
<1> DEFINE r == st.replies
           h == st.handled
           e == st.events
           b == st.sentSync
           t == Told(st, m, at)
           x == [at |-> at, payload |-> m]
<1>1. r \in Seq(Outgoing) /\ h \in Seq(Handled) /\ e \in Seq(Events) /\ b \in BOOLEAN /\ st.crcErrors \in Nat
  BY DEF States
<1>2. /\ t.replies = r \o Replies(m, b) /\ t.handled = Append(h, x) /\ t.events = Append(e, Event(m))
      /\ t.sentSync = (b \/ AsksForSync(m, b)) /\ t.crcErrors = st.crcErrors
  BY DEF Told
<1>3. Ack \in Outgoing /\ Sync \in Outgoing /\ Normal(Identity) \in Outgoing /\ Event(m) \in Events
  BY Zenon DEF Outgoing, Events
<1>4. x \in Handled /\ x.payload = m
  BY DEF Handled
<1>5. Accounted(st)
  OBVIOUS
<1> DEFINE q == r \o Replies(m, b)
<1>6. \/ ~Answers(m) /\ ~AsksForSync(m, b) /\ q = r
      \/ Answers(m) /\ AsksForSync(m, b) /\ q = Append(Append(r, Ack), Sync)
      \/ /\ Answers(m) /\ ~AsksForSync(m, b)
         /\ q = Append(r, Ack) \/ q = Append(Append(r, Ack), Normal(Identity))
  BY <1>1, RepliesGrow, Zenon
<1>7. AsksForSync(m, b) <=> IsPing(x) /\ ~b /\ emulation # "BP7100"
  BY <1>4, Zenon DEF AsksForSync, IsPing
<1>8. /\ Count(r, {Ack}) = Count(e, Telling)
      /\ Count(r, {Nack}) = IF emulation = "BP7100" THEN st.crcErrors ELSE 0
      /\ SyncsAre(r, b)
      /\ b <=> emulation # "BP7100" /\ \E i \in DOMAIN h : IsPing(h[i])
  BY <1>5, Zenon DEF Accounted
<1> HIDE DEF t, q, r, h, e, b, x
<1>9. Count(q, {Ack}) = Count(r, {Ack}) + (IF Answers(m) THEN 1 ELSE 0) /\ Count(q, {Nack}) = Count(r, {Nack})
  <2>1. /\ Ack \in {Ack} /\ Ack \notin {Nack} /\ Sync \notin {Ack} /\ Sync \notin {Nack}
        /\ Normal(Identity) \notin {Ack} /\ Normal(Identity) \notin {Nack}
    BY Different
  <2>2. ASSUME NEW s \in Seq(Outgoing), NEW y \in Outgoing, NEW W
        PROVE  Count(s, W) \in Nat /\ Count(Append(s, y), W) = Count(s, W) + (IF y \in W THEN 1 ELSE 0)
    BY Counts, Zenon
  <2>3. Append(r, Ack) \in Seq(Outgoing)
    BY <1>1, <1>3
  <2>4. /\ Count(r, {Ack}) \in Nat /\ Count(r, {Nack}) \in Nat
        /\ Count(Append(r, Ack), {Ack}) = Count(r, {Ack}) + 1 /\ Count(Append(r, Ack), {Nack}) = Count(r, {Nack}) + 0
    BY <1>1, <1>3, <2>1, <2>2
  <2>5. ASSUME NEW y \in Outgoing, y \notin {Ack}, y \notin {Nack}
        PROVE  /\ Count(Append(Append(r, Ack), y), {Ack}) = Count(Append(r, Ack), {Ack}) + 0
               /\ Count(Append(Append(r, Ack), y), {Nack}) = Count(Append(r, Ack), {Nack}) + 0
    BY <2>2, <2>3, <2>5
  <2>6. CASE ~Answers(m) /\ q = r
    BY <2>4, <2>6
  <2>7. CASE Answers(m) /\ q = Append(r, Ack)
    BY <2>4, <2>7
  <2>8. ASSUME NEW y \in Outgoing, y \notin {Ack}, y \notin {Nack}, Answers(m), q = Append(Append(r, Ack), y)
        PROVE  Count(q, {Ack}) = Count(r, {Ack}) + 1 /\ Count(q, {Nack}) = Count(r, {Nack})
    <3>1. /\ Count(q, {Ack}) = Count(Append(r, Ack), {Ack}) + 0
          /\ Count(q, {Nack}) = Count(Append(r, Ack), {Nack}) + 0
      BY <2>5, <2>8, Zenon
    <3> QED
      BY <2>4, <3>1
  <2>9. CASE Answers(m) /\ \E y \in {Sync, Normal(Identity)} : q = Append(Append(r, Ack), y)
    BY <1>3, <2>1, <2>8, <2>9
  <2> QED
    BY <1>6, <2>6, <2>7, <2>9, Zenon
<1>10. Count(Append(e, Event(m)), Telling) = Count(e, Telling) + (IF Answers(m) THEN 1 ELSE 0)
  <2>1. Event(m) \in Telling <=> Answers(m)
    BY <1>3, KindIs, Zenon DEF Telling
  <2>2. Count(Append(e, Event(m)), Telling) = Count(e, Telling) + (IF Event(m) \in Telling THEN 1 ELSE 0)
    <3> DEFINE v == Event(m)
               W == Telling
    <3>1. v \in Events /\ e \in Seq(Events)
      BY <1>1, <1>3
    <3> HIDE DEF v, W
    <3>2. Count(Append(e, v), W) = Count(e, W) + (IF v \in W THEN 1 ELSE 0)
      BY <3>1, Counts, Zenon
    <3> QED
      BY <3>2 DEF v, W
  <2> QED
    BY <2>1, <2>2, Zenon
<1>11. SyncsAre(q, b \/ AsksForSync(m, b))
  <2>1. Append(r, Ack) \in Seq(Outgoing) /\ Ack # Sync /\ Normal(Identity) # Sync
    BY <1>1, <1>3, Different
  <2>2. CASE AsksForSync(m, b) /\ q = Append(Append(r, Ack), Sync)
    <3>1. b = FALSE
      BY <1>1, <1>7, <2>2
    <3>2. SyncsAre(r, FALSE)
      BY <1>8, <3>1
    <3>3. SyncsAre(q, TRUE)
      BY <1>1, <2>2, <3>2, SyncBegins, Zenon
    <3>4. (b \/ AsksForSync(m, b)) = TRUE
      BY <2>2, <3>1
    <3> QED
      BY <3>3, <3>4
  <2>3. CASE ~AsksForSync(m, b) /\ q = r
    <3>1. (b \/ AsksForSync(m, b)) = b
      BY <1>1, <2>3
    <3> QED
      BY <1>8, <2>3, <3>1
  <2>4. CASE ~AsksForSync(m, b) /\ (q = Append(r, Ack) \/ q = Append(Append(r, Ack), Normal(Identity)))
    <3>1. (b \/ AsksForSync(m, b)) = b
      BY <1>1, <2>4
    <3>2. SyncsAre(Append(r, Ack), b)
      BY <1>1, <1>3, <1>8, <2>1, SyncKeeps, Zenon
    <3>3. SyncsAre(Append(Append(r, Ack), Normal(Identity)), b)
      BY <1>3, <2>1, <3>2, SyncKeeps, Zenon
    <3> QED
      BY <2>4, <3>1, <3>2, <3>3
  <2> QED
    BY <1>6, <2>2, <2>3, <2>4, Zenon
<1>12. (b \/ AsksForSync(m, b)) <=>
         emulation # "BP7100" /\ \E i \in DOMAIN Append(h, x) : IsPing(Append(h, x)[i])
  <2> DEFINE g == Append(h, x)
             n == Len(h)
  <2>1. /\ n \in Nat /\ DOMAIN h = 1 .. n /\ DOMAIN g = 1 .. n + 1 /\ g[n + 1] = x
        /\ \A i \in 1 .. n : g[i] = h[i]
    BY <1>1, <1>4, AppendProperties
  <2> HIDE DEF g, n
  <2>2. \A i \in 1 .. n + 1 : i \in 1 .. n \/ i = n + 1
    BY <2>1
  <2>3. n + 1 \in 1 .. n + 1 /\ \A i \in 1 .. n : i \in 1 .. n + 1
    BY <2>1
  <2>4. (\E i \in DOMAIN g : IsPing(g[i])) <=> (\E i \in DOMAIN h : IsPing(h[i])) \/ IsPing(x)
    BY <2>1, <2>2, <2>3, Zenon
  <2> QED
    BY <1>7, <1>8, <2>4, Zenon DEF g
<1>13. /\ t.replies = q /\ t.events = Append(e, Event(m)) /\ t.handled = Append(h, x)
       /\ t.sentSync = (b \/ AsksForSync(m, b)) /\ t.crcErrors = st.crcErrors
  BY <1>2 DEF q
<1>14. Count(t.replies, {Ack}) = Count(t.events, Telling)
  BY <1>8, <1>9, <1>10, <1>13
<1>15. Count(t.replies, {Nack}) = IF emulation = "BP7100" THEN t.crcErrors ELSE 0
  BY <1>8, <1>9, <1>13
<1>16. SyncsAre(t.replies, t.sentSync)
  BY <1>11, <1>13
<1>17. t.sentSync <=> emulation # "BP7100" /\ \E i \in DOMAIN t.handled : IsPing(t.handled[i])
  BY <1>12, <1>13
<1> QED
  BY <1>14, <1>15, <1>16, <1>17, Zenon DEF Accounted, t

\* A byte leaves everything accounted for.
LEMMA AccountsOn ==
  ASSUME NEW st \in States, Accounted(st), NEW b \in Byte, NEW at \in Nat, NEW t, Fed(st, b, at, t)
  PROVE  Accounted(t)
<1> DEFINE acc == st.parser.acc
<1>1. ASSUME NEW r PROVE Accounted(Goes(st, r))
  <2>1. /\ Goes(st, r).replies = st.replies /\ Goes(st, r).events = st.events
        /\ Goes(st, r).crcErrors = st.crcErrors /\ Goes(st, r).sentSync = st.sentSync
        /\ Goes(st, r).handled = st.handled
    BY DEF States, Goes
  <2> QED
    BY <2>1 DEF Accounted
<1>2. Accounted(AfterBad(st))
  <2> DEFINE t1 == AfterBad(st)
  <2>1. /\ st.replies \in Seq(Outgoing) /\ st.crcErrors \in Nat
        /\ t1.replies = (IF emulation = "BP7100" THEN Append(st.replies, Nack) ELSE st.replies)
        /\ t1.events = st.events /\ t1.crcErrors = st.crcErrors + 1 /\ t1.sentSync = st.sentSync
        /\ t1.handled = st.handled
    BY DEF States, AfterBad
  <2> DEFINE r == st.replies
  <2>2. /\ Count(r, {Ack}) = Count(st.events, Telling)
        /\ Count(r, {Nack}) = IF emulation = "BP7100" THEN st.crcErrors ELSE 0
        /\ SyncsAre(r, st.sentSync)
        /\ st.sentSync <=> emulation # "BP7100" /\ \E i \in DOMAIN st.handled : IsPing(st.handled[i])
    BY Zenon DEF Accounted
  <2> HIDE DEF t1, r
  <2>3. Nack \in Outgoing /\ Nack # Sync /\ Nack \in {Nack} /\ Nack \notin {Ack}
    BY Different DEF Outgoing
  <2>4. ASSUME NEW W
        PROVE  Count(r, W) \in Nat /\ Count(Append(r, Nack), W) = Count(r, W) + (IF Nack \in W THEN 1 ELSE 0)
    <3>1. r \in Seq(Outgoing) /\ Nack \in Outgoing
      BY <2>1, <2>3 DEF r
    <3> QED
      BY <3>1, Counts, Zenon
  <2>5. /\ Count(r, {Ack}) \in Nat /\ Count(r, {Nack}) \in Nat
        /\ Count(Append(r, Nack), {Ack}) = Count(r, {Ack}) /\ Count(Append(r, Nack), {Nack}) = Count(r, {Nack}) + 1
    <3>1. /\ Count(r, {Ack}) \in Nat /\ Count(r, {Nack}) \in Nat
          /\ Count(Append(r, Nack), {Ack}) = Count(r, {Ack}) + 0
          /\ Count(Append(r, Nack), {Nack}) = Count(r, {Nack}) + 1
      BY <2>3, <2>4
    <3> QED
      BY <3>1
  <2>6. SyncsAre(Append(r, Nack), st.sentSync)
    BY <2>1, <2>2, <2>3, SyncKeeps, Zenon DEF r
  <2>7. t1.replies = (IF emulation = "BP7100" THEN Append(r, Nack) ELSE r)
    BY <2>1 DEF r
  <2>8. Count(t1.replies, {Ack}) = Count(t1.events, Telling)
    BY <2>1, <2>2, <2>5, <2>7
  <2>9. Count(t1.replies, {Nack}) = IF emulation = "BP7100" THEN t1.crcErrors ELSE 0
    BY <2>1, <2>2, <2>5, <2>7
  <2>10. SyncsAre(t1.replies, t1.sentSync)
    BY <2>1, <2>2, <2>6, <2>7
  <2>11. t1.sentSync <=> emulation # "BP7100" /\ \E i \in DOMAIN t1.handled : IsPing(t1.handled[i])
    BY <2>1, <2>2
  <2> QED
    BY <2>8, <2>9, <2>10, <2>11, Zenon DEF Accounted, t1
<1>3. ASSUME Len(acc) >= 2 PROVE Accounted(Told(st, DecodeFrame(acc), at))
  <2>1. acc \in Seq(Byte)
    BY DEF States, Parsers
  <2>2. DecodeFrame(acc) \in Seq(Byte)
    BY <1>3, <2>1, Decodes, Zenon
  <2> QED
    BY <2>2, AccountsTold, Zenon
<1> QED
  BY <1>1, <1>2, <1>3, Zenon DEF Fed

GoodAt(st, p) == st \in States /\ Reads(st, p) /\ Tells(st, p) /\ Clean(st) /\ Accounted(st)

\* A byte that arrives keeps all that is known of the read loop.
LEMMA ByteGood ==
  ASSUME ControlAssumption, NEW p \in 0 .. Len(Stream) - 1, p + 1 \notin lost, NEW st, GoodAt(st, p)
  PROVE  GoodAt(TakeControlByte(st, p + 1), p + 1)
<1> DEFINE t == TakeControlByte(st, p + 1)
<1>1. Stream[p + 1] \in Byte /\ p + 1 \in Nat
  <2>1. Stream \in Seq(Byte) /\ Len(Stream) \in Nat
    BY StreamIs, Zenon
  <2>2. p + 1 \in 1 .. Len(Stream) /\ p + 1 \in Nat
    BY <2>1
  <2> QED
    BY <2>1, <2>2, ElementOfSeq, Zenon
<1>2. st \in States /\ Reads(st, p) /\ Tells(st, p) /\ Clean(st) /\ Accounted(st)
  BY Zenon DEF GoodAt
<1>3. Fed(st, Stream[p + 1], p + 1, t)
  BY <1>1, <1>2, TakesByte, Zenon
<1> HIDE DEF t
<1>4. t \in States
  BY <1>1, <1>2, <1>3, FeedsType, Zenon
<1>5. Accounted(t)
  BY <1>1, <1>2, <1>3, AccountsOn, Zenon
<1>6. Reads(t, p + 1) /\ Tells(t, p + 1) /\ Clean(t)
  BY <1>2, <1>3, ReadsOn, Zenon
<1> QED
  BY <1>4, <1>5, <1>6, Zenon DEF GoodAt, t

\* The states on the way through a packet.
Reading(n) ==
  CHOOSE read : read = [i \in 0 .. n |-> IF i = 0 THEN rx ELSE TakeControlByte(read[i - 1], pos + i)]

\* The states on the way exist.
LEMMA ReadingIs ==
  ASSUME NEW n \in Nat
  PROVE  LET f == Reading(n)
         IN f = [i \in 0 .. n |-> IF i = 0 THEN rx ELSE TakeControlByte(f[i - 1], pos + i)]
<1> DEFINE T == {m \in 0 .. n : \E f : f = [i \in 0 .. m |-> IF i = 0 THEN rx ELSE TakeControlByte(f[i - 1], pos + i)]}
<1>1. 0 \in T
  <2>1. \E f : f = [i \in 0 .. 0 |-> IF i = 0 THEN rx ELSE TakeControlByte(f[i - 1], pos + i)]
    <3> DEFINE f == [i \in 0 .. 0 |-> rx]
    <3>1. f = [i \in 0 .. 0 |-> IF i = 0 THEN rx ELSE TakeControlByte(f[i - 1], pos + i)]
      OBVIOUS
    <3> QED
      BY <3>1, Zenon
  <2>2. 0 \in 0 .. n
    OBVIOUS
  <2> QED
    BY <2>1, <2>2, Zenon
<1>2. ASSUME NEW m \in 0 .. n - 1, m \in T PROVE m + 1 \in T
  <2>1. PICK f : f = [i \in 0 .. m |-> IF i = 0 THEN rx ELSE TakeControlByte(f[i - 1], pos + i)]
    BY <1>2
  <2> DEFINE h == [i \in 0 .. m + 1 |-> IF i = m + 1 THEN TakeControlByte(f[m], pos + i) ELSE f[i]]
  <2>2. ASSUME NEW i \in 0 .. m + 1 PROVE h[i] = IF i = 0 THEN rx ELSE TakeControlByte(h[i - 1], pos + i)
    <3>1. CASE i = m + 1
      <4>1. h[i - 1] = f[m] /\ i # 0
        BY <1>2, <3>1
      <4> QED
        BY <3>1, <4>1
    <3>2. CASE i # m + 1
      <4>1. i \in 0 .. m /\ h[i] = f[i]
        BY <1>2, <3>2
      <4>2. f[i] = IF i = 0 THEN rx ELSE TakeControlByte(f[i - 1], pos + i)
        BY <2>1, <4>1, Zenon
      <4>3. i # 0 => h[i - 1] = f[i - 1]
        BY <1>2, <4>1
      <4> QED
        BY <4>1, <4>2, <4>3
    <3> QED
      BY <3>1, <3>2
  <2>3. h = [i \in 0 .. m + 1 |-> IF i = 0 THEN rx ELSE TakeControlByte(h[i - 1], pos + i)]
    <3>1. h = [i \in 0 .. m + 1 |-> h[i]]
      BY Zenon
    <3> HIDE DEF h
    <3> QED
      BY <2>2, <3>1, Zenon
  <2>4. m + 1 \in 0 .. n
    BY <1>2
  <2> HIDE DEF h
  <2> QED
    BY <2>3, <2>4
<1>3. n \in T
  <2> HIDE DEF T
  <2>1. \A k \in 0 .. n : k \in T
    BY <1>1, <1>2, Climbs
  <2> QED
    BY <2>1
<1>4. \E f : f = [i \in 0 .. n |-> IF i = 0 THEN rx ELSE TakeControlByte(f[i - 1], pos + i)]
  BY <1>3
<1> QED
  BY <1>4, Zenon DEF Reading

\* So does a packet.
LEMMA ReadGood ==
  ASSUME ControlAssumption, pos \in Nat, lost \subseteq 1 .. pos, GoodAt(rx, pos),
         NEW n \in Nat, pos + n <= Len(Stream)
  PROVE  GoodAt(Read(n), pos + n)
<1> DEFINE f == Reading(n)
           T == {i \in 0 .. n : GoodAt(f[i], pos + i)}
<1>1. f = [i \in 0 .. n |-> IF i = 0 THEN rx ELSE TakeControlByte(f[i - 1], pos + i)]
  BY ReadingIs, Zenon
<1>2. Read(n) = f[n]
  BY DEF Read, Reading
<1> HIDE DEF f
<1>3. \A i \in 0 .. n : f[i] = IF i = 0 THEN rx ELSE TakeControlByte(f[i - 1], pos + i)
  BY <1>1, Zenon
<1>4. 0 \in T
  <2>1. f[0] = rx /\ pos + 0 = pos /\ 0 \in 0 .. n
    BY <1>3
  <2> QED
    BY <2>1
<1>5. ASSUME NEW i \in 0 .. n - 1, i \in T PROVE i + 1 \in T
  <2>1. /\ i + 1 \in 0 .. n /\ i + 1 # 0 /\ (i + 1) - 1 = i /\ (pos + i) + 1 = pos + (i + 1)
        /\ pos + i \in 0 .. Len(Stream) - 1 /\ (pos + i) + 1 \notin lost
    <3>1. Len(Stream) \in Nat
      BY StreamIs, Zenon
    <3> QED
      BY <3>1
  <2>2. GoodAt(f[i], pos + i)
    BY <1>5
  <2>3. GoodAt(TakeControlByte(f[i], (pos + i) + 1), (pos + i) + 1)
    BY <2>1, <2>2, ByteGood, Zenon
  <2>4. f[i + 1] = TakeControlByte(f[(i + 1) - 1], pos + (i + 1))
    BY <1>3, <2>1, Zenon
  <2>5. GoodAt(f[i + 1], pos + (i + 1))
    BY <2>1, <2>3, <2>4
  <2> QED
    BY <2>1, <2>5
<1>6. n \in T
  <2> HIDE DEF T
  <2>1. \A i \in 0 .. n : i \in T
    BY <1>4, <1>5, Climbs
  <2> QED
    BY <2>1
<1> QED
  BY <1>2, <1>6
-----------------------------------------------------------------------------
(***************************************************************************)
(* The inductive invariant.                                                *)
(***************************************************************************)

IInv ==
  /\ pos \in 0 .. Len(Stream) /\ lost \subseteq 1 .. pos /\ losses \in Nat
  /\ losses = 0 => lost = {}
  /\ GoodAt(rx, pos)

\* At the start nothing has been read.
LEMMA Starts == ASSUME ControlAssumption PROVE Init => IInv
<1> SUFFICES ASSUME Init PROVE IInv
  OBVIOUS
<1>1. /\ pos = 0 /\ lost = {} /\ losses = 0 /\ Len(Stream) \in Nat
      /\ rx = [parser |-> Empty, sentSync |-> FALSE, crcErrors |-> 0,
               handled |-> <<>>, events |-> <<>>, replies |-> <<>>]
  BY StreamIs DEF Init
<1>2. Len(Script) \in Nat /\ End[0] = 0 /\ \A k \in 0 .. Len(Script) : End[k] \in Nat
  BY StreamIs, FramesAre, Zenon
<1>3. rx \in States
  <2>1. Empty \in Parsers
    BY DEF Empty, Parsers
  <2> QED
    BY <1>1, <2>1 DEF States
<1>4. Reads(rx, pos)
  <2> SUFFICES ASSUME NEW k \in 1 .. Len(Script), Inside(k, 0) PROVE FrameInStep(Empty, 0, k)
    BY <1>1 DEF Reads
  <2>1. k - 1 \in 0 .. Len(Script) /\ End[k - 1] \in Nat
    BY <1>2
  <2>2. End[k - 1] = 0
    BY <2>1 DEF Inside
  <2>3. Content(k) \in Seq(Byte)
    BY FramesAre, Zenon
  <2>4. Upon(Content(k), 0) = 0 /\ Len(Content(k)) \in Nat
    <3>1. Upon(Content(k), 0) = 0
      BY <2>3, Stuffing, Zenon
    <3> QED
      BY <2>3, <3>1
  <2>5. Within(Content(k), 0, 0, FALSE)
    BY <2>4 DEF Within
  <2>6. Collects(Empty, 0, Content(k))
    <3>1. Len(Empty.acc) = 0 /\ Empty.esc = FALSE
      BY DEF Empty
    <3>2. \A x \in 1 .. 0 : Empty.acc[x] = Content(k)[x]
      OBVIOUS
    <3> QED
      BY <2>5, <3>1, <3>2 DEF Collects
  <2>7. 0 - End[k - 1] = 0 /\ ~ (0 - End[k - 1] >= 1)
    BY <2>2
  <2> QED
    BY <2>6, <2>7, Zenon DEF FrameInStep
<1>5. Tells(rx, pos)
  <2> SUFFICES ASSUME NEW k \in 1 .. Len(Script), End[k] <= 0 PROVE FALSE
    BY <1>1 DEF Tells
  <2>1. Placed(k)
    BY StreamIs, Zenon
  <2>2. End[k] = End[k - 1] + Len(Frames[k]) /\ Len(Frames[k]) >= 2 /\ End[k - 1] \in Nat
    BY <2>1, Zenon DEF Placed
  <2>3. Len(Frames[k]) \in Nat
    BY FramesAre
  <2> QED
    BY <2>2, <2>3
<1>6. Clean(rx)
  BY <1>1 DEF Clean
<1>7. Accounted(rx)
  <2>1. /\ rx.replies = <<>> /\ rx.events = <<>> /\ rx.handled = <<>> /\ rx.crcErrors = 0 /\ rx.sentSync = FALSE
    BY <1>1
  <2>2. \A W : Count(<<>>, W) = 0
    <3>1. DOMAIN <<>> = {}
      OBVIOUS
    <3>2. \A W : {i \in DOMAIN <<>> : <<>>[i] \in W} = {}
      BY <3>1, Zenon
    <3> QED
      BY <3>2, FS_EmptySet, Zenon DEF Count
  <2>3. DOMAIN <<>> = {}
    OBVIOUS
  <2> QED
    BY <2>1, <2>2, <2>3 DEF Accounted, SyncsAre
<1> QED
  BY <1>1, <1>3, <1>4, <1>5, <1>6, <1>7 DEF IInv, GoodAt

\* A lost packet touches no frame that counts as whole.
LEMMA Skips ==
  ASSUME ControlAssumption, IInv, NEW n \in Chunks, PacketLost(n)
  PROVE  IInv'
<1>1. /\ pos \in Nat /\ pos + n <= Len(Stream) /\ n \in Nat \ {0} /\ Len(Stream) \in Nat
      /\ pos' = pos + n /\ lost' = lost \cup (pos + 1 .. pos + n) /\ losses' = losses + 1
      /\ rx' = rx /\ emulation' = emulation /\ lost \subseteq 1 .. pos /\ losses \in Nat
  BY StreamIs DEF IInv, PacketLost, CarriedBy, ControlAssumption, MaxCtrl
<1>2. /\ Len(Script) \in Nat /\ End[0] = 0 /\ \A k \in 0 .. Len(Script) : End[k] \in Nat
  BY StreamIs, FramesAre, Zenon
<1>3. ASSUME NEW k \in 1 .. Len(Script)
      PROVE  End[k] \in Nat /\ End[k - 1] \in Nat /\ End[k - 1] < End[k]
  <2>1. Placed(k)
    BY StreamIs, Zenon
  <2>2. /\ End[k] = End[k - 1] + Len(Frames[k]) /\ Len(Frames[k]) >= 2
        /\ End[k - 1] \in Nat /\ End[k] \in Nat
    BY <2>1, Zenon DEF Placed
  <2>3. Len(Frames[k]) \in Nat
    BY FramesAre
  <2> QED
    BY <2>2, <2>3
<1>4. rx \in States /\ Reads(rx, pos) /\ Tells(rx, pos) /\ Clean(rx) /\ Accounted(rx)
  BY Zenon DEF IInv, GoodAt
<1>5. ASSUME NEW k \in 1 .. Len(Script), WholeFrame(k)', End[k] <= pos'
      PROVE  End[k] <= pos /\ WholeFrame(k)
  <2>1. End[k] \in BytesOf(k)
    BY <1>3 DEF BytesOf
  <2>2. BytesOf(k) \cap lost' = {}
    BY <1>5 DEF WholeFrame, BytesOf
  <2>3. End[k] \notin pos + 1 .. pos + n
    BY <1>1, <2>1, <2>2
  <2>4. End[k] <= pos
    BY <1>1, <1>3, <1>5, <2>3
  <2>5. WholeFrame(k)
    BY <1>1, <2>2 DEF WholeFrame
  <2> QED
    BY <2>4, <2>5
<1>6. Tells(rx, pos)'
  <2> SUFFICES ASSUME NEW k \in 1 .. Len(Script), End[k] <= pos', WholeFrame(k)', Follows(k)'
               PROVE  HasTold(rx, k)'
    BY DEF Tells
  <2>1. End[k] <= pos /\ WholeFrame(k)
    BY <1>5
  <2>2. Follows(k)
    <3>1. CASE k = 1
      BY <3>1 DEF Follows
    <3>2. CASE k # 1
      <4>1. k - 1 \in 1 .. Len(Script) /\ WholeFrame(k - 1)'
        BY <1>2, <3>2 DEF Follows
      <4>2. End[k - 1] <= pos'
        BY <1>1, <1>3
      <4>3. WholeFrame(k - 1)
        BY <1>5, <4>1, <4>2
      <4> QED
        BY <4>3 DEF Follows
    <3> QED
      BY <3>1, <3>2
  <2>3. HasTold(rx, k)
    BY <1>4, <2>1, <2>2, Zenon DEF Tells
  <2> QED
    BY <1>1, <2>3 DEF HasTold
<1>7. Reads(rx, pos)'
  <2> SUFFICES ASSUME NEW k \in 1 .. Len(Script), Inside(k, pos)', Safe(k, pos)'
               PROVE  FrameInStep(rx.parser, pos, k)'
    BY DEF Reads
  <2>1. End[k - 1] <= pos' /\ pos' < End[k] /\ (End[k - 1] + 1 .. pos') \cap lost' = {}
    BY DEF Inside, Safe
  <2>2. End[k - 1] = pos'
    BY <1>1, <1>3, <2>1
  <2>3. ~ Follows(k)'
    <3>1. k # 1
      BY <1>1, <1>2, <2>2
    <3>2. k - 1 \in 1 .. Len(Script)
      BY <1>2, <3>1
    <3>3. ~ WholeFrame(k - 1)'
      <4>1. WholeFrame(k - 1)' => End[k - 1] <= pos
        BY <1>1, <1>5, <2>2, <3>2
      <4> QED
        BY <1>1, <2>2, <4>1
    <3> QED
      BY <3>1, <3>3 DEF Follows
  <2>4. ~ (pos' - End[k - 1] >= 1)
    BY <1>1, <2>2
  <2> QED
    BY <2>3, <2>4 DEF FrameInStep
<1>8. Clean(rx)' /\ Accounted(rx)'
  <2>1. lost' # {}
    BY <1>1
  <2>2. Accounted(rx)'
    BY <1>1, <1>4 DEF Accounted, SyncsAre
  <2> QED
    BY <2>1, <2>2 DEF Clean
<1>9. (rx \in States)'
  BY <1>1, <1>4 DEF States, Events, Event, InfoEvent
<1>10. /\ pos' \in 0 .. Len(Stream) /\ lost' \subseteq 1 .. pos' /\ losses' \in Nat /\ losses' # 0
  BY <1>1
<1> QED
  BY <1>6, <1>7, <1>8, <1>9, <1>10 DEF IInv, GoodAt

\* A packet that arrives is read byte by byte.
LEMMA PacketIn ==
  ASSUME ControlAssumption, IInv, NEW n \in Chunks, PacketArrives(n)
  PROVE  IInv'
<1>1. /\ pos \in Nat /\ pos + n <= Len(Stream) /\ n \in Nat /\ Len(Stream) \in Nat
      /\ pos' = pos + n /\ lost' = lost /\ losses' = losses
      /\ rx' = Read(n) /\ emulation' = emulation /\ lost \subseteq 1 .. pos /\ losses \in Nat
      /\ losses = 0 => lost = {}
  <2>1. /\ pos + n <= Len(Stream) /\ pos' = pos + n /\ lost' = lost /\ losses' = losses
        /\ rx' = Read(n) /\ emulation' = emulation
    BY Zenon DEF PacketArrives
  <2>2. n \in Nat
    BY DEF ControlAssumption, MaxCtrl
  <2>3. Len(Stream) \in Nat
    BY StreamIs, Zenon
  <2>4. pos \in Nat /\ lost \subseteq 1 .. pos /\ losses \in Nat /\ (losses = 0 => lost = {})
    BY <2>3 DEF IInv
  <2> QED
    BY <2>1, <2>2, <2>3, <2>4, Zenon
<1>2. GoodAt(Read(n), pos + n)
  BY <1>1, ReadGood, Zenon DEF IInv
<1> DEFINE st == Read(n)
           p == pos + n
<1>3. st \in States /\ Reads(st, p) /\ Tells(st, p) /\ Clean(st) /\ Accounted(st)
  BY <1>2, Zenon DEF GoodAt
<1>4. rx' = st /\ pos' = p
  BY <1>1
<1> HIDE DEF st, p
<1>5. \A k : WholeFrame(k)' <=> WholeFrame(k)
  BY <1>1 DEF WholeFrame, BytesOf
<1>6. \A k : Follows(k)' <=> Follows(k)
  BY <1>5, Zenon DEF Follows
<1>7. Reads(rx, pos)'
  <2> SUFFICES ASSUME NEW k \in 1 .. Len(Script), Inside(k, pos)', Safe(k, pos)'
               PROVE  FrameInStep(rx.parser, pos, k)'
    BY DEF Reads
  <2>1. Inside(k, p) /\ Safe(k, p)
    BY <1>1, <1>4 DEF Inside, Safe
  <2>2. FrameInStep(st.parser, p, k)
    BY <1>3, <2>1, Zenon DEF Reads
  <2> QED
    BY <1>4, <1>6, <2>2 DEF FrameInStep
<1>8. Tells(rx, pos)'
  <2> SUFFICES ASSUME NEW k \in 1 .. Len(Script), End[k] <= pos', WholeFrame(k)', Follows(k)'
               PROVE  HasTold(rx, k)'
    BY DEF Tells
  <2>1. HasTold(st, k)
    BY <1>3, <1>4, <1>5, <1>6 DEF Tells
  <2> QED
    BY <1>4, <2>1 DEF HasTold
<1>9. Clean(rx)'
  BY <1>1, <1>3, <1>4 DEF Clean
<1>10. Accounted(rx)'
  BY <1>1, <1>3, <1>4 DEF Accounted, SyncsAre
<1>11. (rx \in States)'
  BY <1>1, <1>3, <1>4 DEF States
<1>12. pos' \in 0 .. Len(Stream) /\ lost' \subseteq 1 .. pos' /\ losses' \in Nat /\ (losses' = 0 => lost' = {})
  BY <1>1
<1> QED
  BY <1>7, <1>8, <1>9, <1>10, <1>11, <1>12 DEF IInv, GoodAt

\* Each step keeps the invariant.
LEMMA Inductive == ASSUME ControlAssumption PROVE IInv /\ [Next]_vars => IInv'
<1> SUFFICES ASSUME IInv, [Next]_vars PROVE IInv'
  OBVIOUS
<1>1. ASSUME NEW n \in Chunks, PacketArrives(n) PROVE IInv'
  BY <1>1, PacketIn
<1>2. ASSUME NEW n \in Chunks, PacketLost(n) PROVE IInv'
  BY <1>2, Skips
<1>3. CASE UNCHANGED vars
  <2>1. /\ pos' = pos /\ lost' = lost /\ losses' = losses /\ rx' = rx /\ emulation' = emulation
    BY <1>3 DEF vars
  <2> QED
    BY <2>1 DEF IInv, GoodAt, Reads, Tells, Clean, Accounted, FrameInStep, Follows, WholeFrame, Safe, BytesOf,
                HasTold, SyncsAre, Inside, States
<1> QED
  BY <1>1, <1>2, <1>3 DEF Next

\* The invariant holds throughout.
LEMMA AlwaysIInv == ASSUME ControlAssumption PROVE Spec => []IInv
<1>1. Init => IInv
  BY Starts
<1>2. IInv /\ [Next]_vars => IInv'
  BY Inductive
<1> QED
  BY <1>1, <1>2, PTL DEF Spec

\* What the invariant says of the frames that arrived.
LEMMA LossIsLocalHolds == ASSUME ControlAssumption, IInv PROVE LossIsLocal
<1> SUFFICES ASSUME NEW k \in DOMAIN Script, Arrived(k), k = 1 \/ Arrived(k - 1)
             PROVE  \E i \in DOMAIN rx.handled :
                      rx.handled[i] = [at |-> End[k], payload |-> NormalizePayload(Script[k])]
  BY DEF LossIsLocal
<1>1. k \in 1 .. Len(Script)
  BY FramesAre
<1>2. End[k] <= pos /\ WholeFrame(k)
  BY DEF Arrived, WholeFrame
<1>3. Follows(k)
  BY DEF Arrived, Follows, WholeFrame
<1>4. Tells(rx, pos)
  BY Zenon DEF IInv, GoodAt
<1>5. HasTold(rx, k)
  BY <1>1, <1>2, <1>3, <1>4, Zenon DEF Tells
<1> QED
  BY <1>5 DEF HasTold, Entry

\* What the invariant says of the replies.
LEMMA RepliedHolds == ASSUME ControlAssumption, IInv PROVE SyncOnce /\ Answered
<1> DEFINE r == rx.replies
           syncs == {i \in DOMAIN r : r[i] = Sync}
<1>1. /\ Count(r, {Ack}) = Count(rx.events, Telling)
      /\ Count(r, {Nack}) = IF emulation = "BP7100" THEN rx.crcErrors ELSE 0
      /\ SyncsAre(r, rx.sentSync)
      /\ rx.sentSync <=> emulation # "BP7100" /\ \E i \in DOMAIN rx.handled : IsPing(rx.handled[i])
  BY Zenon DEF IInv, GoodAt, Accounted
<1>2. rx \in States /\ (losses = 0 => rx.crcErrors = 0)
  BY Zenon DEF IInv, GoodAt, Clean
<1>3. r \in Seq(Outgoing) /\ rx.events \in Seq(Events) /\ rx.sentSync \in BOOLEAN /\ DOMAIN r = 1 .. Len(r)
  BY <1>2 DEF States
<1>4. SyncOnce
  <2>1. CASE rx.sentSync
    <3>1. PICK j \in DOMAIN r : /\ j > 1 /\ r[j] = Sync /\ r[j - 1] = Ack
                                /\ \A i \in DOMAIN r : r[i] = Sync => i = j
      BY <1>1, <2>1, Zenon DEF SyncsAre
    <3>2. syncs = {j}
      BY <3>1
    <3>3. Cardinality(syncs) <= 1
      <4>1. Cardinality({j}) = 1
        BY FS_Singleton, Zenon
      <4> QED
        BY <3>2, <4>1
    <3>4. \A i \in syncs : i > 1 /\ r[i - 1] = Ack
      BY <3>1, <3>2
    <3>5. syncs # {} /\ emulation # "BP7100" /\ \E i \in DOMAIN rx.handled : rx.handled[i].payload[1] = 80
      BY <1>1, <2>1, <3>2, Zenon DEF IsPing
    <3> QED
      BY <3>3, <3>4, <3>5, Zenon DEF SyncOnce
  <2>2. CASE ~rx.sentSync
    <3>1. syncs = {}
      BY <1>1, <2>2, Zenon DEF SyncsAre
    <3>2. Cardinality(syncs) <= 1
      <4>1. Cardinality({}) = 0
        BY FS_EmptySet, Zenon
      <4> QED
        BY <3>1, <4>1
    <3>3. emulation = "BP7100" \/ \A i \in DOMAIN rx.handled : rx.handled[i].payload[1] # 80
      BY <1>1, <2>2, Zenon DEF IsPing
    <3> QED
      BY <3>1, <3>2, <3>3, Zenon DEF SyncOnce
  <2> QED
    BY <2>1, <2>2
<1>5. Answered
  <2>1. \A x : {i \in DOMAIN r : r[i] \in {x}} = {i \in DOMAIN r : r[i] = x}
    OBVIOUS
  <2>2. {i \in DOMAIN rx.events : rx.events[i] \in Telling} =
        {i \in DOMAIN rx.events : rx.events[i].kind \notin {"ack", "nack", "unknown"}}
    <3>1. \A i \in DOMAIN rx.events : rx.events[i] \in Events
      BY <1>3
    <3> QED
      BY <3>1, Zenon DEF Telling, Untold
  <2> DEFINE acks == {i \in DOMAIN r : r[i] = Ack}
             nacks == {i \in DOMAIN r : r[i] = Nack}
             told == {i \in DOMAIN rx.events : rx.events[i].kind \notin {"ack", "nack", "unknown"}}
  <2>3. Count(r, {Ack}) = Cardinality(acks) /\ Count(r, {Nack}) = Cardinality(nacks)
    BY <2>1, Zenon DEF Count
  <2>4. Count(rx.events, Telling) = Cardinality(told)
    BY <2>2, Zenon DEF Count
  <2>5. /\ Cardinality(acks) = Cardinality(told)
        /\ Cardinality(nacks) = (IF emulation = "BP7100" THEN rx.crcErrors ELSE 0)
    BY <1>1, <2>3, <2>4, Zenon
  <2> QED
    BY <1>2, <2>5, Zenon DEF Answered
<1> QED
  BY <1>4, <1>5

\* Whatever the matrix sends and whichever packets are lost: a loss spoils the frames it
\* touched and at most the one after them, so a frame that arrives whole behind one that did
\* is handled as it was meant; the state is synchronised once, behind the acknowledgement of
\* the first ping; each frame that is understood and is none itself is acknowledged once, and
\* a repeat is asked for of each spoilt one, of which there is none unless packets are lost.
THEOREM ConversesCorrect ==
  ASSUME ControlAssumption
  PROVE  Spec => []Converses
<1>1. Spec => []IInv
  BY AlwaysIInv
<1>2. IInv => Converses
  BY LossIsLocalHolds, RepliedHolds DEF Converses
<1> QED
  BY <1>1, <1>2, PTL
=============================================================================
