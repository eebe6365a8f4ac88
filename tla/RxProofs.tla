------------------------------- MODULE RxProofs -------------------------------
(***************************************************************************)
(* Proofs about RxReorder, for every size of the sequence space, every     *)
(* wait and every set of packets; then about RxStream: for any size of the *)
(* space, any wait and a stream of any length, the receiver hands on the   *)
(* peer's packets in the order they were sent and drops only what comes    *)
(* too late.                                                               *)
(***************************************************************************)
EXTENDS RxStream, FiniteSetTheorems, SequenceTheorems, TLAPS

-----------------------------------------------------------------------------
(***************************************************************************)
(* Sequence arithmetic.                                                    *)
(***************************************************************************)

\* Counting forward from a sequence number stays in the space.
LEMMA AheadType ==
  ASSUME NEW s \in SeqNumbers, NEW d \in 0 .. SeqSpace
  PROVE  Ahead(s, d) \in SeqNumbers
BY HalfAssumption DEF Ahead, SeqNumbers, SeqSpace

\* Distance counts the places forward between two sequence numbers.
LEMMA DistanceType ==
  ASSUME NEW from \in SeqNumbers, NEW to \in SeqNumbers
  PROVE  /\ Distance(from, to) \in 0 .. SeqSpace - 1
         /\ Ahead(from, Distance(from, to)) = to
BY HalfAssumption DEF Ahead, Distance, SeqNumbers, SeqSpace

\* Distance undoes Ahead.
LEMMA DistanceAhead ==
  ASSUME NEW s \in SeqNumbers, NEW d \in 0 .. SeqSpace - 1
  PROVE  Distance(s, Ahead(s, d)) = d
BY HalfAssumption DEF Ahead, Distance, SeqNumbers, SeqSpace

\* Moving the origin forward by d shortens the distance by d.
LEMMA DistanceShift ==
  ASSUME NEW from \in SeqNumbers, NEW to \in SeqNumbers, NEW d \in 0 .. SeqSpace - 1,
         d <= Distance(from, to)
  PROVE  Distance(Ahead(from, d), to) = Distance(from, to) - d
BY HalfAssumption DEF Ahead, Distance, SeqNumbers, SeqSpace

\* Two moves forward that together stay below the size of the space are one.
LEMMA AheadAhead ==
  ASSUME NEW s \in SeqNumbers, NEW a \in Nat, NEW b \in Nat, a + b < SeqSpace
  PROVE  Ahead(Ahead(s, a), b) = Ahead(s, a + b)
BY HalfAssumption DEF Ahead, SeqNumbers, SeqSpace

-----------------------------------------------------------------------------
(***************************************************************************)
(* drainReady.                                                             *)
(***************************************************************************)

Buffered(buf) ==
  /\ DOMAIN buf \subseteq SeqNumbers
  /\ \A s \in DOMAIN buf : buf[s] \in Audio /\ SeqByte[buf[s]] = s

\* Packets buffered fewer than Half places from e, the run of n at e taken away,
\* lie strictly ahead of the new expected number: the place after the run is empty.
LEMMA DrainWindow ==
  ASSUME NEW e \in SeqNumbers, NEW buf, Buffered(buf),
         NEW n \in 0 .. Half, Run(e, buf, n),
         \A s \in DOMAIN buf : Distance(e, s) \in 0 .. Half - 1,
         NEW s \in DOMAIN buf \ {Ahead(e, k) : k \in 0 .. n - 1}
  PROVE  Distance(Ahead(e, n), s) \in 1 .. Half - 1
<1> DEFINE d == Distance(e, s)
<1>1. s \in SeqNumbers /\ d \in 0 .. Half - 1
  BY DEF Buffered
<1>2. Ahead(e, d) = s
  BY <1>1, DistanceType
<1>3. d \notin 0 .. n - 1
  BY <1>2
<1>4. d # n
  BY <1>2 DEF Run
<1>5. n < d /\ n \in 0 .. SeqSpace - 1
  BY <1>1, <1>3, <1>4, HalfAssumption DEF SeqSpace
<1>6. Distance(Ahead(e, n), s) = d - n
  BY <1>1, <1>5, DistanceShift
<1> QED
  BY <1>1, <1>5, <1>6, HalfAssumption

\* The state drainReady leaves: typed, inside the window, and waiting exactly when
\* something stays behind.
LEMMA DrainReadyCorrect ==
  ASSUME NEW e \in SeqNumbers, NEW buf, Buffered(buf),
         NEW first \in Seq(Packet), NEW n \in 0 .. Half,
         \A s \in DOMAIN buf : Distance(e, s) \in 0 .. Half - 1,
         DrainReady(e, buf, first, n)
  PROVE  /\ expected' \in SeqNumbers
         /\ Buffered(pending')
         /\ WindowOK'
         /\ waiting' \in BOOLEAN /\ (waiting' <=> HasPending')
         /\ age' = 0
         /\ ready' \in Seq(Packet)
<1>1. expected' = Ahead(e, n) /\ expected' \in SeqNumbers
  BY AheadType, HalfAssumption DEF DrainReady, SeqSpace
<1>2. /\ DOMAIN pending' = DOMAIN buf \ {Ahead(e, k) : k \in 0 .. n - 1}
      /\ \A s \in DOMAIN pending' : pending'[s] = buf[s]
  BY DEF DrainReady, Without
<1>3. Buffered(pending')
  BY <1>2 DEF Buffered
<1>4. ASSUME NEW s \in DOMAIN pending'
      PROVE  Distance(expected', s) \in 1 .. Half - 1
  BY <1>1, <1>2, <1>4, DrainWindow DEF DrainReady
<1>5. WindowOK'
  BY <1>4 DEF WindowOK, InWindow
<1>6. ready' \in Seq(Packet)
  <2> DEFINE rest == [k \in 1 .. n |-> buf[Ahead(e, k - 1)]]
  <2>1. ASSUME NEW k \in 1 .. n
        PROVE  buf[Ahead(e, k - 1)] \in Packet
    <3>1. k - 1 \in 0 .. n - 1
      BY HalfAssumption
    <3>2. Ahead(e, k - 1) \in DOMAIN buf
      BY <3>1 DEF DrainReady, Run
    <3> QED
      BY <3>2, PacketAssumption DEF Buffered
  <2>2. rest \in Seq(Packet)
    BY <2>1, HalfAssumption
  <2>3. ready' = first \o rest
    BY DEF DrainReady
  <2> QED
    BY <2>2, <2>3
<1>7. waiting' \in BOOLEAN /\ (waiting' <=> HasPending') /\ age' = 0
  BY DEF DrainReady, RestartWait, HasPending
<1> QED
  BY <1>1, <1>3, <1>5, <1>6, <1>7

-----------------------------------------------------------------------------
(***************************************************************************)
(* flushExpired.                                                           *)
(***************************************************************************)

\* Over a buffer inside the window the search for the first buffered packet
\* succeeds, so flushing releases something and never throws the buffer away.
LEMMA FlushCorrect ==
  ASSUME expected \in SeqNumbers, NEW buf, Buffered(buf), DOMAIN buf # {},
         \A s \in DOMAIN buf : InWindow(s),
         NEW gaps \in Nat, Flush(buf, gaps)
  PROVE  /\ expected' \in SeqNumbers
         /\ Buffered(pending')
         /\ WindowOK'
         /\ waiting' \in BOOLEAN /\ (waiting' <=> HasPending')
         /\ age' = 0
         /\ ready' \in Seq(Packet)
         /\ ready' # <<>>
         /\ stats' \in [gapEvents : Nat, reordered : Nat, missing : Nat, stale : Nat]
         /\ \E e \in SeqNumbers, n \in 0 .. Half : DrainReady(e, buf, <<>>, n)
         /\ \E skip \in 0 .. Half - 1, n \in 0 .. Half :
              stats' = Stats(gaps, 0, skip, 0) /\ DrainReady(Ahead(expected, skip), buf, <<>>, n)
<1>1. PICK skip \in 0 .. Half :
        /\ Gap(expected, buf, skip)
        /\ IF skip < Half
             THEN /\ \E n \in 0 .. Half : DrainReady(Ahead(expected, skip), buf, <<>>, n)
                  /\ stats' = Stats(gaps, 0, skip, 0)
             ELSE TRUE
  BY DEF Flush
<1>2. ASSUME NEW s \in DOMAIN buf
      PROVE  /\ Distance(expected, s) \in 1 .. Half - 1
             /\ Distance(expected, s) >= skip
  <2>1. s \in SeqNumbers /\ Distance(expected, s) \in 1 .. Half - 1
    BY DEF Buffered, InWindow
  <2>2. Ahead(expected, Distance(expected, s)) = s
    BY <2>1, DistanceType
  <2>3. Distance(expected, s) \notin 0 .. skip - 1
    BY <1>1, <2>2 DEF Gap
  <2> QED
    BY <2>1, <2>3, HalfAssumption
<1>3. skip < Half
  BY <1>2, HalfAssumption
<1> DEFINE e == Ahead(expected, skip)
<1>4. e \in SeqNumbers
  BY <1>3, AheadType, HalfAssumption DEF SeqSpace
<1>5. ASSUME NEW s \in DOMAIN buf
      PROVE  Distance(e, s) \in 0 .. Half - 1
  <2>1. s \in SeqNumbers /\ skip \in 0 .. SeqSpace - 1
    BY <1>3, HalfAssumption DEF Buffered, SeqSpace
  <2>2. Distance(e, s) = Distance(expected, s) - skip
    BY <1>2, <2>1, DistanceShift
  <2> QED
    BY <1>2, <2>2, HalfAssumption
<1>6. PICK n \in 0 .. Half : DrainReady(e, buf, <<>>, n)
  BY <1>1, <1>3
<1>7. <<>> \in Seq(Packet)
  OBVIOUS
<1>8. /\ expected' \in SeqNumbers
      /\ Buffered(pending')
      /\ WindowOK'
      /\ waiting' \in BOOLEAN /\ (waiting' <=> HasPending')
      /\ age' = 0
      /\ ready' \in Seq(Packet)
  <2> HIDE DEF e
  <2> QED
    BY <1>4, <1>5, <1>6, <1>7, DrainReadyCorrect
<1>9. stats' \in [gapEvents : Nat, reordered : Nat, missing : Nat, stale : Nat]
  BY <1>1, <1>3 DEF Stats
<1>10. ready' # <<>>
  <2>1. e \in DOMAIN buf
    BY <1>1, <1>3 DEF Gap
  <2>2. Ahead(e, 0) = e
    BY <1>4, HalfAssumption DEF Ahead, SeqNumbers, SeqSpace
  <2>3. n # 0
    BY <1>6, <2>1, <2>2 DEF DrainReady, Run
  <2>4. ready' = <<>> \o [k \in 1 .. n |-> buf[Ahead(e, k - 1)]]
    BY <1>6 DEF DrainReady
  <2>5. Len(ready') = n
    BY <2>4, HalfAssumption
  <2> QED
    BY <2>3, <2>5
<1>11. /\ \E e0 \in SeqNumbers, n0 \in 0 .. Half : DrainReady(e0, buf, <<>>, n0)
       /\ \E skip0 \in 0 .. Half - 1, n0 \in 0 .. Half :
            stats' = Stats(gaps, 0, skip0, 0) /\ DrainReady(Ahead(expected, skip0), buf, <<>>, n0)
  <2>1. skip \in 0 .. Half - 1 /\ stats' = Stats(gaps, 0, skip, 0)
    BY <1>1, <1>3, HalfAssumption
  <2> QED
    BY <1>4, <1>6, <2>1
<1> QED
  BY <1>8, <1>9, <1>10, <1>11

-----------------------------------------------------------------------------
(***************************************************************************)
(* The inductive invariant.  The window and the wait need the types and    *)
(* each other: a flush stays inside the space because the window is        *)
(* narrow, and it runs only while something is buffered.                   *)
(***************************************************************************)

IInv == TypeOK /\ WindowOK /\ WaitOK

LEMMA InitIInv == Init => IInv
<1> SUFFICES ASSUME Init PROVE IInv
  OBVIOUS
<1>1. initialized \in BOOLEAN /\ waiting \in BOOLEAN /\ reading \in BOOLEAN
  BY DEF Init
<1>2. expected \in SeqNumbers
  BY HalfAssumption DEF Init, SeqNumbers, SeqSpace
<1>3. DOMAIN pending = {}
  BY DEF Init, NoPackets
<1>4. age \in 0 .. Wait /\ idle \in 0 .. Wait + Poll
  BY TimeAssumption DEF Init
<1>5. ready \in Seq(Packet)
  BY DEF Init
<1>6. stats \in [gapEvents : Nat, reordered : Nat, missing : Nat, stale : Nat]
  BY DEF Init, NoStats, Stats
<1>7. WaitOK
  BY <1>3 DEF WaitOK, HasPending, Init
<1>8. TypeOK
  BY <1>1, <1>2, <1>3, <1>4, <1>5, <1>6 DEF TypeOK
<1>9. WindowOK
  BY <1>3 DEF WindowOK
<1> QED
  BY <1>7, <1>8, <1>9 DEF IInv

\* Receiving a packet keeps the invariant, whichever way it takes through push.
LEMMA ReceiveIInv ==
  ASSUME IInv, NEW p \in Packet, Receive(p)
  PROVE  IInv'
<1> USE DEF IInv, TypeOK, Receive
<1>1. p \in Audio => SeqByte[p] \in SeqNumbers
  BY PacketAssumption
<1>2. Buffered(pending)
  BY DEF Buffered
<1>3. <<p>> \in Seq(Packet) /\ <<>> \in Seq(Packet)
  OBVIOUS
<1>4. CASE PushOther(p)
  BY <1>3, <1>4 DEF PushOther, buffer, NoStats, Stats, WindowOK, InWindow, WaitOK, HasPending
<1>5. CASE PushFirst(p)
  <2>1. DOMAIN pending = {} /\ ~waiting
    BY <1>5 DEF PushFirst, WaitOK, HasPending
  <2>2. expected' \in SeqNumbers
    BY <1>1, <1>5, AheadType, HalfAssumption DEF PushFirst, SeqSpace
  <2> QED
    BY <1>3, <1>5, <2>1, <2>2
       DEF PushFirst, NoStats, Stats, WindowOK, InWindow, WaitOK, HasPending
<1>6. CASE PushInOrder(p)
  <2> DEFINE e == Ahead(expected, 1)
  <2>1. e \in SeqNumbers
    BY AheadType, HalfAssumption DEF SeqSpace
  <2>2. ASSUME NEW s \in DOMAIN pending
        PROVE  Distance(e, s) \in 0 .. Half - 1
    <3>1. s \in SeqNumbers /\ Distance(expected, s) \in 1 .. Half - 1
      BY DEF WindowOK, InWindow
    <3>2. Distance(e, s) = Distance(expected, s) - 1
      BY <3>1, DistanceShift, HalfAssumption DEF SeqSpace
    <3> QED
      BY <3>1, <3>2, HalfAssumption
  <2>3. PICK n \in 0 .. Half :
          DrainReady(e, pending, <<p>>, n) /\ stats' = Stats(0, n, 0, 0)
    BY <1>6 DEF PushInOrder
  <2>4. /\ expected' \in SeqNumbers
        /\ Buffered(pending')
        /\ WindowOK'
        /\ waiting' \in BOOLEAN /\ (waiting' <=> HasPending')
        /\ age' = 0
        /\ ready' \in Seq(Packet)
    <3> HIDE DEF e
    <3> QED
      BY <1>2, <1>3, <2>1, <2>2, <2>3, DrainReadyCorrect
  <2>5. stats' \in [gapEvents : Nat, reordered : Nat, missing : Nat, stale : Nat]
    BY <2>3, HalfAssumption DEF Stats
  <2>6. TypeOK'
    <3>1. /\ DOMAIN pending' \subseteq SeqNumbers
          /\ \A s \in DOMAIN pending' : pending'[s] \in Audio /\ SeqByte[pending'[s]] = s
      BY <2>4 DEF Buffered
    <3>2. age' \in 0 .. Wait /\ idle' \in 0 .. Wait + Poll
      BY <2>4, TimeAssumption
    <3>3. initialized' \in BOOLEAN /\ waiting' \in BOOLEAN /\ reading' \in BOOLEAN
      BY <1>6, <2>4 DEF PushInOrder
    <3> QED
      BY <2>4, <2>5, <3>1, <3>2, <3>3
  <2>7. WaitOK'
    BY <1>6, <2>4 DEF PushInOrder, WaitOK
  <2> QED
    BY <2>4, <2>6, <2>7
<1>7. CASE PushAhead(p)
  <2> DEFINE s0 == SeqByte[p]
             buf == [s \in DOMAIN pending \union {s0} |-> IF s = s0 THEN p ELSE pending[s]]
  <2>1. p \in Audio /\ initialized /\ InWindow(s0) /\ initialized' = initialized
    BY <1>7 DEF PushAhead
  <2>2. DOMAIN buf = DOMAIN pending \union {s0}
    OBVIOUS
  <2>3. Buffered(buf)
    BY <1>1, <2>1, <2>2 DEF Buffered
  <2>4. \A s \in DOMAIN buf : InWindow(s)
    BY <2>1, <2>2 DEF WindowOK
  <2>5. CASE waiting /\ age >= Wait
    <3>1. Flush(buf, 1)
      BY <1>7, <2>5 DEF PushAhead
    <3>2. /\ expected' \in SeqNumbers
          /\ Buffered(pending')
          /\ WindowOK'
          /\ waiting' \in BOOLEAN /\ (waiting' <=> HasPending')
          /\ age' = 0
          /\ ready' \in Seq(Packet)
          /\ stats' \in [gapEvents : Nat, reordered : Nat, missing : Nat, stale : Nat]
      <4>1. DOMAIN buf # {}
        BY <2>2
      <4> HIDE DEF buf
      <4> QED
        BY <2>3, <2>4, <3>1, <4>1, FlushCorrect
    <3>3. TypeOK'
      <4>1. /\ DOMAIN pending' \subseteq SeqNumbers
            /\ \A s \in DOMAIN pending' : pending'[s] \in Audio /\ SeqByte[pending'[s]] = s
        BY <3>2 DEF Buffered
      <4>2. age' \in 0 .. Wait /\ idle' \in 0 .. Wait + Poll
        BY <3>2, TimeAssumption
      <4>3. initialized' \in BOOLEAN /\ waiting' \in BOOLEAN /\ reading' \in BOOLEAN
        BY <2>1, <3>2
      <4> QED
        BY <3>2, <4>1, <4>2, <4>3
    <3>4. WaitOK'
      BY <2>1, <3>2 DEF WaitOK
    <3> QED
      BY <3>2, <3>3, <3>4
  <2>6. CASE ~(waiting /\ age >= Wait)
    <3>1. /\ pending' = buf
          /\ waiting' = TRUE
          /\ age' = IF waiting THEN age ELSE 0
          /\ ready' = <<>>
          /\ stats' = Stats(1, 0, 0, 0)
          /\ expected' = expected
      BY <1>7, <2>6 DEF PushAhead
    <3>2. Buffered(pending') /\ DOMAIN pending' # {}
      BY <2>2, <2>3, <3>1
    <3>3. WindowOK'
      BY <2>4, <3>1 DEF WindowOK, InWindow
    <3>4. TypeOK'
      <4>1. /\ DOMAIN pending' \subseteq SeqNumbers
            /\ \A s \in DOMAIN pending' : pending'[s] \in Audio /\ SeqByte[pending'[s]] = s
        BY <3>2 DEF Buffered
      <4>2. age' \in 0 .. Wait /\ idle' \in 0 .. Wait + Poll
        BY <3>1, TimeAssumption
      <4>3. initialized' \in BOOLEAN /\ waiting' \in BOOLEAN /\ reading' \in BOOLEAN
        BY <2>1, <3>1
      <4>4. stats' \in [gapEvents : Nat, reordered : Nat, missing : Nat, stale : Nat]
        BY <3>1 DEF Stats
      <4> QED
        BY <1>3, <3>1, <4>4, <4>1, <4>2, <4>3
    <3>5. WaitOK'
      BY <2>1, <3>1, <3>2 DEF WaitOK, HasPending
    <3> QED
      BY <3>3, <3>4, <3>5
  <2> QED
    BY <2>5, <2>6
<1>8. CASE PushStale(p)
  BY <1>3, <1>8 DEF PushStale, buffer, Stats, WindowOK, InWindow, WaitOK, HasPending
<1> QED
  BY <1>4, <1>5, <1>6, <1>7, <1>8 DEF Push

\* A read timeout keeps the invariant, whether or not it gives up a gap.
LEMMA TimeoutIInv ==
  ASSUME IInv, Timeout
  PROVE  IInv' /\ (HasPending => ready' # <<>>)
<1> USE DEF IInv, TypeOK
<1>1. CASE HasPending
  <2>1. waiting /\ age >= Wait
    BY <1>1, TimeAssumption DEF Timeout, Deadline, WaitOK
  <2>2. Flush(pending, 0) /\ UNCHANGED <<initialized, idle>> /\ reading' = FALSE
    BY <1>1, <2>1 DEF Timeout
  <2>3. Buffered(pending) /\ DOMAIN pending # {} /\ \A s \in DOMAIN pending : InWindow(s)
    BY <1>1 DEF Buffered, HasPending, WindowOK
  <2>4. /\ expected' \in SeqNumbers
        /\ Buffered(pending')
        /\ WindowOK'
        /\ waiting' \in BOOLEAN /\ (waiting' <=> HasPending')
        /\ age' = 0
        /\ ready' \in Seq(Packet)
        /\ ready' # <<>>
        /\ stats' \in [gapEvents : Nat, reordered : Nat, missing : Nat, stale : Nat]
    BY <2>2, <2>3, FlushCorrect
  <2>5. TypeOK'
    <3>1. /\ DOMAIN pending' \subseteq SeqNumbers
          /\ \A s \in DOMAIN pending' : pending'[s] \in Audio /\ SeqByte[pending'[s]] = s
      BY <2>4 DEF Buffered
    <3>2. age' \in 0 .. Wait /\ idle' \in 0 .. Wait + Poll
      BY <2>2, <2>4, TimeAssumption
    <3>3. initialized' \in BOOLEAN /\ waiting' \in BOOLEAN /\ reading' \in BOOLEAN
      BY <2>2, <2>4
    <3> QED
      BY <2>4, <3>1, <3>2, <3>3
  <2>6. WaitOK'
    BY <2>1, <2>2, <2>4 DEF WaitOK
  <2> QED
    BY <2>4, <2>5, <2>6
<1>2. CASE ~HasPending
  <2>1. /\ reading' = FALSE
        /\ ready' = <<>>
        /\ stats' = NoStats
        /\ UNCHANGED <<initialized, expected, pending, waiting, age, idle>>
    BY <1>2 DEF Timeout, buffer
  <2>2. TypeOK'
    <3>1. /\ ready' \in Seq(Packet)
          /\ stats' \in [gapEvents : Nat, reordered : Nat, missing : Nat, stale : Nat]
      BY <2>1 DEF NoStats, Stats
    <3> QED
      BY <2>1, <3>1
  <2>3. WindowOK' /\ WaitOK'
    BY <2>1 DEF WindowOK, InWindow, WaitOK, HasPending
  <2> QED
    BY <1>2, <2>2, <2>3
<1> QED
  BY <1>1, <1>2

LEMMA NextIInv == IInv /\ [Next]_vars => IInv'
<1> SUFFICES ASSUME IInv, [Next]_vars
             PROVE  IInv'
  OBVIOUS
<1>1. CASE Arm
  BY <1>1, TimeAssumption
     DEF Arm, IInv, TypeOK, buffer, NoStats, Stats, WindowOK, InWindow, WaitOK, HasPending
<1>2. ASSUME NEW p \in Packet, Receive(p)
      PROVE  IInv'
  BY <1>2, ReceiveIInv
<1>3. CASE Timeout
  BY <1>3, TimeoutIInv
<1>4. CASE Tick
  BY <1>4, TimeAssumption DEF Tick, IInv, TypeOK, WindowOK, InWindow, WaitOK, HasPending
<1>5. CASE UNCHANGED vars
  BY <1>5 DEF vars, IInv, TypeOK, WindowOK, InWindow, WaitOK, HasPending
<1>6. CASE NoPacket
  <2>1. /\ UNCHANGED <<initialized, expected, pending, waiting, age, idle>>
        /\ reading' = FALSE /\ ready' = <<>> /\ stats' = Stats(0, 0, 0, 0)
    BY <1>6 DEF NoPacket, buffer, NoStats
  <2>2. stats' \in [gapEvents : Nat, reordered : Nat, missing : Nat, stale : Nat]
    BY <2>1 DEF Stats
  <2>3. TypeOK'
    <3>1. TypeOK
      BY DEF IInv
    <3>2. <<>> \in Seq(Packet)
      OBVIOUS
    <3> QED
      BY <2>1, <2>2, <3>1, <3>2 DEF TypeOK
  <2>4. WindowOK' /\ WaitOK'
    BY <2>1 DEF IInv, WindowOK, InWindow, WaitOK, HasPending
  <2> QED
    BY <2>3, <2>4 DEF IInv
<1> QED
  BY <1>1, <1>2, <1>3, <1>4, <1>5, <1>6 DEF Next

LEMMA SpecIInv == Spec => []IInv
BY InitIInv, NextIInv, PTL DEF Spec

-----------------------------------------------------------------------------
(***************************************************************************)
(* Theorems.                                                               *)
(***************************************************************************)

\* The variables of the reorder buffer and its loop keep their types.
THEOREM TypeCorrect == Spec => []TypeOK
<1>1. IInv => TypeOK
  BY DEF IInv
<1> QED
  BY <1>1, SpecIInv, PTL

\* No packet is left behind the expected number in the map of buffered packets,
\* and none is buffered half the space or more ahead of it.
THEOREM WindowCorrect == Spec => []WindowOK
<1>1. IInv => WindowOK
  BY DEF IInv
<1> QED
  BY <1>1, SpecIInv, PTL

\* The wait runs exactly while a packet is buffered and is over when the read
\* deadline is.
THEOREM WaitCorrect == Spec => []WaitOK
<1>1. IInv => WaitOK
  BY DEF IInv
<1> QED
  BY <1>1, SpecIInv, PTL

\* A read timeout over a buffered packet always hands on at least one packet.
THEOREM TimeoutReleasesCorrect == Spec => TimeoutReleases
<1>1. IInv /\ [Next]_vars => [Timeout /\ HasPending => ready' # <<>>]_vars
  BY TimeoutIInv
<1> QED
  BY <1>1, SpecIInv, PTL DEF Spec, TimeoutReleases

-----------------------------------------------------------------------------
(***************************************************************************)
(* What is handed on carries consecutive numbers.                          *)
(***************************************************************************)

\* Two numbers counted from one origin are as far apart as their counts.
LEMMA DistanceSpan ==
  ASSUME NEW s \in SeqNumbers, NEW a \in Nat, NEW b \in Nat, a <= b, b < SeqSpace
  PROVE  Distance(Ahead(s, a), Ahead(s, b)) = b - a
BY HalfAssumption DEF Ahead, Distance, SeqNumbers, SeqSpace

\* drainReady hands on `first' and then n packets, the k-th of them n - k + 1
\* places before the number expected next.
LEMMA DrainSequence ==
  ASSUME NEW e \in SeqNumbers, NEW buf, Buffered(buf),
         NEW first \in Seq(Packet), NEW n \in 0 .. Half, DrainReady(e, buf, first, n)
  PROVE  /\ Len(ready') = Len(first) + n
         /\ \A k \in 1 .. Len(first) : ready'[k] = first[k]
         /\ \A k \in 1 .. n :
              Distance(SeqByte[ready'[Len(first) + k]], expected') = n - k + 1
<1> DEFINE rest == [k \in 1 .. n |-> buf[Ahead(e, k - 1)]]
<1>1. ready' = first \o rest /\ expected' = Ahead(e, n)
  BY DEF DrainReady
<1>2. ASSUME NEW k \in 1 .. n
      PROVE  Ahead(e, k - 1) \in DOMAIN buf /\ rest[k] = buf[Ahead(e, k - 1)]
  <2>1. k - 1 \in 0 .. n - 1
    BY HalfAssumption
  <2> QED
    BY <2>1 DEF DrainReady, Run
<1>3. rest \in Seq(Packet) /\ Len(rest) = n
  <2>1. \A k \in 1 .. n : buf[Ahead(e, k - 1)] \in Packet
    BY <1>2, PacketAssumption DEF Buffered
  <2> QED
    BY <2>1, HalfAssumption
<1> HIDE DEF rest
<1>4. /\ Len(first \o rest) = Len(first) + n
      /\ \A k \in 1 .. Len(first) : (first \o rest)[k] = first[k]
      /\ \A k \in 1 .. n : (first \o rest)[Len(first) + k] = rest[k]
  BY <1>3, HalfAssumption
<1>5. ASSUME NEW k \in 1 .. n
      PROVE  Distance(SeqByte[ready'[Len(first) + k]], expected') = n - k + 1
  <2>1. SeqByte[ready'[Len(first) + k]] = Ahead(e, k - 1)
    <3>1. ready'[Len(first) + k] = rest[k]
      BY <1>1, <1>4
    <3>2. SeqByte[buf[Ahead(e, k - 1)]] = Ahead(e, k - 1)
      BY <1>2 DEF Buffered
    <3> QED
      BY <1>2, <3>1, <3>2
  <2>2. Distance(Ahead(e, k - 1), Ahead(e, n)) = n - (k - 1)
    BY DistanceSpan, HalfAssumption DEF SeqSpace
  <2> QED
    BY <1>1, <2>1, <2>2, HalfAssumption
<1> QED
  BY <1>1, <1>4, <1>5

\* Flushing hands on nothing but a drained run.
LEMMA FlushSequence ==
  ASSUME NEW e \in SeqNumbers, NEW buf, Buffered(buf), NEW n \in 0 .. Half,
         DrainReady(e, buf, <<>>, n)
  PROVE  ReleasedInSequence'
<1>1. <<>> \in Seq(Packet) /\ Len(<<>>) = 0
  OBVIOUS
<1>2. Len(ready') = n
  <2>1. Len(ready') = Len(<<>>) + n
    BY <1>1, DrainSequence
  <2> QED
    BY <1>1, <2>1, HalfAssumption
<1>3. \A k \in 1 .. n : Distance(SeqByte[ready'[k]], expected') = n - k + 1
  <2>1. \A k \in 1 .. n : Distance(SeqByte[ready'[Len(<<>>) + k]], expected') = n - k + 1
    BY <1>1, DrainSequence
  <2> QED
    BY <1>1, <2>1, HalfAssumption
<1> QED
  BY <1>2, <1>3 DEF ReleasedInSequence

\* A packet in order is handed on just before the run it releases.
LEMMA InOrderSequence ==
  ASSUME IInv, NEW p \in Packet, PushInOrder(p)
  PROVE  ReleasedInSequence'
<1>1. PICK n \in 0 .. Half : DrainReady(Ahead(expected, 1), pending, <<p>>, n)
  BY DEF PushInOrder
<1>2. /\ Ahead(expected, 1) \in SeqNumbers /\ expected \in SeqNumbers
      /\ Buffered(pending) /\ <<p>> \in Seq(Packet) /\ Len(<<p>>) = 1
  BY AheadType, HalfAssumption DEF IInv, TypeOK, Buffered, SeqSpace
<1>3. /\ Len(ready') = 1 + n
      /\ ready'[1] = p
      /\ \A k \in 1 .. n : Distance(SeqByte[ready'[1 + k]], expected') = n - k + 1
  <2> DEFINE first == <<p>>
  <2>1. first \in Seq(Packet) /\ Len(first) = 1 /\ first[1] = p
    BY <1>2
  <2>2. DrainReady(Ahead(expected, 1), pending, first, n)
    BY <1>1
  <2> HIDE DEF first
  <2>3. /\ Len(ready') = Len(first) + n
        /\ \A k \in 1 .. Len(first) : ready'[k] = first[k]
        /\ \A k \in 1 .. n : Distance(SeqByte[ready'[Len(first) + k]], expected') = n - k + 1
    BY <1>2, <2>1, <2>2, DrainSequence
  <2> QED
    BY <2>1, <2>3
<1>4. Distance(SeqByte[p], expected') = n + 1
  <2>1. expected' = Ahead(Ahead(expected, 1), n) /\ SeqByte[p] = expected
    BY <1>1 DEF DrainReady, PushInOrder
  <2>2. expected' = Ahead(expected, 1 + n)
    BY <1>2, <2>1, AheadAhead, HalfAssumption DEF SeqSpace
  <2> QED
    BY <1>2, <2>1, <2>2, DistanceAhead, HalfAssumption DEF SeqSpace
<1>5. ASSUME NEW k \in 1 .. Len(ready')
      PROVE  Distance(SeqByte[ready'[k]], expected') = Len(ready') - k + 1
  <2>1. CASE k = 1
    BY <1>3, <1>4, <2>1, HalfAssumption
  <2>2. CASE k # 1
    <3>1. k - 1 \in 1 .. n /\ 1 + (k - 1) = k
      BY <1>3, <2>2, HalfAssumption
    <3>2. Distance(SeqByte[ready'[k]], expected') = n - (k - 1) + 1
      BY <1>3, <3>1
    <3> QED
      BY <1>3, <3>2, HalfAssumption
  <2> QED
    BY <2>1, <2>2
<1> QED
  BY <1>5 DEF ReleasedInSequence

LEMMA NextSequence == IInv /\ ReleasedInSequence /\ [Next]_vars => ReleasedInSequence'
<1> SUFFICES ASSUME IInv, ReleasedInSequence, [Next]_vars
             PROVE  ReleasedInSequence'
  OBVIOUS
<1>1. ASSUME NEW p \in Packet, Receive(p)
      PROVE  ReleasedInSequence'
  <2>1. CASE PushOther(p)
    BY <2>1 DEF PushOther, ReleasedInSequence
  <2>2. CASE PushFirst(p)
    <3>1. SeqByte[p] \in SeqNumbers /\ 1 \in 0 .. SeqSpace - 1
      BY <2>2, PacketAssumption, HalfAssumption DEF PushFirst, SeqSpace
    <3>2. Distance(SeqByte[p], expected') = 1
      BY <2>2, <3>1, DistanceAhead DEF PushFirst
    <3> QED
      BY <2>2, <3>2 DEF PushFirst, ReleasedInSequence
  <2>3. CASE PushInOrder(p)
    BY <2>3, InOrderSequence
  <2>4. CASE PushAhead(p)
    <3> DEFINE s0 == SeqByte[p]
               buf == [s \in DOMAIN pending \union {s0} |-> IF s = s0 THEN p ELSE pending[s]]
    <3>1. CASE waiting /\ age >= Wait
      <4>1. Flush(buf, 1)
        BY <2>4, <3>1 DEF PushAhead
      <4>2. Buffered(buf) /\ DOMAIN buf # {} /\ \A s \in DOMAIN buf : InWindow(s)
        BY <2>4, PacketAssumption DEF PushAhead, Buffered, IInv, TypeOK, WindowOK
      <4> HIDE DEF buf
      <4>3. PICK e \in SeqNumbers, n \in 0 .. Half : DrainReady(e, buf, <<>>, n)
        BY <4>1, <4>2, FlushCorrect DEF IInv, TypeOK
      <4> QED
        BY <4>2, <4>3, FlushSequence
    <3>2. CASE ~(waiting /\ age >= Wait)
      BY <2>4, <3>2 DEF PushAhead, ReleasedInSequence
    <3> QED
      BY <3>1, <3>2
  <2>5. CASE PushStale(p)
    BY <2>5 DEF PushStale, ReleasedInSequence
  <2> QED
    BY <1>1, <2>1, <2>2, <2>3, <2>4, <2>5 DEF Receive, Push
<1>2. CASE Arm \/ NoPacket
  BY <1>2 DEF Arm, NoPacket, ReleasedInSequence
<1>3. CASE Timeout
  <2>1. CASE HasPending
    <3>1. Flush(pending, 0)
      <4>1. waiting /\ age >= Wait
        BY <1>3, <2>1, TimeAssumption DEF Timeout, Deadline, IInv, TypeOK, WaitOK
      <4> QED
        BY <1>3, <2>1, <4>1 DEF Timeout
    <3>2. Buffered(pending) /\ DOMAIN pending # {} /\ \A s \in DOMAIN pending : InWindow(s)
      BY <2>1 DEF Buffered, HasPending, IInv, TypeOK, WindowOK
    <3>3. PICK e \in SeqNumbers, n \in 0 .. Half : DrainReady(e, pending, <<>>, n)
      BY <3>1, <3>2, FlushCorrect DEF IInv, TypeOK
    <3> QED
      BY <3>2, <3>3, FlushSequence
  <2>2. CASE ~HasPending
    BY <1>3, <2>2 DEF Timeout, ReleasedInSequence
  <2> QED
    BY <2>1, <2>2
<1>4. CASE Tick
  BY <1>4 DEF Tick, ReleasedInSequence
<1>5. CASE UNCHANGED vars
  BY <1>5 DEF vars, ReleasedInSequence
<1> QED
  BY <1>1, <1>2, <1>3, <1>4, <1>5 DEF Next

\* Whatever arrives, one call hands on consecutive sequence numbers ending just
\* before the number expected next.
THEOREM SequenceCorrect == Spec => []ReleasedInSequence
<1>1. Init => ReleasedInSequence
  BY DEF Init, ReleasedInSequence
<1> QED
  BY <1>1, NextSequence, SpecIInv, PTL DEF Spec

-----------------------------------------------------------------------------
(***************************************************************************)
(* Every packet is accounted for.                                          *)
(***************************************************************************)

\* The places of a run are as many as its packets: below half the space none repeats.
LEMMA RunCount ==
  ASSUME NEW e \in SeqNumbers, NEW n \in 0 .. Half
  PROVE  LET run == {Ahead(e, k) : k \in 0 .. n - 1}
         IN  IsFiniteSet(run) /\ Cardinality(run) = n
<1> DEFINE run == {Ahead(e, k) : k \in 0 .. n - 1}
           place == [k \in 0 .. n - 1 |-> Ahead(e, k)]
<1>1. IsFiniteSet(0 .. n - 1) /\ Cardinality(0 .. n - 1) = n
  <2>1. 0 \in Int /\ n - 1 \in Int /\ n \in Nat
    BY HalfAssumption
  <2>2. IsFiniteSet(0 .. n - 1) /\ Cardinality(0 .. n - 1) = IF 0 > n - 1 THEN 0 ELSE (n - 1) - 0 + 1
    BY <2>1, FS_Interval
  <2> QED
    BY <2>1, <2>2
<1>2. ASSUME NEW a \in 0 .. n - 1, NEW b \in 0 .. n - 1, Ahead(e, a) = Ahead(e, b)
      PROVE  a = b
  <2>1. a \in 0 .. SeqSpace - 1 /\ b \in 0 .. SeqSpace - 1
    BY HalfAssumption DEF SeqSpace
  <2> QED
    BY <1>2, <2>1, DistanceAhead
<1>3. place \in Bijection(0 .. n - 1, run)
  <2>1. place \in [0 .. n - 1 -> run]
    OBVIOUS
  <2>2. \A a, b \in 0 .. n - 1 : place[a] = place[b] => a = b
    BY <1>2
  <2>3. \A x \in run : \E k \in 0 .. n - 1 : place[k] = x
    OBVIOUS
  <2> HIDE DEF place, run
  <2> QED
    BY <2>1, <2>2, <2>3, Zenon DEF Bijection, Injection, Surjection, IsInjective
<1>4. ExistsBijection(0 .. n - 1, run)
  BY <1>3 DEF ExistsBijection
<1> QED
  BY <1>1, <1>4, FS_Bijection

\* A buffer is finite.
LEMMA BufferFinite ==
  ASSUME NEW buf, Buffered(buf)
  PROVE  IsFiniteSet(DOMAIN buf) /\ Cardinality(DOMAIN buf) \in Nat
<1>1. IsFiniteSet(SeqNumbers)
  BY FS_Interval, HalfAssumption DEF SeqNumbers, SeqSpace
<1>2. IsFiniteSet(DOMAIN buf)
  BY <1>1, FS_Subset DEF Buffered
<1> QED
  BY <1>2, FS_CardinalityType

\* drainReady hands on what it takes from the buffer.
LEMMA DrainCount ==
  ASSUME NEW e \in SeqNumbers, NEW buf, Buffered(buf),
         NEW first \in Seq(Packet), NEW n \in 0 .. Half, DrainReady(e, buf, first, n)
  PROVE  /\ Len(ready') = Len(first) + n
         /\ Cardinality(DOMAIN pending') = Cardinality(DOMAIN buf) - n
         /\ expected' = Ahead(e, n)
<1> DEFINE run == {Ahead(e, k) : k \in 0 .. n - 1}
<1>1. Cardinality(run) = n
  BY RunCount
<1>2. run \subseteq DOMAIN buf /\ DOMAIN pending' = DOMAIN buf \ run
  BY DEF DrainReady, Run, Without
<1> HIDE DEF run
<1>3. Cardinality(DOMAIN buf \ run) = Cardinality(DOMAIN buf) - Cardinality(DOMAIN buf \cap run)
  BY BufferFinite, FS_Difference
<1>4. DOMAIN buf \cap run = run
  BY <1>2
<1>5. Len(ready') = Len(first) + n
  BY DrainSequence
<1>6. expected' = Ahead(e, n)
  BY DEF DrainReady
<1> QED
  BY <1>1, <1>2, <1>3, <1>4, <1>5, <1>6

\* Flushing counts the numbers it skips as missing and drops nothing.
LEMMA FlushCount ==
  ASSUME expected \in SeqNumbers, NEW buf, Buffered(buf), DOMAIN buf # {},
         \A s \in DOMAIN buf : InWindow(s), NEW gaps \in Nat, Flush(buf, gaps)
  PROVE  /\ Cardinality(DOMAIN buf) = Len(ready') + Cardinality(DOMAIN pending') + stats'.stale
         /\ expected' = Ahead(expected, Len(ready') + stats'.missing)
<1>1. PICK skip \in 0 .. Half - 1, n \in 0 .. Half :
        stats' = Stats(gaps, 0, skip, 0) /\ DrainReady(Ahead(expected, skip), buf, <<>>, n)
  BY FlushCorrect
<1>2. PICK e \in SeqNumbers : e = Ahead(expected, skip)
  <2>1. skip \in 0 .. SeqSpace
    BY HalfAssumption DEF SeqSpace
  <2> QED
    BY <2>1, AheadType
<1>3. PICK none \in Seq(Packet) : none = <<>> /\ Len(none) = 0
  <2>1. <<>> \in Seq(Packet) /\ Len(<<>>) = 0
    OBVIOUS
  <2> QED
    BY <2>1
<1>4. DrainReady(e, buf, none, n)
  BY <1>1, <1>2, <1>3
<1>5. /\ Len(ready') = Len(none) + n
      /\ Cardinality(DOMAIN pending') = Cardinality(DOMAIN buf) - n
      /\ expected' = Ahead(e, n)
  BY <1>4, DrainCount
<1>6. Len(ready') = n /\ n \in Nat /\ skip \in Nat /\ skip + n < SeqSpace /\ skip + n = n + skip
  BY <1>3, <1>5, HalfAssumption DEF SeqSpace
<1>7. expected' = Ahead(expected, skip + n)
  BY <1>2, <1>5, <1>6, AheadAhead
<1>8. stats'.stale = 0 /\ stats'.missing = skip
  BY <1>1 DEF Stats
<1> QED
  BY <1>5, <1>6, <1>7, <1>8, BufferFinite

\* An audio packet that arrives is handed on, buffered or counted as stale, and the
\* expected number moves by what is handed on and what is counted as missing.
LEMMA ReceiveCount ==
  ASSUME IInv, NEW p \in Audio, Receive(p)
  PROVE  /\ Arrived(1)
         /\ initialized => expected' = Ahead(expected, Len(ready') + stats'.missing)
<1>1. /\ Buffered(pending) /\ expected \in SeqNumbers /\ SeqByte[p] \in SeqNumbers /\ p \in Packet
      /\ \A s \in DOMAIN pending : InWindow(s)
  BY PacketAssumption DEF IInv, TypeOK, WindowOK, Buffered
<1>2. PICK c \in Nat : c = Cardinality(DOMAIN pending) /\ IsFiniteSet(DOMAIN pending)
  BY <1>1, BufferFinite
<1>3. Ahead(expected, 0) = expected
  BY <1>1, HalfAssumption DEF Ahead, SeqNumbers, SeqSpace
<1>4. PICK one \in Seq(Packet) : one = <<p>> /\ Len(one) = 1
  <2>1. <<p>> \in Seq(Packet) /\ Len(<<p>>) = 1
    BY <1>1
  <2> QED
    BY <2>1
<1>5. CASE PushFirst(p)
  BY <1>2, <1>5 DEF PushFirst, Arrived, NoStats, Stats
<1>6. CASE PushInOrder(p)
  <2>1. PICK n \in 0 .. Half :
          DrainReady(Ahead(expected, 1), pending, <<p>>, n) /\ stats' = Stats(0, n, 0, 0)
    BY <1>6 DEF PushInOrder
  <2>2. PICK e \in SeqNumbers : e = Ahead(expected, 1)
    <3>1. 1 \in 0 .. SeqSpace
      BY HalfAssumption DEF SeqSpace
    <3> QED
      BY <1>1, <3>1, AheadType
  <2>3. DrainReady(e, pending, one, n)
    BY <1>4, <2>1, <2>2
  <2>4. Len(ready') = Len(one) + n /\ Cardinality(DOMAIN pending') = c - n /\ expected' = Ahead(e, n)
    BY <1>1, <1>2, <2>3, DrainCount
  <2>5. 1 \in Nat /\ n \in Nat /\ 1 + n < SeqSpace
    BY HalfAssumption DEF SeqSpace
  <2>6. expected' = Ahead(expected, 1 + n)
    BY <1>1, <2>2, <2>4, <2>5, AheadAhead
  <2>7. stats'.stale = 0 /\ stats'.missing = 0
    BY <2>1 DEF Stats
  <2>8. Len(ready') = 1 + n /\ Len(ready') + stats'.missing = 1 + n
    BY <1>4, <2>4, <2>5, <2>7
  <2>9. Arrived(1)
    BY <1>2, <2>4, <2>5, <2>7, <2>8 DEF Arrived
  <2> QED
    BY <2>6, <2>8, <2>9
<1>7. CASE PushAhead(p)
  <2> DEFINE buf == [s \in DOMAIN pending \union {SeqByte[p]} |-> IF s = SeqByte[p] THEN p ELSE pending[s]]
  <2>1. /\ DOMAIN buf = DOMAIN pending \union {SeqByte[p]} /\ SeqByte[p] \notin DOMAIN pending
        /\ Buffered(buf) /\ DOMAIN buf # {} /\ \A s \in DOMAIN buf : InWindow(s)
    BY <1>1, <1>7 DEF PushAhead, AlreadyPending, Buffered
  <2>2. \/ Flush(buf, 1)
        \/ pending' = buf /\ ready' = <<>> /\ stats' = Stats(1, 0, 0, 0) /\ expected' = expected
    BY <1>7 DEF PushAhead
  <2> HIDE DEF buf
  <2>3. Cardinality(DOMAIN buf) = c + 1
    BY <1>2, <2>1, FS_AddElement
  <2>4. CASE Flush(buf, 1)
    <3>1. /\ Cardinality(DOMAIN buf) = Len(ready') + Cardinality(DOMAIN pending') + stats'.stale
          /\ expected' = Ahead(expected, Len(ready') + stats'.missing)
      BY <1>1, <2>1, <2>4, FlushCount
    <3> QED
      BY <1>2, <2>3, <3>1 DEF Arrived
  <2>5. CASE pending' = buf /\ ready' = <<>> /\ stats' = Stats(1, 0, 0, 0) /\ expected' = expected
    <3>1. Len(ready') = 0 /\ stats'.stale = 0 /\ stats'.missing = 0 /\ Cardinality(DOMAIN pending') = c + 1
      BY <2>3, <2>5 DEF Stats
    <3> QED
      BY <1>2, <1>3, <2>5, <3>1 DEF Arrived
  <2> QED
    BY <2>2, <2>4, <2>5
<1>8. CASE PushStale(p)
  <2>1. Len(ready') = 0 /\ stats'.stale = 1 /\ stats'.missing = 0 /\ UNCHANGED <<pending, expected>>
    BY <1>8 DEF PushStale, Stats, buffer
  <2> QED
    BY <1>2, <1>3, <2>1 DEF Arrived
<1> QED
  BY <1>5, <1>6, <1>7, <1>8 DEF Receive, Push, PushOther

\* So does a timeout, at which nothing arrives.
LEMMA TimeoutCount ==
  ASSUME IInv, Timeout
  PROVE  /\ Arrived(0)
         /\ expected' = Ahead(expected, Len(ready') + stats'.missing)
<1>1. /\ Buffered(pending) /\ expected \in SeqNumbers
      /\ \A s \in DOMAIN pending : InWindow(s)
  BY DEF IInv, TypeOK, WindowOK, Buffered
<1>2. PICK c \in Nat : c = Cardinality(DOMAIN pending)
  BY <1>1, BufferFinite
<1>3. CASE HasPending /\ waiting /\ age >= Wait
  <2>1. Flush(pending, 0) /\ DOMAIN pending # {} /\ 0 \in Nat
    BY <1>3 DEF Timeout, HasPending
  <2>2. /\ Cardinality(DOMAIN pending) = Len(ready') + Cardinality(DOMAIN pending') + stats'.stale
        /\ expected' = Ahead(expected, Len(ready') + stats'.missing)
    BY <1>1, <2>1, FlushCount
  <2> QED
    BY <1>2, <2>2 DEF Arrived
<1>4. CASE ~(HasPending /\ waiting /\ age >= Wait)
  <2>1. Len(ready') = 0 /\ stats'.stale = 0 /\ stats'.missing = 0 /\ UNCHANGED <<pending, expected>>
    BY <1>4 DEF Timeout, NoStats, Stats, buffer
  <2>2. Ahead(expected, 0) = expected
    BY <1>1, HalfAssumption DEF Ahead, SeqNumbers, SeqSpace
  <2> QED
    BY <1>2, <2>1, <2>2 DEF Arrived
<1> QED
  BY <1>3, <1>4

\* No packet is lost or duplicated without being counted, in the buffer or on a flush
\* (the rxReorderStats that push and flushExpired return).
THEOREM AccountingCorrect == Spec => Accounting
<1>1. ASSUME IInv, [Next]_vars
      PROVE  [ /\ \A p \in Audio :
                    Receive(p) =>
                      /\ Arrived(1)
                      /\ initialized =>
                           expected' = Ahead(expected, Len(ready') + stats'.missing)
               /\ Timeout =>
                    /\ Arrived(0)
                    /\ expected' = Ahead(expected, Len(ready') + stats'.missing) ]_vars
  BY <1>1, ReceiveCount, TimeoutCount
<1> QED
  BY <1>1, SpecIInv, PTL DEF Spec, Accounting

-----------------------------------------------------------------------------
(***************************************************************************)
(* Indices and sequence numbers.                                           *)
(***************************************************************************)

LEMMA Constants ==
  ASSUME StreamAssumption
  PROVE  /\ Half \in Nat /\ Half > 1 /\ SeqSpace = 2 * Half /\ SeqSpace \in Nat \ {0}
         /\ LastIndex \in Nat /\ MaxCopies \in Nat
         /\ Packet = 0 .. LastIndex /\ Audio = Packet
         /\ \A i \in Packet : SeqByte[i] = i % SeqSpace
BY HalfAssumption DEF StreamAssumption, SeqSpace

\* Division with remainder, and that its quotient is unique.
LEMMA Division ==
  ASSUME NEW N \in Nat \ {0}, NEW a \in Nat
  PROVE  \E q \in Int, r \in 0 .. N - 1 : r = a % N /\ a = N * q + r
<1>1. a = N * (a \div N) + (a % N) /\ a \div N \in Int /\ a % N \in 0 .. N - 1
  OBVIOUS
<1> QED
  BY <1>1

LEMMA OneQuotient ==
  ASSUME NEW N \in Nat \ {0}, NEW q \in Int, NEW p \in Int,
         NEW r \in 0 .. N - 1, NEW s \in 0 .. N - 1, N * q + r = N * p + s
  PROVE  q = p /\ r = s
<1>1. q = p
  OBVIOUS
<1> QED
  BY ONLY q \in Int, p \in Int, r \in Int, s \in Int, N \in Int, N * q + r = N * p + s, <1>1

\* Counting forward from the number of a packet gives those of the packets after it.
LEMMA NumberAhead ==
  ASSUME StreamAssumption, NEW a \in Nat, NEW d \in 0 .. SeqSpace
  PROVE  /\ a % SeqSpace \in SeqNumbers
         /\ (a + d) % SeqSpace = Ahead(a % SeqSpace, d)
<1>1. PICK N \in Nat \ {0} : N = SeqSpace
  BY Constants
<1>2. PICK q \in Int, r \in 0 .. N - 1 : r = a % N /\ a = N * q + r
  BY Division
<1>3. a + d \in Nat /\ d \in 0 .. N
  BY <1>1
<1>4. PICK p \in Int, s \in 0 .. N - 1 : s = (a + d) % N /\ a + d = N * p + s
  BY <1>3, Division
<1>5. CASE r + d < N
  <2>1. r + d \in 0 .. N - 1 /\ N * q + (r + d) = N * p + s
    BY <1>2, <1>3, <1>4, <1>5
  <2>2. r + d = s
    BY <2>1, OneQuotient
  <2> QED
    BY <1>1, <1>2, <1>4, <1>5, <2>2 DEF Ahead, SeqNumbers
<1>6. CASE ~(r + d < N)
  <2>1. PICK t \in 0 .. N - 1, u \in Int : t = r + d - N /\ u = q + 1
    BY <1>3, <1>6
  <2>2. N * u + t = N * p + s
    BY <1>2, <1>3, <1>4, <2>1
  <2>3. t = s
    BY <2>2, OneQuotient
  <2> QED
    BY <1>1, <1>2, <1>4, <1>6, <2>1, <2>3 DEF Ahead, SeqNumbers
<1> QED
  BY <1>5, <1>6

\* The code compares bytes; within half the space it compares packets.
LEMMA NumbersApart ==
  ASSUME StreamAssumption, NEW e \in Nat, NEW i \in Nat, i - e \in -Half .. Half - 1
  PROVE  Distance(e % SeqSpace, i % SeqSpace) = IF i >= e THEN i - e ELSE i - e + SeqSpace
<1>1. CASE i >= e
  <2>1. PICK d \in 0 .. Half - 1 : d = i - e /\ i = e + d
    BY <1>1, Constants
  <2>2. d \in 0 .. SeqSpace - 1 /\ d \in 0 .. SeqSpace
    BY Constants
  <2>3. i % SeqSpace = Ahead(e % SeqSpace, d) /\ e % SeqSpace \in SeqNumbers
    BY <2>1, <2>2, NumberAhead
  <2> QED
    BY <1>1, <2>1, <2>2, <2>3, DistanceAhead
<1>2. CASE ~(i >= e)
  <2>1. PICK d \in 1 .. Half : d = e - i /\ e = i + d
    BY <1>2, Constants
  <2>2. d \in 1 .. SeqSpace - 1 /\ d \in 0 .. SeqSpace
    BY Constants
  <2>3. e % SeqSpace = Ahead(i % SeqSpace, d) /\ i % SeqSpace \in SeqNumbers
    BY <2>1, <2>2, NumberAhead
  <2>4. \A s \in SeqNumbers : Distance(Ahead(s, d), s) = SeqSpace - d
    BY <2>2, Constants DEF Distance, Ahead, SeqNumbers
  <2> QED
    BY <1>2, <2>1, <2>3, <2>4, Constants
<1> QED
  BY <1>1, <1>2

-----------------------------------------------------------------------------
(***************************************************************************)
(* What drainReady and flushExpired hand on, in terms of packets.          *)
(***************************************************************************)

\* The packets of buf lie at least lo and fewer than Half places from packet e, each under
\* its number, and among those sent.
Near(buf, e, lo) ==
  \A s \in DOMAIN buf :
    /\ buf[s] \in Packet /\ s = buf[s] % SeqSpace
    /\ buf[s] - e \in lo .. Half - 1
    /\ buf[s] < sent

\* A step hands on m packets in a row, from f on.
HandsOn(f, m) ==
  /\ ready' \in Seq(Packet) /\ Len(ready') = m
  /\ \A k \in 1 .. m : ready'[k] = f + k - 1

\* A step leaves packets of buf in their slots, those that lie ahead of packet e.
Keeps(buf, e) ==
  /\ DOMAIN pending' \subseteq DOMAIN buf
  /\ \A s \in DOMAIN pending' : pending'[s] = buf[s] /\ pending'[s] - e \in 1 .. Half - 1

\* A slot holds no other packet than the one the receiver takes it for.
LEMMA Slots ==
  ASSUME StreamAssumption, NEW e \in Nat, NEW buf, Near(buf, e, 0)
  PROVE  /\ \A s \in DOMAIN buf :
              buf[s] - e \in 0 .. Half - 1 /\ s = Ahead(e % SeqSpace, buf[s] - e) /\ s \in SeqNumbers
         /\ \A d \in 0 .. Half :
              Ahead(e % SeqSpace, d) \in DOMAIN buf => buf[Ahead(e % SeqSpace, d)] = e + d
<1>1. ASSUME NEW s \in DOMAIN buf
      PROVE  /\ buf[s] \in Nat /\ buf[s] - e \in 0 .. Half - 1 /\ s \in SeqNumbers
             /\ s = Ahead(e % SeqSpace, buf[s] - e)
  <2>1. buf[s] \in Nat /\ buf[s] - e \in 0 .. Half - 1 /\ s = buf[s] % SeqSpace
    BY Constants DEF Near
  <2>2. PICK d \in 0 .. SeqSpace : d = buf[s] - e /\ e + d = buf[s]
    BY <2>1, Constants
  <2> QED
    BY <2>1, <2>2, NumberAhead
<1>2. ASSUME NEW d \in 0 .. Half, Ahead(e % SeqSpace, d) \in DOMAIN buf
      PROVE  buf[Ahead(e % SeqSpace, d)] = e + d
  <2>1. PICK c \in 0 .. Half - 1, s \in DOMAIN buf :
          s = Ahead(e % SeqSpace, d) /\ c = buf[s] - e /\ s = Ahead(e % SeqSpace, c) /\ buf[s] \in Nat
    BY <1>1, <1>2
  <2>2. 0 \in 0 .. SeqSpace /\ c \in 0 .. SeqSpace - 1 /\ d \in 0 .. SeqSpace - 1
    BY Constants
  <2>3. e % SeqSpace \in SeqNumbers
    BY <2>2, NumberAhead
  <2>4. c = d
    BY <2>1, <2>2, <2>3, DistanceAhead
  <2> QED
    BY <2>1, <2>4
<1> QED
  BY <1>1, <1>2

\* drainReady hands on `first' and the n packets from e on; what stays lies ahead of them.
LEMMA DrainStream ==
  ASSUME StreamAssumption, sent \in Nat, NEW e \in Nat, NEW buf, Near(buf, e, 0), NEW n \in 0 .. Half,
         NEW first \in Seq(Packet), DrainReady(e % SeqSpace, buf, first, n)
  PROVE  /\ expected' = (e + n) % SeqSpace
         /\ Keeps(buf, e + n)
         /\ ready' \in Seq(Packet) /\ Len(ready') = Len(first) + n
         /\ \A k \in 1 .. Len(first) : ready'[k] = first[k]
         /\ \A k \in 1 .. n : ready'[Len(first) + k] = e + k - 1 /\ e + k <= sent
<1>1. /\ Run(e % SeqSpace, buf, n) /\ expected' = Ahead(e % SeqSpace, n)
      /\ pending' = Without(buf, {Ahead(e % SeqSpace, k) : k \in 0 .. n - 1})
      /\ ready' = first \o [k \in 1 .. n |-> buf[Ahead(e % SeqSpace, k - 1)]]
  BY DEF DrainReady
<1>2. expected' = (e + n) % SeqSpace
  <2>1. n \in 0 .. SeqSpace
    BY Constants
  <2> QED
    BY <1>1, <2>1, NumberAhead
<1>3. ASSUME NEW k \in 0 .. n - 1
      PROVE  LET s == Ahead(e % SeqSpace, k) IN s \in DOMAIN buf /\ buf[s] = e + k /\ e + k + 1 <= sent
  <2>1. Ahead(e % SeqSpace, k) \in DOMAIN buf
    BY <1>1 DEF Run
  <2>2. k \in 0 .. Half
    BY Constants
  <2>3. buf[Ahead(e % SeqSpace, k)] = e + k
    BY <2>1, <2>2, Slots
  <2>4. e + k < sent
    BY <2>1, <2>3 DEF Near
  <2> QED
    BY <2>1, <2>3, <2>4
<1> DEFINE rest == [k \in 1 .. n |-> buf[Ahead(e % SeqSpace, k - 1)]]
<1>4. ASSUME NEW k \in 1 .. n
      PROVE  rest[k] = e + k - 1 /\ rest[k] \in Packet /\ e + k <= sent
  <2>1. PICK j \in 0 .. n - 1 : j = k - 1
    BY Constants
  <2>2. Ahead(e % SeqSpace, j) \in DOMAIN buf /\ buf[Ahead(e % SeqSpace, j)] = e + j /\ e + j + 1 <= sent
    BY <1>3
  <2>3. rest[k] = buf[Ahead(e % SeqSpace, j)]
    BY <2>1
  <2> QED
    BY <2>1, <2>2, <2>3 DEF Near
<1>5. rest \in Seq(Packet) /\ Len(rest) = n
  BY <1>4, Constants
<1>6. ready' = first \o rest
  BY <1>1
<1> HIDE DEF rest
<1>7. /\ first \o rest \in Seq(Packet) /\ Len(first \o rest) = Len(first) + n
      /\ \A k \in 1 .. Len(first) : (first \o rest)[k] = first[k]
      /\ \A k \in 1 .. n : (first \o rest)[Len(first) + k] = rest[k]
  BY <1>5, HalfAssumption
<1>8. ASSUME NEW s \in DOMAIN pending'
      PROVE  s \in DOMAIN buf /\ pending'[s] = buf[s] /\ pending'[s] - (e + n) \in 1 .. Half - 1
  <2>1. /\ s \in DOMAIN buf /\ pending'[s] = buf[s]
        /\ s \notin {Ahead(e % SeqSpace, k) : k \in 0 .. n - 1}
    BY <1>1, <1>8 DEF Without
  <2>2. PICK d \in 0 .. Half - 1 : d = buf[s] - e /\ s = Ahead(e % SeqSpace, d)
    BY <2>1, Slots
  <2>3. d \notin 0 .. n - 1
    BY <2>1, <2>2
  <2>4. d # n
    BY <1>1, <2>1, <2>2 DEF Run
  <2>5. buf[s] \in Nat
    BY <2>1, Constants DEF Near
  <2>6. PICK b \in Nat : b = buf[s] /\ d = b - e
    BY <2>2, <2>5
  <2>7. b - (e + n) \in 1 .. Half - 1
    BY <2>3, <2>4, <2>6, HalfAssumption
  <2> QED
    BY <2>1, <2>6, <2>7
<1> QED
  BY <1>2, <1>4, <1>6, <1>7, <1>8 DEF Keeps

\* flushExpired skips the missing packets and hands on a run of at least one.
LEMMA FlushStream ==
  ASSUME StreamAssumption, NEW e \in Nat, expected = e % SeqSpace, NEW buf, Near(buf, e, 1), DOMAIN buf # {},
         NEW gaps \in Nat, Flush(buf, gaps), sent \in Nat
  PROVE  /\ stats'.stale = 0
         /\ \E f \in Nat, m \in Nat \ {0} :
              /\ f >= e /\ f + m <= sent
              /\ HandsOn(f, m)
              /\ expected' = (f + m) % SeqSpace
              /\ Keeps(buf, f + m)
<1>1. PICK skip \in 0 .. Half :
        /\ Gap(expected, buf, skip)
        /\ IF skip < Half
             THEN /\ \E n \in 0 .. Half : DrainReady(Ahead(expected, skip), buf, <<>>, n)
                  /\ stats' = Stats(gaps, 0, skip, 0)
             ELSE TRUE
  BY DEF Flush
<1>2. ASSUME NEW s \in DOMAIN buf
      PROVE  buf[s] - e \in 1 .. Half - 1 /\ buf[s] - e >= skip /\ buf[s] \in Nat
  <2>0. Near(buf, e, 0)
    <3>1. \A x \in 1 .. Half - 1 : x \in 0 .. Half - 1
      BY HalfAssumption
    <3> QED
      BY <3>1 DEF Near
  <2>1. PICK d \in 0 .. Half - 1 : d = buf[s] - e /\ s = Ahead(e % SeqSpace, d)
    BY <2>0, Slots
  <2>2. d \notin 0 .. skip - 1
    BY <1>1, <2>1 DEF Gap
  <2>3. buf[s] \in Packet /\ buf[s] - e \in 1 .. Half - 1
    BY DEF Near
  <2>4. PICK b \in Nat : b = buf[s]
    BY <2>3, Constants
  <2>5. d >= skip
    BY <2>2, HalfAssumption
  <2> QED
    BY <2>1, <2>3, <2>4, <2>5
<1>3. skip < Half
  BY <1>2, Constants
<1>4. PICK f \in Nat : f = e + skip /\ f >= e
  BY Constants
<1>5. Ahead(expected, skip) = f % SeqSpace
  <2>1. skip \in 0 .. SeqSpace
    BY Constants
  <2> QED
    BY <1>4, <2>1, NumberAhead
<1>6. Near(buf, f, 0)
  <2>1. ASSUME NEW s \in DOMAIN buf PROVE buf[s] - f \in 0 .. Half - 1
    <3>1. PICK b \in Nat : b = buf[s] /\ b - e \in 1 .. Half - 1 /\ b - e >= skip
      BY <1>2
    <3>2. b - f \in 0 .. Half - 1
      BY <1>4, <3>1, HalfAssumption
    <3> QED
      BY <3>1, <3>2
  <2> QED
    BY <2>1 DEF Near
<1>7. PICK m \in 0 .. Half : DrainReady(f % SeqSpace, buf, <<>>, m)
  BY <1>1, <1>3, <1>5
<1>8. m \in Nat \ {0}
  <2>0. 0 \in 0 .. SeqSpace
    BY Constants
  <2>1. f % SeqSpace \in SeqNumbers
    BY <2>0, NumberAhead
  <2>2. Ahead(f % SeqSpace, 0) = f % SeqSpace
    BY <2>1, Constants DEF Ahead, SeqNumbers
  <2>3. f % SeqSpace \in DOMAIN buf
    BY <1>1, <1>3, <1>5 DEF Gap
  <2>4. m # 0
    BY <1>7, <2>2, <2>3 DEF DrainReady, Run
  <2> QED
    BY <2>4, Constants
<1>9. PICK none \in Seq(Packet) : none = <<>> /\ Len(none) = 0
  <2>1. <<>> \in Seq(Packet) /\ Len(<<>>) = 0
    OBVIOUS
  <2> QED
    BY <2>1
<1>10. DrainReady(f % SeqSpace, buf, none, m)
  BY <1>7, <1>9
<1>11. /\ expected' = (f + m) % SeqSpace
       /\ Keeps(buf, f + m)
       /\ ready' \in Seq(Packet) /\ Len(ready') = Len(none) + m
       /\ \A k \in 1 .. m : ready'[Len(none) + k] = f + k - 1 /\ f + k <= sent
  BY <1>6, <1>10, DrainStream
<1>12. HandsOn(f, m) /\ f + m <= sent
  <2>1. Len(ready') = m /\ m \in 1 .. m /\ \A k \in 1 .. m : Len(none) + k = k
    BY <1>8, <1>9, <1>11
  <2> QED
    BY <1>11, <2>1 DEF HandsOn
<1>13. stats'.stale = 0
  BY <1>1, <1>3 DEF Stats
<1> QED
  BY <1>4, <1>8, <1>11, <1>12, <1>13
-----------------------------------------------------------------------------
(***************************************************************************)
(* The inductive invariant.  The byte the receiver expects stands for the  *)
(* packet after the newest it handed on, because whatever the network      *)
(* still holds lies within half the space of it, on either side: at most   *)
(* half behind (InNet) and less than half ahead (NotFarAhead).             *)
(***************************************************************************)

StreamTypeOK ==
  /\ sent \in Nat
  /\ net \in [Packet -> Nat]
  /\ copies \in 0 .. MaxCopies
  /\ delivered \in Seq(Packet)

\* What is handed on has been sent, and goes up.
Ascends(d) ==
  \A k \in 1 .. Len(d) : d[k] < sent /\ \A j \in 1 .. k - 1 : d[j] < d[k]

InNet == \A j \in Packet : net[j] > 0 => j < sent /\ sent - 1 - j < Half
NotFarAhead == sent - 1 - ExpectedIndex < Half

InLap ==
  /\ expected = ExpectedIndex % SeqSpace
  /\ Near(pending, ExpectedIndex, 1)
  /\ NotFarAhead

StreamIInv ==
  /\ IInv /\ StreamTypeOK
  /\ initialized <=> delivered # <<>>
  /\ Ascends(delivered)
  /\ InNet
  /\ initialized => InLap

\* The next index to be handed on.
LEMMA ExpectedType ==
  ASSUME StreamAssumption, StreamTypeOK, Ascends(delivered), delivered # <<>>
  PROVE  /\ ExpectedIndex \in Nat /\ ExpectedIndex <= sent
         /\ Len(delivered) >= 1 /\ delivered[Len(delivered)] = ExpectedIndex - 1
<1>1. PICK n \in Nat : n = Len(delivered) /\ n >= 1
  <2>1. Len(delivered) \in Nat /\ Len(delivered) # 0
    BY EmptySeq DEF StreamTypeOK
  <2> QED
    BY <2>1
<1>2. PICK x \in Nat : x = delivered[n] /\ x < sent
  <2>1. delivered[n] \in Packet /\ delivered[n] < sent
    BY <1>1 DEF StreamTypeOK, Ascends
  <2> QED
    BY <2>1, Constants
<1>3. sent \in Nat /\ ExpectedIndex = x + 1
  BY <1>1, <1>2 DEF ExpectedIndex, StreamTypeOK
<1> QED
  BY <1>1, <1>2, <1>3

LEMMA PrefixOfConcat ==
  ASSUME NEW S, NEW s \in Seq(S), NEW t \in Seq(S)
  PROVE  SubSeq(s \o t, 1, Len(s)) = s
<1>1. CASE Len(s) = 0
  BY <1>1, SubSeqEmpty, EmptySeq, ConcatProperties
<1>2. CASE Len(s) # 0
  <2>1. 1 \in 1 .. Len(s) /\ Len(s) \in 1 .. Len(s)
    BY <1>2
  <2>2. SubSeq(s \o t, 1, Len(s)) = SubSeq(s, 1, Len(s))
    BY <2>1, SubSeqOfConcat1
  <2> QED
    BY <2>2, SubSeqFull
<1> QED
  BY <1>1, <1>2

\* The receiver appends packets newer than all before.
LEMMA Growth ==
  ASSUME StreamAssumption, StreamTypeOK, Ascends(delivered), sent' = sent,
         NEW f \in Nat, NEW m \in Nat \ {0}, HandsOn(f, m), f + m <= sent,
         delivered # <<>> => f >= ExpectedIndex,
         delivered' = delivered \o ready'
  PROVE  /\ delivered' \in Seq(Packet) /\ delivered' # <<>>
         /\ Ascends(delivered)'
         /\ ExpectedIndex' = f + m
         /\ Ordered!Deliver
<1>1. PICK n \in Nat, d \in Seq(Packet), r \in Seq(Packet) :
        n = Len(delivered) /\ d = delivered /\ r = ready' /\ Len(r) = m
  BY DEF StreamTypeOK, HandsOn
<1>2. /\ d \o r \in Seq(Packet) /\ Len(d \o r) = n + m
      /\ \A k \in 1 .. n + m : (d \o r)[k] = IF k <= n THEN d[k] ELSE r[k - n]
  <2>1. /\ d \o r \in Seq(Packet) /\ Len(d \o r) = Len(d) + Len(r)
        /\ \A k \in 1 .. Len(d) + Len(r) :
             (d \o r)[k] = IF k <= Len(d) THEN d[k] ELSE r[k - Len(d)]
    BY ConcatProperties
  <2>2. Len(d) = n /\ Len(r) = m
    BY <1>1
  <2> QED
    BY <2>1, <2>2
<1>3. PICK t \in Seq(Packet) : t = delivered'
  BY <1>1, <1>2
<1>4. /\ Len(t) = n + m
      /\ \A k \in 1 .. n :
           t[k] = d[k] /\ d[k] \in Nat /\ d[k] < f /\ d[k] < sent /\ \A j \in 1 .. k - 1 : d[j] < d[k]
      /\ \A k \in n + 1 .. n + m : t[k] = f + (k - n) - 1
  <2>1. Len(t) = n + m
    BY <1>1, <1>2, <1>3
  <2>2. ASSUME NEW k \in 1 .. n
        PROVE  t[k] = d[k] /\ d[k] \in Nat /\ d[k] < sent /\ \A j \in 1 .. k - 1 : d[j] < d[k]
    <3>1. k \in 1 .. n + m /\ k <= n
      OBVIOUS
    <3>2. t[k] = d[k]
      BY <1>1, <1>2, <1>3, <3>1
    <3>3. d[k] \in Nat
      <4>1. d[k] \in Packet
        BY <1>1, ElementOfSeq
      <4> QED
        BY <4>1, Constants
    <3>4. d[k] < sent /\ \A j \in 1 .. k - 1 : d[j] < d[k]
      BY <1>1 DEF Ascends
    <3> QED
      BY <3>2, <3>3, <3>4
  <2>3. ASSUME NEW k \in 1 .. n PROVE d[k] < f
    <3>1. delivered # <<>>
      BY <1>1, EmptySeq
    <3>2. d[n] = ExpectedIndex - 1 /\ ExpectedIndex \in Nat /\ f >= ExpectedIndex
      BY <1>1, <3>1, ExpectedType
    <3>3. k = n \/ (k \in 1 .. n - 1 /\ d[k] < d[n])
      BY <2>2
    <3> QED
      BY <2>2, <3>2, <3>3
  <2>4. ASSUME NEW k \in n + 1 .. n + m PROVE t[k] = f + (k - n) - 1
    <3>1. PICK i \in 1 .. m : i = k - n
      OBVIOUS
    <3>2. k \in 1 .. n + m /\ ~(k <= n)
      OBVIOUS
    <3>3. t[k] = r[i]
      BY <1>1, <1>2, <1>3, <3>1, <3>2
    <3> QED
      BY <1>1, <3>1, <3>3 DEF HandsOn
  <2> QED
    BY <2>1, <2>2, <2>3, <2>4
<1>5. ASSUME NEW k \in n + 1 .. n + m
      PROVE  t[k] \in 0 .. sent - 1 /\ \A j \in 1 .. k - 1 : t[j] < t[k]
  <2>1. t[k] = f + (k - n) - 1 /\ sent \in Nat
    BY <1>4 DEF StreamTypeOK
  <2>2. t[k] \in 0 .. sent - 1 /\ t[k] >= f
    BY <2>1
  <2>3. ASSUME NEW j \in 1 .. k - 1 PROVE t[j] < t[k]
    <3>1. CASE j \in 1 .. n
      <4>1. t[j] \in Nat /\ t[j] < f
        BY <1>4, <3>1
      <4> QED
        BY <2>2, <4>1
    <3>2. CASE j \notin 1 .. n
      <4>1. j \in n + 1 .. n + m /\ j < k
        BY <3>2
      <4>2. t[j] = f + (j - n) - 1
        BY <1>4, <4>1
      <4> QED
        BY <2>1, <4>1, <4>2
    <3> QED
      BY <3>1, <3>2
  <2> QED
    BY <2>2, <2>3
<1>6. Ascends(delivered)'
  <2>1. ASSUME NEW k \in 1 .. n + m PROVE t[k] < sent /\ \A j \in 1 .. k - 1 : t[j] < t[k]
    <3>1. CASE k \in 1 .. n
      <4>1. \A j \in 1 .. k - 1 : j \in 1 .. n
        BY <3>1
      <4> QED
        BY <1>4, <3>1, <4>1
    <3>2. CASE k \in n + 1 .. n + m
      BY <1>5, <3>2 DEF StreamTypeOK
    <3> QED
      BY <3>1, <3>2
  <2> QED
    BY <1>3, <1>4, <2>1 DEF Ascends
<1>7. ExpectedIndex' = f + m
  <2>1. n + m \in n + 1 .. n + m
    OBVIOUS
  <2>2. t[n + m] = f + ((n + m) - n) - 1
    BY <1>4, <2>1
  <2> QED
    BY <1>3, <1>4, <2>2 DEF ExpectedIndex
<1>8. SubSeq(t, 1, n) = d
  <2>1. SubSeq(d \o r, 1, Len(d)) = d
    BY ONLY d \in Seq(Packet), r \in Seq(Packet), PrefixOfConcat
  <2> QED
    BY <1>1, <1>3, <2>1
<1>9. Ordered!Deliver
  <2>1. Len(delivered') > Len(delivered) /\ SubSeq(delivered', 1, Len(delivered)) = delivered
    BY <1>1, <1>3, <1>4, <1>8
  <2>2. ASSUME NEW k \in Len(delivered) + 1 .. Len(delivered')
        PROVE  delivered'[k] \in 0 .. sent - 1 /\ (k > 1 => delivered'[k - 1] < delivered'[k])
    <3>1. k \in n + 1 .. n + m /\ (k > 1 => k - 1 \in 1 .. k - 1)
      BY <1>1, <1>3, <1>4
    <3> QED
      BY <1>3, <1>5, <3>1
  <2> QED
    BY <2>1, <2>2 DEF Ordered!Deliver
<1> QED
  BY <1>3, <1>4, <1>6, <1>7, <1>9, EmptySeq
-----------------------------------------------------------------------------
(***************************************************************************)
(* The steps of the receiver.                                              *)
(***************************************************************************)

\* After a step the packets of the buffer lie ahead of packet e.
NearNext(e) ==
  \A s \in DOMAIN pending' :
    /\ pending'[s] \in Packet /\ s = pending'[s] % SeqSpace
    /\ pending'[s] - e \in 1 .. Half - 1
    /\ pending'[s] < sent'

LEMMA KeptNear ==
  ASSUME StreamAssumption, NEW buf, NEW e, NEW lo, Near(buf, e, lo), NEW g, Keeps(buf, g), sent' = sent
  PROVE  NearNext(g)
<1>1. ASSUME NEW s \in DOMAIN pending'
      PROVE  /\ s \in DOMAIN buf /\ pending'[s] = buf[s] /\ pending'[s] - g \in 1 .. Half - 1
             /\ buf[s] \in Packet /\ s = buf[s] % SeqSpace /\ buf[s] < sent
  BY DEF Keeps, Near
<1> QED
  BY <1>1 DEF NearNext

\* What holds after a step that hands on packets in a row ...
LEMMA Delivering ==
  ASSUME StreamAssumption, StreamIInv, IInv', StreamTypeOK', InNet', sent' = sent, initialized',
         NEW f \in Nat, NEW m \in Nat \ {0}, HandsOn(f, m), f + m <= sent,
         initialized => f >= ExpectedIndex, sent - 1 - (f + m) < Half,
         delivered' = delivered \o ready', expected' = (f + m) % SeqSpace, NearNext(f + m)
  PROVE  StreamIInv' /\ Ordered!Deliver
<1>1. /\ delivered' \in Seq(Packet) /\ delivered' # <<>>
      /\ Ascends(delivered)' /\ ExpectedIndex' = f + m /\ Ordered!Deliver
  BY Growth DEF StreamIInv
<1>2. InLap'
  BY <1>1 DEF InLap, NearNext, Near, NotFarAhead
<1> QED
  BY <1>1, <1>2 DEF StreamIInv

\* ... and after one that hands on none.
LEMMA Staying ==
  ASSUME StreamAssumption, StreamIInv, IInv', StreamTypeOK', InNet', sent' = sent,
         UNCHANGED <<initialized, expected, delivered>>, initialized => NearNext(ExpectedIndex)
  PROVE  StreamIInv'
<1>1. ExpectedIndex' = ExpectedIndex /\ Ascends(delivered)'
  BY DEF ExpectedIndex, StreamIInv, Ascends
<1>2. ASSUME initialized PROVE InLap'
  BY <1>1, <1>2 DEF StreamIInv, InLap, NearNext, Near, NotFarAhead
<1> QED
  BY <1>1, <1>2 DEF StreamIInv

\* How a packet in the network lies to the one the receiver expects, and what the code
\* makes of it.
LEMMA Relative ==
  ASSUME StreamAssumption, StreamIInv, initialized, NEW i \in Packet, net[i] > 0
  PROVE  /\ ExpectedIndex \in Nat /\ i \in Nat /\ SeqByte[i] = i % SeqSpace
         /\ i - ExpectedIndex \in -Half .. Half - 1 /\ i < sent
         /\ Distance(expected, SeqByte[i]) =
              IF i >= ExpectedIndex THEN i - ExpectedIndex ELSE i - ExpectedIndex + SeqSpace
<1>1. ExpectedIndex \in Nat /\ ExpectedIndex <= sent
  BY ExpectedType DEF StreamIInv
<1>2. i \in Nat /\ SeqByte[i] = i % SeqSpace /\ sent \in Nat
  BY Constants DEF StreamIInv, StreamTypeOK
<1>3. i < sent /\ sent - 1 - i < Half /\ sent - 1 - ExpectedIndex < Half /\ expected = ExpectedIndex % SeqSpace
  BY DEF StreamIInv, InNet, InLap, NotFarAhead
<1>4. i - ExpectedIndex \in -Half .. Half - 1
  <2>1. PICK e \in Nat : e = ExpectedIndex
    BY <1>1
  <2> QED
    BY <1>1, <1>2, <1>3, <2>1, HalfAssumption
<1> QED
  BY <1>1, <1>2, <1>3, <1>4, NumbersApart

\* A duplicate of a buffered packet is that packet.
LEMMA SamePacket ==
  ASSUME StreamAssumption, StreamIInv, initialized, NEW i \in Packet, net[i] > 0,
         InWindow(SeqByte[i]), SeqByte[i] \in DOMAIN pending
  PROVE  pending[SeqByte[i]] = i
<1>1. PICK e \in Nat : e = ExpectedIndex /\ expected = e % SeqSpace /\ Near(pending, e, 1)
  BY Relative DEF StreamIInv, InLap
<1>2. Near(pending, e, 0)
  BY <1>1, Constants DEF Near
<1>3. /\ i \in Nat /\ SeqByte[i] = i % SeqSpace /\ i - e \in -Half .. Half - 1
      /\ (IF i >= e THEN i - e ELSE i - e + SeqSpace) \in 1 .. Half - 1
  BY <1>1, Relative DEF InWindow
<1>4. PICK d \in 0 .. Half : d = i - e /\ i = e + d
  BY <1>3, Constants
<1>5. d \in 0 .. SeqSpace
  BY Constants
<1>6. SeqByte[i] = Ahead(e % SeqSpace, d)
  BY <1>3, <1>4, <1>5, NumberAhead
<1> QED
  BY <1>2, <1>4, <1>6, Slots

\* Flushing hands on packets.
LEMMA Flushing ==
  ASSUME StreamAssumption, StreamIInv, IInv', StreamTypeOK', InNet', sent' = sent, initialized, initialized',
         NEW buf, Near(buf, ExpectedIndex, 1), DOMAIN buf # {}, NEW gaps \in Nat, Flush(buf, gaps),
         delivered' = delivered \o ready'
  PROVE  StreamIInv' /\ Ordered!Deliver /\ stats'.stale = 0
<1>1. PICK e \in Nat : e = ExpectedIndex
  BY ExpectedType DEF StreamIInv
<1>2. expected = e % SeqSpace /\ sent - 1 - e < Half /\ sent \in Nat
  BY <1>1 DEF StreamIInv, InLap, NotFarAhead, StreamTypeOK
<1>3. /\ stats'.stale = 0
      /\ \E f \in Nat, m \in Nat \ {0} :
           /\ f >= e /\ f + m <= sent
           /\ HandsOn(f, m)
           /\ expected' = (f + m) % SeqSpace
           /\ Keeps(buf, f + m)
  BY <1>1, <1>2, FlushStream
<1>4. PICK f \in Nat, m \in Nat \ {0} :
        /\ f >= e /\ f + m <= sent
        /\ HandsOn(f, m)
        /\ expected' = (f + m) % SeqSpace
        /\ Keeps(buf, f + m)
  BY <1>3
<1>5. NearNext(f + m)
  BY <1>4, KeptNear
<1>6. sent - 1 - (f + m) < Half
  BY <1>2, <1>4, Constants
<1> QED
  BY <1>1, <1>3, <1>4, <1>5, <1>6, Delivering
\* What a datagram's arrival does to the network.
LEMMA ArriveNet ==
  ASSUME StreamAssumption, StreamIInv, NEW i \in Packet, Arrive(i)
  PROVE  /\ IInv' /\ InNet' /\ sent' = sent /\ delivered' = delivered \o ready'
         /\ net' \in [Packet -> Nat] /\ copies' \in 0 .. MaxCopies /\ sent' \in Nat
         /\ net[i] > 0 /\ i \in Nat /\ i < sent /\ sent - 1 - i < Half /\ SeqByte[i] = i % SeqSpace
<1>1. IInv'
  BY ReceiveIInv DEF Arrive, StreamIInv
<1>2. net' = [net EXCEPT ![i] = @ - 1] /\ net[i] > 0 /\ net \in [Packet -> Nat]
  BY DEF Arrive, StreamIInv, StreamTypeOK
<1>3. net' \in [Packet -> Nat] /\ \A j \in Packet : net'[j] > 0 => net[j] > 0
  BY <1>2
<1>4. InNet'
  BY <1>3 DEF InNet, StreamIInv, Arrive
<1> QED
  BY <1>1, <1>2, <1>3, <1>4, Constants DEF Arrive, StreamIInv, StreamTypeOK, InNet

\* Handing on a run, or nothing, keeps the types.
LEMMA ReadyTypes ==
  ASSUME StreamAssumption, StreamIInv, IInv', delivered' = delivered \o ready'
  PROVE  /\ delivered' \in Seq(Packet)
         /\ ready' = <<>> => delivered' = delivered
<1>1. PICK d \in Seq(Packet), r \in Seq(Packet) : d = delivered /\ r = ready'
  BY DEF StreamIInv, StreamTypeOK, IInv, TypeOK
<1> QED
  BY <1>1, ConcatProperties, ConcatEmptySeq

LEMMA ArriveStep ==
  ASSUME StreamAssumption, StreamIInv, NEW i \in Packet, Arrive(i)
  PROVE  /\ StreamIInv'
         /\ Ordered!Deliver \/ UNCHANGED <<sent, delivered>>
         /\ stats'.stale > 0 =>
              \/ \E k \in DOMAIN delivered : delivered[k] >= i
              \/ \E s \in DOMAIN pending : pending[s] = i
<1>1. /\ IInv' /\ InNet' /\ StreamTypeOK' /\ sent' = sent /\ delivered' = delivered \o ready'
      /\ ready' = <<>> => delivered' = delivered
  BY ArriveNet, ReadyTypes DEF StreamTypeOK
<1>2. /\ net[i] > 0 /\ i \in Nat /\ i < sent /\ sent - 1 - i < Half /\ SeqByte[i] = i % SeqSpace
      /\ sent \in Nat /\ i \in Audio
  BY ArriveNet, Constants DEF StreamIInv, StreamTypeOK
<1>3. Push(i)
  BY DEF Arrive, Receive
<1>4. CASE PushFirst(i)
  <2>1. /\ ~initialized /\ initialized' /\ expected' = Ahead(SeqByte[i], 1) /\ ready' = <<i>>
        /\ UNCHANGED pending /\ stats' = NoStats
    BY <1>4 DEF PushFirst
  <2>2. NearNext(i + 1)
    BY <2>1 DEF NearNext, StreamIInv, IInv, WaitOK, HasPending
  <2>3. HandsOn(i, 1)
    <3>1. <<i>> \in Seq(Packet) /\ Len(<<i>>) = 1 /\ <<i>>[1] = i + 1 - 1
      BY <1>2
    <3> QED
      BY <2>1, <3>1 DEF HandsOn
  <2>4. expected' = (i + 1) % SeqSpace
    <3>1. 1 \in 0 .. SeqSpace
      BY Constants
    <3> QED
      BY <1>2, <2>1, <3>1, NumberAhead
  <2>5. sent - 1 - (i + 1) < Half /\ i + 1 <= sent /\ 1 \in Nat \ {0}
    BY <1>2, Constants
  <2>6. stats'.stale = 0
    BY <2>1 DEF NoStats, Stats
  <2> QED
    BY <1>1, <1>2, <2>1, <2>2, <2>3, <2>4, <2>5, <2>6, Delivering
<1>5. CASE initialized
  <2>1. PICK e \in Nat : e = ExpectedIndex
    BY <1>2, <1>5, Relative
  <2>2. /\ i - e \in -Half .. Half - 1 /\ expected = e % SeqSpace /\ Near(pending, e, 1)
        /\ Distance(expected, SeqByte[i]) = IF i >= e THEN i - e ELSE i - e + SeqSpace
        /\ sent - 1 - e < Half /\ expected \in SeqNumbers /\ SeqByte[i] \in SeqNumbers
    BY <1>2, <1>5, <2>1, Relative, PacketAssumption
       DEF StreamIInv, InLap, NotFarAhead, IInv, TypeOK
  <2>3. CASE PushInOrder(i)
    <3>1. i = e
      <4>1. Distance(expected, SeqByte[i]) = 0
        BY <2>2, <2>3 DEF PushInOrder, Distance, SeqNumbers
      <4>2. i \in Nat /\ SeqSpace = 2 * Half
        BY <1>2 DEF SeqSpace
      <4> QED
        BY <2>2, <4>1, <4>2, HalfAssumption
    <3>2. PICK n \in 0 .. Half :
            DrainReady(Ahead(expected, 1), pending, <<i>>, n) /\ stats' = Stats(0, n, 0, 0)
      BY <2>3 DEF PushInOrder
    <3>3. PICK f \in Nat : f = e + 1
      OBVIOUS
    <3>4. Ahead(expected, 1) = f % SeqSpace
      <4>1. 1 \in 0 .. SeqSpace
        BY Constants
      <4> QED
        BY <2>2, <3>3, <4>1, NumberAhead
    <3>5. Near(pending, f, 0)
      <4>1. ASSUME NEW s \in DOMAIN pending PROVE pending[s] - f \in 0 .. Half - 1
        <5>1. PICK b \in Nat : b = pending[s] /\ b - e \in 1 .. Half - 1
          BY <2>2, Constants DEF Near
        <5> QED
          BY <3>3, <5>1, Constants
      <4> QED
        BY <2>2, <4>1 DEF Near
    <3>6. PICK first \in Seq(Packet) : first = <<i>> /\ Len(first) = 1 /\ first[1] = e
      <4>1. <<i>> \in Seq(Packet) /\ Len(<<i>>) = 1 /\ <<i>>[1] = i
        OBVIOUS
      <4> QED
        BY <3>1, <4>1
    <3>7. DrainReady(f % SeqSpace, pending, first, n)
      BY <3>2, <3>4, <3>6
    <3>8. /\ expected' = (f + n) % SeqSpace
          /\ Keeps(pending, f + n)
          /\ ready' \in Seq(Packet) /\ Len(ready') = Len(first) + n
          /\ \A k \in 1 .. Len(first) : ready'[k] = first[k]
          /\ \A k \in 1 .. n : ready'[Len(first) + k] = f + k - 1 /\ f + k <= sent
      BY <1>2, <3>5, <3>7, DrainStream
    <3>9. PICK m \in Nat \ {0} : m = 1 + n /\ f + n = e + m
      BY <3>3, Constants
    <3>10. HandsOn(e, m)
      <4>1. ASSUME NEW k \in 1 .. m PROVE ready'[k] = e + k - 1
        <5>1. CASE k = 1
          BY <3>6, <3>8, <5>1
        <5>2. CASE k # 1
          <6>1. PICK j \in 1 .. n : j = k - 1 /\ 1 + j = k
            BY <3>9, <5>2, Constants
          <6>2. ready'[Len(first) + j] = f + j - 1
            BY <3>8
          <6>3. Len(first) + j = k /\ f + j - 1 = e + k - 1
            BY <3>3, <3>6, <6>1
          <6> QED
            BY <6>2, <6>3
        <5> QED
          BY <5>1, <5>2
      <4> QED
        BY <3>6, <3>8, <3>9, <4>1 DEF HandsOn
    <3>11. e + m <= sent
      <4>1. CASE n = 0
        BY <1>2, <3>1, <3>9, <4>1
      <4>2. CASE n # 0
        <5>1. n \in 1 .. n
          BY <4>2, Constants
        <5> QED
          BY <3>8, <3>9, <5>1
      <4> QED
        BY <4>1, <4>2
    <3>12. NearNext(e + m)
      BY <1>1, <2>2, <3>8, <3>9, KeptNear
    <3>13. sent - 1 - (e + m) < Half /\ expected' = (e + m) % SeqSpace /\ e >= e
      <4>1. sent - 1 - (e + m) < Half
        BY <1>2, <2>2, Constants
      <4> QED
        BY <3>8, <3>9, <4>1
    <3>14. stats'.stale = 0 /\ initialized'
      BY <1>5, <2>3, <3>2 DEF Stats, PushInOrder
    <3> QED
      BY <1>1, <2>1, <3>9, <3>10, <3>11, <3>12, <3>13, <3>14, Delivering
  <2>4. CASE PushAhead(i)
    <3> DEFINE buf == [s \in DOMAIN pending \union {SeqByte[i]} |-> IF s = SeqByte[i] THEN i ELSE pending[s]]
    <3>1. i - e \in 1 .. Half - 1
      <4>1. PICK d \in Int : d = Distance(expected, SeqByte[i]) /\ d > 0 /\ d < Half
        BY <1>2, <2>2, <2>4, HalfAssumption DEF PushAhead, InWindow, SeqSpace
      <4>2. i \in Nat /\ SeqSpace = 2 * Half
        BY <1>2 DEF SeqSpace
      <4> QED
        BY <2>2, <4>1, <4>2, HalfAssumption
    <3>2. Near(buf, e, 1)
      BY <1>2, <2>2, <3>1 DEF Near
    <3>3. DOMAIN buf # {}
      OBVIOUS
    <3>4. /\ initialized'
          /\ \/ Flush(buf, 1)
             \/ pending' = buf /\ ready' = <<>> /\ stats' = Stats(1, 0, 0, 0) /\ expected' = expected
      BY <1>5, <2>4 DEF PushAhead
    <3> HIDE DEF buf
    <3>5. CASE Flush(buf, 1)
      <4>1. 1 \in Nat /\ ~(0 > 0)
        OBVIOUS
      <4> QED
        BY <1>1, <1>5, <2>1, <3>2, <3>3, <3>4, <3>5, <4>1, Flushing
    <3>6. CASE pending' = buf /\ ready' = <<>> /\ stats' = Stats(1, 0, 0, 0) /\ expected' = expected
      <4>1. NearNext(ExpectedIndex)
        BY <1>1, <2>1, <3>2, <3>6 DEF Near, NearNext
      <4>2. stats'.stale = 0
        BY <3>6 DEF Stats
      <4> QED
        BY <1>1, <1>5, <3>4, <3>6, <4>1, <4>2, Staying
    <3> QED
      BY <3>4, <3>5, <3>6
  <2>5. CASE PushStale(i)
    <3>1. /\ ready' = <<>> /\ UNCHANGED buffer /\ SeqByte[i] # expected
          /\ InWindow(SeqByte[i]) => SeqByte[i] \in DOMAIN pending
      BY <2>5 DEF PushStale, AlreadyPending
    <3>2. NearNext(ExpectedIndex)
      BY <1>1, <2>1, <2>2, <3>1 DEF Near, NearNext, buffer
    <3>3. StreamIInv' /\ UNCHANGED <<sent, delivered>>
      BY <1>1, <3>1, <3>2, Staying DEF buffer
    <3>4. CASE InWindow(SeqByte[i])
      BY <1>2, <1>5, <3>1, <3>3, <3>4, SamePacket
    <3>5. CASE ~InWindow(SeqByte[i])
      <4>1. i < e
        <5>1. i # e
          BY <2>2, <3>1, <1>2
        <5>2. i \in Nat /\ SeqSpace = 2 * Half
          BY <1>2 DEF SeqSpace
        <5> QED
          BY <2>2, <3>5, <5>1, <5>2, HalfAssumption DEF InWindow
      <4>2. delivered # <<>> /\ delivered \in Seq(Packet)
        BY <1>5 DEF StreamIInv, StreamTypeOK
      <4>3. Len(delivered) \in DOMAIN delivered /\ delivered[Len(delivered)] = e - 1
        BY <2>1, <4>2, ExpectedType DEF StreamIInv
      <4> QED
        BY <1>2, <3>3, <4>1, <4>3
    <3> QED
      BY <3>4, <3>5
  <2>6. ~PushOther(i) /\ ~PushFirst(i)
    BY <1>2, <1>5 DEF PushOther, PushFirst
  <2> QED
    BY <1>3, <2>3, <2>4, <2>5, <2>6 DEF Push
<1> QED
  BY <1>2, <1>3, <1>4, <1>5 DEF Push, PushOther, PushInOrder, PushAhead, PushStale

LEMMA TimeoutStep ==
  ASSUME StreamAssumption, StreamIInv, StreamTimeout
  PROVE  StreamIInv' /\ (Ordered!Deliver \/ UNCHANGED <<sent, delivered>>)
<1>1. IInv'
  BY TimeoutIInv DEF StreamTimeout, StreamIInv
<1>2. /\ InNet' /\ sent' = sent /\ delivered' = delivered \o ready' /\ StreamTypeOK'
      /\ ready' = <<>> => delivered' = delivered
  BY <1>1, ReadyTypes DEF StreamTimeout, StreamIInv, InNet, StreamTypeOK
<1>3. CASE HasPending /\ waiting /\ age >= Wait
  <2>1. Flush(pending, 0) /\ UNCHANGED initialized
    BY <1>3 DEF StreamTimeout, Timeout
  <2>2. initialized /\ DOMAIN pending # {}
    BY <1>3 DEF StreamIInv, IInv, WaitOK, HasPending
  <2>3. Near(pending, ExpectedIndex, 1) /\ 0 \in Nat
    BY <2>2 DEF StreamIInv, InLap
  <2> QED
    BY <1>1, <1>2, <2>1, <2>2, <2>3, Flushing
<1>4. CASE ~(HasPending /\ waiting /\ age >= Wait)
  <2>1. ready' = <<>> /\ UNCHANGED buffer
    BY <1>4 DEF StreamTimeout, Timeout
  <2>2. initialized => NearNext(ExpectedIndex)
    BY <1>2, <2>1 DEF StreamIInv, InLap, Near, NearNext, buffer
  <2> QED
    BY <1>1, <1>2, <2>1, <2>2, Staying DEF buffer
<1> QED
  BY <1>3, <1>4
-----------------------------------------------------------------------------
(***************************************************************************)
(* Every step, and the theorems.                                           *)
(***************************************************************************)

\* A step that leaves the receiver alone keeps what is said of it.
LEMMA OthersStep ==
  ASSUME StreamAssumption, StreamIInv, IInv', StreamTypeOK', InNet', sent' \in Nat, sent' >= sent,
         UNCHANGED <<initialized, expected, pending, delivered>>, initialized => sent' - 1 - ExpectedIndex < Half
  PROVE  StreamIInv'
<1>1. ExpectedIndex' = ExpectedIndex /\ sent \in Nat /\ delivered \in Seq(Packet)
  BY DEF ExpectedIndex, StreamIInv, StreamTypeOK
<1>2. Ascends(delivered)'
  <2>1. \A k \in 1 .. Len(delivered) : delivered[k] \in Nat
    <3>1. \A k \in 1 .. Len(delivered) : delivered[k] \in Packet
      BY <1>1, ElementOfSeq
    <3> QED
      BY <3>1, Constants
  <2> QED
    BY <1>1, <2>1 DEF StreamIInv, Ascends
<1>3. ASSUME initialized PROVE InLap'
  <2>1. Near(pending, ExpectedIndex, 1) /\ expected = ExpectedIndex % SeqSpace
    BY <1>3 DEF StreamIInv, InLap
  <2>2. Near(pending, ExpectedIndex, 1)'
    <3>1. \A s \in DOMAIN pending : pending[s] \in Nat
      BY <2>1, Constants DEF Near
    <3> QED
      BY <1>1, <2>1, <3>1 DEF Near
  <2> QED
    BY <1>1, <1>3, <2>1, <2>2 DEF InLap, NotFarAhead
<1> QED
  BY <1>2, <1>3 DEF StreamIInv

\* Each step of the stream keeps the invariant and is one of the ordered stream, or none.
LEMMA StreamStep ==
  ASSUME StreamAssumption, StreamIInv, StreamNext
  PROVE  StreamIInv' /\ (Ordered!Next \/ UNCHANGED <<sent, delivered>>)
<1>1. /\ sent \in Nat /\ net \in [Packet -> Nat] /\ copies \in 0 .. MaxCopies
      /\ delivered \in Seq(Packet) /\ IInv /\ Half \in Nat /\ Packet \subseteq Nat
  BY Constants DEF StreamIInv, StreamTypeOK
<1>2. CASE Send
  <2>1. /\ sent' = sent + 1 /\ UNCHANGED <<vars, copies, delivered>>
        /\ net' = [net EXCEPT ![sent] = @ + 1] /\ sent \in Packet
    BY <1>2 DEF Send
  <2>2. IInv'
    BY <1>1, <2>1, NextIInv
  <2>3. StreamTypeOK'
    BY <1>1, <2>1 DEF StreamTypeOK
  <2>4. InNet'
    <3>1. ASSUME NEW j \in Packet, net'[j] > 0 PROVE j < sent' /\ sent' - 1 - j < Half
      <4>1. CASE j = sent
        BY <1>1, <2>1, <4>1, Constants
      <4>2. CASE j # sent
        <5>1. net[j] > 0
          BY <1>1, <2>1, <3>1, <4>2
        <5>2. j < sent /\ sent - j < Half /\ j \in Nat
          BY <1>1, <1>2, <5>1 DEF Send, InStep, StreamIInv, InNet
        <5> QED
          BY <1>1, <2>1, <5>2
      <4> QED
        BY <4>1, <4>2
    <3> QED
      BY <3>1 DEF InNet
  <2>5. ASSUME initialized PROVE sent' - 1 - ExpectedIndex < Half
    <3>1. sent - ExpectedIndex < Half
      BY <1>2, <2>5 DEF Send, InStep
    <3>2. ExpectedIndex \in Nat
      BY <2>5, ExpectedType DEF StreamIInv
    <3> QED
      BY <1>1, <2>1, <3>1, <3>2
  <2>6. Ordered!Send
    BY <2>1, Constants DEF Ordered!Send
  <2>7. UNCHANGED <<initialized, expected, pending, delivered>> /\ sent' \in Nat /\ sent' >= sent
    BY <1>1, <2>1 DEF vars
  <2> QED
    BY <2>2, <2>3, <2>4, <2>5, <2>6, <2>7, OthersStep DEF Ordered!Next
<1>3. ASSUME NEW i \in Packet, Duplicate(i) \/ Lose(i)
      PROVE  StreamIInv' /\ UNCHANGED <<sent, delivered>>
  <2>1. /\ UNCHANGED <<vars, sent, delivered>> /\ copies' \in 0 .. MaxCopies
        /\ net' \in [Packet -> Nat] /\ \A j \in Packet : net'[j] > 0 => net[j] > 0
    <3>1. CASE Duplicate(i)
      <4>1. net' = [net EXCEPT ![i] = @ + 1] /\ net[i] > 0 /\ copies' \in 0 .. MaxCopies
        BY <1>1, <3>1, Constants DEF Duplicate
      <4> QED
        BY <1>1, <3>1, <4>1 DEF Duplicate
    <3>2. CASE Lose(i)
      <4>1. net' = [net EXCEPT ![i] = @ - 1] /\ net[i] > 0
        BY <3>2 DEF Lose
      <4> QED
        BY <1>1, <3>2, <4>1 DEF Lose
    <3> QED
      BY <1>3, <3>1, <3>2
  <2>2. IInv'
    BY <1>1, <2>1, NextIInv
  <2>3. StreamTypeOK' /\ InNet'
    BY <1>1, <2>1 DEF StreamTypeOK, InNet, StreamIInv
  <2>4. UNCHANGED <<initialized, expected, pending, delivered>> /\ sent' \in Nat /\ sent' >= sent
    BY <1>1, <2>1 DEF vars
  <2>5. initialized => sent' - 1 - ExpectedIndex < Half
    BY <2>1 DEF StreamIInv, InLap, NotFarAhead
  <2> QED
    BY <2>1, <2>2, <2>3, <2>4, <2>5, OthersStep
<1>4. ASSUME NEW i \in Packet, Arrive(i)
      PROVE  StreamIInv' /\ (Ordered!Deliver \/ UNCHANGED <<sent, delivered>>)
  BY <1>4, ArriveStep
<1>5. CASE StreamTimeout
  BY <1>5, TimeoutStep DEF Ordered!Next
<1>6. CASE StreamArm \/ StreamNoPacket \/ StreamTick
  <2>1. /\ UNCHANGED <<sent, net, copies, delivered, initialized, expected, pending>>
        /\ Arm \/ NoPacket \/ Tick
    BY <1>6 DEF StreamArm, StreamNoPacket, StreamTick, Arm, NoPacket, Tick, buffer
  <2>2. IInv'
    BY <1>1, <2>1, NextIInv DEF Next
  <2>3. StreamTypeOK' /\ InNet'
    BY <1>1, <2>1 DEF StreamTypeOK, InNet, StreamIInv
  <2>4. UNCHANGED <<initialized, expected, pending, delivered>> /\ sent' \in Nat /\ sent' >= sent
    BY <1>1, <2>1
  <2>5. initialized => sent' - 1 - ExpectedIndex < Half
    BY <2>1 DEF StreamIInv, InLap, NotFarAhead
  <2> QED
    BY <2>1, <2>2, <2>3, <2>4, <2>5, OthersStep
<1> QED
  BY <1>2, <1>3, <1>4, <1>5, <1>6 DEF StreamNext, Ordered!Next

LEMMA StreamStutter == ASSUME StreamAssumption PROVE StreamIInv /\ UNCHANGED streamVars => StreamIInv'
<1> SUFFICES ASSUME StreamIInv, UNCHANGED streamVars PROVE StreamIInv'
  OBVIOUS
<1>1. UNCHANGED <<sent, net, copies, delivered>> /\ UNCHANGED vars
  BY DEF streamVars
<1>2. IInv'
  BY <1>1, NextIInv DEF StreamIInv
<1>3. StreamTypeOK' /\ InNet' /\ sent' \in Nat /\ sent' >= sent
  BY <1>1 DEF StreamTypeOK, InNet, StreamIInv
<1>4. initialized => sent' - 1 - ExpectedIndex < Half
  BY <1>1 DEF StreamIInv, InLap, NotFarAhead
<1>5. UNCHANGED <<initialized, expected, pending, delivered>>
  BY <1>1 DEF vars
<1> QED
  BY <1>2, <1>3, <1>4, <1>5, OthersStep

LEMMA StreamInitCorrect == ASSUME StreamAssumption PROVE StreamInit => StreamIInv /\ Ordered!Init
<1> SUFFICES ASSUME StreamInit PROVE StreamIInv /\ Ordered!Init
  OBVIOUS
<1>1. IInv
  BY InitIInv DEF StreamInit
<1>2. StreamTypeOK
  BY Constants DEF StreamInit, StreamTypeOK
<1>3. ~initialized /\ delivered = <<>> /\ Len(delivered) = 0
  BY DEF StreamInit, Init
<1>4. InNet
  BY DEF StreamInit, InNet
<1> QED
  BY <1>1, <1>2, <1>3, <1>4 DEF StreamIInv, Ascends, StreamInit, Ordered!Init

LEMMA StreamInvariance == ASSUME StreamAssumption PROVE StreamSpec => []StreamIInv
<1>1. StreamIInv /\ [StreamNext]_streamVars => StreamIInv'
  BY StreamStep, StreamStutter
<1> QED
  BY <1>1, StreamInitCorrect, PTL DEF StreamSpec

\* A packet is never mistaken for one of another lap of the sequence number: the expected
\* byte stands for the packet after the newest handed on, a buffered packet is one of the
\* next half of the space (rxReorderBuffer.push, seqDistance).
THEOREM SameLapCorrect == ASSUME StreamAssumption PROVE StreamSpec => []SameLap
<1>1. ASSUME StreamIInv PROVE SameLap
  <2>1. CASE initialized
    BY <1>1, <2>1 DEF StreamIInv, InLap, Near, SameLap
  <2>2. CASE ~initialized
    BY <1>1, <2>2 DEF StreamIInv, IInv, WaitOK, HasPending, SameLap
  <2> QED
    BY <2>1, <2>2
<1> QED
  BY <1>1, StreamInvariance, PTL

\* The receiver implements the ordered stream: however the network delays, reorders, loses
\* and duplicates within half the space, the peer's packets are handed on in order, each at
\* most once, and one is dropped only when it is too late or already buffered
\* (rxReorderBuffer.push).
THEOREM ImplementsOrderedCorrect == ASSUME StreamAssumption PROVE StreamSpec => ImplementsOrdered
<1>1. StreamInit => Ordered!Init
  BY StreamInitCorrect
<1>2. StreamIInv /\ [StreamNext]_streamVars => [Ordered!Next]_<<sent, delivered>>
  BY StreamStep DEF streamVars
<1>3. ASSUME StreamIInv, [StreamNext]_streamVars
      PROVE  [\A i \in Packet :
                Arrive(i) /\ stats'.stale > 0 =>
                  \/ \E k \in DOMAIN delivered : delivered[k] >= i
                  \/ \E s \in DOMAIN pending : pending[s] = i]_streamVars
  BY <1>3, ArriveStep
<1> QED
  BY <1>1, <1>2, <1>3, StreamInvariance, PTL
     DEF StreamSpec, ImplementsOrdered, Ordered!Spec, DropsOnlyLate
=============================================================================
