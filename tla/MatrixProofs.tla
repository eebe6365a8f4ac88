---------------------------- MODULE MatrixProofs -----------------------------
(***************************************************************************)
(* Proofs about MatrixSession, for a map and a sequence space of any size, *)
(* any number of frames under way, faults and old chunks; and about        *)
(* MatrixHelper, for any number of requests and of processes.              *)
(***************************************************************************)
EXTENDS MatrixSession, MatrixHelper, Integers, FiniteSets, SequenceTheorems, FiniteSetTheorems, TLAPS

-----------------------------------------------------------------------------
(***************************************************************************)
(* The inductive invariant.                                                *)
(***************************************************************************)

OfOld(f) == f.chunk = OldChunk

\* The frames the matrix sends.
FrameOnWire ==
  {f \in [kind : {"identity", "bank", "no_bank", "other", "size", "chunk", "end"},
          seq : 0 .. SeqSpace - 1, chunk : 0 .. OldChunk] :
     /\ f.kind = "size" => ~OfOld(f)
     /\ f.kind = "chunk" /\ ~OfOld(f) => f.chunk < Chunks /\ f.seq = f.chunk % SeqSpace}
Segment == [piece : {"whole", "head", "tail", "bad"}, frame : FrameOnWire]

\* The place of a frame in the transfer, 0 for what is not part of it.
Place(f) ==
  IF f.kind \notin {"size", "chunk", "end"} \/ OfOld(f) THEN 0
  ELSE IF f.kind = "size" THEN 1
  ELSE IF f.kind = "end" THEN Chunks + 2 ELSE f.chunk + 2

Shapes ==
  /\ phase \in {"identity", "bank", "map", "done"}
  /\ outcome \in {"none", "map", "error"} /\ (outcome = "none" <=> phase # "done")
  /\ sawSize \in BOOLEAN /\ wantSeq \in 0 .. SeqSpace - 1 /\ half \in BOOLEAN
  /\ data \in Seq(0 .. Chunks - 1) /\ Len(data) <= Chunks
  /\ net \in Seq(Segment)
  /\ asked \in Seq({"identity", "bank", "map"})
  /\ transfer \in {0} \union (2 .. Chunks + 3) /\ old \in 1 .. Chunks + 2

\* The map is asked for once, and its transfer begins when the old one is over.
AskedOnce ==
  /\ phase \in {"identity", "bank"} \/ transfer > 0 => \A i \in 1 .. Len(asked) : asked[i] # "map"
  /\ phase \in {"identity", "bank"} => transfer = 0
  /\ \A i, j \in 1 .. Len(asked) : asked[i] = "map" /\ asked[j] = "map" => i = j
  /\ transfer > 0 => old = Chunks + 2

\* A frame that is split is read in its two halves, one after the other.
HeadsPaired ==
  \A i \in 1 .. Len(net) :
    /\ net[i].piece = "head" => i < Len(net) /\ net[i + 1] = Tail1(net[i].frame)
    /\ net[i].piece = "tail" /\ i > 1 => net[i - 1] = Head1(net[i].frame)
Pieces ==
  /\ HeadsPaired
  /\ half => Len(net) > 0 /\ net[1].piece = "tail"
  /\ phase = "map" /\ Len(net) > 0 /\ net[1].piece = "tail" => half

\* The place of the last frame of the transfer that was read.
Seen == IF sawSize THEN Len(data) + 1 ELSE 0
At(i) == Place(net[i].frame)

\* The frame of place k has been read or comes among the first n.
Preceded(k, n) == k <= Seen \/ \E j \in 1 .. n : At(j) = k

\* What is left of the old transfer comes before the new one, of which each frame follows
\* its predecessor or repeats it.
FrameInOrder(i) ==
  /\ At(i) > 0 => Seen <= At(i) /\ At(i) < transfer
  /\ At(i) > 0 => Preceded(At(i) - 1, i - 1)
  /\ At(i) > 0 => \A j \in 1 .. i - 1 : At(j) <= At(i)
  /\ OfOld(net[i].frame) => Seen = 0 /\ \A j \in 1 .. i - 1 : At(j) = 0
InOrder ==
  /\ \A i \in 1 .. Len(net) : FrameInOrder(i)
  /\ transfer > 0 => Preceded(transfer - 1, Len(net))
  /\ Seen > 0 => Seen < transfer

\* What has been taken of the map is its beginning.
Beginning ==
  /\ \A k \in 1 .. Len(data) : data[k] = k - 1
  /\ sawSize => wantSeq = Len(data) % SeqSpace

IInv ==
  /\ Shapes /\ AskedOnce
  /\ phase # "done" => Pieces /\ InOrder /\ Beginning
  /\ outcome = "map" => data = CurrentMap

-----------------------------------------------------------------------------
(***************************************************************************)
(* Sequences, frames and the sequence byte.                                *)
(***************************************************************************)

Shifted(t, s) == Len(t) = Len(s) - 1 /\ \A i \in 1 .. Len(s) - 1 : t[i] = s[i + 1]

LEMMA Shifting ==
  ASSUME NEW S, NEW s \in Seq(S), s # <<>>
  PROVE  /\ Tail(s) \in Seq(S) /\ Shifted(Tail(s), s)
         /\ Len(s) \in Nat /\ Len(s) >= 1 /\ Head(s) = s[1] /\ s[1] \in S
BY HeadTailProperties, EmptySeq DEF Shifted

LEMMA Appending ==
  ASSUME NEW S, NEW s \in Seq(S), NEW e \in S
  PROVE  /\ Append(s, e) \in Seq(S) /\ Len(Append(s, e)) = Len(s) + 1
         /\ \A i \in 1 .. Len(s) : Append(s, e)[i] = s[i]
         /\ Append(s, e)[Len(s) + 1] = e
BY AppendProperties

LEMMA PlaceType ==
  ASSUME SessionAssumption, NEW f \in FrameOnWire
  PROVE  Place(f) \in 0 .. Chunks + 2 /\ (OfOld(f) => Place(f) = 0)
BY DEF SessionAssumption, Place, FrameOnWire, OfOld, OldChunk

LEMMA Remainder ==
  ASSUME SessionAssumption, NEW n \in Nat
  PROVE  n % SeqSpace \in 0 .. SeqSpace - 1
BY DEF SessionAssumption

\* The frame of a place of the transfer.
LEMMA CurrentPlace ==
  ASSUME SessionAssumption, NEW k \in 1 .. Chunks + 2
  PROVE  Current(k) \in FrameOnWire /\ Place(Current(k)) = k /\ ~OfOld(Current(k))
<1>1. PICK n \in Nat : n = Chunks /\ n > 0
  BY DEF SessionAssumption
<1>2. 0 \in 0 .. SeqSpace - 1
  BY DEF SessionAssumption
<1>3. CASE k = 1 \/ k = n + 2
  BY <1>1, <1>2, <1>3 DEF Current, Simple, Frame, FrameOnWire, Place, OfOld, OldChunk
<1>4. CASE k \in 2 .. n + 1
  <2>1. PICK c \in 0 .. n - 1 : c = k - 2 /\ k = c + 2
    BY <1>4
  <2>2. PICK r \in 0 .. SeqSpace - 1 : r = c % SeqSpace
    BY Remainder
  <2>3. Current(k) = [kind |-> "chunk", seq |-> r, chunk |-> c]
    BY <1>1, <1>4, <2>1, <2>2 DEF Current, Frame
  <2> QED
    BY <1>1, <2>1, <2>2, <2>3 DEF FrameOnWire, Place, OfOld, OldChunk
<1> QED
  BY <1>1, <1>3, <1>4

LEMMA SimplePlace ==
  ASSUME SessionAssumption, NEW k \in {"identity", "bank", "no_bank", "other"}
  PROVE  Simple(k) \in FrameOnWire /\ Place(Simple(k)) = 0 /\ ~OfOld(Simple(k))
BY DEF SessionAssumption, Simple, Frame, FrameOnWire, Place, OfOld, OldChunk

LEMMA OldPlace ==
  ASSUME SessionAssumption, NEW n \in 0 .. SeqSpace - 1, NEW k \in {"chunk", "end"}
  PROVE  Frame(k, n, OldChunk) \in FrameOnWire /\ OfOld(Frame(k, n, OldChunk))
BY DEF SessionAssumption, Frame, FrameOnWire, OfOld, OldChunk

\* Division leaves one quotient and one remainder.
LEMMA Division ==
  ASSUME NEW N \in Nat \ {0}, NEW a \in Nat
  PROVE  \E q \in Int, r \in 0 .. N - 1 : r = a % N /\ a = N * q + r
<1>1. a = N * (a \div N) + (a % N) /\ a \div N \in Int /\ a % N \in 0 .. N - 1
  OBVIOUS
<1> QED
  BY <1>1

LEMMA OneRemainder ==
  ASSUME NEW N \in Nat \ {0}, NEW a \in Nat, NEW q \in Int, NEW r \in 0 .. N - 1, a = N * q + r
  PROVE  a % N = r
<1>1. PICK p \in Int, s \in 0 .. N - 1 : s = a % N /\ N * q + r = N * p + s
  BY Division
<1>2. q = p
  BY <1>1
<1> QED
  BY <1>1, <1>2

\* The numbers of successive chunks follow each other on the sequence byte, and differ.
LEMMA Numbers ==
  ASSUME NEW N \in Nat, N > 2, NEW n \in Nat
  PROVE  /\ (n + 1) % N = ((n % N) + 1) % N
         /\ (((n + 1) % N) + N - 1) % N = n % N
         /\ (n + 1) % N # n % N
<1>1. PICK q \in Int, r \in 0 .. N - 1 : r = n % N /\ n = N * q + r
  BY Division
<1>2. \A k \in 0 .. N - 1 : k % N = k
  OBVIOUS
<1>3. CASE r + 1 < N
  <2>1. r + 1 \in 0 .. N - 1 /\ n + 1 = N * q + (r + 1) /\ n + 1 \in Nat
    BY <1>1, <1>3
  <2>2. (n + 1) % N = r + 1
    BY ONLY N \in Nat \ {0}, q \in Int, <2>1, OneRemainder
  <2>3. (r + 1 + N - 1) % N = r
    <3>1. r + 1 + N - 1 = N * 1 + r /\ N * 1 + r \in Nat /\ 1 \in Int
      BY <1>1
    <3> QED
      BY <3>1, OneRemainder
  <2> QED
    BY <1>1, <1>2, <2>1, <2>2, <2>3
<1>4. CASE r = N - 1
  <2>1. PICK u \in Int : u = q + 1
    OBVIOUS
  <2>2. 0 \in 0 .. N - 1 /\ n + 1 = N * u + 0 /\ n + 1 \in Nat
    BY <1>1, <1>4, <2>1
  <2>3. (n + 1) % N = 0
    BY ONLY N \in Nat \ {0}, u \in Int, <2>2, OneRemainder
  <2>4. N % N = 0
    <3>1. N = N * 1 + 0 /\ 1 \in Int
      OBVIOUS
    <3> QED
      BY <2>2, <3>1, OneRemainder
  <2>5. (0 + N - 1) % N = N - 1
    BY <1>2
  <2>6. n % N = N - 1 /\ (n % N) + 1 = N
    BY <1>1, <1>4
  <2> QED
    BY <2>3, <2>4, <2>5, <2>6
<1> QED
  BY <1>1, <1>3, <1>4

-----------------------------------------------------------------------------
(***************************************************************************)
(* What the matrix puts on the wire.                                       *)
(***************************************************************************)

\* One frame more is on the wire, in one piece or in two.
Sent(f) ==
  /\ net' \in Seq(Segment)
  /\ \A i \in 1 .. Len(net) : net'[i] = net[i]
  /\ \/ Len(net') = Len(net) + 1 /\ net'[Len(net) + 1] \in {Whole(f), [piece |-> "bad", frame |-> f]}
     \/ Len(net') = Len(net) + 2 /\ net'[Len(net) + 1] = Head1(f) /\ net'[Len(net) + 2] = Tail1(f)

LEMMA Sending ==
  ASSUME net \in Seq(Segment), NEW f \in FrameOnWire,
         Send(f) \/ (f = Simple("other") /\ net' \in {Append(net, Bad), Append(net, Whole(f))})
  PROVE  Sent(f)
<1>1. {Whole(f), Head1(f), Tail1(f), [piece |-> "bad", frame |-> f]} \subseteq Segment
  BY DEF Whole, Head1, Tail1, Segment
<1>2. PICK n \in Nat : n = Len(net)
  BY LenProperties
<1>3. ASSUME NEW e \in {Whole(f), [piece |-> "bad", frame |-> f]}, net' = Append(net, e)
      PROVE  Sent(f)
  BY <1>1, <1>3, Appending DEF Sent
<1>4. CASE net' = net \o <<Head1(f), Tail1(f)>>
  <2>1. PICK h \in Segment, l \in Segment : h = Head1(f) /\ l = Tail1(f)
    BY <1>1
  <2>2. PICK two \in Seq(Segment) : two = <<h, l>> /\ Len(two) = 2 /\ two[1] = h /\ two[2] = l
    <3>1. <<h, l>> \in Seq(Segment) /\ Len(<<h, l>>) = 2 /\ <<h, l>>[1] = h /\ <<h, l>>[2] = l
      OBVIOUS
    <3> QED
      BY <3>1
  <2>3. /\ net' \in Seq(Segment) /\ Len(net') = n + 2
        /\ \A i \in 1 .. n + 2 : net'[i] = IF i <= n THEN net[i] ELSE two[i - n]
    BY <1>2, <1>4, <2>1, <2>2, ConcatProperties
  <2>4. n + 1 \in 1 .. n + 2 /\ n + 2 \in 1 .. n + 2 /\ (n + 1) - n = 1 /\ (n + 2) - n = 2
    OBVIOUS
  <2>5. net'[n + 1] = h /\ net'[n + 2] = l /\ \A i \in 1 .. n : net'[i] = net[i]
    <3>1. net'[n + 1] = two[(n + 1) - n] /\ net'[n + 2] = two[(n + 2) - n]
      BY <2>3
    <3>2. \A i \in 1 .. n : net'[i] = net[i]
      BY <2>3
    <3> QED
      BY <2>2, <2>4, <3>1, <3>2
  <2> QED
    BY <1>2, <2>1, <2>3, <2>5 DEF Sent
<1>5. Bad = [piece |-> "bad", frame |-> Simple("other")]
  BY DEF Bad
<1> QED
  BY <1>3, <1>4, <1>5 DEF Send

\* The frames already on the wire stay in their places, the new one comes after them.
LEMMA SentPlaces ==
  ASSUME net \in Seq(Segment), NEW f \in FrameOnWire, Sent(f)
  PROVE  /\ Len(net) \in Nat /\ Len(net') \in Nat /\ Len(net') > Len(net)
         /\ \A i \in 1 .. Len(net) : net'[i] = net[i]
         /\ \A i \in 1 .. Len(net') : i \notin 1 .. Len(net) => net'[i].frame = f
<1>1. Len(net) \in Nat /\ Len(net') \in Nat
  BY LenProperties DEF Sent
<1> QED
  BY <1>1 DEF Sent, Whole, Head1, Tail1

LEMMA SentPieces ==
  ASSUME Shapes, Pieces, NEW f \in FrameOnWire, Sent(f), UNCHANGED <<phase, half>>
  PROVE  Pieces'
<1>1. PICK n \in Nat : n = Len(net)
  BY LenProperties DEF Shapes
<1>2. \A i \in 1 .. n : net'[i] = net[i]
  BY <1>1 DEF Sent
<1>3. PICK m \in Nat : m = Len(net') /\ m > n
  BY <1>1 DEF Sent
<1>4. ASSUME NEW i \in 1 .. n
      PROVE  /\ net'[i].piece = "head" => i < m /\ net'[i + 1] = Tail1(net'[i].frame)
             /\ net'[i].piece = "tail" /\ i > 1 => net'[i - 1] = Head1(net'[i].frame)
  <2>1. /\ net[i].piece = "head" => i < n /\ net[i + 1] = Tail1(net[i].frame)
        /\ net[i].piece = "tail" /\ i > 1 => net[i - 1] = Head1(net[i].frame)
    BY <1>1 DEF Pieces, HeadsPaired
  <2>2. (i < n => i + 1 \in 1 .. n) /\ (i > 1 => i - 1 \in 1 .. n)
    OBVIOUS
  <2> QED
    BY <1>2, <1>3, <2>1, <2>2
<1>5. CASE m = n + 1 /\ net'[n + 1] \in {Whole(f), [piece |-> "bad", frame |-> f]}
  <2>1. net'[n + 1].piece \notin {"head", "tail"}
    BY <1>5 DEF Whole
  <2>2. HeadsPaired'
    BY <1>3, <1>4, <1>5, <2>1 DEF HeadsPaired
  <2>3. net'[1].piece = "tail" => n > 0
    BY <1>5, <2>1
  <2> QED
    BY <1>1, <1>2, <1>3, <2>2, <2>3 DEF Pieces
<1>6. CASE m = n + 2 /\ net'[n + 1] = Head1(f) /\ net'[n + 2] = Tail1(f)
  <2>1. /\ net'[n + 1].piece = "head" /\ net'[n + 1].frame = f
        /\ net'[n + 2].piece = "tail" /\ net'[n + 2].frame = f
    BY <1>6 DEF Head1, Tail1
  <2>2. n + 1 < m /\ (n + 1) + 1 = n + 2 /\ (n + 2) - 1 = n + 1 /\ ~(n + 2 < m)
    BY <1>6
  <2>3. HeadsPaired'
    BY <1>3, <1>4, <1>6, <2>1, <2>2 DEF HeadsPaired
  <2>4. net'[1].piece = "tail" => n > 0
    BY <2>1
  <2> QED
    BY <1>1, <1>2, <1>3, <2>3, <2>4 DEF Pieces
<1> QED
  BY <1>1, <1>3, <1>5, <1>6 DEF Sent

-----------------------------------------------------------------------------
(***************************************************************************)
(* The order of the frames.                                                *)
(***************************************************************************)

LEMMA SeenType ==
  ASSUME Shapes
  PROVE  Seen \in Nat
BY LenProperties DEF Shapes, Seen

LEMMA AtType ==
  ASSUME SessionAssumption, net \in Seq(Segment)
  PROVE  \A i \in 1 .. Len(net) : net[i] \in Segment /\ At(i) \in Nat /\ (OfOld(net[i].frame) => At(i) = 0)
<1>1. \A i \in 1 .. Len(net) : net[i] \in Segment
  BY ElementOfSeq
<1>2. \A e \in Segment : e.frame \in FrameOnWire
  BY DEF Segment
<1> QED
  BY <1>1, <1>2, PlaceType DEF At, SessionAssumption

\* A frame of no place, the next frame of the transfer or the last one again is sent.
LEMMA SentInOrder ==
  ASSUME SessionAssumption, Shapes, InOrder, NEW f \in FrameOnWire, Sent(f), UNCHANGED <<sawSize, data>>,
         transfer' \in Nat, transfer' >= transfer,
         \/ Place(f) = 0 /\ transfer' = transfer
         \/ Place(f) = transfer' - 1 /\ transfer' >= 2 /\ (transfer' = transfer \/ transfer' = transfer + 1)
         \/ Place(f) = 1 /\ transfer = 0 /\ transfer' = 2,
         OfOld(f) => transfer = 0
  PROVE  InOrder'
<1>1. PICK s \in Nat : s = Seen /\ Seen' = s
  BY SeenType DEF Seen
<1>2. PICK n \in Nat, m \in Nat : n = Len(net) /\ m = Len(net') /\ m > n
  BY SentPlaces DEF Shapes
<1>3. \A i \in 1 .. n : i \in 1 .. m /\ net'[i] = net[i] /\ At(i)' = At(i)
  BY <1>2, SentPlaces DEF Shapes, At
<1>4. \A i \in n + 1 .. m : net'[i].frame = f /\ At(i)' = Place(f)
  <2>1. \A i \in n + 1 .. m : i \in 1 .. m /\ i \notin 1 .. n
    OBVIOUS
  <2> QED
    BY <1>2, <2>1, SentPlaces DEF Shapes, At
<1>5. \A i \in 1 .. n : At(i) \in Nat
  BY <1>2, AtType DEF Shapes
<1>6. PICK p \in Nat, t \in Nat, u \in Nat : p = Place(f) /\ t = transfer /\ u = transfer'
  BY PlaceType, SessionAssumption DEF Shapes, SessionAssumption
<1>7. ASSUME NEW k \in Int, NEW i \in 0 .. n, Preceded(k, i)
      PROVE  Preceded(k, i)'
  BY <1>1, <1>3, <1>7 DEF Preceded
<1>8. ASSUME NEW i \in 1 .. n PROVE FrameInOrder(i)'
  <2>1. FrameInOrder(i)
    BY <1>2 DEF InOrder
  <2>2. i - 1 \in 0 .. n /\ At(i) - 1 \in Int /\ \A j \in 1 .. i - 1 : j \in 1 .. n
    BY <1>5
  <2>3. At(i) > 0 => Preceded(At(i) - 1, i - 1)'
    <3>1. PICK k \in Int, l \in 0 .. n : k = At(i) - 1 /\ k = At(i)' - 1 /\ l = i - 1
      BY <1>3, <2>2
    <3>2. At(i) > 0 => Preceded(k, l)
      BY <2>1, <3>1 DEF FrameInOrder
    <3>3. At(i) > 0 => Preceded(k, l)'
      BY <1>7, <3>2
    <3> QED
      BY <1>3, <3>1, <3>3
  <2>4. At(i) > 0 => s <= At(i) /\ At(i) < u
    BY <1>1, <1>5, <1>6, <2>1 DEF FrameInOrder
  <2>5. \A j \in 1 .. i - 1 : At(j)' = At(j)
    BY <1>3, <2>2
  <2>6. At(i)' = At(i) /\ net'[i] = net[i]
    BY <1>3
  <2>7. At(i) > 0 => \A j \in 1 .. i - 1 : At(j)' <= At(i)
    BY <2>1, <2>5 DEF FrameInOrder
  <2>8. OfOld(net[i].frame) => s = 0 /\ \A j \in 1 .. i - 1 : At(j)' = 0
    BY <1>1, <2>1, <2>5 DEF FrameInOrder
  <2> QED
    BY <1>1, <1>6, <2>3, <2>4, <2>6, <2>7, <2>8 DEF FrameInOrder
<1>9. ASSUME NEW j \in 1 .. m PROVE At(j)' \in Nat /\ (p > 0 => At(j)' <= p) /\ (t = 0 /\ p = 0 => At(j)' = 0)
  <2>1. CASE j \in 1 .. n
    <3>1. At(j) \in Nat /\ At(j)' = At(j)
      BY <1>3, <1>5, <2>1
    <3>2. At(j) > 0 => At(j) < t
      BY <1>2, <1>6, <2>1 DEF InOrder, FrameInOrder
    <3> QED
      BY <1>6, <3>1, <3>2
  <2>2. CASE j \in n + 1 .. m
    BY <1>4, <1>6, <2>2
  <2> QED
    BY <2>1, <2>2
<1>10. t > 0 => \A i \in n .. m : Preceded(t - 1, i)'
  <2>1. t > 0 => Preceded(t - 1, n)'
    BY <1>2, <1>6, <1>7 DEF InOrder
  <2> QED
    BY <2>1 DEF Preceded
<1>11. ASSUME NEW i \in n + 1 .. m PROVE FrameInOrder(i)'
  <2>1. At(i)' = p /\ net'[i].frame = f /\ i \in 1 .. m /\ i - 1 \in n .. m
    BY <1>4, <1>6
  <2>2. p > 0 => s <= p /\ p < u
    BY <1>1, <1>6 DEF InOrder
  <2>3. p > 0 => Preceded(p - 1, i - 1)'
    <3>1. CASE p = t
      BY <1>10, <2>1, <3>1
    <3>2. CASE p = 1
      BY <1>1, <3>2 DEF Preceded
    <3>3. CASE p = t - 1 /\ p > 1
      <4>1. Preceded(p, n)
        BY <1>2, <1>6, <3>3 DEF InOrder
      <4>2. CASE p <= s
        BY <1>1, <4>2 DEF Preceded
      <4>3. CASE \E j \in 1 .. n : At(j) = p
        <5>1. PICK j \in 1 .. n : At(j) = p
          BY <4>3
        <5>2. Preceded(p - 1, j - 1)
          BY <1>2, <3>3, <5>1 DEF InOrder, FrameInOrder
        <5>3. Preceded(p - 1, j - 1)'
          BY <1>7, <5>2
        <5>4. \A a \in 1 .. j - 1 : a \in 1 .. i - 1
          OBVIOUS
        <5> QED
          BY <5>3, <5>4 DEF Preceded
      <4> QED
        BY <1>1, <4>1, <4>2, <4>3 DEF Preceded
    <3> QED
      BY <1>6, <3>1, <3>2, <3>3
  <2>4. \A j \in 1 .. i - 1 : j \in 1 .. m
    BY <2>1
  <2>5. p > 0 => \A j \in 1 .. i - 1 : At(j)' <= p
    BY <1>9, <2>4
  <2>6. OfOld(f) => s = 0 /\ \A j \in 1 .. i - 1 : At(j)' = 0
    <3>1. OfOld(f) => p = 0 /\ t = 0
      BY <1>6, PlaceType
    <3> QED
      BY <1>1, <1>6, <1>9, <2>4, <3>1 DEF InOrder
  <2> QED
    BY <1>1, <1>6, <2>1, <2>2, <2>3, <2>5, <2>6 DEF FrameInOrder
<1>12. u > 0 => Preceded(u - 1, m)'
  <2>1. CASE u = t
    BY <1>2, <1>10, <2>1
  <2>2. CASE u = p + 1
    <3>1. At(m)' = p /\ m \in 1 .. m
      BY <1>2, <1>4, <1>6
    <3> QED
      BY <2>2, <3>1 DEF Preceded
  <2> QED
    BY <1>6, <2>1, <2>2
<1>13. \A i \in 1 .. m : FrameInOrder(i)'
  BY <1>8, <1>11
<1>14. s > 0 => s < u
  BY <1>1, <1>6 DEF InOrder
<1> QED
  BY <1>1, <1>2, <1>6, <1>12, <1>13, <1>14 DEF InOrder

-----------------------------------------------------------------------------
(***************************************************************************)
(* What the client reads.                                                  *)
(***************************************************************************)

\* A segment is read from the front.
LEMMA Reading ==
  ASSUME net \in Seq(Segment), net # <<>>, net' = Tail(net)
  PROVE  \E n \in Nat : /\ n + 1 = Len(net) /\ Len(net') = n /\ net' \in Seq(Segment)
                        /\ \A i \in 1 .. n : net'[i] = net[i + 1]
<1>1. /\ Len(net) \in Nat /\ Len(net) >= 1 /\ net' \in Seq(Segment)
      /\ Len(net') = Len(net) - 1 /\ \A i \in 1 .. Len(net) - 1 : net'[i] = net[i + 1]
  BY Shifting DEF Shifted
<1>2. PICK n \in Nat : n = Len(net) - 1 /\ n + 1 = Len(net)
  <2>1. Len(net) \in Nat /\ Len(net) >= 1
    BY <1>1
  <2>2. Len(net) - 1 \in Nat /\ (Len(net) - 1) + 1 = Len(net)
    BY <2>1
  <2> QED
    BY <2>2
<1>3. Len(net') = n /\ \A i \in 1 .. n : net'[i] = net[i + 1]
  BY <1>1, <1>2
<1> QED
  BY <1>1, <1>2, <1>3

LEMMA ReadPieces ==
  ASSUME Shapes, Pieces, net # <<>>, net' = Tail(net), half' = (net[1].piece = "head")
  PROVE  Pieces'
<1>1. PICK n \in Nat : n + 1 = Len(net) /\ Len(net') = n /\ \A i \in 1 .. n : net'[i] = net[i + 1]
  BY Reading DEF Shapes
<1>2. Len(net') = n /\ \A i \in 1 .. n : net'[i] = net[i + 1]
  BY <1>1
<1>3. \A i \in 1 .. n + 1 :
        /\ net[i].piece = "head" => i < n + 1 /\ net[i + 1] = Tail1(net[i].frame)
        /\ net[i].piece = "tail" /\ i > 1 => net[i - 1] = Head1(net[i].frame)
  BY <1>1 DEF Pieces, HeadsPaired
<1>4. ASSUME NEW i \in 1 .. n
      PROVE  /\ net'[i].piece = "head" => i < n /\ net'[i + 1] = Tail1(net'[i].frame)
             /\ net'[i].piece = "tail" /\ i > 1 => net'[i - 1] = Head1(net'[i].frame)
  <2>1. PICK j \in 1 .. n + 1 : j = i + 1 /\ net'[i] = net[j]
    BY <1>2
  <2>2. net[j].piece = "head" => j < n + 1 /\ net[j + 1] = Tail1(net[j].frame)
    BY <1>3
  <2>3. net[j].piece = "tail" /\ j > 1 => net[j - 1] = Head1(net[j].frame)
    BY <1>3
  <2>4. j < n + 1 => i < n /\ net'[i + 1] = net[j + 1]
    BY <1>2, <2>1
  <2>5. i > 1 => net'[i - 1] = net[j - 1] /\ j > 1
    <3>1. i > 1 => i - 1 \in 1 .. n /\ (i - 1) + 1 = j - 1
      BY <2>1
    <3> QED
      BY <1>2, <2>1, <3>1
  <2> QED
    BY <2>1, <2>2, <2>3, <2>4, <2>5
<1>5. 1 \in 1 .. n + 1 /\ (n > 0 => 2 \in 1 .. n + 1 /\ 1 \in 1 .. n /\ net'[1] = net[2])
  <2>1. n > 0 => 1 \in 1 .. n /\ 1 + 1 = 2
    OBVIOUS
  <2> QED
    BY <1>2, <2>1
<1>6. half' => n > 0 /\ net'[1].piece = "tail"
  <2>1. net[1].piece = "head" => 1 < n + 1 /\ net[2] = Tail1(net[1].frame)
    BY <1>3, <1>5
  <2>2. Tail1(net[1].frame).piece = "tail" /\ (half' <=> net[1].piece = "head")
    BY DEF Tail1
  <2>3. ASSUME net[1].piece = "head" PROVE n > 0 /\ net'[1].piece = "tail"
    <3>1. n > 0 /\ net[2] = Tail1(net[1].frame)
      BY <2>1, <2>3
    <3> QED
      BY <1>5, <2>2, <3>1
  <2> QED
    BY <2>2, <2>3
<1>7. n > 0 /\ net'[1].piece = "tail" => half'
  <2>1. n > 0 /\ net[2].piece = "tail" => net[1] = Head1(net[2].frame)
    BY <1>3, <1>5
  <2>2. Head1(net[2].frame).piece = "head" /\ (half' <=> net[1].piece = "head")
    BY DEF Head1
  <2> QED
    BY <1>5, <2>1, <2>2
<1> QED
  BY <1>2, <1>4, <1>6, <1>7 DEF Pieces, HeadsPaired

\* The first frame on its way is the next of the transfer or the last one again.
LEMMA Front ==
  ASSUME SessionAssumption, Shapes, InOrder, net # <<>>
  PROVE  /\ net[1] \in Segment /\ At(1) \in Nat /\ Seen \in Nat
         /\ At(1) > 0 => (At(1) = Seen \/ At(1) = Seen + 1) /\ At(1) < transfer
         /\ OfOld(net[1].frame) => Seen = 0
<1>1. 1 \in 1 .. Len(net) /\ Len(net) \in Nat
  BY Shifting DEF Shapes
<1>2. net[1] \in Segment /\ At(1) \in Nat /\ Seen \in Nat
  BY <1>1, AtType, SeenType DEF Shapes
<1>3. FrameInOrder(1)
  BY <1>1 DEF InOrder
<1>4. At(1) > 0 => At(1) - 1 <= Seen
  <2>1. At(1) > 0 => Preceded(At(1) - 1, 0)
    BY <1>3 DEF FrameInOrder
  <2> QED
    BY <2>1 DEF Preceded
<1> QED
  BY <1>2, <1>3, <1>4 DEF FrameInOrder

LEMMA ReadInOrder ==
  ASSUME SessionAssumption, Shapes, InOrder, net # <<>>, net' = Tail(net), UNCHANGED <<transfer, old>>,
         \/ At(1) = 0 /\ Seen' = Seen
         \/ At(1) > 0 /\ Seen' = At(1)
         \/ Len(net) > 1 /\ net[2].frame = net[1].frame /\ Seen' = Seen
  PROVE  InOrder'
<1>1. PICK n \in Nat : n + 1 = Len(net) /\ Len(net') = n /\ \A i \in 1 .. n : net'[i] = net[i + 1]
  BY Reading DEF Shapes
<1>2. Len(net') = n /\ \A i \in 1 .. n : net'[i] = net[i + 1] /\ At(i)' = At(i + 1)
  BY <1>1 DEF At
<1>3. PICK s \in Nat, r \in Nat, a \in Nat : s = Seen /\ r = Seen' /\ a = At(1) /\ r >= s
  BY Front, SeenType DEF InOrder
<1>4. PICK t \in Nat : t = transfer /\ t' = t
  BY SessionAssumption DEF Shapes, SessionAssumption
<1>5. \A i \in 1 .. n + 1 : At(i) \in Nat
  BY <1>1, AtType DEF Shapes
<1>6. a > 0 => (a = s \/ a = s + 1) /\ a < t
  BY <1>3, <1>4, Front
<1>7. ASSUME NEW k \in Nat, NEW i \in 1 .. n + 1, Preceded(k, i), i > 1 \/ k # a \/ a <= r
      PROVE  k <= r \/ \E j \in 1 .. i - 1 : At(j)' = k
  <2>1. CASE k <= s
    BY <1>3, <2>1
  <2>2. CASE ~(k <= s)
    <3>1. PICK j \in 1 .. i : At(j) = k
      BY <1>3, <1>7, <2>2 DEF Preceded
    <3>2. CASE j > 1
      <4>1. PICK l \in 1 .. n : l = j - 1 /\ l + 1 = j
        BY <3>1, <3>2
      <4>2. At(l)' = k /\ l \in 1 .. i - 1
        BY <1>2, <3>1, <4>1
      <4> QED
        BY <4>2
    <3>3. CASE j = 1
      <4>1. k = a /\ k > 0
        BY <1>3, <2>2, <3>1, <3>3
      <4>2. CASE a <= r
        BY <4>1, <4>2
      <4>3. CASE i > 1 /\ ~(a <= r)
        <5>1. n > 0 /\ net[2].frame = net[1].frame /\ 1 \in 1 .. n /\ 1 \in 1 .. i - 1
          BY <1>1, <1>3, <4>1, <4>3
        <5>2. At(1)' = At(2) /\ At(2) = a
          BY <1>2, <1>3, <5>1 DEF At
        <5> QED
          BY <4>1, <5>1, <5>2
      <4> QED
        BY <1>7, <4>1, <4>2, <4>3
    <3> QED
      BY <3>1, <3>2, <3>3
  <2> QED
    BY <2>1, <2>2
<1>8. ASSUME NEW i \in 1 .. n PROVE FrameInOrder(i)'
  <2>0. PICK h \in 2 .. n + 1 : h = i + 1 /\ At(h) = At(i)' /\ net'[i] = net[h]
    BY <1>2
  <2>1. PICK b \in Nat : h = i + 1 /\ b = At(h) /\ b = At(i)' /\ net'[i] = net[h]
    <3>1. At(h) \in Nat
      BY <1>5
    <3> QED
      BY <2>0, <3>1
  <2>2. /\ b > 0 => s <= b /\ b < t
        /\ b > 0 => Preceded(b - 1, i)
        /\ b > 0 => \A j \in 1 .. i : At(j) <= b
        /\ OfOld(net[h].frame) => s = 0 /\ \A j \in 1 .. i : At(j) = 0
    BY <1>1, <1>3, <1>4, <2>1 DEF InOrder, FrameInOrder
  <2>3. \A j \in 1 .. i - 1 : j + 1 \in 1 .. i /\ At(j)' = At(j + 1)
    BY <1>2
  <2>4. 1 \in 1 .. i
    OBVIOUS
  <2>5. b > 0 => r <= b
    BY <1>3, <2>2, <2>4
  <2>6. b > 0 => b - 1 <= r \/ \E j \in 1 .. i - 1 : At(j)' = b - 1
    <3>1. CASE b > 0 /\ (i > 1 \/ b - 1 # a \/ a <= r)
      <4>1. PICK k \in Nat : k = b - 1
        BY <3>1
      <4> QED
        BY <1>7, <2>2, <3>1, <4>1
    <3>2. CASE i = 1 /\ b = a + 1 /\ ~(a <= r)
      <4>1. Len(net) > 1 /\ net[2].frame = net[1].frame
        BY <1>3, <3>2
      <4>2. At(2) = At(1)
        BY <4>1 DEF At
      <4> QED
        BY <1>3, <2>1, <3>2, <4>2
    <3> QED
      BY <3>1, <3>2
  <2>7. b > 0 => \A j \in 1 .. i - 1 : At(j)' <= b
    BY <2>2, <2>3
  <2>8. OfOld(net[h].frame) => r = 0 /\ \A j \in 1 .. i - 1 : At(j)' = 0
    BY <1>3, <2>2, <2>3, <2>4
  <2>9. b - 1 <= r \/ (\E j \in 1 .. i - 1 : At(j)' = b - 1) => Preceded(At(i) - 1, i - 1)'
    BY <1>3, <2>1 DEF Preceded
  <2>10. b > 0 => b < t
    BY <2>2
  <2> QED
    BY <1>3, <1>4, <2>1, <2>5, <2>6, <2>7, <2>8, <2>9, <2>10 DEF FrameInOrder
<1>9. t > 0 => Preceded(t - 1, n)'
  <2>1. ASSUME t > 0 PROVE Preceded(t - 1, n + 1)
    BY <1>1, <1>4, <2>1 DEF InOrder
  <2>2. ASSUME t > 0 PROVE t - 1 <= r \/ \E j \in 1 .. n : At(j)' = t - 1
    <3>1. PICK k \in Nat : k = t - 1
      BY <2>2
    <3>2. n + 1 \in 1 .. n + 1 /\ (n + 1) - 1 = n
      OBVIOUS
    <3>3. n + 1 > 1 \/ k # a \/ a <= r
      BY <1>1, <1>3
    <3> QED
      BY <1>7, <2>1, <2>2, <3>1, <3>2, <3>3
  <2> QED
    BY <1>3, <1>4, <2>2 DEF Preceded
<1>10. r > 0 => r < t
  BY <1>3, <1>4, <1>6 DEF InOrder
<1> QED
  BY <1>1, <1>3, <1>4, <1>8, <1>9, <1>10 DEF InOrder

-----------------------------------------------------------------------------
(***************************************************************************)
(* The steps of the client.                                                *)
(***************************************************************************)

\* The number wanted is not that of the last chunk.
LEMMA WantedApart ==
  ASSUME NEW N \in Nat, N > 2, NEW n \in Nat
  PROVE  n % N # ((n % N) + N - 1) % N
<1>1. CASE n > 0
  <2>1. PICK m \in Nat : m = n - 1 /\ n = m + 1
    BY <1>1
  <2>2. (((m + 1) % N) + N - 1) % N = m % N /\ (m + 1) % N # m % N
    BY Numbers
  <2> QED
    BY <2>1, <2>2
<1>2. CASE n = 0
  <2>1. 0 % N = 0 /\ (0 + N - 1) % N = N - 1
    OBVIOUS
  <2> QED
    BY <1>2, <2>1
<1> QED
  BY <1>1, <1>2

LEMMA AskedBank ==
  ASSUME Shapes, AskedOnce, phase = "identity", phase' = "bank", asked' = Append(asked, "bank"),
         transfer' = transfer
  PROVE  AskedOnce' /\ asked' \in Seq({"identity", "bank", "map"})
<1>1. PICK n \in Nat : n = Len(asked)
  BY LenProperties DEF Shapes
<1>2. /\ asked' \in Seq({"identity", "bank", "map"}) /\ Len(asked') = n + 1
      /\ asked'[n + 1] = "bank" /\ \A i \in 1 .. n : asked'[i] = asked[i]
  BY <1>1, Appending DEF Shapes
<1>3. \A i \in 1 .. n : asked[i] # "map"
  BY <1>1 DEF AskedOnce
<1>4. \A i \in 1 .. n + 1 : asked'[i] # "map"
  BY <1>2, <1>3
<1> QED
  BY <1>2, <1>4 DEF AskedOnce

LEMMA AskedMap ==
  ASSUME Shapes, AskedOnce, phase = "bank", phase' = "map", asked' = Append(asked, "map"),
         transfer' = transfer
  PROVE  AskedOnce' /\ asked' \in Seq({"identity", "bank", "map"})
<1>1. PICK n \in Nat : n = Len(asked)
  BY LenProperties DEF Shapes
<1>2. /\ asked' \in Seq({"identity", "bank", "map"}) /\ Len(asked') = n + 1
      /\ asked'[n + 1] = "map" /\ \A i \in 1 .. n : asked'[i] = asked[i]
  BY <1>1, Appending DEF Shapes
<1>3. \A i \in 1 .. n : asked[i] # "map"
  BY <1>1 DEF AskedOnce
<1>4. \A i \in 1 .. n + 1 : asked'[i] = "map" => i = n + 1
  BY <1>2, <1>3
<1>5. transfer = 0
  BY DEF AskedOnce
<1> QED
  BY <1>2, <1>4, <1>5 DEF AskedOnce

\* Before the map is asked for, no frame of the transfer is on the wire.
LEMMA NotYet ==
  ASSUME SessionAssumption, IInv, phase \in {"identity", "bank"}, net # <<>>
  PROVE  At(1) = 0
<1>1. transfer = 0 /\ Shapes /\ InOrder
  BY DEF IInv, AskedOnce
<1>2. At(1) \in Nat /\ (At(1) > 0 => At(1) < transfer)
  BY <1>1, Front
<1> QED
  BY <1>1, <1>2

\* A read that fails.
LEMMA FailedStep ==
  ASSUME SessionAssumption, IInv, Failed, UNCHANGED matrix,
         net' = net \/ (net # <<>> /\ net' = Tail(net) /\ net[1].piece # "head")
  PROVE  IInv'
<1>1. /\ Shapes /\ AskedOnce /\ half' = FALSE /\ phase # "done" /\ outcome = "none"
      /\ UNCHANGED <<sawSize, wantSeq, data, transfer, old>> /\ Pieces /\ InOrder /\ Beginning
  BY DEF IInv, Failed, matrix, Shapes
<1>2. net' \in Seq(Segment)
  BY <1>1, Shifting DEF Shapes
<1>3. CASE phase = "identity" /\ AskBank
  <2>1. phase' = "bank" /\ asked' = Append(asked, "bank") /\ outcome' = outcome
    BY <1>3 DEF AskBank
  <2>2. AskedOnce' /\ asked' \in Seq({"identity", "bank", "map"})
    BY <1>1, <1>3, <2>1, AskedBank
  <2>3. Shapes'
    BY <1>1, <1>2, <2>1, <2>2 DEF Shapes
  <2>4. CASE net' = net
    <3>1. Pieces'
      BY <1>1, <2>1, <2>4 DEF Pieces, HeadsPaired
    <3>2. InOrder'
      BY <1>1, <2>4 DEF InOrder, FrameInOrder, Preceded, Seen, At
    <3> QED
      BY <1>1, <2>1, <2>2, <2>3, <3>1, <3>2 DEF IInv, Beginning
  <2>5. CASE net # <<>> /\ net' = Tail(net) /\ net[1].piece # "head"
    <3>1. Pieces'
      BY <1>1, <2>5, ReadPieces
    <3>2. At(1) = 0 /\ Seen' = Seen
      BY <1>1, <1>3, <2>5, NotYet DEF Seen
    <3>3. InOrder'
      BY <1>1, <2>5, <3>2, ReadInOrder
    <3> QED
      BY <1>1, <2>1, <2>2, <2>3, <3>1, <3>3 DEF IInv, Beginning
  <2> QED
    BY <2>4, <2>5
<1>4. CASE Finish("error") /\ UNCHANGED asked
  BY <1>1, <1>2, <1>4 DEF Finish, IInv, Shapes, AskedOnce
<1> QED
  BY <1>3, <1>4 DEF Failed

\* A segment that changes nothing the client keeps, or a frame before the map.
LEMMA UnusedStep ==
  ASSUME SessionAssumption, IInv, phase # "done", net # <<>>, net' = Tail(net), UNCHANGED matrix,
         UNCHANGED <<sawSize, wantSeq, data>>, half' = (net[1].piece = "head"),
         \/ At(1) = 0 \/ At(1) = Seen
         \/ Len(net) > 1 /\ net[2].frame = net[1].frame,
         \/ UNCHANGED <<phase, outcome, asked>>
         \/ phase = "identity" /\ AskBank
         \/ phase = "bank" /\ AskMap
  PROVE  IInv'
<1>1. /\ Shapes /\ AskedOnce /\ outcome = "none" /\ UNCHANGED <<transfer, old>>
      /\ Pieces /\ InOrder /\ Beginning
  BY DEF IInv, matrix, Shapes
<1>2. net' \in Seq(Segment) /\ half' \in BOOLEAN
  BY <1>1, Shifting DEF Shapes
<1>3. Pieces'
  BY <1>1, ReadPieces
<1>4. Seen' = Seen /\ At(1) \in Nat
  BY <1>1, Front DEF Seen
<1>5. InOrder'
  BY <1>1, <1>4, ReadInOrder
<1>6. Beginning'
  BY <1>1 DEF Beginning
<1>7. CASE UNCHANGED <<phase, outcome, asked>>
  BY <1>1, <1>2, <1>3, <1>5, <1>6, <1>7 DEF IInv, Shapes, AskedOnce
<1>8. CASE phase = "identity" /\ AskBank
  <2>1. AskedOnce' /\ asked' \in Seq({"identity", "bank", "map"})
    BY <1>1, <1>8, AskedBank DEF AskBank
  <2> QED
    BY <1>1, <1>2, <1>3, <1>5, <1>6, <1>8, <2>1 DEF AskBank, IInv, Shapes
<1>9. CASE phase = "bank" /\ AskMap
  <2>1. AskedOnce' /\ asked' \in Seq({"identity", "bank", "map"})
    BY <1>1, <1>9, AskedMap DEF AskMap
  <2> QED
    BY <1>1, <1>2, <1>3, <1>5, <1>6, <1>9, <2>1 DEF AskMap, IInv, Shapes
<1> QED
  BY <1>7, <1>8, <1>9

\* A frame that has arrived in full.
Arrived == net[1].piece = "whole" \/ (net[1].piece = "tail" /\ half)

\* Frames of the transfer, as the client knows them when they come.
LEMMA FrameOfPlace ==
  ASSUME SessionAssumption, NEW f \in FrameOnWire
  PROVE  /\ f.kind = "size" => Place(f) = 1
         /\ f.kind = "end" /\ ~OfOld(f) => Place(f) = Chunks + 2
         /\ f.kind = "chunk" /\ ~OfOld(f) =>
              /\ f.chunk \in 0 .. Chunks - 1 /\ f.seq = f.chunk % SeqSpace
              /\ Place(f) = f.chunk + 2
         /\ f.kind \notin {"size", "chunk", "end"} => Place(f) = 0
<1>1. Chunks \in Nat /\ f.chunk \in 0 .. Chunks + 1
  BY DEF SessionAssumption, FrameOnWire, OldChunk
<1>2. (f.kind = "size" => ~OfOld(f)) /\ (f.kind = "chunk" /\ ~OfOld(f) => f.chunk < Chunks /\ f.seq = f.chunk % SeqSpace)
  BY DEF FrameOnWire
<1> QED
  BY <1>1, <1>2 DEF Place

\* The size: the transfer starts, or starts again.
LEMMA SizeStep ==
  ASSUME SessionAssumption, IInv, phase = "map", net # <<>>, net' = Tail(net), UNCHANGED matrix,
         net[1].frame.kind = "size", TakeSize, half' = (net[1].piece = "head"), UNCHANGED asked
  PROVE  IInv'
<1>1. /\ Shapes /\ AskedOnce /\ outcome = "none" /\ UNCHANGED <<transfer, old, phase, outcome>>
      /\ Pieces /\ InOrder /\ Beginning
  BY DEF IInv, matrix, Shapes, TakeSize
<1>2. net' \in Seq(Segment) /\ half' \in BOOLEAN
  BY <1>1, Shifting DEF Shapes
<1>3. net[1] \in Segment
  BY <1>1, Front
<1>4. At(1) = 1
  BY <1>3, FrameOfPlace DEF At, Segment
<1>5. data' = <<>> /\ data' \in Seq(0 .. Chunks - 1) /\ Len(data') = 0 /\ sawSize' = TRUE /\ wantSeq' = 0
  BY EmptySeq DEF TakeSize
<1>6. Seen' = At(1) /\ At(1) > 0
  BY <1>4, <1>5 DEF Seen
<1>7. InOrder'
  BY <1>1, <1>6, ReadInOrder
<1>8. Pieces'
  BY <1>1, ReadPieces
<1>9. 0 % SeqSpace = 0 /\ 0 \in 0 .. SeqSpace - 1 /\ Chunks >= 0
  BY DEF SessionAssumption
<1>10. Beginning'
  BY <1>5, <1>9 DEF Beginning
<1>11. Shapes' /\ AskedOnce'
  BY <1>1, <1>2, <1>5, <1>9 DEF Shapes, AskedOnce
<1> QED
  BY <1>1, <1>7, <1>8, <1>10, <1>11 DEF IInv

\* A chunk: the wanted one is the next, any other is a repetition or not of this transfer.
LEMMA ChunkStep ==
  ASSUME SessionAssumption, IInv, phase = "map", net # <<>>, net' = Tail(net), UNCHANGED matrix,
         net[1].frame.kind = "chunk", TakeChunk(net[1].frame), half' = (net[1].piece = "head"),
         UNCHANGED asked
  PROVE  IInv'
<1>1. /\ Shapes /\ AskedOnce /\ outcome = "none" /\ UNCHANGED <<transfer, old, sawSize>>
      /\ Pieces /\ InOrder /\ Beginning
  BY DEF IInv, matrix, Shapes, TakeChunk
<1>2. net' \in Seq(Segment) /\ half' \in BOOLEAN
  BY <1>1, Shifting DEF Shapes
<1>3. PICK f \in FrameOnWire : f = net[1].frame /\ f.kind = "chunk" /\ At(1) = Place(f)
  BY <1>1, Front DEF At, Segment
<1>4. PICK d \in Nat : d = Len(data)
  BY <1>1, LenProperties DEF Shapes
<1>5. PICK N \in Nat : N = SeqSpace /\ N > 2
  BY DEF SessionAssumption
<1>6. At(1) \in Nat /\ (At(1) > 0 => At(1) = Seen \/ At(1) = Seen + 1) /\ (OfOld(f) => Seen = 0)
  BY <1>1, <1>3, Front
<1>7. CASE ~sawSize
  <2>1. Seen = 0
    BY <1>7 DEF Seen
  <2>2. At(1) = 0
    <3>1. CASE OfOld(f)
      BY <1>3, <3>1, PlaceType
    <3>2. CASE ~OfOld(f)
      BY <1>3, <1>6, <2>1, <3>2, FrameOfPlace
    <3> QED
      BY <3>1, <3>2
  <2>3. UNCHANGED <<sawSize, wantSeq, data>> /\ UNCHANGED <<phase, outcome, asked>>
    BY <1>7 DEF TakeChunk
  <2> QED
    BY <2>2, <2>3, UnusedStep
<1>8. CASE sawSize
  <2>1. Seen = d + 1 /\ wantSeq = d % N
    BY <1>1, <1>4, <1>5, <1>8 DEF Seen, Beginning
  <2>2. PICK c \in Nat : c = f.chunk /\ f.seq = c % N /\ At(1) = c + 2 /\ c < Chunks /\ c \in 0 .. Chunks - 1
    <3>1. ~OfOld(f)
      BY <1>6, <2>1
    <3>2. f.chunk \in 0 .. Chunks - 1 /\ f.seq = f.chunk % SeqSpace /\ Place(f) = f.chunk + 2
      BY <1>3, <3>1, FrameOfPlace
    <3>3. Chunks \in Nat
      BY DEF SessionAssumption
    <3> QED
      BY <1>3, <1>5, <3>2, <3>3
  <2>3. c = d \/ c + 1 = d
    <3>1. At(1) = Seen \/ At(1) = Seen + 1
      BY <1>6, <2>2
    <3>2. c + 2 = d + 1 \/ c + 2 = d + 2
      BY <2>1, <2>2, <3>1
    <3> QED
      BY <3>2
  <2>4. CASE f.seq = (wantSeq + SeqSpace - 1) % SeqSpace
    <3>1. c # d
      BY <1>5, <2>1, <2>2, <2>4, WantedApart
    <3>2. At(1) = Seen
      BY <2>1, <2>2, <2>3, <3>1
    <3>3. UNCHANGED <<sawSize, wantSeq, data>> /\ UNCHANGED <<phase, outcome, asked>>
      BY <1>3, <2>4 DEF TakeChunk
    <3> QED
      BY <3>2, <3>3, UnusedStep
  <2>5. CASE f.seq # (wantSeq + SeqSpace - 1) % SeqSpace /\ f.seq = wantSeq
    <3>1. data' = Append(data, c) /\ wantSeq' = (wantSeq + 1) % SeqSpace /\ UNCHANGED <<phase, outcome>>
      BY <1>3, <1>8, <2>2, <2>5 DEF TakeChunk
    <3>2. c = d
      <4>1. c + 1 = d => (c + 1) % N # c % N
        BY <1>5, Numbers
      <4> QED
        BY <2>1, <2>2, <2>3, <2>5, <4>1
    <3>3. /\ data' \in Seq(0 .. Chunks - 1) /\ Len(data') = d + 1 /\ data'[d + 1] = c
          /\ \A i \in 1 .. d : data'[i] = data[i]
      BY <1>1, <1>4, <2>2, <3>1, Appending DEF Shapes
    <3>4. Seen' = At(1) /\ At(1) > 0
      BY <1>1, <1>8, <2>2, <3>2, <3>3 DEF Seen
    <3>5. InOrder'
      BY <1>1, <3>4, ReadInOrder
    <3>6. Pieces'
      BY <1>1, ReadPieces
    <3>7. wantSeq' = (d + 1) % SeqSpace /\ wantSeq' \in 0 .. SeqSpace - 1
      <4>1. (d + 1) % N = ((d % N) + 1) % N
        BY <1>5, Numbers
      <4>2. (d + 1) % SeqSpace \in 0 .. SeqSpace - 1
        BY Remainder
      <4> QED
        BY <1>5, <2>1, <3>1, <4>1, <4>2
    <3>8. \A k \in 1 .. d + 1 : data'[k] = k - 1
      <4>1. \A k \in 1 .. d : data[k] = k - 1
        BY <1>1, <1>4 DEF Beginning
      <4> QED
        BY <3>2, <3>3, <4>1
    <3>9. d + 1 <= Chunks
      BY <2>2, <3>2 DEF SessionAssumption
    <3>10. Beginning'
      BY <3>3, <3>7, <3>8 DEF Beginning
    <3>11. Shapes' /\ AskedOnce'
      BY <1>1, <1>2, <3>1, <3>3, <3>7, <3>9 DEF Shapes, AskedOnce
    <3> QED
      BY <1>1, <3>1, <3>5, <3>6, <3>10, <3>11 DEF IInv
  <2>6. CASE f.seq # (wantSeq + SeqSpace - 1) % SeqSpace /\ f.seq # wantSeq
    <3>1. Finish("error") /\ UNCHANGED <<data, wantSeq>>
      BY <1>3, <1>8, <2>6 DEF TakeChunk
    <3> QED
      BY <1>1, <1>2, <3>1 DEF Finish, IInv, Shapes, AskedOnce
  <2> QED
    BY <2>4, <2>5, <2>6
<1> QED
  BY <1>1, <1>7, <1>8 DEF Shapes

\* The end: everything has come before it.
LEMMA EndStep ==
  ASSUME SessionAssumption, IInv, phase = "map", net # <<>>, net' = Tail(net), UNCHANGED matrix,
         net[1].frame.kind = "end", TakeEnd, half' = (net[1].piece = "head"), UNCHANGED asked
  PROVE  IInv'
<1>1. /\ Shapes /\ AskedOnce /\ outcome = "none" /\ UNCHANGED <<transfer, old, sawSize, wantSeq, data>>
      /\ Pieces /\ InOrder /\ Beginning
  BY DEF IInv, matrix, Shapes, TakeEnd
<1>2. net' \in Seq(Segment) /\ half' \in BOOLEAN
  BY <1>1, Shifting DEF Shapes
<1>3. PICK f \in FrameOnWire : f = net[1].frame /\ f.kind = "end" /\ At(1) = Place(f)
  BY <1>1, Front DEF At, Segment
<1>4. PICK d \in Nat : d = Len(data) /\ d <= Chunks
  BY <1>1, LenProperties DEF Shapes, Beginning
<1>5. At(1) \in Nat /\ (At(1) > 0 => At(1) = Seen \/ At(1) = Seen + 1) /\ (OfOld(f) => Seen = 0)
  BY <1>1, <1>3, Front
<1>6. Chunks \in Nat /\ Chunks > 0
  BY DEF SessionAssumption
<1>7. CASE ~sawSize
  <2>1. Seen = 0
    BY <1>7 DEF Seen
  <2>2. At(1) = 0
    <3>1. CASE OfOld(f)
      BY <1>3, <3>1, PlaceType
    <3>2. CASE ~OfOld(f)
      BY <1>3, <1>5, <1>6, <2>1, <3>2, FrameOfPlace
    <3> QED
      BY <3>1, <3>2
  <2>3. UNCHANGED <<phase, outcome, asked>>
    BY <1>7 DEF TakeEnd
  <2> QED
    BY <1>1, <2>2, <2>3, UnusedStep
<1>8. CASE sawSize
  <2>1. Seen = d + 1
    BY <1>4, <1>8 DEF Seen
  <2>2. ~OfOld(f)
    BY <1>5, <2>1
  <2>3. At(1) = Chunks + 2
    BY <1>3, <2>2, FrameOfPlace
  <2>4. d = Chunks
    BY <1>4, <1>5, <1>6, <2>1, <2>3
  <2>5. data = CurrentMap
    <3>1. data = [k \in 1 .. d |-> data[k]]
      BY <1>1, <1>4, LenProperties DEF Shapes
    <3>2. \A k \in 1 .. d : data[k] = k - 1
      BY <1>1, <1>4 DEF Beginning
    <3> QED
      BY <2>4, <3>1, <3>2 DEF CurrentMap
  <2>6. phase' = "done" /\ outcome' = "map"
    BY <1>8 DEF TakeEnd, Finish
  <2>7. CurrentMap' = CurrentMap
    BY DEF CurrentMap
  <2> QED
    BY <1>1, <1>2, <2>5, <2>6, <2>7 DEF IInv, Shapes, AskedOnce
<1> QED
  BY <1>1, <1>7, <1>8 DEF Shapes

LEMMA ProcessStep ==
  ASSUME SessionAssumption, IInv, phase # "done", net # <<>>, net' = Tail(net), UNCHANGED matrix,
         Arrived, Process(net[1].frame)
  PROVE  IInv'
<1>1. half' = FALSE /\ net[1].piece # "head" /\ half' = (net[1].piece = "head")
  BY DEF Process, Arrived
<1>2. net[1] \in Segment /\ net[1].frame \in FrameOnWire
  BY Front DEF IInv, Segment
<1>3. CASE phase = "identity" /\ UNCHANGED <<sawSize, wantSeq, data>> /\ (AskBank \/ UNCHANGED <<phase, outcome, asked>>)
  BY <1>1, <1>3, NotYet, UnusedStep
<1>4. CASE phase = "bank" /\ UNCHANGED <<sawSize, wantSeq, data>> /\ (AskMap \/ UNCHANGED <<phase, outcome, asked>>)
  BY <1>1, <1>4, NotYet, UnusedStep
<1>5. CASE phase = "bank" /\ UNCHANGED <<sawSize, wantSeq, data>> /\ Finish("error") /\ UNCHANGED asked
  <2>1. Failed
    BY <1>1, <1>5 DEF Failed
  <2> QED
    BY <1>1, <2>1, FailedStep
<1>6. CASE phase = "map" /\ UNCHANGED asked
  <2>1. CASE net[1].frame.kind = "size" /\ TakeSize
    BY <1>1, <1>6, <2>1, SizeStep
  <2>2. CASE net[1].frame.kind = "chunk" /\ TakeChunk(net[1].frame)
    BY <1>1, <1>6, <2>2, ChunkStep
  <2>3. CASE net[1].frame.kind = "end" /\ TakeEnd
    BY <1>1, <1>6, <2>3, EndStep
  <2>4. CASE /\ net[1].frame.kind \notin {"size", "chunk", "end"}
             /\ UNCHANGED <<phase, outcome, sawSize, wantSeq, data>>
    <3>1. At(1) = 0
      BY <1>2, <2>4, FrameOfPlace DEF At
    <3> QED
      BY <1>1, <1>6, <2>4, <3>1, UnusedStep
  <2> QED
    BY <1>6, <2>1, <2>2, <2>3, <2>4 DEF Process
<1> QED
  BY <1>3, <1>4, <1>5, <1>6 DEF Process

LEMMA ReadStep ==
  ASSUME SessionAssumption, IInv, Read
  PROVE  IInv'
<1>1. /\ phase # "done" /\ net # <<>> /\ net' = Tail(net) /\ UNCHANGED matrix
      /\ net[1] \in Segment /\ Head(net) = net[1] /\ Shapes /\ Pieces /\ InOrder
  BY Shifting DEF Read, IInv, Shapes
<1>2. CASE Arrived /\ Process(net[1].frame)
  BY <1>1, <1>2, ProcessStep
<1>3. CASE net[1].piece = "head" /\ half' = TRUE /\ UNCHANGED <<phase, sawSize, wantSeq, data, outcome, awaited, asked>>
  <2>1. Len(net) > 1 /\ net[2] = Tail1(net[1].frame)
    <3>1. 1 \in 1 .. Len(net) /\ Len(net) \in Nat
      BY <1>1, Shifting DEF Shapes
    <3> QED
      BY <1>1, <1>3, <3>1 DEF Pieces, HeadsPaired
  <2>2. net[2].frame = net[1].frame
    BY <2>1 DEF Tail1
  <2> QED
    BY <1>1, <1>3, <2>1, <2>2, UnusedStep
<1>4. CASE (net[1].piece = "bad" \/ (net[1].piece = "tail" /\ ~half)) /\ Failed
  BY <1>1, <1>4, FailedStep
<1>5. CASE net[1].piece = "tail" /\ ~half /\ UNCHANGED <<client, awaited, asked>>
  <2>1. phase # "map"
    <3>1. Len(net) > 0
      BY <1>1, Shifting DEF Shapes
    <3> QED
      BY <1>1, <1>5, <3>1 DEF Pieces
  <2>2. At(1) = 0
    BY <1>1, <2>1, NotYet DEF Shapes
  <2>3. half' = (net[1].piece = "head")
    BY <1>1, <1>5 DEF client, Shapes
  <2> QED
    BY <1>1, <1>5, <2>2, <2>3, UnusedStep DEF client
<1> QED
  BY <1>1, <1>2, <1>3, <1>4, <1>5 DEF Read, Arrived

-----------------------------------------------------------------------------
(***************************************************************************)
(* The steps of the matrix.                                                *)
(***************************************************************************)

\* Something is put on the wire.
LEMMA SendStep ==
  ASSUME SessionAssumption, IInv, UNCHANGED client, NEW f \in FrameOnWire,
         Send(f) \/ (f = Simple("other") /\ net' \in {Append(net, Bad), Append(net, Whole(f))}),
         asked' \in Seq({"identity", "bank", "map"}), AskedOnce',
         transfer' \in {0} \union (2 .. Chunks + 3), old' \in 1 .. Chunks + 2, transfer' >= transfer,
         \/ Place(f) = 0 /\ transfer' = transfer
         \/ Place(f) = transfer' - 1 /\ transfer' >= 2 /\ (transfer' = transfer \/ transfer' = transfer + 1)
         \/ Place(f) = 1 /\ transfer = 0 /\ transfer' = 2,
         OfOld(f) => transfer = 0
  PROVE  IInv'
<1>1. Shapes /\ UNCHANGED <<phase, sawSize, wantSeq, data, half, outcome>>
  BY DEF IInv, client
<1>2. Sent(f)
  BY <1>1, Sending DEF Shapes
<1>3. Shapes'
  BY <1>1, <1>2 DEF Shapes, Sent
<1>4. ASSUME phase # "done" PROVE Pieces' /\ InOrder' /\ Beginning'
  <2>1. Pieces /\ InOrder /\ Beginning
    BY <1>4 DEF IInv
  <2>2. Pieces'
    BY <1>1, <1>2, <2>1, SentPieces
  <2>3. transfer' \in Nat
    BY DEF SessionAssumption
  <2>4. InOrder'
    BY <1>1, <1>2, <2>1, <2>3, SentInOrder
  <2>5. Beginning'
    BY <1>1, <2>1 DEF Beginning
  <2> QED
    BY <2>2, <2>4, <2>5
<1>5. outcome' = "map" => data' = CurrentMap'
  BY <1>1 DEF IInv, CurrentMap
<1> QED
  BY <1>1, <1>3, <1>4, <1>5 DEF IInv

LEMMA ReplyStep ==
  ASSUME SessionAssumption, IInv, Reply
  PROVE  IInv'
<1>1. /\ Shapes /\ AskedOnce /\ UNCHANGED client /\ asked # <<>> /\ asked' = Tail(asked)
  BY DEF Reply, IInv
<1>2. PICK n \in Nat : n = Len(asked) /\ n >= 1
  BY <1>1, Shifting DEF Shapes
<1>3. /\ asked' \in Seq({"identity", "bank", "map"}) /\ Len(asked') = n - 1
      /\ \A i \in 1 .. n - 1 : asked'[i] = asked[i + 1]
      /\ Head(asked) = asked[1] /\ asked[1] \in {"identity", "bank", "map"}
  BY <1>1, <1>2, Shifting DEF Shapes, Shifted
<1>4. \A i \in 1 .. n - 1 : i + 1 \in 1 .. n /\ i + 1 # 1
  OBVIOUS
<1>5. \A i, j \in 1 .. n : asked[i] = "map" /\ asked[j] = "map" => i = j
  BY <1>1, <1>2 DEF AskedOnce
<1>6. \A i, j \in 1 .. n - 1 : asked'[i] = "map" /\ asked'[j] = "map" => i = j
  <2>1. ASSUME NEW i \in 1 .. n - 1, NEW j \in 1 .. n - 1, asked'[i] = "map", asked'[j] = "map"
        PROVE  i + 1 = j + 1
    BY <1>3, <1>4, <1>5, <2>1
  <2> QED
    BY <2>1
<1>7. \A i \in 1 .. n - 1 : asked[1] = "map" => asked'[i] # "map"
  <2>1. 1 \in 1 .. n
    BY <1>2
  <2> QED
    BY <1>3, <1>4, <1>5, <2>1
<1>8. Chunks \in Nat /\ Chunks > 0
  BY DEF SessionAssumption
<1>9. CASE asked[1] = "map"
  <2>1. Send(Current(1)) /\ transfer' = 2 /\ old' = Chunks + 2
    BY <1>3, <1>9 DEF Reply
  <2>2. phase \notin {"identity", "bank"} /\ transfer = 0
    <3>1. 1 \in 1 .. n
      BY <1>2
    <3> QED
      BY <1>1, <1>2, <1>9, <3>1 DEF AskedOnce, Shapes
  <2>3. AskedOnce'
    BY <1>1, <1>3, <1>6, <1>7, <1>9, <2>1, <2>2 DEF AskedOnce, client
  <2>4. Current(1) \in FrameOnWire /\ Place(Current(1)) = 1 /\ ~OfOld(Current(1))
    BY <1>8, CurrentPlace
  <2>5. 2 \in {0} \union (2 .. Chunks + 3) /\ Chunks + 2 \in 1 .. Chunks + 2 /\ 2 >= 0
    BY <1>8
  <2> QED
    BY <1>1, <1>3, <2>1, <2>2, <2>3, <2>4, <2>5, SendStep
<1>10. CASE asked[1] # "map"
  <2>1. PICK k \in {"identity", "bank", "no_bank"} : Send(Simple(k)) /\ UNCHANGED <<transfer, old>>
    BY <1>3, <1>10 DEF Reply
  <2>2. ASSUME \A i \in 1 .. n : asked[i] # "map"
        PROVE  \A i \in 1 .. n - 1 : asked'[i] # "map"
    BY <1>3, <1>4, <2>2
  <2>3. AskedOnce'
    BY <1>1, <1>2, <1>3, <1>6, <2>1, <2>2 DEF AskedOnce, client
  <2>4. Simple(k) \in FrameOnWire /\ Place(Simple(k)) = 0 /\ ~OfOld(Simple(k))
    BY SimplePlace
  <2>5. transfer' \in {0} \union (2 .. Chunks + 3) /\ old' \in 1 .. Chunks + 2 /\ transfer' >= transfer
    BY <1>1, <1>8, <2>1 DEF Shapes
  <2> QED
    BY <1>1, <1>3, <2>1, <2>3, <2>4, <2>5, SendStep
<1> QED
  BY <1>9, <1>10

LEMMA ContinueStep ==
  ASSUME SessionAssumption, IInv, Continue
  PROVE  IInv'
<1>1. /\ Shapes /\ AskedOnce /\ UNCHANGED <<client, asked, old>>
      /\ transfer \in 2 .. Chunks + 2 /\ transfer' = transfer + 1 /\ Send(Current(transfer))
  BY DEF Continue, IInv
<1>2. Chunks \in Nat
  BY DEF SessionAssumption
<1>3. PICK f \in FrameOnWire : f = Current(transfer) /\ Place(f) = transfer /\ ~OfOld(f)
  BY <1>1, <1>2, CurrentPlace
<1>4. /\ transfer' \in {0} \union (2 .. Chunks + 3) /\ transfer' >= transfer
      /\ transfer' >= 2 /\ transfer' - 1 = transfer
  BY <1>1, <1>2
<1>5. AskedOnce' /\ asked' \in Seq({"identity", "bank", "map"}) /\ old' \in 1 .. Chunks + 2
  BY <1>1, <1>2 DEF AskedOnce, client, Shapes
<1> QED
  BY <1>1, <1>3, <1>4, <1>5, SendStep

LEMMA RepeatStep ==
  ASSUME SessionAssumption, IInv, Repeat
  PROVE  IInv'
<1>1. /\ Shapes /\ AskedOnce /\ UNCHANGED <<client, asked, old, transfer>>
      /\ transfer > 1 /\ Send(Current(transfer - 1))
  BY DEF Repeat, IInv
<1>2. Chunks \in Nat
  BY DEF SessionAssumption
<1>3. transfer \in 2 .. Chunks + 3 /\ transfer - 1 \in 1 .. Chunks + 2 /\ transfer >= transfer
  BY <1>1, <1>2 DEF Shapes
<1>4. PICK f \in FrameOnWire : f = Current(transfer - 1) /\ Place(f) = transfer - 1 /\ ~OfOld(f)
  BY <1>3, CurrentPlace
<1>5. AskedOnce' /\ asked' \in Seq({"identity", "bank", "map"}) /\ old' \in 1 .. Chunks + 2
  BY <1>1 DEF AskedOnce, client, Shapes
<1> QED
  BY <1>1, <1>3, <1>4, <1>5, SendStep

LEMMA ContinueOldStep ==
  ASSUME SessionAssumption, IInv, ContinueOld
  PROVE  IInv'
<1>1. /\ Shapes /\ AskedOnce /\ UNCHANGED <<client, asked, transfer>>
      /\ old <= Chunks + 1 /\ old' = old + 1
      /\ Send(IF old = Chunks + 1 THEN Frame("end", 0, OldChunk) ELSE Frame("chunk", old % SeqSpace, OldChunk))
  BY DEF ContinueOld, IInv
<1>2. Chunks \in Nat /\ old \in Nat /\ 0 \in 0 .. SeqSpace - 1
  BY <1>1 DEF SessionAssumption, Shapes
<1>3. old % SeqSpace \in 0 .. SeqSpace - 1
  BY <1>2, Remainder
<1>4. PICK f \in FrameOnWire : Send(f) /\ OfOld(f) /\ Place(f) = 0
  <2>1. PICK f \in FrameOnWire : Send(f) /\ OfOld(f)
    BY <1>1, <1>2, <1>3, OldPlace
  <2> QED
    BY <2>1, PlaceType
<1>5. transfer = 0
  BY <1>1, <1>2 DEF AskedOnce, Shapes
<1>6. AskedOnce' /\ asked' \in Seq({"identity", "bank", "map"}) /\ old' \in 1 .. Chunks + 2
  BY <1>1, <1>2, <1>5 DEF AskedOnce, client, Shapes
<1>7. transfer' \in {0} \union (2 .. Chunks + 3) /\ transfer' >= transfer
  BY <1>1, <1>5
<1> QED
  BY <1>1, <1>4, <1>5, <1>6, <1>7, SendStep

LEMMA GarbleStep ==
  ASSUME SessionAssumption, IInv, Garble
  PROVE  IInv'
<1>1. Shapes /\ AskedOnce /\ UNCHANGED <<client, asked, transfer, old>> /\ net' = Append(net, Bad)
  BY DEF Garble, IInv
<1>2. PICK f \in FrameOnWire : f = Simple("other") /\ Place(f) = 0 /\ ~OfOld(f)
  BY SimplePlace
<1>3. AskedOnce' /\ asked' \in Seq({"identity", "bank", "map"}) /\ old' \in 1 .. Chunks + 2
  BY <1>1 DEF AskedOnce, client, Shapes
<1>4. transfer' \in {0} \union (2 .. Chunks + 3) /\ transfer' >= transfer
  BY <1>1 DEF Shapes, SessionAssumption
<1> QED
  BY <1>1, <1>2, <1>3, <1>4, SendStep

LEMMA ChatterStep ==
  ASSUME SessionAssumption, IInv, Chatter
  PROVE  IInv'
<1>1. /\ Shapes /\ AskedOnce /\ UNCHANGED <<client, asked, transfer, old>>
      /\ net' = Append(net, Whole(Simple("other")))
  BY DEF Chatter, IInv, matrix
<1>2. PICK f \in FrameOnWire : f = Simple("other") /\ Place(f) = 0 /\ ~OfOld(f)
  BY SimplePlace
<1>3. AskedOnce' /\ asked' \in Seq({"identity", "bank", "map"}) /\ old' \in 1 .. Chunks + 2
  BY <1>1 DEF AskedOnce, client, Shapes
<1>4. transfer' \in {0} \union (2 .. Chunks + 3) /\ transfer' >= transfer
  BY <1>1 DEF Shapes, SessionAssumption
<1> QED
  BY <1>1, <1>2, <1>3, <1>4, SendStep

LEMMA StillStep ==
  ASSUME IInv, UNCHANGED <<client, net, asked, transfer, old>>
  PROVE  IInv'
<1>1. Shapes' /\ AskedOnce'
  BY DEF IInv, client, Shapes, AskedOnce
<1>2. ASSUME phase # "done" PROVE Pieces' /\ InOrder' /\ Beginning'
  BY <1>2 DEF IInv, client, Pieces, HeadsPaired, InOrder, FrameInOrder, Preceded, At, Seen, Beginning
<1> QED
  BY <1>1, <1>2 DEF IInv, client, CurrentMap

-----------------------------------------------------------------------------
(***************************************************************************)
(* The theorems.                                                           *)
(***************************************************************************)

LEMMA InitIInv ==
  ASSUME SessionAssumption, Init
  PROVE  IInv
<1>1. /\ phase = "identity" /\ sawSize = FALSE /\ wantSeq = 0 /\ data = <<>>
      /\ half = FALSE /\ outcome = "none" /\ net = <<>> /\ asked = <<"identity">>
      /\ transfer = 0 /\ old = OldFrom
  BY DEF Init
<1>2. Chunks \in Nat /\ 0 \in 0 .. SeqSpace - 1 /\ OldFrom \in 1 .. Chunks + 2
  BY DEF SessionAssumption
<1>3. data \in Seq(0 .. Chunks - 1) /\ Len(data) = 0 /\ net \in Seq(Segment) /\ Len(net) = 0
  BY <1>1, EmptySeq
<1>4. asked \in Seq({"identity", "bank", "map"}) /\ Len(asked) = 1 /\ asked[1] = "identity"
  BY <1>1
<1>5. Shapes
  <2>1. Len(data) <= Chunks /\ old \in 1 .. Chunks + 2
    BY <1>1, <1>2, <1>3
  <2>2. asked \in Seq({"identity", "bank", "map"})
    BY <1>4
  <2> QED
    BY <1>1, <1>2, <1>3, <2>1, <2>2 DEF Shapes
<1>6. AskedOnce
  BY <1>1, <1>4 DEF AskedOnce
<1>7. Pieces /\ InOrder /\ Beginning
  BY <1>1, <1>2, <1>3 DEF Pieces, HeadsPaired, InOrder, Seen, Beginning
<1> QED
  BY <1>1, <1>5, <1>6, <1>7 DEF IInv

LEMMA NextIInv ==
  ASSUME SessionAssumption, IInv, [Next]_vars
  PROVE  IInv'
<1>1. CASE Read
  BY <1>1, ReadStep
<1>2. CASE ReadEOF \/ Expire
  BY <1>2, FailedStep DEF ReadEOF, Expire
<1>3. CASE Reply
  BY <1>3, ReplyStep
<1>4. CASE Continue
  BY <1>4, ContinueStep
<1>5. CASE ContinueOld
  BY <1>5, ContinueOldStep
<1>6. CASE Repeat
  BY <1>6, RepeatStep
<1>7. CASE Garble
  BY <1>7, GarbleStep
<1>8. CASE Vanish
  BY <1>8, StillStep DEF Vanish
<1>9. CASE UNCHANGED vars
  BY <1>9, StillStep DEF vars, matrix
<1>10. CASE Chatter
  BY <1>10, ChatterStep
<1> QED
  BY <1>1, <1>2, <1>3, <1>4, <1>5, <1>6, <1>7, <1>8, <1>9, <1>10 DEF Next, ClientNext, MatrixNext

LEMMA Invariance ==
  ASSUME SessionAssumption
  PROVE  Spec => []IInv
<1>1. Init => IInv
  BY InitIInv
<1>2. IInv /\ [Next]_vars => IInv'
  BY NextIInv
<1> QED
  BY <1>1, <1>2, PTL DEF Spec

-----------------------------------------------------------------------------
(***************************************************************************)
(* The acknowledgements.                                                   *)
(***************************************************************************)

\* Frames still to be read in full, and acknowledged at the most.
Counts(p) == p.piece \in {"whole", "tail"} /\ p.frame.kind # "other"
Coming == {i \in 1 .. Len(net) : Counts(net[i])}
Owed == awaited \in Nat /\ Cardinality(Coming) <= awaited

LEMMA ComingFinite ==
  ASSUME net \in Seq(Segment)
  PROVE  IsFiniteSet(Coming) /\ Cardinality(Coming) \in Nat
<1>1. Len(net) \in Nat /\ 1 \in Int
  BY LenProperties
<1>2. IsFiniteSet(1 .. Len(net))
  BY <1>1, FS_Interval
<1>3. IsFiniteSet(Coming)
  BY <1>2, FS_Subset DEF Coming
<1> QED
  BY <1>3, FS_CardinalityType

LEMMA SentCount ==
  ASSUME net \in Seq(Segment), NEW f \in FrameOnWire, Sent(f)
  PROVE  Cardinality(Coming') <= Cardinality(Coming) + 1
<1>1. PICK n \in Nat, c \in Nat : n = Len(net) /\ c = Cardinality(Coming) /\ IsFiniteSet(Coming)
  BY ComingFinite, LenProperties
<1>2. ASSUME NEW m \in Nat, Coming' = Coming \/ Coming' = Coming \union {m}
      PROVE  Cardinality(Coming') <= Cardinality(Coming) + 1
  <2>1. PICK S : S = Coming
    OBVIOUS
  <2>2. Cardinality(S \union {m}) = IF m \in S THEN c ELSE c + 1
    BY <1>1, <2>1, FS_AddElement
  <2>3. Cardinality(S) <= c + 1 /\ Cardinality(S \union {m}) <= c + 1
    BY <1>1, <2>1, <2>2
  <2>4. Coming' = S \/ Coming' = S \union {m}
    BY <1>2, <2>1
  <2> QED
    BY <1>1, <2>3, <2>4
<1>3. \A i \in 1 .. n : Counts(net'[i]) <=> Counts(net[i])
  BY <1>1 DEF Sent
<1>4. CASE Len(net') = n + 1
  <2>1. PICK m \in Nat : m = n + 1
    OBVIOUS
  <2>2. Coming' = Coming \/ Coming' = Coming \union {m}
    BY <1>1, <1>3, <1>4, <2>1 DEF Coming
  <2> QED
    BY <1>2, <2>2
<1>5. CASE Len(net') = n + 2 /\ net'[n + 1].piece = "head"
  <2>1. PICK m \in Nat : m = n + 2
    OBVIOUS
  <2>2. ~Counts(net'[n + 1])
    BY <1>5 DEF Counts
  <2>3. Coming' = Coming \/ Coming' = Coming \union {m}
    BY <1>1, <1>3, <1>5, <2>1, <2>2 DEF Coming
  <2> QED
    BY <1>2, <2>3
<1> QED
  BY <1>1, <1>4, <1>5 DEF Sent, Head1

\* What the client does not acknowledge does not count.
LEMMA UncountedSent ==
  ASSUME net \in Seq(Segment), NEW e \in Segment, ~Counts(e), net' = Append(net, e)
  PROVE  Coming' = Coming
<1>1. PICK n \in Nat : n = Len(net)
  BY LenProperties
<1>2. Len(net') = n + 1 /\ net'[n + 1] = e /\ \A i \in 1 .. n : net'[i] = net[i]
  BY <1>1, Appending
<1> QED
  BY <1>1, <1>2 DEF Coming

LEMMA ReadCount ==
  ASSUME net \in Seq(Segment), net # <<>>, net' = Tail(net)
  PROVE  Cardinality(Coming') = Cardinality(Coming) - (IF Counts(net[1]) THEN 1 ELSE 0)
<1>1. PICK n \in Nat : n + 1 = Len(net) /\ Len(net') = n /\ \A i \in 1 .. n : net'[i] = net[i + 1]
  BY Reading
<1>2. PICK S : S = Coming \ {1}
  OBVIOUS
<1>3. Coming \subseteq 1 .. n + 1 /\ Coming' \subseteq 1 .. n
  BY <1>1 DEF Coming
<1>4. \A i \in 1 .. n : i \in Coming' <=> i + 1 \in S
  BY <1>1, <1>2 DEF Coming
<1>5. \A i \in S : i - 1 \in Coming' /\ i \in 2 .. n + 1
  <2>1. ASSUME NEW i \in S PROVE i - 1 \in Coming' /\ i \in 2 .. n + 1
    <3>1. i \in 2 .. n + 1 /\ i - 1 \in 1 .. n /\ (i - 1) + 1 = i
      BY <1>2, <1>3
    <3> QED
      BY <1>4, <3>1
  <2> QED
    BY <2>1
<1>6. ExistsBijection(S, Coming')
  <2> DEFINE back == [i \in S |-> i - 1]
  <2>1. back \in [S -> Coming']
    BY <1>5
  <2>2. \A a, b \in S : back[a] = back[b] => a = b
    BY <1>5
  <2>3. ASSUME NEW k \in Coming' PROVE \E i \in S : back[i] = k
    <3>1. k \in 1 .. n /\ k + 1 \in S
      BY <1>3, <1>4
    <3>2. back[k + 1] = k
      BY <3>1
    <3> QED
      BY <3>1, <3>2
  <2> HIDE DEF back
  <2>4. back \in Bijection(S, Coming')
    BY <2>1, <2>2, <2>3, Zenon DEF Bijection, Injection, Surjection, IsInjective
  <2> QED
    BY <2>4 DEF ExistsBijection
<1>7. IsFiniteSet(Coming) /\ Cardinality(Coming) \in Nat
  BY ComingFinite
<1>8. IsFiniteSet(S) /\ Cardinality(S) = IF 1 \in Coming THEN Cardinality(Coming) - 1 ELSE Cardinality(Coming)
  BY <1>2, <1>7, FS_RemoveElement
<1>9. Cardinality(Coming') = Cardinality(S)
  BY <1>6, <1>8, FS_Bijection
<1>10. 1 \in Coming <=> Counts(net[1])
  BY <1>1 DEF Coming
<1> QED
  BY <1>7, <1>8, <1>9, <1>10

LEMMA NextOwed ==
  ASSUME SessionAssumption, IInv, Owed, [Next]_vars
  PROVE  Owed'
<1>1. net \in Seq(Segment) /\ Cardinality(Coming) \in Nat /\ awaited \in Nat
  BY ComingFinite DEF IInv, Shapes, Owed
<1>2. net' \in Seq(Segment)
  BY NextIInv DEF IInv, Shapes
<1>3. Cardinality(Coming') \in Nat
  <2>1. net' \in Seq(Segment) => IsFiniteSet(Coming')
    <3> SUFFICES ASSUME net' \in Seq(Segment) PROVE IsFiniteSet(Coming')
      OBVIOUS
    <3>1. Len(net') \in Nat /\ 1 \in Int
      BY LenProperties
    <3>2. IsFiniteSet(1 .. Len(net'))
      BY <3>1, FS_Interval
    <3> QED
      BY <3>2, FS_Subset DEF Coming
  <2> QED
    BY <1>2, <2>1, FS_CardinalityType
<1>4. ASSUME NEW f \in FrameOnWire, Send(f) PROVE Owed'
  <2>1. awaited' = awaited + 1 /\ Cardinality(Coming') <= Cardinality(Coming) + 1
    BY <1>1, <1>4, Sending, SentCount DEF Send
  <2> QED
    BY <1>1, <1>3, <1>4, <2>1 DEF Owed
<1>5. ASSUME UNCHANGED <<net, awaited>> PROVE Owed'
  BY <1>5 DEF Owed, Coming
<1>6. Chunks \in Nat /\ Chunks > 0
  BY DEF SessionAssumption
<1>7. CASE Read
  <2>1. net # <<>> /\ net' = Tail(net)
    BY <1>7 DEF Read
  <2>2. Head(net) = net[1]
    BY <1>1, <2>1, Shifting
  <2>3. awaited' = awaited \/ (awaited' = awaited - 1 /\ Counts(net[1]))
    BY <1>1, <1>7, <2>2 DEF Read, Process, AckOf, Counts
  <2>4. Cardinality(Coming') = Cardinality(Coming) - (IF Counts(net[1]) THEN 1 ELSE 0)
    BY <1>1, <2>1, ReadCount
  <2> QED
    BY <1>1, <1>3, <2>1, <2>3, <2>4 DEF Owed
<1>8. CASE ReadEOF \/ Expire
  BY <1>5, <1>8 DEF ReadEOF, Expire, matrix
<1>9. CASE Reply
  <2>1. Head(asked) \in {"identity", "bank", "map"}
    BY <1>9, Shifting DEF Reply, IInv, Shapes
  <2>2. PICK f \in FrameOnWire : Send(f)
    BY <1>6, <1>9, <2>1, SimplePlace, CurrentPlace DEF Reply
  <2> QED
    BY <1>4, <2>2
<1>10. CASE Continue
  <2>1. Current(transfer) \in FrameOnWire /\ Send(Current(transfer))
    BY <1>6, <1>10, CurrentPlace DEF Continue
  <2> QED
    BY <1>4, <2>1
<1>11. CASE ContinueOld
  <2>1. old \in Nat /\ 0 \in 0 .. SeqSpace - 1
    BY DEF IInv, Shapes, SessionAssumption
  <2>2. old % SeqSpace \in 0 .. SeqSpace - 1
    BY <2>1, Remainder
  <2>3. PICK f \in FrameOnWire : Send(f)
    BY <1>11, <2>1, <2>2, OldPlace DEF ContinueOld
  <2> QED
    BY <1>4, <2>3
<1>12. CASE Repeat
  <2>1. transfer - 1 \in 1 .. Chunks + 2
    BY <1>6, <1>12 DEF Repeat, IInv, Shapes
  <2>2. Current(transfer - 1) \in FrameOnWire /\ Send(Current(transfer - 1))
    BY <1>12, <2>1, CurrentPlace DEF Repeat
  <2> QED
    BY <1>4, <2>2
<1>13. CASE Garble \/ Chatter
  <2>1. awaited' = awaited /\ (net' = Append(net, Bad) \/ net' = Append(net, Whole(Simple("other"))))
    BY <1>13 DEF Garble, Chatter
  <2>2. /\ Bad \in Segment /\ ~Counts(Bad)
        /\ Whole(Simple("other")) \in Segment /\ ~Counts(Whole(Simple("other")))
    BY SimplePlace DEF Bad, Whole, Segment, Counts, Simple, Frame
  <2>3. Coming' = Coming
    BY <1>1, <2>1, <2>2, UncountedSent
  <2> QED
    BY <2>1, <2>3 DEF Owed
<1>14. CASE Vanish \/ UNCHANGED vars
  BY <1>5, <1>14 DEF Vanish, vars, client, matrix
<1> QED
  BY <1>7, <1>8, <1>9, <1>10, <1>11, <1>12, <1>13, <1>14 DEF Next, ClientNext, MatrixNext

\* The variables keep their types, the client takes no more chunks than there are and
\* acknowledges no more frames than were sent.
THEOREM TypeCorrect ==
  ASSUME SessionAssumption
  PROVE  Spec => []TypeOK
<1>1. Init => Owed
  <2>1. Init => Coming = {}
    BY EmptySeq DEF Init, Coming
  <2> QED
    BY <2>1, FS_EmptySet DEF Init, Owed
<1>2. IInv /\ Owed /\ [Next]_vars => Owed'
  BY NextOwed
<1>3. IInv /\ Owed => TypeOK
  <2> SUFFICES ASSUME IInv, Owed PROVE TypeOK
    OBVIOUS
  <2>1. Cardinality(Coming) \in Nat
    BY ComingFinite DEF IInv, Shapes
  <2> QED
    BY <2>1 DEF Owed, TypeOK, IInv, Shapes
<1> QED
  BY <1>1, <1>2, <1>3, Invariance, PTL DEF Spec

-----------------------------------------------------------------------------
(***************************************************************************)
(* The refinement.                                                         *)
(***************************************************************************)

LEMMA ClientStep ==
  ASSUME SessionAssumption, IInv, IInv', [Next]_vars
  PROVE  [MapOrError!Next]_(IF outcome = "map" THEN <<"map", data>> ELSE <<outcome>>)
<1>1. /\ outcome \in {"none", "map", "error"} /\ outcome' \in {"none", "map", "error"}
      /\ (outcome = "none" <=> phase # "done")
      /\ outcome' = "map" => data' = CurrentMap
  BY DEF IInv, Shapes, CurrentMap
<1>2. CASE phase = "done"
  <2>1. UNCHANGED <<outcome, data>>
    BY <1>2 DEF Next, ClientNext, Read, ReadEOF, Expire, MatrixNext, Reply, Continue, ContinueOld,
                Repeat, Chatter, Garble, Vanish, vars, client
  <2> QED
    BY <2>1
<1>3. CASE phase # "done"
  BY <1>1, <1>3 DEF MapOrError!Next, MapOrError!Answer
<1> QED
  BY <1>2, <1>3

\* A names fetch gives its caller the whole current map or an error, once.
THEOREM ImplementsFetchCorrect ==
  ASSUME SessionAssumption
  PROVE  Spec => ImplementsFetch
<1>1. Init => MapOrError!Init
  BY DEF Init, MapOrError!Init
<1>2. IInv /\ IInv' /\ [Next]_vars
        => [MapOrError!Next]_(IF outcome = "map" THEN <<"map", data>> ELSE <<outcome>>)
  BY ClientStep
<1> QED
  BY <1>1, <1>2, Invariance, PTL DEF Spec, ImplementsFetch, MapOrError!Spec

-----------------------------------------------------------------------------
(***************************************************************************)
(* The helper: its inductive invariant.                                    *)
(***************************************************************************)

\* What each variable can be.
HelperShapes ==
  /\ request \in [Requests -> {"new", "waiting", "names", "refused", "failed"}]
  /\ handler \in [Requests -> {"none", "queued", "locked", "gone"}]
  /\ at \in [Requests -> Helpers \cup {None}]
  /\ process \in [Helpers -> {"new", "preparing", "serving", "closing", "exited", "killed"}]
  /\ path \in Helpers \cup {None}

Alive(h) == process[h] \in {"preparing", "serving", "closing"}

\* No two processes run at the same time.
OneAlive == \A g, h \in Helpers : Alive(g) /\ Alive(h) => g = h

\* The socket path belongs to a process that serves, or that was killed; whoever is about
\* to bind it has removed it.
PathOwned ==
  /\ path # None => process[path] \in {"serving", "killed"}
  /\ \A h \in Helpers : process[h] = "preparing" => path = None

\* A handler that has not returned runs in a process that serves or is closing.
HandlersLive ==
  \A r \in Requests : handler[r] \in {"queued", "locked"} =>
    at[r] \in Helpers /\ process[at[r]] \in {"serving", "closing"}

\* The mutex of a process has one holder.
OneHolder ==
  \A r, s \in Requests : handler[r] = "locked" /\ handler[s] = "locked" => r = s

HelperIInv == HelperShapes /\ OneAlive /\ PathOwned /\ HandlersLive /\ OneHolder

\* The invariant holds initially.
LEMMA HelperInitCorrect ==
  ASSUME HelperAssumption, HelperInit
  PROVE  HelperIInv
<1> USE HelperAssumption DEF HelperAssumption, HelperInit
<1>1. HelperShapes
  BY DEF HelperShapes
<1>2. OneAlive /\ PathOwned /\ HandlersLive /\ OneHolder
  BY DEF OneAlive, Alive, PathOwned, HandlersLive, OneHolder
<1> QED
  BY <1>1, <1>2 DEF HelperIInv

-----------------------------------------------------------------------------
(***************************************************************************)
(* Every step preserves it.                                                *)
(***************************************************************************)

\* A step of one request.  It can take the lock only from a process of its own, and there
\* is no other process that could have a holder.
LEMMA RequestStep ==
  ASSUME HelperAssumption, HelperIInv, NEW r \in Requests,
         Post(r) \/ GiveUp(r) \/ Reject(r) \/ Lock(r) \/ UnlockNames(r) \/ UnlockCrosspoint(r)
  PROVE  HelperIInv'
<1> USE HelperAssumption DEF HelperAssumption, HelperIInv, HelperShapes
<1>1. UNCHANGED <<process, path>>
  BY DEF Post, GiveUp, Reject, Lock, UnlockNames, UnlockCrosspoint
<1>2. OneAlive' /\ PathOwned'
  BY <1>1 DEF OneAlive, Alive, PathOwned
<1>3. HelperShapes'
  BY <1>1 DEF Post, GiveUp, Reject, Lock, UnlockNames, UnlockCrosspoint, Resolve
<1>4. CASE Post(r)
  <2>1. HandlersLive'
    BY <1>1, <1>4 DEF Post, HandlersLive, PathOwned
  <2>2. OneHolder'
    BY <1>4 DEF Post, OneHolder
  <2> QED
    BY <1>2, <1>3, <2>1, <2>2
<1>5. CASE Lock(r)
  <2>1. HandlersLive'
    BY <1>1, <1>5 DEF Lock, HandlersLive
  <2>2. ASSUME NEW s \in Requests, handler[s] = "locked"
        PROVE  FALSE
    <3>1. at[r] \in Helpers /\ at[s] \in Helpers /\ Alive(at[r]) /\ Alive(at[s])
      BY <1>5, <2>2 DEF Lock, HandlersLive, Alive
    <3>2. at[s] = at[r]
      BY <3>1 DEF OneAlive
    <3> QED
      BY <1>5, <2>2, <3>2 DEF Lock, Holders
  <2>3. OneHolder'
    BY <1>5, <2>2 DEF Lock, OneHolder
  <2> QED
    BY <1>2, <1>3, <2>1, <2>3
<1>6. CASE GiveUp(r) \/ Reject(r) \/ UnlockNames(r) \/ UnlockCrosspoint(r)
  <2>1. HandlersLive'
    BY <1>1, <1>6 DEF GiveUp, Reject, UnlockNames, UnlockCrosspoint, HandlersLive
  <2>2. OneHolder'
    BY <1>6 DEF GiveUp, Reject, UnlockNames, UnlockCrosspoint, OneHolder
  <2> QED
    BY <1>2, <1>3, <2>1, <2>2
<1> QED
  BY <1>4, <1>5, <1>6

\* A step of one process.  Whoever ends takes its handlers with it, whoever is started is
\* alone and frees the path.
LEMMA HelperProcessStep ==
  ASSUME HelperAssumption, HelperIInv, NEW h \in Helpers,
         Prepare(h) \/ Listen(h) \/ Close(h) \/ Exit(h) \/ Crash(h)
  PROVE  HelperIInv'
<1> USE HelperAssumption DEF HelperAssumption, HelperIInv, HelperShapes
<1>1. HelperShapes'
  BY DEF Prepare, Listen, Close, Exit, Crash, Cut
<1>2. OneAlive'
  BY DEF Prepare, Listen, Close, Exit, Crash, Cut, OneAlive, Alive, Alone
<1>3. PathOwned'
  BY DEF Prepare, Listen, Close, Exit, Crash, Cut, PathOwned, OneAlive, Alive
<1>4. HandlersLive'
  BY DEF Prepare, Listen, Close, Exit, Crash, Cut, HandlersLive
<1>5. OneHolder'
  BY DEF Prepare, Listen, Close, Exit, Crash, Cut, OneHolder
<1> QED
  BY <1>1, <1>2, <1>3, <1>4, <1>5

LEMMA HelperStep ==
  ASSUME HelperAssumption, HelperIInv, [HelperNext]_helper
  PROVE  HelperIInv'
<1>1. CASE HelperNext
  BY <1>1, RequestStep, HelperProcessStep DEF HelperNext
<1>2. CASE UNCHANGED helper
  BY <1>2 DEF helper, HelperIInv, HelperShapes, OneAlive, Alive, PathOwned, HandlersLive, OneHolder
<1> QED
  BY <1>1, <1>2

\* The inductive invariant is one.
LEMMA HelperInvariance ==
  ASSUME HelperAssumption
  PROVE  HelperSpec => []HelperIInv
<1>1. HelperInit => HelperIInv
  BY HelperInitCorrect
<1>2. HelperIInv /\ [HelperNext]_helper => HelperIInv'
  BY HelperStep
<1> QED
  BY <1>1, <1>2, PTL DEF HelperSpec

-----------------------------------------------------------------------------
(***************************************************************************)
(* The theorems.                                                           *)
(***************************************************************************)

\* The variables keep their types, and a handler that has not returned runs in a process
\* that serves or is closing (Serve waits for them, its exit ends them).
THEOREM HelperTypeCorrect ==
  ASSUME HelperAssumption
  PROVE  HelperSpec => []HelperTypeOK
<1>1. HelperIInv => HelperTypeOK
  BY DEF HelperIInv, HelperShapes, HandlersLive, HelperTypeOK
<1> QED
  BY <1>1, HelperInvariance, PTL

\* The helper serializes matrix requests: at most one connection to the matrix is open,
\* also when the one who asked for it has gone, and across restarts (handleNames).
THEOREM OneConnectionCorrect ==
  ASSUME HelperAssumption
  PROVE  HelperSpec => []OneConnection
<1>1. HelperIInv => OneConnection
  <2> SUFFICES ASSUME HelperIInv PROVE OneConnection
    OBVIOUS
  <2>1. \A r, s \in Connected : r = s
    BY DEF HelperIInv, OneHolder, Connected, Requests
  <2>2. CASE Connected = {}
    BY <2>2, FS_EmptySet DEF OneConnection
  <2>3. CASE Connected # {}
    <3>1. PICK r \in Connected : Connected = {r}
      BY <2>1, <2>3
    <3>2. Cardinality(Connected) = 1
      BY <3>1, FS_Singleton
    <3> QED
      BY <3>2 DEF OneConnection
  <2> QED
    BY <2>2, <2>3
<1> QED
  BY <1>1, HelperInvariance, PTL

\* A process that is started comes to serve unless it is killed: whatever its predecessor
\* left at the path, it never finds the address in use (prepareSocket).
THEOREM StartsCorrect ==
  ASSUME HelperAssumption
  PROVE  HelperSpec => Starts
<1>1. HelperIInv /\ [HelperNext]_helper =>
        [\A h \in Helpers : process[h] = "preparing" => process'[h] # "exited"]_helper
  <2> SUFFICES ASSUME HelperIInv, HelperNext, NEW h \in Helpers, process[h] = "preparing"
               PROVE  process'[h] # "exited"
    OBVIOUS
  <2>1. path = None
    BY DEF HelperIInv, PathOwned
  <2>2. ASSUME NEW r \in Requests, Post(r) \/ GiveUp(r) \/ Reject(r) \/ Lock(r) \/ UnlockNames(r) \/ UnlockCrosspoint(r)
        PROVE  process'[h] # "exited"
    BY <2>2 DEF Post, GiveUp, Reject, Lock, UnlockNames, UnlockCrosspoint
  <2>3. ASSUME NEW g \in Helpers, Prepare(g) \/ Listen(g) \/ Close(g) \/ Exit(g) \/ Crash(g)
        PROVE  process'[h] # "exited"
    BY <2>1, <2>3 DEF HelperIInv, HelperShapes, Prepare, Listen, Close, Exit, Crash, Cut
  <2> QED
    BY <2>2, <2>3 DEF HelperNext
<1> QED
  BY <1>1, HelperInvariance, PTL DEF HelperSpec, Starts
=============================================================================
