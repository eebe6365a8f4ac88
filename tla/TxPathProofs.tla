---------------------------- MODULE TxPathProofs ----------------------------
(***************************************************************************)
(* Proofs about TxPath, for any frames, lengths, packet and channel sizes, *)
(* any number of goroutines and of blocks.                                 *)
(***************************************************************************)
EXTENDS TxPath, SequenceTheorems, TLAPS

-----------------------------------------------------------------------------
(***************************************************************************)
(* The inductive invariant.  What is said of the control queue is said of  *)
(* its parts: the waiting frames hi and no, the accepted frames acc, and   *)
(* the bytes s of the started frames.                                      *)
(***************************************************************************)

Holds(s, e) == \E i \in 1 .. Len(s) : s[i] = e

\* No frame is enqueued twice.
Distinct(acc) == \A i, j \in 1 .. Len(acc) : acc[i] = acc[j] => i = j

\* The frames of a queue have been accepted, in this order, and none of their bytes has
\* left.
WaitInOrder(q, acc, s) ==
  /\ \A i \in 1 .. Len(q) : Holds(acc, q[i]) /\ \A n \in 1 .. Len(s) : s[n][1] # q[i]
  /\ \A i, j \in 1 .. Len(q) : \A a, b \in 1 .. Len(acc) :
       i < j /\ acc[a] = q[i] /\ acc[b] = q[j] => a < b

\* Bytes are those of accepted frames, with their neighbours beside them, each once.
StartedOnce(acc, s) == \A n \in 1 .. Len(s) : Holds(acc, s[n][1])
Intact(s) ==
  \A i \in 1 .. Len(s) :
    /\ s[i][2] > 1 => i > 1 /\ s[i - 1] = <<s[i][1], s[i][2] - 1>>
    /\ s[i][2] < Length[s[i][1]] => i < Len(s) /\ s[i + 1] = <<s[i][1], s[i][2] + 1>>
    /\ \A j \in 1 .. Len(s) : s[j] = s[i] => j = i

\* An accepted frame waits or has been started.
NoneLost(hi, no, acc, s) ==
  \A i \in 1 .. Len(acc) : Holds(hi, acc[i]) \/ Holds(no, acc[i]) \/ Holds(s, <<acc[i], 1>>)

\* Frames of one priority are started in the order of their acceptance.
StartInOrder(acc, s) ==
  \A i, j \in 1 .. Len(acc) :
    /\ i < j
    /\ acc[i] \in High <=> acc[j] \in High
    /\ Holds(s, <<acc[j], 1>>)
    => \E m, n \in 1 .. Len(s) : m < n /\ s[m] = <<acc[i], 1>> /\ s[n] = <<acc[j], 1>>

Control(hi, no, acc, s) ==
  /\ hi \in Seq(High) /\ no \in Seq(Frame \ High)
  /\ acc \in Seq(Frame) /\ s \in Seq(Byte)
  /\ Distinct(acc)
  /\ WaitInOrder(hi, acc, s) /\ WaitInOrder(no, acc, s)
  /\ StartedOnce(acc, s) /\ Intact(s)
  /\ NoneLost(hi, no, acc, s)
  /\ StartInOrder(acc, s)

\* A sender queues silence; a speaker its latest block.
BlocksOwned ==
  /\ \A g \in Sender : block[g] = Silence
  /\ \A g \in Speaker : pc[g] # "drain" /\ (Queueing(g) => block[g] = <<g, spoken[g]>>)

\* The last block of a speaker that is in the channel, has left it, or is lost.
Newest(g) == IF Queueing(g) THEN spoken[g] - 1 ELSE spoken[g]

\* The numbers of a speaker's blocks go up along their way.
TakenInOrder(g) ==
  /\ aired[g] <= Newest(g)
  /\ taken[1] = g => aired[g] < taken[2] /\ taken[2] <= Newest(g)
QueuedInOrder(i) ==
  LET b == audio[i] IN
    b[1] \in Speaker =>
      /\ aired[b[1]] < b[2] /\ b[2] <= Newest(b[1])
      /\ taken[1] = b[1] => taken[2] < b[2]
      /\ \A j \in 1 .. i - 1 : audio[j][1] = b[1] => audio[j][2] < b[2]
AudioAscends ==
  /\ \A g \in Speaker : TakenInOrder(g)
  /\ \A i \in 1 .. Len(audio) : QueuedInOrder(i)

IInv ==
  /\ TypeOK /\ PeerBeforeBytes
  /\ Control(high, normal, accepted, Started)
  /\ BlocksOwned /\ AudioAscends

-----------------------------------------------------------------------------
(***************************************************************************)
(* The control queue: what enqueueing and starting a frame preserve.       *)
(***************************************************************************)

\* The sequence t is s with e at its end, s without its first element, or s with all bytes
\* of f at its end.
Appended(t, s, e) ==
  /\ Len(t) = Len(s) + 1 /\ t[Len(s) + 1] = e
  /\ \A i \in 1 .. Len(s) : t[i] = s[i]
Shifted(t, s) ==
  /\ Len(t) = Len(s) - 1
  /\ \A i \in 1 .. Len(s) - 1 : t[i] = s[i + 1]
Joined(t, s, f) ==
  /\ Len(t) = Len(s) + Length[f]
  /\ \A i \in 1 .. Len(s) : t[i] = s[i]
  /\ \A k \in 1 .. Length[f] : t[Len(s) + k] = <<f, k>>

LEMMA Appending ==
  ASSUME NEW S, NEW s \in Seq(S), NEW e \in S
  PROVE  Append(s, e) \in Seq(S) /\ Appended(Append(s, e), s, e)
BY AppendProperties DEF Appended

LEMMA Shifting ==
  ASSUME NEW S, NEW s \in Seq(S), s # <<>>
  PROVE  /\ Tail(s) \in Seq(S) /\ Shifted(Tail(s), s)
         /\ Len(s) >= 1 /\ Head(s) = s[1] /\ Head(s) \in S
BY HeadTailProperties, EmptySeq DEF Shifted

\* Bytes number a frame from 1 to its length.
LEMMA BytesOf ==
  ASSUME NEW f \in Frame
  PROVE  /\ Length[f] \in Nat /\ Length[f] >= 1
         /\ Bytes(f) \in Seq(Byte) /\ Len(Bytes(f)) = Length[f]
         /\ \A k \in 1 .. Length[f] : Bytes(f)[k] = <<f, k>>
<1>1. Length[f] \in Nat /\ Length[f] >= 1
  BY FrameAssumption DEF FrameAssumption
<1>2. \A k \in 1 .. Length[f] : <<f, k>> \in Byte
  BY <1>1 DEF Byte
<1>3. Bytes(f) \in [1 .. Length[f] -> Byte]
  BY <1>1, <1>2 DEF Bytes
<1> QED
  BY <1>1, <1>3 DEF Bytes

LEMMA Joining ==
  ASSUME NEW s \in Seq(Byte), NEW f \in Frame
  PROVE  s \o Bytes(f) \in Seq(Byte) /\ Joined(s \o Bytes(f), s, f)
<1>1. Len(s) \in Nat
  OBVIOUS
<1>2. /\ s \o Bytes(f) \in Seq(Byte) /\ Len(s \o Bytes(f)) = Len(s) + Length[f]
      /\ \A i \in 1 .. Len(s) + Length[f] :
           (s \o Bytes(f))[i] = IF i <= Len(s) THEN s[i] ELSE Bytes(f)[i - Len(s)]
  BY BytesOf, ConcatProperties
<1>3. ASSUME NEW i \in 1 .. Len(s) PROVE (s \o Bytes(f))[i] = s[i]
  BY <1>1, <1>2, BytesOf
<1>4. ASSUME NEW k \in 1 .. Length[f] PROVE (s \o Bytes(f))[Len(s) + k] = <<f, k>>
  <2>1. Len(s) + k \in 1 .. Len(s) + Length[f] /\ ~(Len(s) + k <= Len(s)) /\ (Len(s) + k) - Len(s) = k
    BY <1>1, BytesOf
  <2>2. (s \o Bytes(f))[Len(s) + k] = Bytes(f)[k]
    BY <1>2, <2>1
  <2> QED
    BY <2>2, BytesOf
<1> QED
  BY <1>2, <1>3, <1>4 DEF Joined

\* Where a byte of the longer stream comes from.
LEMMA Origin ==
  ASSUME NEW s \in Seq(Byte), NEW f \in Frame, NEW t \in Seq(Byte), Joined(t, s, f),
         NEW i \in 1 .. Len(t)
  PROVE  \/ i \in 1 .. Len(s) /\ t[i] = s[i]
         \/ i > Len(s) /\ i - Len(s) \in 1 .. Length[f] /\ t[i] = <<f, i - Len(s)>>
<1>1. PICK l \in Nat, m \in Nat : l = Len(s) /\ m = Length[f]
  BY BytesOf
<1>2. i \in 1 .. l + m
  BY <1>1 DEF Joined
<1>3. CASE i \in 1 .. l
  BY <1>1, <1>3 DEF Joined
<1>4. CASE i \notin 1 .. l
  <2>1. i > l /\ i - l \in 1 .. m /\ l + (i - l) = i
    BY <1>2, <1>4
  <2> QED
    BY <1>1, <2>1 DEF Joined
<1> QED
  BY <1>3, <1>4

LEMMA NewOrOld ==
  ASSUME NEW s \in Seq(Byte), NEW f \in Frame, NEW t \in Seq(Byte), Joined(t, s, f)
  PROVE  /\ \A k \in 1 .. Len(t) : (k \in 1 .. Len(s) /\ t[k] = s[k]) \/ t[k][1] = f
         /\ \A e : Holds(s, e) => Holds(t, e)
         /\ Holds(t, <<f, 1>>)
<1>1. PICK l \in Nat, m \in Nat : l = Len(s) /\ m = Length[f] /\ m >= 1
  BY BytesOf
<1>2. Len(t) = l + m /\ t[l + 1] = <<f, 1>> /\ \A k \in 1 .. l : t[k] = s[k]
  BY <1>1 DEF Joined
<1>3. \A k \in 1 .. Len(t) : (k \in 1 .. Len(s) /\ t[k] = s[k]) \/ t[k][1] = f
  BY Origin
<1>4. ASSUME NEW e, Holds(s, e) PROVE Holds(t, e)
  <2>1. PICK k \in 1 .. l : s[k] = e
    BY <1>1, <1>4 DEF Holds
  <2>2. k \in 1 .. Len(t) /\ t[k] = e
    BY <1>2, <2>1
  <2> QED
    BY <2>2 DEF Holds
<1>5. l + 1 \in 1 .. Len(t)
  BY <1>1, <1>2
<1> QED
  BY <1>2, <1>3, <1>4, <1>5 DEF Holds

\* A frame of which no byte has left joins the stream as a whole.
LEMMA IntactExtended ==
  ASSUME NEW s \in Seq(Byte), NEW f \in Frame, NEW t \in Seq(Byte), Joined(t, s, f),
         Intact(s), \A n \in 1 .. Len(s) : s[n][1] # f
  PROVE  Intact(t)
<1>1. PICK l \in Nat, m \in Nat : l = Len(s) /\ m = Length[f] /\ m >= 1
  BY BytesOf
<1>2. /\ Len(t) = l + m
      /\ \A i \in 1 .. l : t[i] = s[i] /\ t[i][1] # f
      /\ \A k \in 1 .. m : t[l + k] = <<f, k>>
  BY <1>1 DEF Joined
<1>3. ASSUME NEW i \in 1 .. l
      PROVE  /\ t[i][2] > 1 => i > 1 /\ t[i - 1] = <<t[i][1], t[i][2] - 1>>
             /\ t[i][2] < Length[t[i][1]] => i < l + m /\ t[i + 1] = <<t[i][1], t[i][2] + 1>>
             /\ \A j \in 1 .. l + m : t[j] = t[i] => j = i
  <2>1. t[i] = s[i]
    BY <1>2
  <2>2. t[i][2] > 1 => i > 1 /\ t[i - 1] = <<t[i][1], t[i][2] - 1>>
    <3>1. s[i][2] > 1 => i > 1 /\ s[i - 1] = <<s[i][1], s[i][2] - 1>>
      BY <1>1 DEF Intact
    <3>2. i > 1 => t[i - 1] = s[i - 1]
      BY <1>2
    <3> QED
      BY <2>1, <3>1, <3>2
  <2>3. t[i][2] < Length[t[i][1]] => i < l + m /\ t[i + 1] = <<t[i][1], t[i][2] + 1>>
    <3>1. s[i][2] < Length[s[i][1]] => i < l /\ s[i + 1] = <<s[i][1], s[i][2] + 1>>
      BY <1>1 DEF Intact
    <3>2. i < l => i < l + m /\ t[i + 1] = s[i + 1]
      BY <1>2
    <3> QED
      BY <2>1, <3>1, <3>2
  <2>4. ASSUME NEW j \in 1 .. l + m, t[j] = t[i] PROVE j = i
    <3>1. CASE j \in 1 .. l
      <4>1. s[j] = s[i]
        BY <1>2, <2>4, <3>1
      <4> QED
        BY <1>1, <3>1, <4>1 DEF Intact
    <3>2. CASE j \notin 1 .. l
      <4>1. j - l \in 1 .. m /\ l + (j - l) = j
        BY <3>2
      <4>2. PICK k \in 1 .. m : j = l + k
        BY <4>1
      <4>3. t[j] = <<f, k>>
        BY <1>2, <4>2
      <4>4. t[j][1] = f /\ t[i][1] # f
        BY <1>2, <4>3
      <4> QED
        BY <2>4, <4>4
    <3> QED
      BY <3>1, <3>2
  <2> QED
    BY <2>2, <2>3, <2>4
<1>4. ASSUME NEW i \in 1 .. l + m, i \notin 1 .. l
      PROVE  /\ t[i][2] > 1 => i > 1 /\ t[i - 1] = <<t[i][1], t[i][2] - 1>>
             /\ t[i][2] < Length[t[i][1]] => i < l + m /\ t[i + 1] = <<t[i][1], t[i][2] + 1>>
             /\ \A j \in 1 .. l + m : t[j] = t[i] => j = i
  <2>5. PICK k \in 1 .. m : i = l + k
    <3>1. i - l \in 1 .. m /\ l + (i - l) = i
      BY <1>4
    <3> QED
      BY <3>1
  <2>1. t[l + k] = <<f, k>>
    BY <1>2
  <2>2. k > 1 => l + k > 1 /\ t[l + k - 1] = <<f, k - 1>>
    <3>1. k > 1 => k - 1 \in 1 .. m /\ l + (k - 1) = l + k - 1 /\ l + k > 1
      OBVIOUS
    <3> QED
      BY <1>2, <3>1
  <2>3. k < m => l + k < l + m /\ t[l + k + 1] = <<f, k + 1>>
    <3>1. k < m => k + 1 \in 1 .. m /\ l + (k + 1) = l + k + 1 /\ l + k < l + m
      OBVIOUS
    <3> QED
      BY <1>2, <3>1
  <2>4. ASSUME NEW j \in 1 .. l + m, t[j] = t[l + k] PROVE j = l + k
    <3>1. CASE j \in 1 .. l
      BY <1>2, <2>1, <2>4, <3>1
    <3>2. CASE j \notin 1 .. l
      <4>1. j - l \in 1 .. m /\ l + (j - l) = j
        BY <3>2
      <4>2. t[j] = <<f, j - l>>
        BY <1>2, <4>1
      <4> QED
        BY <2>1, <2>4, <4>1, <4>2
    <3> QED
      BY <3>1, <3>2
  <2> QED
    BY <1>1, <2>5, <2>1, <2>2, <2>3, <2>4
<1> QED
  BY <1>2, <1>3, <1>4 DEF Intact

\* The frames behind the started one keep waiting.
LEMMA TailWaits ==
  ASSUME NEW q \in Seq(Frame), NEW acc \in Seq(Frame), NEW s \in Seq(Byte), Len(q) >= 1,
         WaitInOrder(q, acc, s),
         NEW r, Shifted(r, q), NEW t \in Seq(Byte), Joined(t, s, q[1])
  PROVE  WaitInOrder(r, acc, t)
<1>1. PICK n \in Nat, f \in Frame : n = Len(q) /\ n >= 1 /\ f = q[1]
  OBVIOUS
<1>2. \A i \in 1 .. n - 1 : i + 1 \in 1 .. n /\ 1 < i + 1 /\ r[i] = q[i + 1]
  BY <1>1 DEF Shifted
<1>3. \A k \in 1 .. Len(t) : (k \in 1 .. Len(s) /\ t[k] = s[k]) \/ t[k][1] = f
  BY <1>1, Origin
<1>4. ASSUME NEW i \in 1 .. n - 1 PROVE Holds(acc, r[i]) /\ \A k \in 1 .. Len(t) : t[k][1] # r[i]
  <2>1. PICK a \in 1 .. Len(acc) : acc[a] = q[i + 1]
    BY <1>1, <1>2 DEF WaitInOrder, Holds
  <2>2. q[1] # q[i + 1]
    <3>1. 1 \in 1 .. n /\ i + 1 \in 1 .. n /\ 1 < i + 1 /\ ~(a < a)
      BY <1>1, <1>2
    <3> QED
      BY <1>1, <2>1, <3>1 DEF WaitInOrder
  <2>3. \A k \in 1 .. Len(s) : s[k][1] # q[i + 1]
    BY <1>1, <1>2 DEF WaitInOrder
  <2>4. Holds(acc, r[i])
    BY <1>2, <2>1 DEF Holds
  <2> QED
    BY <1>1, <1>2, <1>3, <2>2, <2>3, <2>4
<1>5. ASSUME NEW i \in 1 .. n - 1, NEW j \in 1 .. n - 1,
             NEW a \in 1 .. Len(acc), NEW b \in 1 .. Len(acc),
             i < j, acc[a] = r[i], acc[b] = r[j]
      PROVE  a < b
  <2>1. i + 1 \in 1 .. n /\ j + 1 \in 1 .. n /\ i + 1 < j + 1
    BY <1>2, <1>5
  <2>2. acc[a] = q[i + 1] /\ acc[b] = q[j + 1]
    BY <1>2, <1>5
  <2> QED
    BY <1>1, <2>1, <2>2 DEF WaitInOrder
<1>6. Len(r) = n - 1
  BY <1>1 DEF Shifted
<1> QED
  BY <1>4, <1>5, <1>6 DEF WaitInOrder

\* So do those of the other queue.
LEMMA OthersWait ==
  ASSUME NEW q \in Seq(Frame), NEW acc \in Seq(Frame), NEW s \in Seq(Byte), NEW f \in Frame,
         WaitInOrder(q, acc, s), ~Holds(q, f), NEW t \in Seq(Byte), Joined(t, s, f)
  PROVE  WaitInOrder(q, acc, t)
<1>1. \A k \in 1 .. Len(t) : (k \in 1 .. Len(s) /\ t[k] = s[k]) \/ t[k][1] = f
  BY Origin
<1>2. ASSUME NEW i \in 1 .. Len(q), NEW k \in 1 .. Len(t) PROVE t[k][1] # q[i]
  BY <1>1 DEF WaitInOrder, Holds
<1> QED
  BY <1>2 DEF WaitInOrder

\* A frame that is accepted joins the end of its queue.
LEMMA NewWaits ==
  ASSUME NEW q \in Seq(Frame), NEW acc \in Seq(Frame), NEW s \in Seq(Byte), NEW f \in Frame,
         WaitInOrder(q, acc, s), StartedOnce(acc, s), ~Holds(acc, f),
         NEW p, Appended(p, q, f), NEW bcc, Appended(bcc, acc, f)
  PROVE  WaitInOrder(q, bcc, s) /\ WaitInOrder(p, bcc, s)
<1>1. PICK n \in Nat, l \in Nat : n = Len(q) /\ l = Len(acc)
  OBVIOUS
<1>2. /\ Len(p) = n + 1 /\ p[n + 1] = f /\ \A i \in 1 .. n : p[i] = q[i]
      /\ Len(bcc) = l + 1 /\ bcc[l + 1] = f /\ \A i \in 1 .. l : bcc[i] = acc[i]
  BY <1>1 DEF Appended
<1>3. \A i \in 1 .. l : acc[i] # f
  BY <1>1 DEF Holds
<1>4. ASSUME NEW i \in 1 .. n
      PROVE  Holds(bcc, q[i]) /\ q[i] # f /\ \A k \in 1 .. Len(s) : s[k][1] # q[i]
  <2>1. Holds(acc, q[i]) /\ \A k \in 1 .. Len(s) : s[k][1] # q[i]
    BY <1>1 DEF WaitInOrder
  <2>2. PICK a \in 1 .. l : acc[a] = q[i]
    BY <1>1, <2>1 DEF Holds
  <2>3. a \in 1 .. Len(bcc) /\ bcc[a] = q[i]
    BY <1>2, <2>2
  <2> QED
    BY <1>3, <2>1, <2>2, <2>3 DEF Holds
<1>5. Holds(bcc, f) /\ \A k \in 1 .. Len(s) : s[k][1] # f
  <2>1. l + 1 \in 1 .. Len(bcc)
    BY <1>2
  <2>2. ASSUME NEW k \in 1 .. Len(s) PROVE s[k][1] # f
    BY <1>1, <1>3 DEF Holds, StartedOnce
  <2> QED
    BY <1>2, <1>3, <2>1, <2>2 DEF Holds
<1>6. ASSUME NEW i \in 1 .. n, NEW j \in 1 .. n, NEW a \in 1 .. l + 1, NEW b \in 1 .. l + 1,
             i < j, bcc[a] = q[i], bcc[b] = q[j]
      PROVE  a < b
  <2>1. a \in 1 .. l /\ b \in 1 .. l
    BY <1>2, <1>4, <1>6
  <2>2. acc[a] = q[i] /\ acc[b] = q[j]
    BY <1>2, <1>6, <2>1
  <2> QED
    BY <1>1, <1>6, <2>1, <2>2 DEF WaitInOrder
<1>7. ASSUME NEW i \in 1 .. n, NEW a \in 1 .. l + 1, NEW b \in 1 .. l + 1, bcc[a] = q[i], bcc[b] = f
      PROVE  a < b
  <2>1. a \in 1 .. l
    BY <1>2, <1>4, <1>7
  <2>2. b = l + 1
    BY <1>2, <1>3, <1>7
  <2> QED
    BY <2>1, <2>2
<1>8. WaitInOrder(q, bcc, s)
  BY <1>1, <1>2, <1>4, <1>6 DEF WaitInOrder
<1>9. WaitInOrder(p, bcc, s)
  <2>1. ASSUME NEW i \in 1 .. n + 1
        PROVE  Holds(bcc, p[i]) /\ \A k \in 1 .. Len(s) : s[k][1] # p[i]
    <3>1. CASE i = n + 1
      BY <1>2, <1>5, <3>1
    <3>2. CASE i \in 1 .. n
      BY <1>2, <1>4, <3>2
    <3> QED
      BY <3>1, <3>2
  <2>2. ASSUME NEW i \in 1 .. n + 1, NEW j \in 1 .. n + 1, NEW a \in 1 .. l + 1, NEW b \in 1 .. l + 1,
               i < j, bcc[a] = p[i], bcc[b] = p[j]
        PROVE  a < b
    <3>1. i \in 1 .. n /\ p[i] = q[i]
      BY <1>2, <2>2
    <3>2. CASE j = n + 1
      BY <1>2, <1>7, <2>2, <3>1, <3>2
    <3>3. CASE j \in 1 .. n
      BY <1>2, <1>6, <2>2, <3>1, <3>3
    <3> QED
      BY <3>2, <3>3
  <2> QED
    BY <1>2, <2>1, <2>2 DEF WaitInOrder
<1> QED
  BY <1>8, <1>9

\* The next frame of a queue to be started is the first accepted of those not yet started.
LEMMA StartOrderExtended ==
  ASSUME NEW q \in Seq(Frame), NEW acc \in Seq(Frame), NEW s \in Seq(Byte), Len(q) >= 1,
         Distinct(acc), WaitInOrder(q, acc, s), StartInOrder(acc, s),
         \A i \in 1 .. Len(acc) :
           (acc[i] \in High <=> q[1] \in High) => Holds(q, acc[i]) \/ Holds(s, <<acc[i], 1>>),
         NEW t \in Seq(Byte), Joined(t, s, q[1])
  PROVE  StartInOrder(acc, t)
<1>1. PICK l \in Nat, f \in Frame : l = Len(s) /\ f = q[1]
  OBVIOUS
<1>2. Length[f] \in Nat /\ Length[f] >= 1 /\ Len(t) = l + Length[f]
  BY <1>1, BytesOf DEF Joined
<1>3. \A i \in 1 .. l : i \in 1 .. Len(t) /\ t[i] = s[i]
  BY <1>1, <1>2 DEF Joined
<1>4. ASSUME NEW i \in 1 .. Len(acc), NEW j \in 1 .. Len(acc), i < j,
             acc[i] \in High <=> acc[j] \in High, NEW n \in 1 .. Len(t), t[n] = <<acc[j], 1>>
      PROVE  \E m \in 1 .. Len(t), k \in 1 .. Len(t) :
               m < k /\ t[m] = <<acc[i], 1>> /\ t[k] = <<acc[j], 1>>
  <2>1. CASE n \in 1 .. l
    <3>1. Holds(s, <<acc[j], 1>>)
      BY <1>1, <1>3, <1>4, <2>1 DEF Holds
    <3>2. PICK a \in 1 .. l, b \in 1 .. l : a < b /\ s[a] = <<acc[i], 1>> /\ s[b] = <<acc[j], 1>>
      BY <1>1, <1>4, <3>1 DEF StartInOrder
    <3> QED
      BY <1>3, <3>2
  <2>2. CASE n \notin 1 .. l
    <3>1. acc[j] = f /\ n > l
      BY <1>1, <1>4, <2>2, Origin
    <3>2. ASSUME NEW k \in 1 .. Len(q), q[k] = acc[i] PROVE FALSE
      <4>1. CASE k = 1
        <5>1. acc[i] = acc[j]
          BY <1>1, <3>1, <3>2, <4>1
        <5> QED
          BY <1>4, <5>1 DEF Distinct
      <4>2. CASE k # 1
        <5>1. 1 < k /\ 1 \in 1 .. Len(q)
          BY <4>2
        <5>2. j < i
          BY <1>1, <3>1, <3>2, <5>1 DEF WaitInOrder
        <5> QED
          BY <1>4, <5>2
      <4> QED
        BY <4>1, <4>2
    <3>3. PICK m \in 1 .. l : s[m] = <<acc[i], 1>>
      BY <1>1, <1>4, <3>1, <3>2 DEF Holds
    <3>4. m \in 1 .. Len(t) /\ t[m] = <<acc[i], 1>> /\ m < n
      BY <1>3, <3>1, <3>3
    <3> QED
      BY <1>4, <3>4
  <2> QED
    BY <2>1, <2>2
<1> QED
  BY <1>4 DEF StartInOrder, Holds

\* A frame is accepted.
LEMMA ControlAccepts ==
  ASSUME NEW hi, NEW no, NEW acc, NEW s, Control(hi, no, acc, s),
         NEW f \in Frame, ~Holds(acc, f)
  PROVE  /\ f \in High => Control(Append(hi, f), no, Append(acc, f), s)
         /\ f \notin High => Control(hi, Append(no, f), Append(acc, f), s)
<1>1. /\ hi \in Seq(High) /\ no \in Seq(Frame \ High) /\ acc \in Seq(Frame) /\ s \in Seq(Byte)
      /\ Distinct(acc) /\ WaitInOrder(hi, acc, s) /\ WaitInOrder(no, acc, s)
      /\ StartedOnce(acc, s) /\ Intact(s) /\ NoneLost(hi, no, acc, s) /\ StartInOrder(acc, s)
  BY DEF Control
<1>2. hi \in Seq(Frame) /\ no \in Seq(Frame)
  BY <1>1, FrameAssumption, SeqMonotonic DEF FrameAssumption
<1>3. PICK bcc \in Seq(Frame) : bcc = Append(acc, f) /\ Appended(bcc, acc, f)
  BY <1>1, Appending
<1>4. PICK l \in Nat : l = Len(acc)
  BY <1>1
<1>5. /\ Len(bcc) = l + 1 /\ bcc[l + 1] = f
      /\ \A i \in 1 .. l : bcc[i] = acc[i] /\ acc[i] # f
  BY <1>3, <1>4 DEF Appended, Holds
<1>6. \A i \in 1 .. l + 1 : i \in 1 .. l \/ i = l + 1
  OBVIOUS
<1>7. Distinct(bcc)
  <2>1. ASSUME NEW i \in 1 .. l + 1, NEW j \in 1 .. l + 1, bcc[i] = bcc[j] PROVE i = j
    <3>1. i \in 1 .. l <=> j \in 1 .. l
      BY <1>5, <1>6, <2>1
    <3>2. CASE i \in 1 .. l /\ j \in 1 .. l
      BY <1>1, <1>4, <1>5, <2>1, <3>2 DEF Distinct
    <3> QED
      BY <1>6, <3>1, <3>2
  <2> QED
    BY <1>5, <2>1 DEF Distinct
<1>8. ASSUME NEW e, Holds(acc, e) PROVE Holds(bcc, e)
  <2>1. PICK i \in 1 .. l : acc[i] = e
    BY <1>4, <1>8 DEF Holds
  <2>2. i \in 1 .. Len(bcc) /\ bcc[i] = e
    BY <1>5, <2>1
  <2> QED
    BY <2>2 DEF Holds
<1>9. StartedOnce(bcc, s) /\ \A n \in 1 .. Len(s) : s[n][1] # f
  BY <1>1, <1>8 DEF StartedOnce
<1>10. StartInOrder(bcc, s)
  <2>1. ~Holds(s, <<f, 1>>)
    BY <1>9 DEF Holds
  <2>2. ASSUME NEW i \in 1 .. Len(bcc), NEW j \in 1 .. Len(bcc), i < j,
               bcc[i] \in High <=> bcc[j] \in High, Holds(s, <<bcc[j], 1>>)
        PROVE  \E m, n \in 1 .. Len(s) : m < n /\ s[m] = <<bcc[i], 1>> /\ s[n] = <<bcc[j], 1>>
    <3>1. j \in 1 .. l
      BY <1>5, <1>6, <2>1, <2>2
    <3>2. i \in 1 .. l
      BY <1>5, <2>2, <3>1
    <3>3. bcc[i] = acc[i] /\ bcc[j] = acc[j]
      BY <1>5, <3>1, <3>2
    <3>4. (acc[i] \in High <=> acc[j] \in High) /\ Holds(s, <<acc[j], 1>>)
      BY <2>2, <3>3
    <3>5. \E m, n \in 1 .. Len(s) : m < n /\ s[m] = <<acc[i], 1>> /\ s[n] = <<acc[j], 1>>
      BY <1>1, <1>4, <2>2, <3>1, <3>2, <3>4 DEF StartInOrder
    <3> QED
      BY <3>3, <3>5
  <2> QED
    BY <2>2 DEF StartInOrder
<1>11. ASSUME NEW q \in Seq(Frame), NEW p, Appended(p, q, f)
       PROVE  Holds(p, f) /\ \A e : Holds(q, e) => Holds(p, e)
  <2>1. PICK n \in Nat : n = Len(q)
    OBVIOUS
  <2>2. /\ Len(p) = n + 1 /\ p[n + 1] = f /\ n + 1 \in 1 .. n + 1
        /\ \A i \in 1 .. n : i \in 1 .. n + 1 /\ p[i] = q[i]
    BY <1>11, <2>1 DEF Appended
  <2> QED
    BY <2>1, <2>2 DEF Holds
<1>12. \A i \in 1 .. l : Holds(hi, bcc[i]) \/ Holds(no, bcc[i]) \/ Holds(s, <<bcc[i], 1>>)
  BY <1>1, <1>4, <1>5 DEF NoneLost
<1>13. CASE f \in High
  <2>1. PICK p : p = Append(hi, f) /\ p \in Seq(High) /\ Appended(p, hi, f)
    BY <1>1, <1>13, Appending
  <2>2. WaitInOrder(p, bcc, s)
    BY <1>1, <1>2, <1>3, <2>1, NewWaits
  <2>3. WaitInOrder(no, bcc, s)
    <3>1. Appended(Append(no, f), no, f)
      BY <1>2, Appending
    <3> QED
      BY <1>1, <1>2, <1>3, <3>1, NewWaits
  <2>4. NoneLost(p, no, bcc, s)
    <3>1. Holds(p, f) /\ \A e : Holds(hi, e) => Holds(p, e)
      BY <1>2, <1>11, <2>1
    <3> QED
      BY <1>5, <1>6, <1>12, <3>1 DEF NoneLost
  <2> QED
    BY <1>1, <1>3, <1>7, <1>9, <1>10, <1>13, <2>1, <2>2, <2>3, <2>4 DEF Control
<1>14. CASE f \notin High
  <2>1. PICK p : p = Append(no, f) /\ p \in Seq(Frame \ High) /\ Appended(p, no, f)
    BY <1>1, <1>14, Appending
  <2>2. WaitInOrder(p, bcc, s)
    BY <1>1, <1>2, <1>3, <2>1, NewWaits
  <2>3. WaitInOrder(hi, bcc, s)
    <3>1. Appended(Append(hi, f), hi, f)
      BY <1>2, Appending
    <3> QED
      BY <1>1, <1>2, <1>3, <3>1, NewWaits
  <2>4. NoneLost(hi, p, bcc, s)
    <3>1. Holds(p, f) /\ \A e : Holds(no, e) => Holds(p, e)
      BY <1>2, <1>11, <2>1
    <3> QED
      BY <1>5, <1>6, <1>12, <3>1 DEF NoneLost
  <2> QED
    BY <1>1, <1>3, <1>7, <1>9, <1>10, <1>14, <2>1, <2>2, <2>3, <2>4 DEF Control
<1> QED
  BY <1>13, <1>14

OtherPriority(q, o) == \A i \in 1 .. Len(q), j \in 1 .. Len(o) : ~(q[i] \in High <=> o[j] \in High)

\* What starting the first frame of the queue q, with o the other queue, does to the stream
\* and to the queues.
LEMMA Starting ==
  ASSUME NEW q \in Seq(Frame), NEW o \in Seq(Frame), NEW acc \in Seq(Frame), NEW s \in Seq(Byte),
         Len(q) >= 1, OtherPriority(q, o), Distinct(acc),
         WaitInOrder(q, acc, s), WaitInOrder(o, acc, s),
         StartedOnce(acc, s), Intact(s), StartInOrder(acc, s), NoneLost(q, o, acc, s),
         NEW r \in Seq(Frame), Shifted(r, q), NEW t \in Seq(Byte), Joined(t, s, q[1])
  PROVE  /\ WaitInOrder(r, acc, t) /\ WaitInOrder(o, acc, t)
         /\ StartedOnce(acc, t) /\ Intact(t) /\ StartInOrder(acc, t) /\ NoneLost(r, o, acc, t)
<1>1. PICK f \in Frame : f = q[1]
  OBVIOUS
<1>2. 1 \in 1 .. Len(q) /\ Joined(t, s, f)
  BY <1>1
<1>3. WaitInOrder(r, acc, t)
  BY TailWaits
<1>4. ~Holds(o, f)
  BY <1>1, <1>2 DEF Holds, OtherPriority
<1>5. WaitInOrder(o, acc, t)
  BY <1>2, <1>4, OthersWait
<1>6. Holds(acc, f) /\ \A n \in 1 .. Len(s) : s[n][1] # f
  BY <1>1, <1>2 DEF WaitInOrder
<1>7. Intact(t)
  BY <1>2, <1>6, IntactExtended
<1>8. /\ \A k \in 1 .. Len(t) : (k \in 1 .. Len(s) /\ t[k] = s[k]) \/ t[k][1] = f
      /\ \A e : Holds(s, e) => Holds(t, e)
      /\ Holds(t, <<f, 1>>)
  BY <1>2, NewOrOld
<1>9. StartedOnce(acc, t)
  BY <1>6, <1>8 DEF StartedOnce
<1>10. StartInOrder(acc, t)
  <2>1. \A i \in 1 .. Len(acc) :
          (acc[i] \in High <=> q[1] \in High) => Holds(q, acc[i]) \/ Holds(s, <<acc[i], 1>>)
    BY <1>2 DEF Holds, NoneLost, OtherPriority
  <2> QED
    BY <2>1, StartOrderExtended
<1>11. ASSUME NEW e, Holds(q, e) PROVE e = f \/ Holds(r, e)
  <2>1. PICK k \in 1 .. Len(q) : q[k] = e
    BY <1>11 DEF Holds
  <2>2. k # 1 => k - 1 \in 1 .. Len(q) - 1 /\ (k - 1) + 1 = k
    OBVIOUS
  <2>3. k # 1 => k - 1 \in 1 .. Len(r) /\ r[k - 1] = e
    BY <2>1, <2>2 DEF Shifted
  <2> QED
    BY <1>1, <2>1, <2>3 DEF Holds
<1>12. NoneLost(r, o, acc, t)
  BY <1>8, <1>11 DEF NoneLost
<1> QED
  BY <1>3, <1>5, <1>7, <1>9, <1>10, <1>12

\* The first waiting frame of either priority is started.
LEMMA ControlStarts ==
  ASSUME NEW hi, NEW no, NEW acc, NEW s, Control(hi, no, acc, s)
  PROVE  /\ hi # <<>> => Control(Tail(hi), no, acc, s \o Bytes(Head(hi)))
         /\ no # <<>> => Control(hi, Tail(no), acc, s \o Bytes(Head(no)))
<1>1. /\ hi \in Seq(High) /\ no \in Seq(Frame \ High) /\ acc \in Seq(Frame) /\ s \in Seq(Byte)
      /\ Distinct(acc) /\ WaitInOrder(hi, acc, s) /\ WaitInOrder(no, acc, s)
      /\ StartedOnce(acc, s) /\ Intact(s) /\ NoneLost(hi, no, acc, s) /\ StartInOrder(acc, s)
  BY DEF Control
<1>2. hi \in Seq(Frame) /\ no \in Seq(Frame)
  BY <1>1, FrameAssumption, SeqMonotonic DEF FrameAssumption
<1>3. OtherPriority(hi, no) /\ OtherPriority(no, hi) /\ NoneLost(no, hi, acc, s)
  <2>1. \A i \in 1 .. Len(hi), j \in 1 .. Len(no) : hi[i] \in High /\ no[j] \notin High
    BY <1>1, ElementOfSeq
  <2> QED
    BY <1>1, <2>1 DEF OtherPriority, NoneLost
<1>4. ASSUME hi # <<>> PROVE Control(Tail(hi), no, acc, s \o Bytes(Head(hi)))
  <2>1. PICK f \in Frame : f = Head(hi) /\ f = hi[1] /\ Len(hi) >= 1
    BY <1>2, <1>4, Shifting
  <2>2. PICK r \in Seq(High) : r = Tail(hi) /\ Shifted(r, hi)
    BY <1>1, <1>4, Shifting
  <2>3. PICK t \in Seq(Byte) : t = s \o Bytes(f) /\ Joined(t, s, f)
    BY <1>1, Joining
  <2>4. r \in Seq(Frame) /\ Joined(t, s, hi[1])
    BY <2>1, <2>2, <2>3, FrameAssumption, SeqMonotonic DEF FrameAssumption
  <2>5. /\ WaitInOrder(r, acc, t) /\ WaitInOrder(no, acc, t)
        /\ StartedOnce(acc, t) /\ Intact(t) /\ StartInOrder(acc, t) /\ NoneLost(r, no, acc, t)
    BY <1>1, <1>2, <1>3, <2>1, <2>2, <2>3, <2>4, Starting
  <2>6. Control(r, no, acc, t)
    BY <1>1, <2>2, <2>3, <2>5 DEF Control
  <2> QED
    BY <1>4, <2>1, <2>2, <2>3, <2>6
<1>5. ASSUME no # <<>> PROVE Control(hi, Tail(no), acc, s \o Bytes(Head(no)))
  <2>1. PICK f \in Frame : f = Head(no) /\ f = no[1] /\ Len(no) >= 1
    BY <1>2, <1>5, Shifting
  <2>2. PICK r \in Seq(Frame \ High) : r = Tail(no) /\ Shifted(r, no)
    BY <1>1, <1>5, Shifting
  <2>3. PICK t \in Seq(Byte) : t = s \o Bytes(f) /\ Joined(t, s, f)
    BY <1>1, Joining
  <2>4. r \in Seq(Frame) /\ Joined(t, s, no[1])
    BY <2>1, <2>2, <2>3, SeqMonotonic
  <2>5. /\ WaitInOrder(r, acc, t) /\ WaitInOrder(hi, acc, t)
        /\ StartedOnce(acc, t) /\ Intact(t) /\ StartInOrder(acc, t) /\ NoneLost(r, hi, acc, t)
    BY <1>1, <1>2, <1>3, <2>1, <2>2, <2>3, <2>4, Starting
  <2>6. NoneLost(hi, r, acc, t)
    BY <2>5 DEF NoneLost
  <2>7. Control(hi, r, acc, t)
    BY <1>1, <2>2, <2>3, <2>5, <2>6 DEF Control
  <2> QED
    BY <1>5, <2>1, <2>2, <2>3, <2>7
<1> QED
  BY <1>4, <1>5

-----------------------------------------------------------------------------
(***************************************************************************)
(* What the steps do to the control queue.                                 *)
(***************************************************************************)

\* Bytes that move from the started frame into a packet stay in their place.
LEMMA SendEffect ==
  ASSUME popped \in Seq(Byte), NEW left \in Seq(Byte), Send(left)
  PROVE  popped' \in Seq(Byte) /\ active' \in Seq(Byte) /\ popped' \o active' = popped \o left
<1>1. PICK n \in 0 .. Len(left) :
        popped' = popped \o SubSeq(left, 1, n) /\ active' = SubSeq(left, n + 1, Len(left))
  <2>1. PICK n : n = IF Len(left) < Chunk THEN Len(left) ELSE Chunk
    OBVIOUS
  <2>2. n \in 0 .. Len(left)
    BY <2>1, SizeAssumption DEF SizeAssumption
  <2>3. popped' = popped \o SubSeq(left, 1, n) /\ active' = SubSeq(left, n + 1, Len(left))
    BY <2>1 DEF Send
  <2> QED
    BY <2>2, <2>3
<1>2. PICK a \in Seq(Byte), b \in Seq(Byte) : a = SubSeq(left, 1, n) /\ b = SubSeq(left, n + 1, Len(left))
  <2>1. /\ 1 \in Int /\ n \in Int /\ n + 1 \in Int /\ Len(left) \in Int
        /\ \A i \in 1 .. n : i \in 1 .. Len(left)
        /\ \A i \in n + 1 .. Len(left) : i \in 1 .. Len(left)
    OBVIOUS
  <2>2. SubSeq(left, 1, n) \in Seq(Byte)
    BY <2>1, ElementOfSeq, SubSeqProperties
  <2>3. SubSeq(left, n + 1, Len(left)) \in Seq(Byte)
    BY <2>1, ElementOfSeq, SubSeqProperties
  <2> QED
    BY <2>2, <2>3
<1>3. a \o b = left
  <2>1. Len(left) \in Nat /\ 1 \in 1 .. Len(left) + 1 /\ n \in 1 - 1 .. Len(left) /\ Len(left) \in n .. Len(left)
    OBVIOUS
  <2>2. SubSeq(left, 1, n) \o SubSeq(left, n + 1, Len(left)) = SubSeq(left, 1, Len(left))
    BY <2>1, ConcatAdjacentSubSeq
  <2> QED
    BY <1>2, <2>2, SubSeqFull
<1>4. (popped \o a) \o b = popped \o (a \o b)
  <2>1. PICK p \in Seq(Byte) : p = popped
    OBVIOUS
  <2>2. (p \o a) \o b = p \o (a \o b)
    BY ONLY a \in Seq(Byte), b \in Seq(Byte), p \in Seq(Byte), ConcatAssociative
  <2> QED
    BY <2>1, <2>2
<1> QED
  BY <1>1, <1>2, <1>3, <1>4, ConcatProperties

\* A frame that starts adds all its bytes to those of the started frames.
LEMMA StartEffect ==
  ASSUME popped \in Seq(Byte), active = <<>>, NEW f \in Frame, Send(Bytes(f))
  PROVE  popped' \in Seq(Byte) /\ active' \in Seq(Byte) /\ Started' = Started \o Bytes(f)
<1>1. Started = popped
  BY ConcatEmptySeq DEF Started
<1>2. Bytes(f) \in Seq(Byte)
  BY BytesOf
<1> QED
  BY <1>1, <1>2, SendEffect DEF Started

\* Only accepting and starting a frame change the control queue.
LEMMA ControlStep ==
  ASSUME TypeOK, Control(high, normal, accepted, Started), Next
  PROVE  /\ Control(high', normal', accepted', Started')
         /\ active' \in Seq(Byte) /\ popped' \in Seq(Byte)
<1>1. active \in Seq(Byte) /\ popped \in Seq(Byte) /\ high \in Seq(High) /\ normal \in Seq(Frame \ High)
  BY DEF TypeOK
<1>2. High \subseteq Frame
  BY FrameAssumption DEF FrameAssumption
<1>3. CASE UNCHANGED <<queue, accepted, popped>>
  BY <1>1, <1>3 DEF queue, Started
<1>4. ASSUME NEW g \in Sender, NEW f \in Frame, Enqueue(g, f)
      PROVE  /\ Control(high', normal', accepted', Started')
             /\ active' \in Seq(Byte) /\ popped' \in Seq(Byte)
  <2>1. UNCHANGED <<active, popped>> /\ accepted' = Append(accepted, f) /\ ~Holds(accepted, f)
    BY <1>4 DEF Enqueue, Holds, TypeOK
  <2>2. Started' = Started
    BY <2>1 DEF Started
  <2>3. CASE f \in High
    <3>1. high' = Append(high, f) /\ normal' = normal
      BY <1>4, <2>3 DEF Enqueue, AppendHigh
    <3> QED
      BY <1>1, <2>1, <2>2, <2>3, <3>1, ControlAccepts
  <2>4. CASE f \notin High
    <3>1. normal' = Append(normal, f) /\ high' = high
      BY <1>4, <2>4 DEF Enqueue, AppendNormal
    <3> QED
      BY <1>1, <2>1, <2>2, <2>4, <3>1, ControlAccepts
  <2> QED
    BY <2>3, <2>4
<1>5. CASE Pop
  <2>1. accepted' = accepted
    BY <1>5 DEF Pop
  <2>2. CASE Continue
    <3>1. /\ popped' \in Seq(Byte) /\ active' \in Seq(Byte) /\ Started' = Started
          /\ UNCHANGED <<high, normal>>
      BY <1>1, <2>2, SendEffect DEF Continue, Started
    <3> QED
      BY <2>1, <3>1
  <2>3. ASSUME active = <<>>, NEW f \in Frame, Send(Bytes(f))
        PROVE  popped' \in Seq(Byte) /\ active' \in Seq(Byte) /\ Started' = Started \o Bytes(f)
    BY <1>1, <2>3, StartEffect
  <2>4. CASE StartHigh
    <3>1. Head(high) \in Frame /\ high # <<>>
      BY <1>1, <1>2, <2>4, Shifting DEF StartHigh
    <3>2. /\ popped' \in Seq(Byte) /\ active' \in Seq(Byte)
          /\ Started' = Started \o Bytes(Head(high))
      BY <2>3, <2>4, <3>1 DEF StartHigh
    <3>3. high' = Tail(high) /\ normal' = normal
      BY <2>4 DEF StartHigh
    <3> QED
      BY <2>1, <3>1, <3>2, <3>3, ControlStarts
  <2>5. CASE StartNormal
    <3>1. Head(normal) \in Frame /\ normal # <<>>
      BY <1>1, <1>2, <2>5, Shifting DEF StartNormal
    <3>2. /\ popped' \in Seq(Byte) /\ active' \in Seq(Byte)
          /\ Started' = Started \o Bytes(Head(normal))
      BY <2>3, <2>5, <3>1 DEF StartNormal
    <3>3. normal' = Tail(normal) /\ high' = high
      BY <2>5 DEF StartNormal
    <3> QED
      BY <2>1, <3>1, <3>2, <3>3, ControlStarts
  <2>6. CASE UNCHANGED <<queue, popped>>
    BY <1>3, <2>1, <2>6
  <2> QED
    BY <1>5, <2>2, <2>4, <2>5, <2>6 DEF Pop
<1> QED
  BY <1>3, <1>4, <1>5
     DEF Next, LearnPeer, SetSource, AudioAges, Speak, Produce, ControlDrain, Offer, Flush, Again,
         Transmit, Tick, Check, Write, history

-----------------------------------------------------------------------------
(***************************************************************************)
(* Types, and the peer.                                                    *)
(***************************************************************************)

LEMMA BlockFields ==
  /\ Silence \in Block /\ Silence[1] = "silence" /\ Silence[2] = 0
  /\ \A b \in Block : b = Silence \/ (b[1] \in Speaker /\ b[2] \in 1 .. MaxBlocks /\ b # Silence)
  /\ \A g \in Speaker, n \in 1 .. MaxBlocks :
       <<g, n>> \in Block /\ <<g, n>>[1] = g /\ <<g, n>>[2] = n
BY ProcessAssumption DEF Block, Silence, ProcessAssumption

\* What happens to the channel: a block joins it, its oldest leaves it, or nothing.
LEMMA AudioEffect ==
  ASSUME TypeOK, Next
  PROVE  /\ audio' \in Seq(Block) /\ Len(audio') <= Capacity
         /\ block' \in [Producer -> Block] /\ taken' \in Block
<1>1. /\ audio \in Seq(Block) /\ Len(audio) <= Capacity /\ block \in [Producer -> Block]
      /\ taken \in Block /\ Capacity \in Nat /\ Capacity >= 1
      /\ spoken \in [Speaker -> 0 .. MaxBlocks] /\ MaxBlocks \in Nat
  BY SizeAssumption DEF TypeOK, SizeAssumption
<1>2. ASSUME NEW g \in Producer, Len(audio) < Capacity
      PROVE  Append(audio, block[g]) \in Seq(Block) /\ Len(Append(audio, block[g])) <= Capacity
  BY <1>1, <1>2, AppendProperties
<1>3. ASSUME audio # <<>>
      PROVE  Tail(audio) \in Seq(Block) /\ Len(Tail(audio)) <= Capacity /\ Head(audio) \in Block
  BY <1>1, <1>3, HeadTailProperties
<1>4. ASSUME NEW g \in Speaker, Speak(g) PROVE block' \in [Producer -> Block]
  <2>1. spoken[g] + 1 \in 1 .. MaxBlocks /\ spoken'[g] = spoken[g] + 1
    BY <1>1, <1>4 DEF Speak
  <2>2. <<g, spoken'[g]>> \in Block
    BY <2>1, BlockFields
  <2> QED
    BY <1>1, <1>4, <2>2 DEF Speak
<1>5. ASSUME NEW g \in Producer, Offer(g) \/ Again(g)
      PROVE  /\ audio' \in Seq(Block) /\ Len(audio') <= Capacity
             /\ block' \in [Producer -> Block]
  <2>1. audio' = audio \/ (Len(audio) < Capacity /\ audio' = Append(audio, block[g]))
    BY <1>5 DEF Offer, Again, Put
  <2>2. block' = block \/ block' = [block EXCEPT ![g] = Silence]
    BY <1>5 DEF Offer, Again, Return
  <2>3. block' \in [Producer -> Block]
    BY <1>1, <2>2, BlockFields
  <2> QED
    BY <1>1, <1>2, <2>1, <2>3
<1>6. ASSUME NEW g \in Producer, ControlDrain(g) PROVE block' \in [Producer -> Block]
  BY <1>1, <1>6, BlockFields DEF ControlDrain
<1>7. ASSUME NEW g \in Producer, Flush(g) PROVE audio' \in Seq(Block) /\ Len(audio') <= Capacity
  BY <1>1, <1>3, <1>7 DEF Flush
<1>8. CASE Tick
  BY <1>1, <1>3, <1>8 DEF Tick, producers
<1>9. CASE Check \/ Write \/ Pop
  BY <1>1, <1>9, BlockFields DEF Check, Write, Pop, producers
<1> QED
  BY <1>1, <1>4, <1>5, <1>6, <1>7, <1>8, <1>9
     DEF Next, LearnPeer, SetSource, AudioAges, Enqueue, Speak, Produce, ControlDrain, Offer, Flush,
         Again, Transmit, producers, ticker

\* The other variables.
LEMMA PlainTypes ==
  ASSUME TypeOK, Next
  PROVE  /\ peer' \in BOOLEAN /\ quiet' \in BOOLEAN /\ recent' \in BOOLEAN
         /\ pc' \in [Producer -> {"ready", "drain", "offer", "flush", "again"}]
         /\ spoken' \in [Speaker -> 0 .. MaxBlocks]
         /\ tick' \in {"idle", "check", "pop", "write"}
         /\ aired' \in [Speaker -> 0 .. MaxBlocks]
<1>1. MaxBlocks \in Nat
  BY SizeAssumption DEF SizeAssumption
<1>2. CASE LearnPeer \/ SetSource \/ AudioAges
  BY <1>2 DEF TypeOK, LearnPeer, SetSource, AudioAges, producers, ticker, history
<1>3. ASSUME NEW g \in Sender, NEW f \in Frame, Enqueue(g, f)
      PROVE  /\ pc' \in [Producer -> {"ready", "drain", "offer", "flush", "again"}]
             /\ UNCHANGED <<settings, spoken, ticker, aired>>
  BY <1>3 DEF TypeOK, Enqueue, Goto, Producer
<1>4. ASSUME NEW g \in Speaker, Speak(g)
      PROVE  /\ pc' \in [Producer -> {"ready", "drain", "offer", "flush", "again"}]
             /\ spoken' \in [Speaker -> 0 .. MaxBlocks] /\ recent' \in BOOLEAN
             /\ UNCHANGED <<peer, quiet, ticker, aired>>
  <2>1. spoken[g] + 1 \in 0 .. MaxBlocks
    BY <1>1, <1>4 DEF TypeOK, Speak
  <2> QED
    BY <1>4, <2>1 DEF TypeOK, Speak, Goto, Producer, history
<1>5. ASSUME NEW g \in Producer, Produce(g)
      PROVE  /\ pc' \in [Producer -> {"ready", "drain", "offer", "flush", "again"}]
             /\ UNCHANGED <<settings, spoken, ticker, aired>>
  BY <1>5 DEF TypeOK, Produce, ControlDrain, Offer, Flush, Again, Return, Goto, history
<1>6. CASE Tick \/ Check \/ Pop
  BY <1>6 DEF TypeOK, Tick, Check, Pop, settings, producers, history
<1>7. CASE Write
  <2>1. aired' \in [Speaker -> 0 .. MaxBlocks]
    <3>1. taken = Silence \/ (taken[1] \in Speaker /\ taken[2] \in 0 .. MaxBlocks)
      BY <1>1, BlockFields DEF TypeOK
    <3> QED
      BY <1>7, <3>1 DEF TypeOK, Write
  <2> QED
    BY <1>7, <2>1 DEF TypeOK, Write, settings, producers
<1> QED
  BY <1>2, <1>3, <1>4, <1>5, <1>6, <1>7 DEF Next, Transmit, TypeOK, settings, ticker

LEMMA TypesStep ==
  ASSUME TypeOK, Control(high, normal, accepted, Started), Next
  PROVE  TypeOK'
BY ControlStep, AudioEffect, PlainTypes DEF TypeOK, Control

\* Blocks are queued, and packets built, once the peer is known.
LEMMA PeerStep ==
  ASSUME TypeOK, PeerBeforeBytes, Next
  PROVE  PeerBeforeBytes'
<1>1. CASE LearnPeer
  BY <1>1 DEF LearnPeer, PeerBeforeBytes
<1>2. CASE SetSource \/ AudioAges
  BY <1>2 DEF SetSource, AudioAges, PeerBeforeBytes, Queueing, queue, producers, ticker
<1>3. ASSUME NEW g \in Sender, NEW f \in Frame, Enqueue(g, f) PROVE PeerBeforeBytes'
  BY <1>3 DEF Enqueue, Goto, PeerBeforeBytes, Queueing, TypeOK, settings, ticker
<1>4. ASSUME NEW g \in Speaker, Speak(g) PROVE PeerBeforeBytes'
  BY <1>4 DEF Speak, Goto, PeerBeforeBytes, Queueing, TypeOK, queue, ticker
<1>5. ASSUME NEW g \in Producer, ControlDrain(g) PROVE PeerBeforeBytes'
  BY <1>5 DEF ControlDrain, Goto, PeerBeforeBytes, Queueing, TypeOK, queue, settings, ticker
<1>6. ASSUME NEW g \in Producer, Offer(g) PROVE PeerBeforeBytes'
  BY <1>6 DEF Offer, Return, Goto, PeerBeforeBytes, Queueing, TypeOK, queue, settings, ticker
<1>7. ASSUME NEW g \in Producer, Flush(g) PROVE PeerBeforeBytes'
  BY <1>7 DEF Flush, Goto, PeerBeforeBytes, Queueing, TypeOK, queue, settings, ticker
<1>8. ASSUME NEW g \in Producer, Again(g) PROVE PeerBeforeBytes'
  BY <1>8 DEF Again, Return, Goto, PeerBeforeBytes, Queueing, TypeOK, queue, settings, ticker
<1>9. CASE Tick
  BY <1>9 DEF Tick, PeerBeforeBytes, Queueing, queue, settings, producers
<1>10. CASE Check
  BY <1>10 DEF Check, PeerBeforeBytes, Queueing, queue, settings, producers
<1>11. CASE Pop
  BY <1>11 DEF Pop, PeerBeforeBytes, Queueing, settings, producers
<1>12. CASE Write
  BY <1>12 DEF Write, PeerBeforeBytes, Queueing, queue, settings, producers
<1> QED
  BY <1>1, <1>2, <1>3, <1>4, <1>5, <1>6, <1>7, <1>8, <1>9, <1>10, <1>11, <1>12
     DEF Next, Produce, Transmit

-----------------------------------------------------------------------------
(***************************************************************************)
(* The order of audio.                                                     *)
(***************************************************************************)

\* A goroutine queues its own block.
LEMMA OwnedStep ==
  ASSUME TypeOK, BlocksOwned, Next
  PROVE  BlocksOwned'
<1>1. CASE UNCHANGED <<pc, block, spoken>>
  BY <1>1 DEF BlocksOwned, Queueing
<1>2. ASSUME NEW g \in Sender, NEW f \in Frame, Enqueue(g, f) PROVE BlocksOwned'
  BY <1>2, ProcessAssumption
     DEF Enqueue, Goto, BlocksOwned, Queueing, TypeOK, Producer, ProcessAssumption
<1>3. ASSUME NEW g \in Speaker, Speak(g) PROVE BlocksOwned'
  <2>1. g \notin Sender /\ g \in Producer
    BY ProcessAssumption DEF ProcessAssumption, Producer
  <2>2. CASE peer
    BY <1>3, <2>1, <2>2 DEF Speak, Goto, BlocksOwned, Queueing, TypeOK, Producer
  <2>3. CASE ~peer
    BY <1>3, <2>1, <2>3 DEF Speak, BlocksOwned, Queueing, TypeOK, Producer
  <2> QED
    BY <2>2, <2>3
<1>4. ASSUME NEW g \in Producer, ControlDrain(g) PROVE BlocksOwned'
  <2>1. g \notin Speaker
    BY <1>4 DEF ControlDrain, BlocksOwned
  <2> QED
    BY <1>4, <2>1 DEF ControlDrain, Goto, BlocksOwned, Queueing, TypeOK, Producer
<1>5. ASSUME NEW g \in Producer, Offer(g) \/ Again(g) PROVE BlocksOwned'
  <2>1. /\ UNCHANGED spoken
        /\ \/ pc' = [pc EXCEPT ![g] = "ready"] /\ block' = [block EXCEPT ![g] = Silence]
           \/ Queueing(g) /\ pc' = [pc EXCEPT ![g] = "flush"] /\ block' = block
    BY <1>5 DEF Offer, Again, Return, Goto, Queueing
  <2> QED
    BY <2>1 DEF BlocksOwned, Queueing, TypeOK, Producer
<1>6. ASSUME NEW g \in Producer, Flush(g) PROVE BlocksOwned'
  <2>1. /\ UNCHANGED <<spoken, block>> /\ Queueing(g)
        /\ pc' = pc \/ pc' = [pc EXCEPT ![g] = "again"]
    BY <1>6 DEF Flush, Goto, Queueing
  <2> QED
    BY <2>1 DEF BlocksOwned, Queueing, TypeOK, Producer
<1> QED
  BY <1>1, <1>2, <1>3, <1>4, <1>5, <1>6
     DEF Next, LearnPeer, SetSource, AudioAges, Produce, Transmit, Tick, Check, Pop, Write, producers

\* Facts about the blocks under way, as numbers.
LEMMA AudioNumbers ==
  ASSUME TypeOK, AudioAscends
  PROVE  /\ Len(audio) \in Nat
         /\ \A i \in 1 .. Len(audio) : audio[i] \in Block
         /\ \A g \in Speaker : spoken[g] \in Nat /\ aired[g] \in Nat /\ Newest(g) \in Int
         /\ \A b \in Block : b[1] \in Speaker => b[2] \in Nat
<1>1. MaxBlocks \in Nat
  BY SizeAssumption DEF SizeAssumption
<1>2. \A i \in 1 .. Len(audio) : audio[i] \in Block
  BY ElementOfSeq DEF TypeOK
<1>3. \A b \in Block : b[1] \in Speaker => b[2] \in Nat
  BY <1>1, BlockFields, ProcessAssumption DEF ProcessAssumption
<1> QED
  BY <1>1, <1>2, <1>3 DEF TypeOK, Newest

\* A block that joins the channel is newer than all of its speaker under way.
LEMMA PutStep ==
  ASSUME TypeOK, BlocksOwned, AudioAscends, NEW g \in Producer, Offer(g) \/ Again(g)
  PROVE  AudioAscends'
<1>1. PICK n \in Nat : n = Len(audio)
  BY AudioNumbers
<1>2. /\ UNCHANGED <<spoken, taken, aired>>
      /\ \/ UNCHANGED audio /\ pc' = [pc EXCEPT ![g] = "ready"]
         \/ UNCHANGED audio /\ pc' = [pc EXCEPT ![g] = "flush"]
         \/ audio' = Append(audio, block[g]) /\ pc' = [pc EXCEPT ![g] = "ready"]
      /\ Queueing(g)
  BY DEF Offer, Again, Put, Return, Goto, Queueing, ticker, history
<1>3. \A h \in Speaker : /\ Newest(h) <= Newest(h)'
                         /\ h # g => Newest(h)' = Newest(h)
                         /\ h = g /\ pc'[g] = "ready" => Newest(h)' = spoken[g] /\ Newest(h) = spoken[g] - 1
  BY <1>2, AudioNumbers DEF Newest, Queueing, TypeOK, Producer
<1>4. ASSUME NEW h \in Speaker PROVE TakenInOrder(h)'
  <2>1. PICK b : b = taken
    OBVIOUS
  <2>2. b \in Block /\ (b[1] = h => b[2] \in Nat)
    BY <2>1, AudioNumbers DEF TypeOK
  <2>3. aired[h] <= Newest(h) /\ (b[1] = h => aired[h] < b[2] /\ b[2] <= Newest(h))
    BY <2>1 DEF AudioAscends, TakenInOrder
  <2>4. aired'[h] = aired[h] /\ taken' = b /\ aired[h] \in Nat /\ Newest(h) \in Int /\ Newest(h)' \in Int
    BY <1>2, <1>3, <2>1, AudioNumbers DEF Newest
  <2> QED
    BY <1>3, <2>2, <2>3, <2>4 DEF TakenInOrder
<1>5. ASSUME NEW i \in 1 .. n, audio'[i] = audio[i], \A j \in 1 .. n : audio'[j] = audio[j]
      PROVE  QueuedInOrder(i)'
  <2>1. PICK b \in Block : b = audio[i] /\ b = audio'[i]
    BY <1>1, <1>5, AudioNumbers
  <2>2. SUFFICES ASSUME b[1] \in Speaker
                 PROVE  /\ aired[b[1]] < b[2] /\ b[2] <= Newest(b[1])'
                        /\ taken[1] = b[1] => taken[2] < b[2]
                        /\ \A j \in 1 .. i - 1 : audio'[j][1] = b[1] => audio'[j][2] < b[2]
    BY <1>2, <2>1 DEF QueuedInOrder
  <2>3. /\ aired[b[1]] < b[2] /\ b[2] <= Newest(b[1])
        /\ taken[1] = b[1] => taken[2] < b[2]
        /\ \A j \in 1 .. i - 1 : audio[j][1] = b[1] => audio[j][2] < b[2]
    BY <1>1, <2>1, <2>2 DEF AudioAscends, QueuedInOrder
  <2>4. b[2] <= Newest(b[1])'
    <3>1. b[2] \in Nat /\ Newest(b[1]) \in Int /\ Newest(b[1])' \in Int
      BY <1>2, <1>3, <2>2, AudioNumbers DEF Newest
    <3> QED
      BY <1>3, <2>2, <2>3, <3>1
  <2>5. \A j \in 1 .. i - 1 : audio'[j] = audio[j]
    BY <1>5
  <2> QED
    BY <2>3, <2>4, <2>5
<1>6. CASE UNCHANGED audio
  BY <1>1, <1>4, <1>5, <1>6 DEF AudioAscends
<1>7. CASE audio' = Append(audio, block[g]) /\ pc' = [pc EXCEPT ![g] = "ready"]
  <2>1. block[g] \in Block
    BY DEF TypeOK
  <2>2. Appended(audio', audio, block[g])
    BY <1>7, <2>1, Appending DEF TypeOK
  <2>3. Len(audio') = n + 1 /\ audio'[n + 1] = block[g] /\ \A j \in 1 .. n : audio'[j] = audio[j]
    BY <1>1, <2>2 DEF Appended
  <2>4. QueuedInOrder(n + 1)'
    <3>1. SUFFICES ASSUME g \in Speaker, block[g] = <<g, spoken[g]>>
                   PROVE  QueuedInOrder(n + 1)'
      <4>1. CASE g \in Sender
        <5>1. audio'[n + 1][1] \notin Speaker
          BY <2>3, <4>1, BlockFields, ProcessAssumption DEF BlocksOwned, ProcessAssumption
        <5> QED
          BY <5>1 DEF QueuedInOrder
      <4>2. CASE g \in Speaker
        BY <1>2, <3>1, <4>2 DEF BlocksOwned
      <4> QED
        BY <4>1, <4>2 DEF Producer
    <3>2. PICK m \in Nat : m = spoken[g]
      BY <3>1, AudioNumbers
    <3>3. audio'[n + 1] = <<g, m>> /\ audio'[n + 1][1] = g /\ audio'[n + 1][2] = m
      BY <2>3, <3>1, <3>2
    <3>4. Newest(g) = m - 1 /\ Newest(g)' = m /\ aired'[g] = aired[g] /\ aired[g] \in Nat /\ taken' = taken
      <4>1. pc'[g] = "ready"
        BY <1>7 DEF TypeOK
      <4> QED
        BY <1>2, <1>3, <3>1, <3>2, <4>1, AudioNumbers
    <3>5. aired[g] < m /\ (taken[1] = g => taken[2] < m)
      <4>1. aired[g] <= m - 1 /\ (taken[1] = g => taken[2] <= m - 1 /\ taken[2] \in Nat)
        BY <3>1, <3>4, AudioNumbers DEF AudioAscends, TakenInOrder, TypeOK
      <4> QED
        BY <3>4, <4>1
    <3>6. ASSUME NEW j \in 1 .. n, audio'[j][1] = g PROVE audio'[j][2] < m
      <4>1. audio[j] \in Block /\ audio[j][1] = g /\ audio'[j] = audio[j] /\ audio[j][2] \in Nat
        BY <1>1, <2>3, <3>1, <3>6, AudioNumbers
      <4>2. audio[j][2] <= m - 1
        BY <1>1, <3>1, <3>4, <4>1 DEF AudioAscends, QueuedInOrder
      <4> QED
        BY <4>1, <4>2
    <3>7. 1 .. (n + 1) - 1 = 1 .. n
      OBVIOUS
    <3> QED
      BY <3>3, <3>4, <3>5, <3>6, <3>7 DEF QueuedInOrder
  <2>5. ASSUME NEW i \in 1 .. n + 1 PROVE QueuedInOrder(i)'
    <3>1. CASE i = n + 1
      BY <2>4, <3>1
    <3>2. CASE i \in 1 .. n
      BY <1>5, <2>3, <3>2
    <3> QED
      BY <3>1, <3>2
  <2> QED
    BY <1>4, <2>3, <2>5 DEF AudioAscends
<1> QED
  BY <1>2, <1>6, <1>7

\* The channel loses its oldest blocks, the ticker its block, or speakers go on.
LEMMA DropStep ==
  ASSUME TypeOK, AudioAscends,
         \A g \in Speaker : Newest(g) <= Newest(g)' /\ Newest(g)' \in Int,
         UNCHANGED aired, taken' = taken \/ taken' = Silence,
         audio' = audio \/ (audio # <<>> /\ audio' = Tail(audio))
  PROVE  AudioAscends'
<1>1. PICK n \in Nat : n = Len(audio)
  BY AudioNumbers
<1>2. PICK d \in {0, 1} : Len(audio') = n - d /\ \A i \in 1 .. n - d : audio'[i] = audio[i + d]
  <2>1. CASE audio' = audio
    <3>1. Len(audio') = n - 0 /\ \A i \in 1 .. n - 0 : audio'[i] = audio[i + 0]
      BY <1>1, <2>1
    <3> QED
      BY <3>1
  <2>2. CASE audio # <<>> /\ audio' = Tail(audio)
    <3>1. Shifted(audio', audio)
      BY <2>2, Shifting DEF TypeOK
    <3>2. Len(audio') = n - 1 /\ \A i \in 1 .. n - 1 : audio'[i] = audio[i + 1]
      BY <1>1, <3>1 DEF Shifted
    <3> QED
      BY <3>2
  <2> QED
    BY <2>1, <2>2
<1>3. \A g \in Speaker : taken'[1] = g => taken' = taken
  BY BlockFields, ProcessAssumption DEF ProcessAssumption
<1>4. ASSUME NEW g \in Speaker PROVE TakenInOrder(g)'
  <2>1. aired[g] <= Newest(g) /\ (taken[1] = g => aired[g] < taken[2] /\ taken[2] <= Newest(g))
    BY DEF AudioAscends, TakenInOrder
  <2>2. aired[g] \in Nat /\ Newest(g) \in Int /\ (taken[1] = g => taken[2] \in Nat)
    BY AudioNumbers DEF TypeOK
  <2> QED
    BY <1>3, <2>1, <2>2 DEF TakenInOrder
<1>5. ASSUME NEW i \in 1 .. n - d PROVE QueuedInOrder(i)'
  <2>1. i + d \in 1 .. n
    OBVIOUS
  <2>2. PICK b \in Block : b = audio[i + d] /\ b = audio'[i]
    BY <1>1, <1>2, <2>1, AudioNumbers
  <2>3. SUFFICES ASSUME b[1] \in Speaker
                 PROVE  /\ aired[b[1]] < b[2] /\ b[2] <= Newest(b[1])'
                        /\ taken'[1] = b[1] => taken'[2] < b[2]
                        /\ \A j \in 1 .. i - 1 : audio'[j][1] = b[1] => audio'[j][2] < b[2]
    BY <2>2 DEF QueuedInOrder
  <2>4. /\ aired[b[1]] < b[2] /\ b[2] <= Newest(b[1])
        /\ taken[1] = b[1] => taken[2] < b[2]
        /\ \A j \in 1 .. (i + d) - 1 : audio[j][1] = b[1] => audio[j][2] < b[2]
    BY <1>1, <2>1, <2>2, <2>3 DEF AudioAscends, QueuedInOrder
  <2>5. b[2] <= Newest(b[1])'
    <3>1. b[2] \in Nat /\ Newest(b[1]) \in Int
      BY <2>3, AudioNumbers
    <3> QED
      BY <2>3, <2>4, <3>1
  <2>6. ASSUME NEW j \in 1 .. i - 1, audio'[j][1] = b[1] PROVE audio'[j][2] < b[2]
    <3>1. j + d \in 1 .. (i + d) - 1 /\ j \in 1 .. n - d
      BY <2>1
    <3>2. audio'[j] = audio[j + d]
      BY <1>2, <3>1
    <3> QED
      BY <2>4, <2>6, <3>1, <3>2
  <2> QED
    BY <1>3, <2>3, <2>4, <2>5, <2>6
<1> QED
  BY <1>2, <1>4, <1>5 DEF AudioAscends

\* The ticker takes the oldest block.
LEMMA TickStep ==
  ASSUME TypeOK, AudioAscends, Tick
  PROVE  AudioAscends'
<1>1. UNCHANGED <<pc, spoken, aired>>
  BY DEF Tick, producers, history
<1>2. \A g \in Speaker : Newest(g)' = Newest(g) /\ Newest(g) \in Int /\ aired[g] \in Nat
  BY <1>1, AudioNumbers DEF Newest, Queueing
<1>3. CASE audio = <<>>
  <2>1. UNCHANGED <<audio, taken>>
    BY <1>3 DEF Tick
  <2> QED
    BY <1>1, <1>2, <2>1, DropStep
<1>4. CASE audio # <<>>
  <2>1. PICK n \in Nat : n = Len(audio) /\ n >= 1
    BY <1>4, Shifting DEF TypeOK
  <2>2. taken' = audio[1] /\ Len(audio') = n - 1 /\ \A i \in 1 .. n - 1 : audio'[i] = audio[i + 1]
    BY <1>4, <2>1, Shifting DEF Tick, TypeOK, Shifted
  <2>3. ASSUME NEW g \in Speaker PROVE TakenInOrder(g)'
    <3>1. aired[g] <= Newest(g)
      BY DEF AudioAscends, TakenInOrder
    <3>2. 1 \in 1 .. Len(audio)
      BY <2>1
    <3>3. audio[1][1] = g => aired[g] < audio[1][2] /\ audio[1][2] <= Newest(g)
      BY <3>2 DEF AudioAscends, QueuedInOrder
    <3> QED
      BY <1>1, <1>2, <2>2, <3>1, <3>3 DEF TakenInOrder
  <2>4. ASSUME NEW i \in 1 .. n - 1 PROVE QueuedInOrder(i)'
    <3>1. i + 1 \in 1 .. n
      OBVIOUS
    <3>2. PICK b : b = audio[i + 1] /\ b = audio'[i]
      BY <2>2
    <3>3. SUFFICES ASSUME b[1] \in Speaker
                   PROVE  /\ aired[b[1]] < b[2] /\ b[2] <= Newest(b[1])
                          /\ audio[1][1] = b[1] => audio[1][2] < b[2]
                          /\ \A j \in 1 .. i - 1 : audio'[j][1] = b[1] => audio'[j][2] < b[2]
      BY <1>1, <1>2, <2>2, <3>2 DEF QueuedInOrder
    <3>4. /\ aired[b[1]] < b[2] /\ b[2] <= Newest(b[1])
          /\ \A j \in 1 .. (i + 1) - 1 : audio[j][1] = b[1] => audio[j][2] < b[2]
      BY <2>1, <3>1, <3>2, <3>3 DEF AudioAscends, QueuedInOrder
    <3>5. audio[1][1] = b[1] => audio[1][2] < b[2]
      <4>1. 1 \in 1 .. (i + 1) - 1
        OBVIOUS
      <4> QED
        BY <3>4, <4>1
    <3>6. ASSUME NEW j \in 1 .. i - 1, audio'[j][1] = b[1] PROVE audio'[j][2] < b[2]
      <4>1. j + 1 \in 1 .. (i + 1) - 1 /\ j \in 1 .. n - 1
        BY <3>1
      <4>2. audio'[j] = audio[j + 1]
        BY <2>2, <4>1
      <4> QED
        BY <3>4, <3>6, <4>1, <4>2
    <3> QED
      BY <3>4, <3>5, <3>6
  <2> QED
    BY <2>2, <2>3, <2>4 DEF AudioAscends
<1> QED
  BY <1>3, <1>4

\* The packet leaves, and its block becomes the last one aired.
LEMMA WriteStep ==
  ASSUME TypeOK, AudioAscends, Write
  PROVE  AudioAscends'
<1>1. UNCHANGED <<pc, spoken, audio>> /\ taken' = Silence
  BY DEF Write, producers
<1>2. \A g \in Speaker : Newest(g)' = Newest(g) /\ Newest(g) \in Int
  BY <1>1, AudioNumbers DEF Newest, Queueing
<1>3. \A g \in Speaker : taken'[1] # g
  BY <1>1, BlockFields, ProcessAssumption DEF ProcessAssumption
<1>4. CASE aired' = aired
  BY <1>1, <1>2, <1>4, DropStep
<1>5. CASE taken # Silence /\ aired' = [aired EXCEPT ![taken[1]] = taken[2]]
  <2>1. taken[1] \in Speaker
    BY <1>5, BlockFields DEF TypeOK
  <2>2. \A g \in Speaker : aired'[g] = IF g = taken[1] THEN taken[2] ELSE aired[g]
    BY <1>5, <2>1 DEF TypeOK
  <2>3. ASSUME NEW g \in Speaker PROVE TakenInOrder(g)'
    BY <1>2, <1>3, <2>2 DEF AudioAscends, TakenInOrder
  <2>4. ASSUME NEW i \in 1 .. Len(audio) PROVE QueuedInOrder(i)'
    <3>1. PICK b : b = audio[i] /\ b = audio'[i]
      BY <1>1
    <3>2. SUFFICES ASSUME b[1] \in Speaker
                   PROVE  /\ aired'[b[1]] < b[2] /\ b[2] <= Newest(b[1])
                          /\ \A j \in 1 .. i - 1 : audio[j][1] = b[1] => audio[j][2] < b[2]
      BY <1>1, <1>2, <1>3, <3>1 DEF QueuedInOrder
    <3>3. /\ aired[b[1]] < b[2] /\ b[2] <= Newest(b[1])
          /\ taken[1] = b[1] => taken[2] < b[2]
          /\ \A j \in 1 .. i - 1 : audio[j][1] = b[1] => audio[j][2] < b[2]
      BY <3>1, <3>2 DEF AudioAscends, QueuedInOrder
    <3>4. aired'[b[1]] < b[2]
      BY <2>2, <3>2, <3>3
    <3> QED
      BY <3>3, <3>4
  <2> QED
    BY <1>1, <2>3, <2>4 DEF AudioAscends
<1> QED
  BY <1>4, <1>5 DEF Write

\* Every step.
LEMMA AudioStep ==
  ASSUME TypeOK, BlocksOwned, AudioAscends, Next
  PROVE  AudioAscends'
<1>1. ASSUME NEW g \in Speaker
      PROVE  spoken[g] \in Nat /\ aired[g] \in Nat /\ Newest(g) \in Int
  BY AudioNumbers
<1>2. CASE UNCHANGED <<audio, pc, spoken, aired>> /\ (taken' = taken \/ taken' = Silence)
  <2>1. \A g \in Speaker : Newest(g) <= Newest(g)' /\ Newest(g)' \in Int
    BY <1>1, <1>2 DEF Newest, Queueing
  <2> QED
    BY <1>2, <2>1, DropStep
<1>3. ASSUME NEW g \in Sender, NEW f \in Frame, Enqueue(g, f) PROVE AudioAscends'
  <2>1. UNCHANGED <<audio, taken, spoken, aired>> /\ \A h \in Speaker : pc'[h] = pc[h]
    BY <1>3, ProcessAssumption DEF Enqueue, Goto, TypeOK, Producer, ProcessAssumption, ticker
  <2>2. \A h \in Speaker : Newest(h) <= Newest(h)' /\ Newest(h)' \in Int
    BY <1>1, <2>1 DEF Newest, Queueing
  <2> QED
    BY <2>1, <2>2, DropStep
<1>4. ASSUME NEW g \in Speaker, Speak(g) PROVE AudioAscends'
  <2>1. /\ UNCHANGED <<audio, taken, aired>> /\ pc[g] = "ready"
        /\ \A h \in Speaker : h # g => pc'[h] = pc[h] /\ spoken'[h] = spoken[h]
        /\ spoken'[g] = spoken[g] + 1
    BY <1>4 DEF Speak, Goto, TypeOK, Producer, ticker, history
  <2>2. ASSUME NEW h \in Speaker PROVE Newest(h) <= Newest(h)' /\ Newest(h)' \in Int
    BY <1>1, <2>1 DEF Newest, Queueing
  <2> QED
    BY <2>1, <2>2, DropStep
<1>5. ASSUME NEW g \in Producer, ControlDrain(g) PROVE AudioAscends'
  <2>3. UNCHANGED <<audio, taken, spoken, aired>> /\ pc[g] = "drain" /\ \E l : pc' = [pc EXCEPT ![g] = l]
    BY <1>5 DEF ControlDrain, Goto, ticker, history
  <2>4. pc \in [Producer -> {"ready", "drain", "offer", "flush", "again"}] /\ Speaker \subseteq Producer
    BY DEF TypeOK, Producer
  <2>5. \A h \in Speaker : h # g
    BY <2>3 DEF BlocksOwned
  <2>1. UNCHANGED <<audio, taken, spoken, aired>> /\ \A h \in Speaker : pc'[h] = pc[h]
    BY <2>3, <2>4, <2>5
  <2>2. \A h \in Speaker : Newest(h) <= Newest(h)' /\ Newest(h)' \in Int
    BY <1>1, <2>1 DEF Newest, Queueing
  <2> QED
    BY <2>1, <2>2, DropStep
<1>6. ASSUME NEW g \in Producer, Flush(g) PROVE AudioAscends'
  <2>1. /\ UNCHANGED <<taken, spoken, aired>>
        /\ audio' = audio \/ (audio # <<>> /\ audio' = Tail(audio))
        /\ pc[g] = "flush" /\ (pc' = pc \/ pc' = [pc EXCEPT ![g] = "again"])
    BY <1>6 DEF Flush, Goto, ticker, history
  <2>3. pc \in [Producer -> {"ready", "drain", "offer", "flush", "again"}] /\ Speaker \subseteq Producer
    BY DEF TypeOK, Producer
  <2>4. \A h \in Speaker : pc'[h] = pc[h] \/ (pc[h] = "flush" /\ pc'[h] = "again")
    BY <2>1, <2>3
  <2>5. \A h \in Speaker : Queueing(h)' <=> Queueing(h)
    BY <2>4 DEF Queueing
  <2>2. \A h \in Speaker : Newest(h) <= Newest(h)' /\ Newest(h)' \in Int
    BY <1>1, <2>1, <2>5 DEF Newest
  <2> QED
    BY <2>1, <2>2, DropStep
<1>7. ASSUME NEW g \in Producer, Offer(g) \/ Again(g) PROVE AudioAscends'
  BY <1>7, PutStep
<1>8. CASE Tick
  BY <1>8, TickStep
<1>9. CASE Write
  BY <1>9, WriteStep
<1> QED
  BY <1>2, <1>3, <1>4, <1>5, <1>6, <1>7, <1>8, <1>9
     DEF Next, LearnPeer, SetSource, AudioAges, Produce, Transmit, Check, Pop, producers, ticker, history

-----------------------------------------------------------------------------
(***************************************************************************)
(* The theorems.                                                           *)
(***************************************************************************)

\* The invariant holds initially.
LEMMA InitCorrect == Init => IInv
<1> SUFFICES ASSUME Init PROVE IInv
  OBVIOUS
<1>1. MaxBlocks \in Nat /\ Capacity \in Nat
  BY SizeAssumption DEF SizeAssumption
<1>2. pc \in [Producer -> {"ready", "drain", "offer", "flush", "again"}]
  BY Zenon DEF Init
<1>3. TypeOK
  <2>1. Silence \in Block /\ 0 \in 0 .. MaxBlocks
    BY <1>1, BlockFields
  <2>2. block \in [Producer -> Block]
    BY <2>1, Zenon DEF Init
  <2>3. spoken \in [Speaker -> 0 .. MaxBlocks] /\ aired \in [Speaker -> 0 .. MaxBlocks]
    BY <2>1, Zenon DEF Init
  <2>4. /\ active \in Seq(Byte) /\ popped \in Seq(Byte) /\ accepted \in Seq(Frame)
        /\ high \in Seq(High) /\ normal \in Seq(Frame \ High)
        /\ audio \in Seq(Block) /\ Len(audio) = 0
    BY DEF Init
  <2>5. peer \in BOOLEAN /\ quiet \in BOOLEAN /\ recent \in BOOLEAN /\ taken = Silence /\ tick = "idle"
    BY DEF Init
  <2> QED
    BY ONLY <1>1, <1>2, <2>1, <2>2, <2>3, <2>4, <2>5 DEF TypeOK
<1>4. PeerBeforeBytes
  BY DEF Init, PeerBeforeBytes, Queueing
<1>5. Started = <<>>
  BY ConcatEmptySeq DEF Init, Started
<1>6. Control(high, normal, accepted, Started)
  BY <1>3, <1>5
     DEF Init, Control, TypeOK, Distinct, WaitInOrder, StartedOnce, Intact, NoneLost, StartInOrder, Holds
<1>7. BlocksOwned
  BY DEF Init, BlocksOwned, Queueing, Producer
<1>8. AudioAscends
  <2>1. \A g \in Speaker : Newest(g) = 0 /\ aired[g] = 0
    BY DEF Init, Newest, Queueing, Producer
  <2>2. \A g \in Speaker : taken[1] # g
    BY BlockFields, ProcessAssumption DEF Init, ProcessAssumption
  <2> QED
    BY <2>1, <2>2 DEF Init, AudioAscends, TakenInOrder
<1> QED
  BY <1>3, <1>4, <1>6, <1>7, <1>8 DEF IInv

\* And with every step.
LEMMA StepCorrect == IInv /\ [Next]_vars => IInv'
<1> SUFFICES ASSUME IInv, [Next]_vars PROVE IInv'
  OBVIOUS
<1>1. CASE Next
  <2>1. Control(high, normal, accepted, Started)'
    BY <1>1, ControlStep DEF IInv
  <2> QED
    BY <1>1, <2>1, TypesStep, PeerStep, OwnedStep, AudioStep DEF IInv
<1>2. CASE UNCHANGED vars
  <2>1. TypeOK' /\ PeerBeforeBytes'
    BY <1>2 DEF IInv, TypeOK, PeerBeforeBytes, Queueing, vars, queue, settings, producers, ticker, history
  <2>2. BlocksOwned'
    BY <1>2 DEF IInv, BlocksOwned, Queueing, vars, producers
  <2>3. AudioAscends'
    <3>1. UNCHANGED <<audio, taken, aired, pc, spoken>>
      BY <1>2 DEF vars, producers, ticker, history
    <3>2. \A g \in Speaker : Newest(g) <= Newest(g)' /\ Newest(g)' \in Int
      BY <3>1, AudioNumbers DEF IInv, Newest, Queueing
    <3> QED
      BY <3>1, <3>2, DropStep DEF IInv
  <2>4. Control(high, normal, accepted, Started)'
    <3>1. UNCHANGED <<high, normal, accepted, popped, active>>
      BY <1>2 DEF vars, queue, history
    <3> QED
      BY <3>1 DEF IInv, Started
  <2> QED
    BY <2>1, <2>2, <2>3, <2>4 DEF IInv
<1> QED
  BY <1>1, <1>2

LEMMA Invariance == Spec => []IInv
BY InitCorrect, StepCorrect, PTL DEF Spec

\* The variables keep their types, and the channel of audio blocks its capacity.
THEOREM TypeCorrect == Spec => []TypeOK
<1>1. IInv => TypeOK
  BY DEF IInv
<1> QED
  BY <1>1, Invariance, PTL

\* No block is queued, no packet built and no control byte taken from its queue before
\* there is a peer to send it to (sendAudioBlock, queueControlDrain, the ticker).
THEOREM PeerFirst == Spec => []PeerBeforeBytes
<1>1. IInv => PeerBeforeBytes
  BY DEF IInv
<1> QED
  BY <1>1, Invariance, PTL

\* Control bytes leave as whole frames, each byte once and beside its neighbours, and no
\* enqueued frame is lost, whatever the goroutines enqueue meanwhile (prtpPop).
THEOREM FramesCorrect == Spec => []FramesIntact
<1>1. ASSUME IInv PROVE FramesIntact
  <2>1. Started \in Seq(Byte) /\ Intact(Started) /\ NoneLost(high, normal, accepted, Started)
    BY <1>1 DEF IInv, Control
  <2>2. DOMAIN Started = 1 .. Len(Started) /\ DOMAIN accepted = 1 .. Len(accepted)
    BY <1>1, <2>1 DEF IInv, TypeOK
  <2> QED
    BY <2>1, <2>2 DEF FramesIntact, Intact, NoneLost, Holds, Contains
<1> QED
  BY <1>1, Invariance, PTL

\* The blocks under way: the one taken, those in the channel, the one being queued.
LEMMA Places ==
  ASSUME TypeOK, NEW g \in Producer
  PROVE  LET n == Len(audio) IN
         /\ n \in Nat
         /\ DOMAIN Way(g) = 1 .. (IF Queueing(g) THEN n + 2 ELSE n + 1)
         /\ Way(g)[1] = taken
         /\ \A i \in 1 .. n : Way(g)[i + 1] = audio[i]
         /\ Queueing(g) => Way(g)[n + 2] = block[g]
<1>1. PICK last : last = IF Queueing(g) THEN <<block[g]>> ELSE <<>>
  OBVIOUS
<1>2. /\ <<taken>> \in Seq(Block) /\ audio \in Seq(Block) /\ last \in Seq(Block)
      /\ Len(<<taken>>) = 1 /\ <<taken>>[1] = taken
      /\ Len(last) = IF Queueing(g) THEN 1 ELSE 0
      /\ Queueing(g) => last[1] = block[g]
  BY <1>1 DEF TypeOK
<1>3. PICK n \in Nat : n = Len(audio)
  BY <1>2
<1>4. PICK front \in Seq(Block) : front = <<taken>> \o audio
  BY <1>2, ConcatProperties
<1>5. Len(front) = n + 1 /\ front[1] = taken /\ \A i \in 1 .. n : front[i + 1] = audio[i]
  <2>1. /\ Len(front) = 1 + n
        /\ \A i \in 1 .. 1 + n : front[i] = IF i <= 1 THEN <<taken>>[i] ELSE audio[i - 1]
    BY <1>2, <1>3, <1>4, ConcatProperties
  <2>2. \A i \in 1 .. n : i + 1 \in 1 .. 1 + n /\ ~(i + 1 <= 1) /\ (i + 1) - 1 = i
    BY <1>3
  <2> QED
    BY <1>2, <2>1, <2>2
<1>6. Way(g) = front \o last
  BY <1>1, <1>4 DEF Way
<1>7. /\ Len(front \o last) = n + 1 + Len(last)
      /\ \A i \in 1 .. n + 1 + Len(last) :
           (front \o last)[i] = IF i <= n + 1 THEN front[i] ELSE last[i - (n + 1)]
      /\ DOMAIN (front \o last) = 1 .. Len(front \o last)
  <2>1. PICK s \in Seq(Block) : s = last
    BY <1>2
  <2>2. front \o s \in Seq(Block) /\ Len(front \o s) = n + 1 + Len(s)
    <3>1. front \o s \in Seq(Block) /\ Len(front \o s) = Len(front) + Len(s)
      BY ConcatProperties
    <3> QED
      BY <1>5, <3>1
  <2>3. ASSUME NEW i \in 1 .. n + 1 + Len(s)
        PROVE  (front \o s)[i] = IF i <= n + 1 THEN front[i] ELSE s[i - (n + 1)]
    BY <1>5, ConcatProperties
  <2> QED
    BY <2>1, <2>2, <2>3
<1>8. /\ Way(g)[1] = taken
      /\ \A i \in 1 .. n : Way(g)[i + 1] = audio[i]
      /\ Queueing(g) => Way(g)[n + 2] = block[g]
  <2>1. PICK k \in {0, 1} : k = Len(last) /\ (Queueing(g) => k = 1)
    BY <1>2
  <2>2. /\ 1 \in 1 .. n + 1 + k /\ 1 <= n + 1
        /\ \A i \in 1 .. n : i + 1 \in 1 .. n + 1 + k /\ i + 1 <= n + 1
        /\ k = 1 => n + 2 \in 1 .. n + 1 + k /\ ~(n + 2 <= n + 1) /\ (n + 2) - (n + 1) = 1
    OBVIOUS
  <2> QED
    BY <1>2, <1>5, <1>6, <1>7, <2>1, <2>2
<1> QED
  BY <1>2, <1>3, <1>6, <1>7, <1>8

\* The invariant says of the places what AudioInOrder says of the way.
LEMMA Audio ==
  ASSUME IInv
  PROVE  AudioInOrder
<1>1. SUFFICES ASSUME NEW g \in Speaker, NEW i \in DOMAIN Way(g), Way(g)[i][1] = g
               PROVE  /\ Way(g)[i][2] > aired[g]
                      /\ \A j \in 1 .. i - 1 : Way(g)[j][1] = g => Way(g)[j][2] < Way(g)[i][2]
  BY DEF AudioInOrder
<1>2. PICK n \in Nat, w \in {Way(g)} :
        /\ n = Len(audio)
        /\ DOMAIN w = 1 .. (IF Queueing(g) THEN n + 2 ELSE n + 1)
        /\ w[1] = taken
        /\ \A k \in 1 .. n : w[k + 1] = audio[k]
        /\ Queueing(g) => w[n + 2] = block[g]
  BY Places DEF IInv, Producer
<1>3. /\ spoken[g] \in Nat /\ aired[g] \in Nat /\ Newest(g) \in Int
      /\ aired[g] <= Newest(g)
      /\ taken[1] = g => aired[g] < taken[2] /\ taken[2] <= Newest(g)
      /\ taken[1] = g => taken[2] \in Nat
  BY AudioNumbers DEF IInv, AudioAscends, TakenInOrder, TypeOK
<1>4. ASSUME NEW k \in 1 .. n, audio[k][1] = g
      PROVE  /\ audio[k][2] \in Nat /\ aired[g] < audio[k][2] /\ audio[k][2] <= Newest(g)
             /\ taken[1] = g => taken[2] < audio[k][2]
             /\ \A j \in 1 .. k - 1 : audio[j][1] = g => audio[j][2] < audio[k][2]
  BY <1>2, <1>4, AudioNumbers DEF IInv, AudioAscends, QueuedInOrder
<1>5. ASSUME Queueing(g)
      PROVE  block[g][1] = g /\ block[g][2] = Newest(g) + 1
  BY <1>3, <1>5 DEF IInv, BlocksOwned, Newest
<1>6. CASE i = 1
  BY <1>1, <1>2, <1>3, <1>6
<1>7. CASE i > 1 /\ i <= n + 1
  <2>1. PICK k \in 1 .. n : i = k + 1
    <3>1. i - 1 \in 1 .. n /\ i = (i - 1) + 1
      BY <1>2, <1>7
    <3> QED
      BY <3>1
  <2>2. w[i] = audio[k] /\ audio[k][1] = g
    BY <1>1, <1>2, <2>1
  <2>3. ASSUME NEW j \in 1 .. i - 1, w[j][1] = g PROVE w[j][2] < w[i][2]
    <3>1. CASE j = 1
      BY <1>2, <1>4, <2>2, <2>3, <3>1
    <3>2. CASE j # 1
      <4>1. PICK m \in 1 .. k - 1 : j = m + 1
        <5>1. j - 1 \in 1 .. k - 1 /\ j = (j - 1) + 1
          BY <2>1, <3>2
        <5> QED
          BY <5>1
      <4>2. m \in 1 .. n /\ w[j] = audio[m]
        BY <1>2, <2>1, <4>1
      <4> QED
        BY <1>4, <2>2, <2>3, <4>1, <4>2
    <3> QED
      BY <3>1, <3>2
  <2> QED
    BY <1>2, <1>3, <1>4, <2>2, <2>3
<1>8. CASE i = n + 2 /\ Queueing(g)
  <2>1. w[i] = block[g]
    BY <1>2, <1>8
  <2>2. ASSUME NEW j \in 1 .. n + 1, w[j][1] = g PROVE w[j][2] <= Newest(g) /\ w[j][2] \in Nat
    <3>1. CASE j = 1
      BY <1>2, <1>3, <2>2, <3>1
    <3>2. CASE j # 1
      <4>1. PICK m \in 1 .. n : j = m + 1
        <5>1. j - 1 \in 1 .. n /\ j = (j - 1) + 1
          BY <3>2
        <5> QED
          BY <5>1
      <4>2. w[j] = audio[m]
        BY <1>2, <4>1
      <4> QED
        BY <1>4, <2>2, <4>2
    <3> QED
      BY <3>1, <3>2
  <2>3. 1 .. i - 1 = 1 .. n + 1
    BY <1>8
  <2> QED
    BY <1>2, <1>3, <1>5, <1>8, <2>1, <2>2, <2>3
<1>9. i = 1 \/ (i > 1 /\ i <= n + 1) \/ (i = n + 2 /\ Queueing(g))
  BY <1>1, <1>2
<1> QED
  BY <1>6, <1>7, <1>8, <1>9

\* A step starts no frame, or one of high priority, or finds none of those waiting.
LEMMA StartStep ==
  ASSUME TypeOK, [Next]_vars
  PROVE  \/ Started' = Started
         \/ \E f \in High : Started' = Started \o Bytes(f)
         \/ high = <<>>
<1>1. active \in Seq(Byte) /\ popped \in Seq(Byte) /\ high \in Seq(High) /\ High \subseteq Frame
  BY FrameAssumption DEF TypeOK, FrameAssumption
<1>2. CASE UNCHANGED <<active, popped>>
  BY <1>2 DEF Started
<1>3. CASE Pop
  <2>1. CASE Continue
    BY <1>1, <2>1, SendEffect DEF Continue, Started
  <2>2. CASE StartHigh
    <3>1. Head(high) \in High
      BY <1>1, <2>2, Shifting DEF StartHigh
    <3> QED
      BY <1>1, <2>2, <3>1, StartEffect DEF StartHigh
  <2>3. CASE StartNormal
    BY <2>3 DEF StartNormal
  <2>4. CASE UNCHANGED <<queue, popped>>
    BY <1>2, <2>4 DEF queue
  <2> QED
    BY <1>3, <2>1, <2>2, <2>3, <2>4 DEF Pop
<1> QED
  BY <1>2, <1>3
     DEF Next, LearnPeer, SetSource, AudioAges, Enqueue, Speak, Produce, ControlDrain, Offer, Flush,
         Again, Transmit, Tick, Check, Write, vars, queue, history

\* A normal frame is started only when every accepted high-priority frame has been.
LEMMA HighStep ==
  ASSUME IInv, [Next]_vars, NEW f \in Frame \ High, NEW h \in High,
         Contains(Started', <<f, 1>>), ~Contains(Started, <<f, 1>>), Contains(accepted, h)
  PROVE  Contains(Started, <<h, 1>>)
<1>1. /\ TypeOK /\ High \subseteq Frame /\ Started \in Seq(Byte) /\ normal \in Seq(Frame \ High)
      /\ NoneLost(high, normal, accepted, Started)
  BY FrameAssumption DEF IInv, Control, FrameAssumption
<1>2. Started' # Started
  OBVIOUS
<1>3. ASSUME NEW e \in High, Started' = Started \o Bytes(e) PROVE FALSE
  <2>1. Started' \in Seq(Byte) /\ Joined(Started', Started, e)
    BY <1>1, <1>3, Joining
  <2>2. PICK i \in 1 .. Len(Started') : Started'[i] = <<f, 1>>
    BY DEF Contains
  <2>3. i \in 1 .. Len(Started) /\ Started[i] = <<f, 1>>
    <3>1. PICK s \in Seq(Byte), t \in Seq(Byte) : s = Started /\ t = Started'
      BY <1>1, <2>1
    <3>2. i \in 1 .. Len(t) /\ t[i] = <<f, 1>> /\ e \in Frame
      BY <1>1, <2>2, <3>1
    <3>3. \A k \in 1 .. Len(t) : (k \in 1 .. Len(s) /\ t[k] = s[k]) \/ t[k][1] = e
      <4>1. PICK x \in Frame : x = e
        BY <3>2
      <4>2. Joined(t, s, x)
        BY <2>1, <3>1, <4>1
      <4>3. \A k \in 1 .. Len(t) : (k \in 1 .. Len(s) /\ t[k] = s[k]) \/ t[k][1] = x
        BY <4>2, NewOrOld
      <4> QED
        BY <4>1, <4>3
    <3>4. (i \in 1 .. Len(s) /\ t[i] = s[i]) \/ t[i][1] = e
      BY <3>2, <3>3
    <3>5. e # f
      OBVIOUS
    <3> QED
      BY <3>1, <3>2, <3>4, <3>5
  <2> QED
    BY <2>3 DEF Contains
<1>4. high = <<>>
  BY <1>1, <1>2, <1>3, StartStep
<1>5. PICK i \in 1 .. Len(accepted) : accepted[i] = h
  BY DEF Contains
<1>6. ~Holds(high, h)
  BY <1>4, EmptySeq DEF Holds
<1>7. ~Holds(normal, h)
  BY <1>1, ElementOfSeq DEF Holds
<1> QED
  BY <1>1, <1>5, <1>6, <1>7 DEF NoneLost, Holds, Contains

\* What goes to the matrix keeps its order: the frames of a priority, those of high
\* priority before normal ones, and the audio of a speaker (prtpPop, queueAudioBlock).
THEOREM InOrderCorrect == Spec => InOrder
<1>1. ASSUME IInv PROVE ClassInOrder
  <2>1. Started \in Seq(Byte) /\ StartInOrder(accepted, Started)
    BY <1>1 DEF IInv, Control
  <2>2. DOMAIN Started = 1 .. Len(Started) /\ DOMAIN accepted = 1 .. Len(accepted)
    BY <1>1, <2>1 DEF IInv, TypeOK
  <2>3. SUFFICES ASSUME NEW i \in DOMAIN accepted, NEW j \in DOMAIN accepted,
                        i < j, accepted[i] \in High <=> accepted[j] \in High,
                        Contains(Started, <<accepted[j], 1>>)
                 PROVE  \E m, n \in DOMAIN Started :
                          m < n /\ Started[m] = <<accepted[i], 1>> /\ Started[n] = <<accepted[j], 1>>
    BY DEF ClassInOrder
  <2>4. Holds(Started, <<accepted[j], 1>>)
    BY <2>3 DEF Holds, Contains
  <2>5. i \in 1 .. Len(accepted) /\ j \in 1 .. Len(accepted)
    BY <2>2
  <2>6. \E m, n \in 1 .. Len(Started) :
          m < n /\ Started[m] = <<accepted[i], 1>> /\ Started[n] = <<accepted[j], 1>>
    BY <2>1, <2>3, <2>4, <2>5, Zenon DEF StartInOrder
  <2> QED
    BY <2>2, <2>6
<1>2. IInv => ClassInOrder /\ AudioInOrder
  BY <1>1, Audio
<1>3. ASSUME IInv, [Next]_vars
      PROVE  [\A f \in Frame \ High, h \in High :
                /\ Contains(Started', <<f, 1>>) /\ ~Contains(Started, <<f, 1>>)
                /\ Contains(accepted, h)
                => Contains(Started, <<h, 1>>)]_vars
  BY <1>3, HighStep
<1> QED
  BY <1>2, <1>3, Invariance, PTL DEF Spec, InOrder, HighFirst
=============================================================================
