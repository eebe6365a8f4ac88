---------------------------- MODULE SoundProofs ----------------------------
(***************************************************************************)
(* Proofs about LocalAudio, for queues, chunks and a buffer of any size    *)
(* and callbacks that ask for any number of samples; about ServerAudio,    *)
(* for any number of panels and of requests; about WsInput, for any        *)
(* connections, rates, sources and sizes of messages and of blocks; about  *)
(* JitterBuffer, for any ring, limits and messages; and about              *)
(* RateConversion, for any rates, coefficients and pieces.                 *)
(***************************************************************************)
EXTENDS LocalAudio, ServerAudio, WsInput, JitterBuffer, RateConversion, SequenceTheorems, FiniteSetTheorems,
        WellFoundedInduction, TLAPS

-----------------------------------------------------------------------------
(***************************************************************************)
(* The device: the inductive invariant.                                    *)
(***************************************************************************)

DeviceShapes ==
  /\ wanted \subseteq {"playback", "capture"} /\ duplex \in BOOLEAN
  /\ control \in {"context", "devices", "open", "failed", "close", "stop", "closed"}
  /\ context \in BOOLEAN /\ closed \in BOOLEAN /\ capClosed \in BOOLEAN
  /\ devices \subseteq Kinds
  /\ playQueue \in Seq(Nat) /\ Len(playQueue) <= QueueFrames /\ chunk \in Nat
  /\ playing \in {"idle", "full", "drained"}
  /\ buffer \in Seq(Nat) /\ Len(buffer) <= Period * BufferedFrames
  /\ need \in Nat /\ last \in Nat
  /\ capQueue \in Seq(Nat) /\ Len(capQueue) <= QueueFrames /\ capture \in Nat
  /\ capturing \in {"idle", "send", "full", "drained"}

\* What is allocated where NewLocalWithOptions and Close are.
Allocated ==
  /\ control \in {"context", "failed", "closed"} => ~context /\ devices = {}
  /\ control \in {"devices", "open", "close", "stop"} => context
  /\ capClosed => control = "closed"

\* A callback that captures belongs to a running device.
CaptureRuns == capturing # "idle" => Running("capture")

\* Who has emptied a queue is the only one to fill it.
Drained ==
  /\ playing = "drained" => playQueue = <<>>
  /\ capturing = "drained" => capQueue = <<>>

\* The number of the last sample of a chunk.
EndOf(c) == c * Period

\* The last chunk whose fate is decided: the one being played is not.
Decided == IF playing = "idle" THEN chunk ELSE chunk - 1

\* Everything heard or buffered comes before chunk c + 1.
UpTo(c) == last <= EndOf(c) /\ \A j \in 1 .. Len(buffer) : buffer[j] <= EndOf(c)

ChunkInOrder(i) ==
  /\ playQueue[i] \in 1 .. Decided
  /\ UpTo(playQueue[i] - 1)
  /\ \A h \in 1 .. i - 1 : playQueue[h] < playQueue[i]
Samplewise ==
  /\ Decided \in Nat /\ UpTo(Decided)
  /\ BufferInOrder
  /\ \A i \in 1 .. Len(playQueue) : ChunkInOrder(i)

DeviceIInv == DeviceShapes /\ Allocated /\ CaptureRuns /\ Drained /\ Samplewise

-----------------------------------------------------------------------------
(***************************************************************************)
(* Sequences and samples.                                                  *)
(***************************************************************************)

Shifted(t, s, d) == Len(t) = Len(s) - d /\ \A i \in 1 .. Len(s) - d : t[i] = s[i + d]

LEMMA Shifting ==
  ASSUME NEW s \in Seq(Nat), s # <<>>
  PROVE  /\ Tail(s) \in Seq(Nat) /\ Shifted(Tail(s), s, 1)
         /\ Len(s) \in Nat /\ Len(s) >= 1 /\ Head(s) = s[1] /\ s[1] \in Nat
BY HeadTailProperties, EmptySeq DEF Shifted

LEMMA Appending ==
  ASSUME NEW s \in Seq(Nat), NEW e \in Nat
  PROVE  /\ Append(s, e) \in Seq(Nat) /\ Len(Append(s, e)) = Len(s) + 1
         /\ \A i \in 1 .. Len(s) : Append(s, e)[i] = s[i]
         /\ Append(s, e)[Len(s) + 1] = e
BY AppendProperties

\* What is left without the first samples.
LEMMA Dropping ==
  ASSUME NEW s \in Seq(Nat), NEW d \in 0 .. Len(s)
  PROVE  SubSeq(s, d + 1, Len(s)) \in Seq(Nat) /\ Shifted(SubSeq(s, d + 1, Len(s)), s, d)
<1>1. PICK n \in Nat : n = Len(s) /\ \A i \in 1 .. n : s[i] \in Nat
  BY LenProperties
<1>2. d \in 0 .. n /\ d + 1 \in Int /\ n \in Int /\ \A i \in d + 1 .. n : s[i] \in Nat
  BY <1>1
<1>3. /\ SubSeq(s, d + 1, n) \in Seq(Nat)
      /\ Len(SubSeq(s, d + 1, n)) = IF d + 1 <= n THEN n - (d + 1) + 1 ELSE 0
      /\ \A i \in 1 .. n - (d + 1) + 1 : SubSeq(s, d + 1, n)[i] = s[(d + 1) + i - 1]
  BY <1>2, SubSeqProperties
<1>4. PICK t \in Seq(Nat) : t = SubSeq(s, d + 1, n)
  BY <1>3
<1>5. Len(t) = n - d
  BY <1>2, <1>3, <1>4
<1>6. \A i \in 1 .. n - d : i \in 1 .. n - (d + 1) + 1 /\ (d + 1) + i - 1 = i + d
  BY <1>2
<1>7. \A i \in 1 .. n - d : t[i] = s[i + d]
  BY <1>3, <1>4, <1>6
<1> QED
  BY <1>1, <1>4, <1>5, <1>7 DEF Shifted

LEMMA LargerOfTwo ==
  ASSUME NEW a \in Int, NEW b \in Int
  PROVE  Max({a, b}) = IF a >= b THEN a ELSE b
<1>1. \E m \in {a, b} : \A y \in {a, b} : m >= y
  OBVIOUS
<1>2. Max({a, b}) \in {a, b} /\ Max({a, b}) >= a /\ Max({a, b}) >= b
  BY <1>1 DEF Max
<1> QED
  BY <1>2

LEMMA SmallerOfTwo ==
  ASSUME NEW a \in Int, NEW b \in Int
  PROVE  Min({a, b}) = IF a <= b THEN a ELSE b
<1>1. \E m \in {a, b} : \A y \in {a, b} : m <= y
  OBVIOUS
<1>2. Min({a, b}) \in {a, b} /\ Min({a, b}) <= a /\ Min({a, b}) <= b
  BY <1>1 DEF Min
<1> QED
  BY <1>2

LEMMA Bounds ==
  ASSUME LocalAudioAssumption
  PROVE  /\ QueueFrames \in Nat /\ QueueFrames > 0 /\ Period \in Nat /\ Period > 0
         /\ Period * BufferedFrames \in Nat /\ \A n \in Needs : n \in Nat
BY DEF LocalAudioAssumption

\* Of a buffer the newest samples are kept.
LEMMA NewestOnes ==
  ASSUME LocalAudioAssumption, NEW s \in Seq(Nat)
  PROVE  /\ Newest(s) \in Seq(Nat) /\ Len(Newest(s)) <= Period * BufferedFrames
         /\ \E d \in 0 .. Len(s) : Shifted(Newest(s), s, d)
<1>1. PICK n \in Nat, cap \in Nat : n = Len(s) /\ cap = Period * BufferedFrames
  BY Bounds, LenProperties
<1>2. PICK d \in 0 .. n : d = IF n > cap THEN n - cap ELSE 0
  BY <1>1
<1>3. Max({1, n - cap + 1}) = d + 1
  <2>1. Max({1, n - cap + 1}) = IF 1 >= n - cap + 1 THEN 1 ELSE n - cap + 1
    BY LargerOfTwo
  <2> QED
    BY <1>2, <2>1
<1>4. Newest(s) = SubSeq(s, d + 1, Len(s))
  BY <1>1, <1>3 DEF Newest
<1>5. Newest(s) \in Seq(Nat) /\ Shifted(Newest(s), s, d)
  BY <1>1, <1>4, Dropping
<1>6. Len(Newest(s)) = n - d /\ n - d <= cap
  BY <1>1, <1>2, <1>5 DEF Shifted
<1> QED
  BY <1>1, <1>5, <1>6

\* Chunk c has the samples after the end of chunk c - 1 up to its own.
LEMMA Ends ==
  ASSUME LocalAudioAssumption, NEW c \in Nat
  PROVE  /\ EndOf(c) \in Nat /\ EndOf(c + 1) = EndOf(c) + Period
         /\ \A d \in Nat : c <= d => EndOf(c) <= EndOf(d)
<1>1. PICK p \in Nat : p = Period /\ p > 0
  BY Bounds
<1>2. c * p \in Nat /\ (c + 1) * p = c * p + p
  OBVIOUS
<1>3. ASSUME NEW d \in Nat, c <= d PROVE c * p <= d * p
  <2>1. PICK e \in Nat : e = d - c /\ d = c + e
    BY <1>3
  <2>2. (c + e) * p = c * p + e * p /\ e * p \in Nat
    OBVIOUS
  <2> QED
    BY <1>2, <2>1, <2>2
<1> QED
  BY <1>1, <1>2, <1>3 DEF EndOf

LEMMA SamplesOf ==
  ASSUME LocalAudioAssumption, NEW c \in Nat, c >= 1
  PROVE  /\ Samples(c) \in Seq(Nat) /\ Len(Samples(c)) = Period
         /\ \A k \in 1 .. Period : Samples(c)[k] = EndOf(c - 1) + k
         /\ EndOf(c - 1) \in Nat /\ EndOf(c) = EndOf(c - 1) + Period
<1>1. PICK p \in Nat : p = Period /\ p > 0
  BY Bounds
<1>2. PICK b \in Nat : b = c - 1 /\ c = b + 1
  OBVIOUS
<1>3. PICK e \in Nat : e = EndOf(b) /\ e = (c - 1) * p /\ EndOf(c) = e + p
  BY <1>1, <1>2, Ends DEF EndOf
<1>4. Samples(c) = [i \in 1 .. p |-> e + i]
  BY <1>1, <1>3 DEF Samples
<1>5. [i \in 1 .. p |-> e + i] \in Seq(Nat) /\ Len([i \in 1 .. p |-> e + i]) = p
  OBVIOUS
<1> QED
  BY <1>1, <1>2, <1>3, <1>4, <1>5

-----------------------------------------------------------------------------
(***************************************************************************)
(* The way of the samples.                                                 *)
(***************************************************************************)

\* A chunk that is decided on without being queued, or not yet decided on.
LEMMA Uncertain ==
  ASSUME LocalAudioAssumption, DeviceShapes, Samplewise, UNCHANGED <<playQueue, buffer, last>>, Decided' = Decided
  PROVE  Samplewise'
BY DEF Samplewise, BufferInOrder, ChunkInOrder, UpTo

\* The next chunk joins the queue.
LEMMA ChunkQueued ==
  ASSUME LocalAudioAssumption, DeviceShapes, Samplewise, UNCHANGED <<buffer, last>>,
         NEW c \in Nat, c = Decided + 1, Decided' = c, playQueue' = Append(playQueue, c)
  PROVE  Samplewise'
<1>1. PICK d \in Nat, n \in Nat : d = Decided /\ c = d + 1 /\ n = Len(playQueue)
  BY LenProperties DEF DeviceShapes, Samplewise
<1>2. /\ Len(playQueue') = n + 1 /\ playQueue'[n + 1] = c
      /\ \A i \in 1 .. n : playQueue'[i] = playQueue[i]
  BY <1>1, Appending DEF DeviceShapes
<1>3. ASSUME NEW b, UpTo(b) PROVE UpTo(b)'
  BY <1>3 DEF UpTo, EndOf
<1>4. UpTo(c)'
  <2>1. EndOf(d) \in Nat /\ EndOf(c) \in Nat /\ EndOf(d) <= EndOf(c)
    <3>1. d <= c
      BY <1>1
    <3>2. EndOf(d) \in Nat /\ \A e \in Nat : d <= e => EndOf(d) <= EndOf(e)
      BY Ends
    <3>3. EndOf(c) \in Nat
      BY Ends
    <3> QED
      BY <3>1, <3>2, <3>3
  <2>2. last \in Nat /\ \A j \in 1 .. Len(buffer) : buffer[j] \in Nat
    BY ElementOfSeq DEF DeviceShapes
  <2>3. UpTo(d)
    BY <1>1 DEF Samplewise
  <2>4. UpTo(c)
    BY <2>1, <2>2, <2>3 DEF UpTo
  <2> QED
    BY <1>3, <2>4
<1>5. ASSUME NEW i \in 1 .. n PROVE ChunkInOrder(i)' /\ playQueue'[i] < c
  <2>1. ChunkInOrder(i) /\ playQueue[i] \in 1 .. d
    BY <1>1 DEF Samplewise, ChunkInOrder
  <2>2. PICK q \in 1 .. d : q = playQueue[i] /\ q = playQueue'[i]
    BY <1>2, <2>1
  <2>3. UpTo(q - 1)'
    BY <1>3, <2>1, <2>2 DEF ChunkInOrder
  <2>4. \A h \in 1 .. i - 1 : h \in 1 .. n /\ playQueue'[h] < q
    BY <1>2, <2>1, <2>2 DEF ChunkInOrder
  <2>5. q \in 1 .. Decided' /\ q < c
    BY <1>1, <2>2
  <2> QED
    BY <2>2, <2>3, <2>4, <2>5 DEF ChunkInOrder
<1>6. ChunkInOrder(n + 1)'
  <2>1. c - 1 = d /\ c \in 1 .. Decided' /\ (n + 1) - 1 = n
    BY <1>1
  <2>2. UpTo(d)'
    BY <1>1, <1>3 DEF Samplewise
  <2>3. UpTo(c - 1)'
    BY <2>1, <2>2
  <2> QED
    BY <1>2, <1>5, <2>1, <2>3 DEF ChunkInOrder
<1>7. BufferInOrder'
  BY DEF Samplewise, BufferInOrder
<1>8. \A i \in 1 .. n + 1 : ChunkInOrder(i)'
  BY <1>5, <1>6
<1> QED
  BY <1>2, <1>4, <1>7, <1>8 DEF Samplewise

\* The oldest chunk leaves the queue, and what is heard or buffered then is still before the
\* others.
LEMMA ChunkTaken ==
  ASSUME LocalAudioAssumption, DeviceShapes, Samplewise, playQueue # <<>>, playQueue' = Tail(playQueue),
         Decided' = Decided, BufferInOrder', buffer' \in Seq(Nat), last' \in Nat,
         NEW c \in Nat, c = playQueue[1],
         UNCHANGED <<buffer, last>> \/ UpTo(c)'
  PROVE  Samplewise'
<1>1. PICK n \in Nat, d \in Nat : n = Len(playQueue) /\ n >= 1 /\ d = Decided
  BY Shifting DEF DeviceShapes, Samplewise
<1>2. Len(playQueue') = n - 1 /\ \A i \in 1 .. n - 1 : playQueue'[i] = playQueue[i + 1]
  BY <1>1, Shifting DEF DeviceShapes, Shifted
<1>3. c \in 1 .. d
  BY <1>1 DEF Samplewise, ChunkInOrder
<1>4. ASSUME NEW b \in Nat, c <= b, UpTo(b) PROVE UpTo(b)'
  <2>1. CASE UNCHANGED <<buffer, last>>
    BY <1>4, <2>1 DEF UpTo, EndOf
  <2>2. CASE UpTo(c)'
    <3>1. EndOf(c) \in Nat /\ EndOf(b) \in Nat /\ EndOf(c) <= EndOf(b)
      <4>1. EndOf(c) \in Nat /\ EndOf(c) <= EndOf(b)
        BY <1>4, Ends
      <4>2. EndOf(b) \in Nat
        BY Ends
      <4> QED
        BY <4>1, <4>2
    <3>2. last' \in Nat /\ \A j \in 1 .. Len(buffer') : buffer'[j] \in Nat
      BY ElementOfSeq
    <3>3. last' <= EndOf(c) /\ \A j \in 1 .. Len(buffer') : buffer'[j] <= EndOf(c)
      BY <2>2 DEF UpTo, EndOf
    <3>4. last' <= EndOf(b) /\ \A j \in 1 .. Len(buffer') : buffer'[j] <= EndOf(b)
      BY <3>1, <3>2, <3>3
    <3> QED
      BY <3>4 DEF UpTo, EndOf
  <2> QED
    BY <2>1, <2>2
<1>5. UpTo(d)'
  BY <1>1, <1>3, <1>4 DEF Samplewise
<1>6. ASSUME NEW i \in 1 .. n - 1 PROVE ChunkInOrder(i)'
  <2>1. PICK m \in 2 .. n : m = i + 1
    BY <1>1
  <2>2. ChunkInOrder(m) /\ playQueue[m] \in 1 .. d
    BY <1>1, <2>1 DEF Samplewise, ChunkInOrder
  <2>3. PICK q \in 1 .. d : q = playQueue[m] /\ q = playQueue'[i]
    BY <1>2, <2>1, <2>2
  <2>4. 1 \in 1 .. m - 1
    BY <2>1
  <2>5. c < q
    BY <2>2, <2>3, <2>4 DEF ChunkInOrder
  <2>6. UpTo(q - 1)'
    <3>1. PICK b \in Nat : b = q - 1 /\ c <= b
      BY <1>3, <2>5
    <3>2. UpTo(b)
      BY <2>2, <2>3, <3>1 DEF ChunkInOrder
    <3> QED
      BY <1>4, <3>1, <3>2
  <2>7. ASSUME NEW h \in 1 .. i - 1 PROVE playQueue'[h] < q
    <3>1. PICK g \in 1 .. m - 1 : g = h + 1 /\ h \in 1 .. n - 1
      BY <2>1
    <3> QED
      BY <1>2, <2>2, <2>3, <3>1 DEF ChunkInOrder
  <2>8. q \in 1 .. Decided'
    BY <1>1
  <2> QED
    BY <2>3, <2>6, <2>7, <2>8 DEF ChunkInOrder
<1> QED
  BY <1>1, <1>2, <1>5, <1>6 DEF Samplewise

\* What is heard was in the buffer.
LEMMA SamplesHeard ==
  ASSUME LocalAudioAssumption, DeviceShapes, Samplewise, UNCHANGED playQueue, Decided' = Decided, BufferInOrder',
         \A b \in Nat : UpTo(b) => UpTo(b)'
  PROVE  Samplewise'
<1>1. PICK d \in Nat : d = Decided
  BY DEF Samplewise
<1>2. UpTo(d)'
  BY <1>1 DEF Samplewise
<1>3. ASSUME NEW i \in 1 .. Len(playQueue) PROVE ChunkInOrder(i)'
  <2>1. ChunkInOrder(i)
    BY DEF Samplewise
  <2>2. PICK q \in 1 .. d : q = playQueue[i]
    BY <1>1, <2>1 DEF ChunkInOrder
  <2>3. PICK b \in Nat : b = q - 1
    BY <2>2
  <2>4. UpTo(q - 1)'
    BY <2>1, <2>2, <2>3 DEF ChunkInOrder
  <2> QED
    BY <1>1, <2>1, <2>2, <2>4 DEF ChunkInOrder
<1> QED
  BY <1>1, <1>2, <1>3 DEF Samplewise

\* Samples in order, all after sample l.
AscendsFrom(l, s) == \A j \in 1 .. Len(s) : l < s[j] /\ \A k \in 1 .. j - 1 : s[k] < s[j]

LEMMA RestAscends ==
  ASSUME NEW s \in Seq(Nat), NEW t \in Seq(Nat), NEW l \in Nat, NEW d \in 0 .. Len(s),
         AscendsFrom(l, s), Shifted(t, s, d)
  PROVE  /\ AscendsFrom(l, t)
         /\ d > 0 => s[d] \in Nat /\ l < s[d] /\ AscendsFrom(s[d], t)
<1>1. PICK n \in Nat : n = Len(s) /\ d \in 0 .. n /\ Len(t) = n - d
  BY LenProperties DEF Shifted
<1>2. ASSUME NEW j \in 1 .. n - d
      PROVE  /\ l < t[j]
             /\ d > 0 => s[d] < t[j]
             /\ \A k \in 1 .. j - 1 : t[k] < t[j]
  <2>1. PICK m \in 1 .. n : m = j + d
    BY <1>1
  <2>2. t[j] = s[m] /\ l < s[m] /\ \A k \in 1 .. m - 1 : s[k] < s[m]
    BY <1>1, <2>1 DEF Shifted, AscendsFrom
  <2>3. ASSUME NEW k \in 1 .. j - 1 PROVE t[k] < t[j]
    <3>1. PICK i \in 1 .. m - 1 : i = k + d /\ k \in 1 .. n - d
      BY <1>1, <2>1
    <3>2. t[k] = s[i]
      BY <1>1, <3>1 DEF Shifted
    <3> QED
      BY <2>2, <3>2
  <2>4. d > 0 => d \in 1 .. m - 1
    BY <1>1, <2>1
  <2> QED
    BY <2>2, <2>3, <2>4
<1>3. d > 0 => d \in 1 .. n
  BY <1>1
<1>4. d > 0 => s[d] \in Nat /\ l < s[d]
  BY <1>1, <1>3, ElementOfSeq DEF AscendsFrom
<1> QED
  BY <1>1, <1>2, <1>4 DEF AscendsFrom

\* A buffer up to sample e, and the p samples after e.
LEMMA JoinedAscends ==
  ASSUME NEW s \in Seq(Nat), NEW t \in Seq(Nat), NEW l \in Nat, NEW e \in Nat, NEW p \in Nat,
         AscendsFrom(l, s), l <= e, \A j \in 1 .. Len(s) : s[j] <= e,
         Len(t) = p, \A k \in 1 .. p : t[k] = e + k
  PROVE  /\ s \o t \in Seq(Nat) /\ AscendsFrom(l, s \o t)
         /\ \A j \in 1 .. Len(s \o t) : (s \o t)[j] <= e + p
<1>1. PICK n \in Nat : n = Len(s)
  BY LenProperties
<1>2. PICK u \in Seq(Nat) : u = s \o t
  BY ConcatProperties
<1>3. /\ Len(u) = n + p
      /\ \A i \in 1 .. n + p : u[i] = IF i <= n THEN s[i] ELSE t[i - n]
  BY <1>1, <1>2, ConcatProperties
<1>4. \A i \in 1 .. n : u[i] = s[i] /\ s[i] \in Nat /\ s[i] <= e /\ l < s[i]
  BY <1>1, <1>3, ElementOfSeq DEF AscendsFrom
<1>5. \A i \in n + 1 .. n + p : u[i] = e + (i - n)
  <2>1. ASSUME NEW i \in n + 1 .. n + p PROVE u[i] = e + (i - n)
    <3>1. i - n \in 1 .. p /\ i \in 1 .. n + p /\ ~(i <= n)
      OBVIOUS
    <3> QED
      BY <1>3, <3>1
  <2> QED
    BY <2>1
<1>6. ASSUME NEW j \in 1 .. n + p
      PROVE  l < u[j] /\ u[j] <= e + p /\ \A k \in 1 .. j - 1 : u[k] < u[j]
  <2>1. CASE j <= n
    <3>1. j \in 1 .. n /\ \A k \in 1 .. j - 1 : s[k] < s[j] /\ k \in 1 .. n
      BY <1>1, <2>1 DEF AscendsFrom
    <3> QED
      BY <1>4, <3>1
  <2>2. CASE j > n
    <3>1. j \in n + 1 .. n + p /\ u[j] = e + (j - n)
      BY <1>5, <2>2
    <3>2. ASSUME NEW k \in 1 .. j - 1 PROVE u[k] < u[j]
      <4>1. CASE k \in 1 .. n
        BY <1>4, <2>2, <3>1, <4>1
      <4>2. CASE k \in n + 1 .. n + p
        BY <1>5, <3>1, <4>2
      <4> QED
        BY <3>1, <4>1, <4>2
    <3> QED
      BY <2>2, <3>1, <3>2
  <2> QED
    BY <2>1, <2>2
<1> QED
  BY <1>2, <1>3, <1>6 DEF AscendsFrom

\* A chunk joins the buffer, which may then be too long.
LEMMA ChunkBuffered ==
  ASSUME LocalAudioAssumption, DeviceShapes, Samplewise, playQueue # <<>>, UNCHANGED last,
         NEW c \in Nat, c = playQueue[1], buffer' = Newest(buffer \o Samples(c))
  PROVE  /\ buffer' \in Seq(Nat) /\ Len(buffer') <= Period * BufferedFrames
         /\ BufferInOrder' /\ UpTo(c)'
<1>1. PICK d \in Nat : d = Decided /\ 1 \in 1 .. Len(playQueue)
  BY Shifting DEF DeviceShapes, Samplewise
<1>2. c \in 1 .. d /\ UpTo(c - 1)
  BY <1>1 DEF Samplewise, ChunkInOrder
<1>3. PICK e \in Nat, p \in Nat : e = EndOf(c - 1) /\ p = Period /\ EndOf(c) = e + p
  <2>1. c >= 1
    BY <1>2
  <2>2. EndOf(c - 1) \in Nat /\ EndOf(c) = EndOf(c - 1) + Period
    BY <2>1, SamplesOf
  <2> QED
    BY <2>2, Bounds
<1>4. PICK t \in Seq(Nat) : t = Samples(c) /\ Len(t) = p /\ \A k \in 1 .. p : t[k] = e + k
  <2>1. c >= 1
    BY <1>2
  <2>2. /\ Samples(c) \in Seq(Nat) /\ Len(Samples(c)) = Period
        /\ \A k \in 1 .. Period : Samples(c)[k] = EndOf(c - 1) + k
    BY <2>1, SamplesOf
  <2> QED
    BY <1>3, <2>2
<1>5. AscendsFrom(last, buffer) /\ last <= e /\ \A j \in 1 .. Len(buffer) : buffer[j] <= e
  BY <1>2, <1>3 DEF Samplewise, BufferInOrder, AscendsFrom, UpTo
<1>6. PICK u \in Seq(Nat) : u = buffer \o t /\ AscendsFrom(last, u) /\ \A j \in 1 .. Len(u) : u[j] <= e + p
  <2>1. buffer \in Seq(Nat) /\ last \in Nat
    BY DEF DeviceShapes
  <2>2. /\ buffer \o t \in Seq(Nat) /\ AscendsFrom(last, buffer \o t)
        /\ \A j \in 1 .. Len(buffer \o t) : (buffer \o t)[j] <= e + p
    BY <1>4, <1>5, <2>1, JoinedAscends
  <2> QED
    BY <2>2
<1>7. PICK v \in Seq(Nat), k \in 0 .. Len(u) :
        v = Newest(u) /\ Len(v) <= Period * BufferedFrames /\ Shifted(v, u, k)
  BY NewestOnes
<1>8. AscendsFrom(last, v)
  BY <1>6, <1>7, RestAscends DEF DeviceShapes
<1>9. \A j \in 1 .. Len(v) : v[j] <= e + p
  <2>1. PICK n \in Nat : n = Len(u) /\ k \in 0 .. n /\ Len(v) = n - k
    BY <1>7, LenProperties DEF Shifted
  <2>2. ASSUME NEW j \in 1 .. n - k PROVE v[j] <= e + p
    <3>1. PICK m \in 1 .. n : m = j + k
      BY <2>1
    <3> QED
      BY <1>6, <1>7, <2>1, <3>1 DEF Shifted
  <2> QED
    BY <2>1, <2>2
<1>10. buffer' = v /\ last' = last
  BY <1>4, <1>6, <1>7
<1>11. BufferInOrder'
  BY <1>8, <1>10 DEF BufferInOrder, AscendsFrom
<1>12. UpTo(c)'
  <2>1. last <= e + p
    BY <1>5 DEF DeviceShapes
  <2>2. EndOf(c)' = e + p
    BY <1>3 DEF EndOf
  <2> QED
    BY <1>9, <1>10, <2>1, <1>3 DEF UpTo, EndOf
<1> QED
  BY <1>7, <1>10, <1>11, <1>12

\* The first samples, as many as are wanted and there.
LEMMA FirstOnes ==
  ASSUME NEW s \in Seq(Nat), NEW w \in Nat, NEW f, f = SubSeq(s, 1, Min({w, Len(s)}))
  PROVE  \E h \in 0 .. Len(s) :
           Len(f) = h /\ (f = <<>> <=> h = 0) /\ (h > 0 => Last(f) = s[h])
<1>1. PICK n \in Nat : n = Len(s)
  BY LenProperties
<1>2. PICK h \in 0 .. n : h = Min({w, n})
  <2>1. w \in Int /\ n \in Int
    OBVIOUS
  <2>2. Min({w, n}) = IF w <= n THEN w ELSE n
    BY <2>1, SmallerOfTwo, Zenon
  <2>3. (IF w <= n THEN w ELSE n) \in 0 .. n
    BY ONLY w \in Nat, n \in Nat
  <2> QED
    BY ONLY <2>2, <2>3
<1>3. f = SubSeq(s, 1, h)
  BY <1>1, <1>2
<1>4. f \in Seq(Nat) /\ Len(f) = h /\ (h > 0 => f[h] = s[h])
  <2>1. 1 \in Int /\ h \in Int /\ \A i \in 1 .. h : s[i] \in Nat
    BY <1>1, ElementOfSeq
  <2>2. /\ SubSeq(s, 1, h) \in Seq(Nat)
        /\ Len(SubSeq(s, 1, h)) = IF 1 <= h THEN h - 1 + 1 ELSE 0
        /\ \A i \in 1 .. h - 1 + 1 : SubSeq(s, 1, h)[i] = s[1 + i - 1]
    BY <2>1, SubSeqProperties
  <2>3. Len(f) = h /\ f \in Seq(Nat)
    <3>1. h = IF 1 <= h THEN h - 1 + 1 ELSE 0
      OBVIOUS
    <3> QED
      BY <1>3, <2>2, <3>1, Zenon
  <2>4. h > 0 => h \in 1 .. h - 1 + 1 /\ 1 + h - 1 = h
    OBVIOUS
  <2> QED
    BY <1>3, <2>2, <2>3, <2>4
<1>5. f = <<>> <=> h = 0
  BY <1>4, EmptySeq
<1> QED
  BY <1>1, <1>4, <1>5 DEF Last

\* The samples a callback takes from the front of the buffer.
LEMMA BufferHeard ==
  ASSUME LocalAudioAssumption, DeviceShapes, Samplewise,
         last' = IF Heard = <<>> THEN last ELSE Last(Heard),
         buffer' = SubSeq(buffer, Len(Heard) + 1, Len(buffer))
  PROVE  /\ buffer' \in Seq(Nat) /\ Len(buffer') <= Len(buffer)
         /\ last' \in Nat /\ BufferInOrder' /\ \A b \in Nat : UpTo(b) => UpTo(b)'
<1>1. PICK n \in Nat, h \in Nat :
        /\ n = Len(buffer) /\ h <= n /\ Len(Heard) = h
        /\ Heard = <<>> <=> h = 0
        /\ h > 0 => Last(Heard) = buffer[h]
  <2>1. PICK h \in 0 .. Len(buffer) :
          Len(Heard) = h /\ (Heard = <<>> <=> h = 0) /\ (h > 0 => Last(Heard) = buffer[h])
    BY FirstOnes DEF DeviceShapes, Heard
  <2>2. Len(buffer) \in Nat
    BY LenProperties DEF DeviceShapes
  <2> QED
    BY <2>1, <2>2
<1>5. last' = IF h = 0 THEN last ELSE buffer[h]
  BY <1>1
<1>6. PICK t \in Seq(Nat) : t = buffer' /\ Shifted(t, buffer, h) /\ Len(t) = n - h
  <2>1. h \in 0 .. Len(buffer) /\ buffer \in Seq(Nat)
    BY <1>1 DEF DeviceShapes
  <2>2. SubSeq(buffer, h + 1, Len(buffer)) \in Seq(Nat) /\ Shifted(SubSeq(buffer, h + 1, Len(buffer)), buffer, h)
    BY <2>1, Dropping
  <2> QED
    BY <1>1, <2>2 DEF Shifted
<1>7. AscendsFrom(last, buffer) /\ last \in Nat /\ buffer \in Seq(Nat) /\ h \in 0 .. Len(buffer)
  BY <1>1 DEF DeviceShapes, Samplewise, BufferInOrder, AscendsFrom
<1>8. AscendsFrom(last, t) /\ (h > 0 => buffer[h] \in Nat /\ AscendsFrom(buffer[h], t))
  BY <1>6, <1>7, RestAscends
<1>9. last' \in Nat /\ AscendsFrom(last', t)
  BY <1>5, <1>7, <1>8
<1>10. BufferInOrder'
  BY <1>6, <1>9 DEF BufferInOrder, AscendsFrom
<1>11. ASSUME NEW b \in Nat, UpTo(b) PROVE UpTo(b)'
  <2>1. PICK e : e = EndOf(b) /\ last <= e /\ \A j \in 1 .. n : buffer[j] <= e
    BY <1>1, <1>11 DEF UpTo
  <2>2. last' <= e
    BY <1>1, <1>5, <2>1
  <2>3. ASSUME NEW j \in 1 .. n - h PROVE t[j] <= e
    <3>1. PICK m \in 1 .. n : m = j + h
      BY <1>1
    <3> QED
      BY <1>1, <1>6, <2>1, <3>1 DEF Shifted
  <2> QED
    BY <1>6, <2>1, <2>2, <2>3 DEF UpTo, EndOf
<1>12. Len(buffer') <= Len(buffer) /\ buffer' \in Seq(Nat)
  <2>1. Len(t) <= n
    BY <1>1, <1>6
  <2> QED
    BY <1>1, <1>6, <2>1
<1> QED
  BY <1>9, <1>10, <1>11, <1>12, Zenon

\* What the invariant says chunk by chunk holds sample by sample.
LEMMA OrderSamples ==
  ASSUME LocalAudioAssumption, DeviceShapes, Samplewise
  PROVE  HeardInOrder
<1>1. PICK n \in Nat, d \in Nat, p \in Nat : n = Len(playQueue) /\ d = Decided /\ p = Period
  BY LenProperties, Bounds DEF DeviceShapes, Samplewise
<1>2. \A i \in 1 .. n : playQueue[i] \in 1 .. d
  BY <1>1 DEF Samplewise, ChunkInOrder
<1>3. last \in Nat /\ \A j \in 1 .. Len(buffer) : buffer[j] \in Nat
  BY ElementOfSeq DEF DeviceShapes
<1>4. ASSUME NEW i \in 1 .. n, NEW k \in 1 .. p
      PROVE  /\ last < Queued(i)[k]
             /\ \A j \in 1 .. Len(buffer) : buffer[j] < Queued(i)[k]
             /\ \A h \in 1 .. i - 1, l \in 1 .. p : Queued(h)[l] < Queued(i)[k]
  <2>1. PICK c \in 1 .. d : c = playQueue[i]
    BY <1>2
  <2>2. UpTo(c - 1) /\ \A h \in 1 .. i - 1 : playQueue[h] < c
    BY <1>1, <2>1 DEF Samplewise, ChunkInOrder
  <2>3. PICK e \in Nat : e = EndOf(c - 1) /\ Queued(i)[k] = e + k
    <3>1. c \in Nat /\ c >= 1
      BY <2>1
    <3> QED
      BY <1>1, <2>1, <3>1, SamplesOf DEF Queued
  <2>4. last < e + k /\ \A j \in 1 .. Len(buffer) : buffer[j] < e + k
    BY <1>1, <1>3, <2>2, <2>3 DEF UpTo
  <2>5. ASSUME NEW h \in 1 .. i - 1, NEW l \in 1 .. p PROVE Queued(h)[l] < e + k
    <3>1. PICK b \in 1 .. d : b = playQueue[h] /\ b < c
      BY <1>2, <2>2
    <3>2. PICK f \in Nat : f = EndOf(b - 1) /\ Queued(h)[l] = f + l /\ EndOf(b) = f + p
      <4>1. b \in Nat /\ b >= 1
        BY <3>1
      <4> QED
        BY <1>1, <3>1, <4>1, SamplesOf DEF Queued
    <3>3. EndOf(b) <= e
      <4>1. PICK a \in Nat : a = c - 1 /\ b <= a /\ b \in Nat
        BY <3>1
      <4>2. EndOf(b) <= EndOf(a)
        BY <4>1, Ends
      <4> QED
        BY <2>3, <4>1, <4>2
    <3> QED
      BY <1>1, <3>2, <3>3
  <2> QED
    BY <2>3, <2>4, <2>5
<1>5. QueueInOrder
  BY <1>1, <1>4 DEF QueueInOrder
<1> QED
  BY <1>5 DEF HeardInOrder, Samplewise

-----------------------------------------------------------------------------
(***************************************************************************)
(* The initial state, and one lemma per thread.                            *)
(***************************************************************************)

LEMMA DeviceInitIInv == ASSUME LocalAudioAssumption, Init PROVE DeviceIInv
<1>1. DeviceShapes
  <2>1. /\ <<>> \in Seq(Nat) /\ Len(<<>>) = 0
        /\ 0 <= QueueFrames /\ 0 <= Period * BufferedFrames
    BY Bounds
  <2> QED
    BY <2>1 DEF Init, DeviceShapes
<1>2. Allocated /\ CaptureRuns /\ Drained
  BY DEF Init, Allocated, CaptureRuns, Drained
<1>3. Samplewise
  <2>1. EndOf(0) = 0
    BY Bounds DEF EndOf
  <2>2. Decided = 0 /\ last = 0 /\ Len(buffer) = 0 /\ Len(playQueue) = 0
    BY DEF Init, Decided
  <2> QED
    BY <2>1, <2>2 DEF Samplewise, UpTo, BufferInOrder
<1> QED
  BY <1>1, <1>2, <1>3 DEF DeviceIInv

\* What the way of the samples depends on does not change.
LEMMA Elsewhere ==
  ASSUME LocalAudioAssumption, DeviceIInv, UNCHANGED playback
  PROVE  Samplewise' /\ (playing = "drained" => playQueue = <<>>)'
<1>1. Decided' = Decided /\ UNCHANGED <<playQueue, buffer, last>>
  BY DEF playback, Decided
<1> QED
  BY <1>1, Uncertain DEF DeviceIInv, Drained, playback

LEMMA ControlKeeps == ASSUME LocalAudioAssumption, DeviceIInv, Control PROVE DeviceIInv'
<1>1. UNCHANGED <<opening, playback, captureSide>>
  BY DEF Control, InitContext, Opened, CloseFlag, CloseRest, StartDevice, StopDevice
<1>2. Samplewise' /\ Drained'
  BY <1>1, Elsewhere DEF DeviceIInv, Drained, captureSide
<1>3. DeviceShapes' /\ Allocated' /\ CaptureRuns'
  <2>1. /\ UNCHANGED <<wanted, duplex, playQueue, chunk, playing, buffer, need, last>>
        /\ UNCHANGED <<capQueue, capture, capturing>> /\ Kinds' = Kinds
    BY <1>1 DEF opening, playback, captureSide, Kinds
  <2>2. /\ DeviceShapes' <=> /\ control' \in {"context", "devices", "open", "failed", "close", "stop", "closed"}
                       /\ context' \in BOOLEAN /\ closed' \in BOOLEAN /\ capClosed' \in BOOLEAN
                       /\ devices' \subseteq Kinds
    BY <2>1 DEF DeviceIInv, DeviceShapes
  <2>3. /\ control \in {"context", "devices", "open", "failed", "close", "stop", "closed"}
        /\ context \in BOOLEAN /\ closed \in BOOLEAN /\ capClosed \in BOOLEAN
        /\ devices \subseteq Kinds
    BY DEF DeviceIInv, DeviceShapes
  <2>4. CASE InitContext
    <3>1. /\ UNCHANGED <<devices, closed, capClosed>>
          /\ ~context /\ devices = {} /\ capturing = "idle" /\ ~capClosed
          /\ \/ control' = "devices" /\ context' = TRUE
             \/ control' = "failed" /\ context' = context
      BY <2>4 DEF InitContext, DeviceIInv, Allocated, CaptureRuns, Running
    <3>2. context' \in BOOLEAN /\ DeviceShapes'
      BY <2>2, <2>3, <3>1
    <3> QED
      BY <2>1, <3>1, <3>2 DEF Allocated, CaptureRuns
  <2>5. CASE Opened
    BY <2>1, <2>2, <2>3, <2>5 DEF Opened, DeviceIInv, Allocated, CaptureRuns, Running
  <2>6. CASE CloseFlag
    BY <2>1, <2>2, <2>3, <2>6 DEF CloseFlag, DeviceIInv, Allocated, CaptureRuns, Running
  <2>7. CASE CloseRest
    <3>1. /\ UNCHANGED <<devices, closed>> /\ devices = {} /\ capturing = "idle"
          /\ control' = "closed" /\ context' = FALSE
      BY <2>7 DEF CloseRest, DeviceIInv, CaptureRuns, Running
    <3>2. capClosed' \in BOOLEAN
      <4>1. capClosed' = ("capture" \in wanted)
        BY <2>7 DEF CloseRest
      <4>2. CASE "capture" \in wanted
        BY <4>1, <4>2
      <4>3. CASE "capture" \notin wanted
        BY <4>1, <4>3
      <4> QED
        BY <4>2, <4>3
    <3>3. DeviceShapes'
      BY <2>2, <2>3, <3>1, <3>2
    <3> QED
      BY <2>1, <3>1, <3>3 DEF Allocated, CaptureRuns
  <2>8. ASSUME NEW kind \in Kinds, StartDevice(kind) PROVE DeviceShapes' /\ Allocated' /\ CaptureRuns'
    BY <2>1, <2>2, <2>3, <2>8 DEF StartDevice, FailedTo, DeviceIInv, Allocated, CaptureRuns, Running
  <2>9. ASSUME NEW kind \in Kinds, StopDevice(kind) PROVE DeviceShapes' /\ Allocated' /\ CaptureRuns'
    BY <2>1, <2>2, <2>3, <2>9 DEF StopDevice, Quiet, DeviceIInv, Allocated, CaptureRuns, Running
  <2> QED
    BY <2>4, <2>5, <2>6, <2>7, <2>8, <2>9 DEF Control
<1> QED
  BY <1>2, <1>3 DEF DeviceIInv

LEMMA PlayerKeeps == ASSUME LocalAudioAssumption, DeviceIInv, Player PROVE DeviceIInv'
<1>1. UNCHANGED <<opening, handle, buffer, need, last, captureSide, capClosed, pump>>
  BY DEF Player, Play, PlayDrain, PlayAgain
<1>2. PICK n \in Nat : n = Len(playQueue) /\ QueueFrames \in Nat /\ n <= QueueFrames /\ QueueFrames > 0
  BY LenProperties, Bounds DEF DeviceIInv, DeviceShapes
<1>3. Allocated' /\ CaptureRuns' /\ (capturing = "drained" => capQueue = <<>>)'
  BY <1>1 DEF DeviceIInv, Allocated, CaptureRuns, Running, Drained, opening, handle, captureSide
<1>4. ASSUME playQueue' \in Seq(Nat), Len(playQueue') <= QueueFrames, chunk' \in Nat,
             playing' \in {"idle", "full", "drained"}
      PROVE  DeviceShapes'
  BY <1>1, <1>4 DEF DeviceIInv, DeviceShapes, opening, handle, captureSide, Kinds
<1>5. playQueue \in Seq(Nat) /\ chunk \in Nat /\ playing \in {"idle", "full", "drained"}
  BY DEF DeviceIInv, DeviceShapes
<1>6. UNCHANGED <<buffer, last>>
  BY <1>1
<1>7. CASE UNCHANGED <<playQueue, chunk, playing>>
  BY <1>1, <1>3, <1>7, Elsewhere, <1>2, <1>4, <1>5 DEF DeviceIInv, Drained, playback
<1>8. CASE Play /\ Len(playQueue) < QueueFrames /\ ~UNCHANGED <<playQueue, chunk, playing>>
  <2>1. PICK c \in Nat : c = chunk + 1
    BY <1>5
  <2>2. playing = "idle" /\ playing' = "idle" /\ chunk' = c /\ playQueue' = Append(playQueue, c)
    BY <1>8, <2>1 DEF Play
  <2>3. c = Decided + 1 /\ Decided' = c
    BY <2>1, <2>2 DEF Decided
  <2>4. Samplewise'
    BY <1>6, <2>2, <2>3, ChunkQueued DEF DeviceIInv
  <2>5. playQueue' \in Seq(Nat) /\ Len(playQueue') <= QueueFrames
    <3>1. Append(playQueue, c) \in Seq(Nat) /\ Len(Append(playQueue, c)) = n + 1
      BY <1>2, <1>5, Appending
    <3> QED
      BY <1>2, <1>8, <2>2, <3>1
  <2>6. DeviceShapes'
    BY <1>4, <2>2, <2>5
  <2> QED
    BY <1>3, <2>2, <2>4, <2>6 DEF DeviceIInv, Drained
<1>9. CASE Play /\ ~(Len(playQueue) < QueueFrames) /\ ~UNCHANGED <<playQueue, chunk, playing>>
  <2>1. playing = "idle" /\ playing' = "full" /\ chunk' = chunk + 1 /\ playQueue' = playQueue
    BY <1>9 DEF Play
  <2>2. Decided' = Decided
    BY <1>5, <2>1 DEF Decided
  <2>3. Samplewise'
    BY <1>6, <2>1, <2>2, Uncertain DEF DeviceIInv
  <2>4. DeviceShapes'
    BY <1>2, <1>4, <1>5, <2>1
  <2> QED
    BY <1>3, <2>1, <2>3, <2>4 DEF DeviceIInv, Drained
<1>10. CASE PlayDrain /\ playQueue = <<>>
  <2>1. playing = "full" /\ playing' = "drained" /\ chunk' = chunk /\ playQueue' = playQueue
    BY <1>10 DEF PlayDrain
  <2>2. Decided' = Decided
    BY <2>1 DEF Decided
  <2>3. Samplewise'
    BY <1>6, <2>1, <2>2, Uncertain DEF DeviceIInv
  <2>4. DeviceShapes'
    BY <1>2, <1>4, <1>5, <2>1
  <2> QED
    BY <1>3, <1>10, <2>1, <2>3, <2>4 DEF DeviceIInv, Drained
<1>11. CASE PlayDrain /\ playQueue # <<>>
  <2>1. playing = "full" /\ playing' = "full" /\ chunk' = chunk /\ playQueue' = Tail(playQueue)
    BY <1>11 DEF PlayDrain
  <2>2. Decided' = Decided
    BY <2>1 DEF Decided
  <2>3. PICK c \in Nat : c = playQueue[1]
    BY <1>5, <1>11, Shifting
  <2>4. BufferInOrder' /\ buffer' \in Seq(Nat) /\ last' \in Nat
    BY <1>6 DEF DeviceIInv, DeviceShapes, Samplewise, BufferInOrder
  <2>5. Samplewise'
    BY <1>6, <1>11, <2>1, <2>2, <2>3, <2>4, ChunkTaken DEF DeviceIInv
  <2>6. playQueue' \in Seq(Nat) /\ Len(playQueue') <= QueueFrames
    <3>1. Tail(playQueue) \in Seq(Nat) /\ Len(Tail(playQueue)) = n - 1
      BY <1>2, <1>5, <1>11, Shifting DEF Shifted
    <3> QED
      BY <1>2, <2>1, <3>1
  <2>7. DeviceShapes'
    BY <1>4, <1>5, <2>1, <2>6
  <2> QED
    BY <1>3, <2>1, <2>5, <2>7 DEF DeviceIInv, Drained
<1>12. CASE PlayAgain
  <2>1. playing = "drained" /\ playing' = "idle" /\ chunk' = chunk /\ playQueue = <<>>
    BY <1>12 DEF PlayAgain, DeviceIInv, Drained
  <2>2. n = 0 /\ playQueue' = Append(playQueue, chunk)
    BY <1>2, <1>12, <2>1 DEF PlayAgain
  <2>3. chunk = Decided + 1 /\ Decided' = chunk
    BY <1>5, <2>1 DEF Decided
  <2>4. Samplewise'
    BY <1>5, <1>6, <2>2, <2>3, ChunkQueued DEF DeviceIInv
  <2>5. playQueue' \in Seq(Nat) /\ Len(playQueue') <= QueueFrames
    <3>1. Append(playQueue, chunk) \in Seq(Nat) /\ Len(Append(playQueue, chunk)) = n + 1
      BY <1>2, <1>5, Appending
    <3> QED
      BY <1>2, <2>2, <3>1
  <2>6. DeviceShapes'
    BY <1>4, <1>5, <2>1, <2>5
  <2> QED
    BY <1>3, <2>1, <2>4, <2>6 DEF DeviceIInv, Drained
<1> QED
  BY <1>7, <1>8, <1>9, <1>10, <1>11, <1>12 DEF Player

LEMMA PlaybackKeeps == ASSUME LocalAudioAssumption, DeviceIInv, PlaybackThread PROVE DeviceIInv'
<1>1. UNCHANGED <<opening, handle, chunk, playing, captureSide, capClosed, pump>>
  BY DEF PlaybackThread, CallPlayback, Pull, Emit
<1>2. Allocated' /\ CaptureRuns' /\ (capturing = "drained" => capQueue = <<>>)' /\ Decided' = Decided
  BY <1>1 DEF DeviceIInv, Allocated, CaptureRuns, Running, Drained, Decided, opening, handle, captureSide
<1>3. ASSUME playQueue' \in Seq(Nat), Len(playQueue') <= QueueFrames, need' \in Nat, last' \in Nat,
             buffer' \in Seq(Nat), Len(buffer') <= Period * BufferedFrames
      PROVE  DeviceShapes'
  BY <1>1, <1>3 DEF DeviceIInv, DeviceShapes, opening, handle, captureSide, Kinds
<1>4. /\ playQueue \in Seq(Nat) /\ Len(playQueue) <= QueueFrames /\ need \in Nat /\ last \in Nat
      /\ buffer \in Seq(Nat) /\ Len(buffer) <= Period * BufferedFrames
  BY DEF DeviceIInv, DeviceShapes
<1>5. ASSUME NEW n \in Needs, CallPlayback(n) PROVE DeviceIInv'
  <2>1. UNCHANGED <<playQueue, buffer, last>> /\ need' = n
    BY <1>5 DEF CallPlayback
  <2>2. Samplewise'
    BY <1>2, <2>1, Uncertain DEF DeviceIInv
  <2>3. n \in Nat
    BY Bounds
  <2>4. DeviceShapes'
    BY <1>3, <1>4, <2>1, <2>3
  <2> QED
    BY <1>1, <1>2, <2>1, <2>2, <2>4 DEF DeviceIInv, Drained
<1>6. CASE Pull
  <2>1. /\ playQueue # <<>> /\ playQueue' = Tail(playQueue) /\ UNCHANGED <<need, last>>
        /\ buffer' = Newest(buffer \o Samples(Head(playQueue)))
    BY <1>6 DEF Pull
  <2>2. PICK c \in Nat : c = playQueue[1] /\ c = Head(playQueue)
    BY <1>4, <2>1, Shifting
  <2>3. buffer' = Newest(buffer \o Samples(c))
    BY <2>1, <2>2
  <2>4. /\ buffer' \in Seq(Nat) /\ Len(buffer') <= Period * BufferedFrames
        /\ BufferInOrder' /\ UpTo(c)'
    BY <2>1, <2>2, <2>3, ChunkBuffered DEF DeviceIInv
  <2>5. last' \in Nat /\ playQueue # <<>> /\ playQueue' = Tail(playQueue)
    BY <1>4, <2>1
  <2>6. Samplewise'
    BY <1>2, <2>2, <2>4, <2>5, ChunkTaken DEF DeviceIInv
  <2>7. playQueue' \in Seq(Nat) /\ Len(playQueue') <= QueueFrames
    <3>1. PICK m \in Nat : m = Len(playQueue)
      BY <1>4, LenProperties
    <3>2. Tail(playQueue) \in Seq(Nat) /\ Len(Tail(playQueue)) = m - 1
      BY <1>4, <2>1, <3>1, Shifting DEF Shifted
    <3> QED
      BY <1>4, <2>1, <3>1, <3>2, Bounds
  <2>8. DeviceShapes'
    BY <1>3, <1>4, <2>1, <2>4, <2>7
  <2>9. (playing = "drained" => playQueue = <<>>)'
    BY <1>1, <2>1 DEF DeviceIInv, Drained
  <2> QED
    BY <1>2, <2>6, <2>8, <2>9 DEF DeviceIInv, Drained
<1>7. CASE Emit
  <2>1. /\ last' = IF Heard = <<>> THEN last ELSE Last(Heard)
        /\ buffer' = SubSeq(buffer, Len(Heard) + 1, Len(buffer))
        /\ need' = 0 /\ UNCHANGED playQueue
    BY <1>7 DEF Emit
  <2>2. /\ buffer' \in Seq(Nat) /\ Len(buffer') <= Len(buffer)
        /\ last' \in Nat /\ BufferInOrder' /\ \A b \in Nat : UpTo(b) => UpTo(b)'
    BY <2>1, BufferHeard DEF DeviceIInv
  <2>3. Samplewise'
    BY <1>2, <2>1, <2>2, SamplesHeard DEF DeviceIInv
  <2>4. Len(buffer') <= Period * BufferedFrames
    <3>1. PICK m \in Nat, k \in Nat : m = Len(buffer) /\ k = Len(buffer')
      BY <1>4, <2>2, LenProperties
    <3>2. PICK cap \in Nat : cap = Period * BufferedFrames
      BY Bounds
    <3> QED
      BY <1>4, <2>2, <3>1, <3>2
  <2>5. DeviceShapes'
    BY <1>3, <1>4, <2>1, <2>2, <2>4
  <2> QED
    BY <1>1, <1>2, <2>1, <2>3, <2>5 DEF DeviceIInv, Drained
<1> QED
  BY <1>5, <1>6, <1>7 DEF PlaybackThread

LEMMA CaptureKeeps == ASSUME LocalAudioAssumption, DeviceIInv, CaptureThread \/ Pump PROVE DeviceIInv'
<1>1. UNCHANGED <<opening, handle, playback, capClosed>>
  BY DEF CaptureThread, CallCapture, SendCapture, DrainCapture, SendCaptureAgain, Pump, PumpRead, PumpEnd
<1>2. Samplewise' /\ (playing = "drained" => playQueue = <<>>)' /\ Allocated'
  BY <1>1, Elsewhere DEF DeviceIInv, Allocated, handle, opening
<1>3. ASSUME capQueue' \in Seq(Nat), Len(capQueue') <= QueueFrames, capture' \in Nat,
             capturing' \in {"idle", "send", "full", "drained"}
      PROVE  DeviceShapes'
  BY <1>1, <1>3 DEF DeviceIInv, DeviceShapes, opening, handle, playback, Kinds
<1>4. /\ capQueue \in Seq(Nat) /\ Len(capQueue) <= QueueFrames /\ capture \in Nat
      /\ capturing \in {"idle", "send", "full", "drained"}
  BY DEF DeviceIInv, DeviceShapes
<1>5. PICK n \in Nat : n = Len(capQueue) /\ QueueFrames \in Nat /\ n <= QueueFrames /\ QueueFrames > 0
  BY <1>4, LenProperties, Bounds
<1>6. capQueue # <<>> => Tail(capQueue) \in Seq(Nat) /\ Len(Tail(capQueue)) <= QueueFrames
  <2>1. CASE capQueue # <<>>
    <3>1. Tail(capQueue) \in Seq(Nat) /\ Len(Tail(capQueue)) = n - 1
      BY <1>4, <1>5, <2>1, Shifting DEF Shifted
    <3> QED
      BY <1>5, <3>1
  <2> QED
    BY <2>1
<1>7. n < QueueFrames => Append(capQueue, capture) \in Seq(Nat) /\ Len(Append(capQueue, capture)) <= QueueFrames
  <2>1. Append(capQueue, capture) \in Seq(Nat) /\ Len(Append(capQueue, capture)) = n + 1
    BY <1>4, <1>5, Appending
  <2> QED
    BY <1>5, <2>1
<1>8. UNCHANGED <<wanted, duplex, devices>>
  BY <1>1 DEF opening, handle
<1>9. CASE CallCapture
  <2>1. capture' = capture + 1 /\ capturing' = "send" /\ UNCHANGED capQueue /\ Running("capture")
    BY <1>9 DEF CallCapture
  <2>2. capture' \in Nat
    BY <1>4, <2>1
  <2> QED
    BY <1>2, <1>3, <1>4, <1>8, <2>1, <2>2 DEF DeviceIInv, CaptureRuns, Drained, Running
<1>10. CASE SendCapture
  <2>1. capture' = capture /\ capturing = "send"
    BY <1>10 DEF SendCapture
  <2>2. \/ capQueue' = Append(capQueue, capture) /\ capturing' = "idle" /\ n < QueueFrames
        \/ capturing' = "full" /\ capQueue' = capQueue
    BY <1>5, <1>10 DEF SendCapture
  <2>3. DeviceShapes'
    BY <1>3, <1>4, <1>7, <2>1, <2>2
  <2> QED
    BY <1>2, <1>8, <2>1, <2>2, <2>3 DEF DeviceIInv, CaptureRuns, Drained, Running
<1>11. CASE DrainCapture
  <2>1. capture' = capture /\ capturing = "full"
    BY <1>11 DEF DrainCapture
  <2>2. \/ capQueue = <<>> /\ capQueue' = capQueue /\ capturing' = "drained"
        \/ capQueue # <<>> /\ capQueue' = Tail(capQueue) /\ capturing' = "full"
    BY <1>11 DEF DrainCapture
  <2>3. DeviceShapes'
    BY <1>3, <1>4, <1>6, <2>1, <2>2
  <2> QED
    BY <1>2, <1>8, <2>1, <2>2, <2>3 DEF DeviceIInv, CaptureRuns, Drained, Running
<1>12. CASE SendCaptureAgain
  <2>1. capture' = capture /\ capturing' = "idle"
    BY <1>12 DEF SendCaptureAgain
  <2>2. \/ capQueue' = Append(capQueue, capture) /\ n < QueueFrames
        \/ capQueue' = capQueue
    BY <1>5, <1>12 DEF SendCaptureAgain
  <2>3. DeviceShapes'
    BY <1>3, <1>4, <1>7, <2>1, <2>2
  <2> QED
    BY <1>2, <2>1, <2>3 DEF DeviceIInv, CaptureRuns, Drained
<1>13. CASE PumpRead
  <2>1. UNCHANGED <<capture, capturing>> /\ capQueue # <<>> /\ capQueue' = Tail(capQueue)
    BY <1>13 DEF PumpRead
  <2>2. DeviceShapes'
    BY <1>3, <1>4, <1>6, <2>1
  <2> QED
    BY <1>2, <1>8, <2>1, <2>2 DEF DeviceIInv, CaptureRuns, Drained, Running
<1>14. CASE PumpEnd
  <2>1. UNCHANGED <<capture, capturing, capQueue>>
    BY <1>14 DEF PumpEnd, captureSide
  <2>2. DeviceShapes'
    BY <1>3, <1>4, <2>1
  <2> QED
    BY <1>2, <1>8, <2>1, <2>2 DEF DeviceIInv, CaptureRuns, Drained, Running
<1> QED
  BY <1>9, <1>10, <1>11, <1>12, <1>13, <1>14 DEF CaptureThread, Pump

LEMMA DeviceNextIInv == ASSUME LocalAudioAssumption, DeviceIInv, [Next]_vars PROVE DeviceIInv'
<1>1. CASE UNCHANGED vars
  <2>1. /\ UNCHANGED playback
        /\ UNCHANGED <<wanted, duplex, control, context, devices, closed, capQueue, capClosed, capture, capturing>>
    BY <1>1 DEF vars, opening, handle, captureSide
  <2>2. Samplewise' /\ (playing = "drained" => playQueue = <<>>)'
    BY <2>1, Elsewhere
  <2>3. DeviceShapes'
    BY <2>1 DEF DeviceIInv, DeviceShapes, Kinds, playback
  <2> QED
    BY <2>1, <2>2, <2>3 DEF DeviceIInv, Allocated, CaptureRuns, Drained, Running
<1> QED
  BY <1>1, ControlKeeps, PlayerKeeps, PlaybackKeeps, CaptureKeeps DEF Next

-----------------------------------------------------------------------------
(***************************************************************************)
(* The theorems.                                                           *)
(***************************************************************************)

\* The invariant holds throughout.
LEMMA DeviceInvariance == ASSUME LocalAudioAssumption PROVE Spec => []DeviceIInv
<1>1. Init => DeviceIInv
  BY DeviceInitIInv
<1>2. DeviceIInv /\ [Next]_vars => DeviceIInv'
  BY DeviceNextIInv
<1> QED
  BY <1>1, <1>2, PTL DEF Spec

\* Queues and buffer stay within their sizes, devices are of the kinds asked for.
THEOREM DeviceTypeCorrect == ASSUME LocalAudioAssumption PROVE Spec => []TypeOK
<1>1. DeviceIInv => TypeOK
  BY DEF DeviceIInv, DeviceShapes, TypeOK
<1> QED
  BY <1>1, DeviceInvariance, PTL

LEMMA NewestStays == ASSUME LocalAudioAssumption, DeviceIInv, [Next]_vars
  PROVE  [/\ playing = "drained" /\ playing' = "idle" => Last(playQueue') = chunk
          /\ capturing # "idle" /\ capturing' = "idle" => capQueue' # <<>> /\ Last(capQueue') = capture]_vars
<1>1. CASE playing = "drained" /\ playing' = "idle"
  <2>1. PlayAgain
    BY <1>1 DEF Next, Control, InitContext, Opened, CloseFlag, CloseRest, StartDevice, StopDevice, Player, Play,
       PlayDrain, PlaybackThread, CallPlayback, Pull, Emit, CaptureThread, CallCapture, SendCapture,
       DrainCapture, SendCaptureAgain, Pump, PumpRead, PumpEnd, vars, playback
  <2>2. playQueue = <<>> /\ QueueFrames \in Nat /\ QueueFrames > 0 /\ chunk \in Nat
    BY <1>1, Bounds DEF DeviceIInv, Drained, DeviceShapes
  <2>3. playQueue' = <<chunk>>
    BY <2>1, <2>2 DEF PlayAgain
  <2>4. Last(playQueue') = chunk
    BY <2>2, <2>3 DEF Last
  <2>5. capturing' = capturing
    BY <2>1 DEF PlayAgain, captureSide
  <2> QED
    BY <2>4, <2>5
<1>2. CASE capturing # "idle" /\ capturing' = "idle"
  <2>1. SendCapture \/ SendCaptureAgain
    BY <1>2 DEF Next, Control, InitContext, Opened, CloseFlag, CloseRest, StartDevice, StopDevice, Player, Play,
       PlayDrain, PlayAgain, PlaybackThread, CallPlayback, Pull, Emit, CaptureThread, CallCapture,
       DrainCapture, Pump, PumpRead, PumpEnd, vars, captureSide
  <2>2. PICK n \in Nat : n = Len(capQueue) /\ capQueue \in Seq(Nat) /\ capture \in Nat
    BY LenProperties DEF DeviceIInv, DeviceShapes
  <2>3. capQueue' = Append(capQueue, capture)
    <3>1. CASE SendCapture
      BY <1>2, <3>1 DEF SendCapture
    <3>2. CASE SendCaptureAgain
      <4>1. capQueue = <<>> /\ QueueFrames \in Nat /\ QueueFrames > 0
        BY <3>2, Bounds DEF DeviceIInv, Drained, SendCaptureAgain
      <4> QED
        BY <3>2, <4>1 DEF SendCaptureAgain
    <3> QED
      BY <2>1, <3>1, <3>2
  <2>4. capQueue' \in Seq(Nat) /\ Len(capQueue') = n + 1 /\ capQueue'[n + 1] = capture
    BY <2>2, <2>3, Appending
  <2>5. capQueue' # <<>> /\ Last(capQueue') = capture
    BY <2>4, EmptySeq DEF Last
  <2>6. playing' = playing
    BY <2>1 DEF SendCapture, SendCaptureAgain, playback
  <2> QED
    BY <2>5, <2>6
<1> QED
  BY <1>1, <1>2

\* A device, from its opening to its end: nothing stays allocated whatever fails, the audio
\* thread never meets a closed channel, samples are heard in order and at most once, and what
\* overflows is never the newest.
THEOREM DeviceHoldsCorrect == ASSUME LocalAudioAssumption PROVE Spec => DeviceHolds
<1>1. DeviceIInv => TypeOK /\ NoLeak /\ NoUseOfClosed /\ HeardInOrder
  <2>1. DeviceIInv => TypeOK
    BY DEF DeviceIInv, DeviceShapes, TypeOK
  <2>2. DeviceIInv => NoLeak
    BY DEF DeviceIInv, DeviceShapes, Allocated, NoLeak
  <2>3. DeviceIInv => NoUseOfClosed
    BY DEF DeviceIInv, Allocated, CaptureRuns, Running, NoUseOfClosed
  <2>4. DeviceIInv => HeardInOrder
    BY OrderSamples DEF DeviceIInv
  <2> QED
    BY <2>1, <2>2, <2>3, <2>4
<1>2. DeviceIInv /\ [Next]_vars =>
        [/\ playing = "drained" /\ playing' = "idle" => Last(playQueue') = chunk
         /\ capturing # "idle" /\ capturing' = "idle" => capQueue' # <<>> /\ Last(capQueue') = capture]_vars
  BY NewestStays
<1> QED
  BY <1>1, <1>2, DeviceInvariance, PTL DEF Spec, DeviceHolds, NewestKept

-----------------------------------------------------------------------------
(***************************************************************************)
(* The inductive invariant of the selection.                               *)
(***************************************************************************)

HandlerSteps == {"idle", "apply", "pump", "source", "compose", "tell", "answer", "reply"}
Sources == {"ws", "server"}

\* What a handler holds: a request, and what it makes of it.
MergedRequest ==
  [enabled : [Directions -> BOOLEAN], selected : [Directions -> Ids], source : Sources \cup {Keep}]

SelectionShapes ==
  /\ selected \in [Directions -> Ids] /\ enabled \in [Directions -> BOOLEAN]
  /\ generation \in Nat /\ local.generation \in {0, generation}
  /\ source \in Sources /\ pumps \subseteq 1 .. generation
  /\ step \in [Panels -> HandlerSteps]
  /\ DOMAIN ask = Panels /\ DOMAIN want = Panels /\ DOMAIN note = Panels /\ DOMAIN told = Panels
  /\ opened \in [Panels -> Nat] /\ untold \in [Panels -> SUBSET Panels]
  /\ overtaken \subseteq Panels /\ confused \subseteq Panels
  /\ asks \in 0 .. MaxRequests

\* Handlers that change something hold a merge, and the generation they opened is not one to
\* come; an answer goes to the panel that asked.
Holding ==
  \A p \in Panels :
    /\ Changing(p) => want[p] \in MergedRequest
    /\ step[p] = "apply" => ask[p] \in Request
    /\ step[p] = "pump" => opened[p] \in 1 .. generation
    /\ step[p] = "reply" => untold[p] \subseteq {p}

\* Each generation, and each request that is about to open one, was asked for.
Applying == {p \in Panels : step[p] = "apply"}
Counted == generation + Cardinality(Applying) <= asks

\* What a merge says: what the request names, and the rest as it is unless another request
\* was applied meanwhile.
Merged(p) ==
  \A d \in Directions :
    /\ ask[p].enable[d] # "keep" => want[p].enabled[d] = (ask[p].enable[d] = "on")
    /\ ask[p].id[d] # Keep => want[p].selected[d] = ask[p].id[d]
    /\ p \notin overtaken =>
         /\ ask[p].enable[d] = "keep" => want[p].enabled[d] = enabled[d]
         /\ ask[p].id[d] = Keep => want[p].selected[d] = selected[d]
MergesHold == \A p \in Panels : step[p] = "apply" => Merged(p)

\* Changes that overlap confuse every panel.
OverlapConfuses == \A p, q \in Panels : Changing(p) /\ Changing(q) /\ p # q => confused = Panels

\* A panel that is not answered was told the truth, and one that is will be.
Right(o) ==
  /\ step[o] = "reply" => note[o] = Status
  /\ ~Answering(o) => told[o] = Status

\* That holds of a panel that is not confused until the one handler that changes something
\* has done so, and again once that one has told it.
Changed(q) == step[q] \in {"pump", "source", "compose", "tell"}
RightFor(o) ==
  /\ (\A q \in Panels : ~Changed(q)) => Right(o)
  /\ \A q \in Panels : step[q] = "tell" => note[q] = Status /\ (o \in untold[q] \/ Right(o))
ToldInv == \A o \in Panels \ confused : RightFor(o)

SelectionIInv ==
  /\ SelectionShapes /\ Holding /\ Counted /\ MergesHold /\ OverlapConfuses /\ ToldInv
  /\ EnabledRuns

LEMMA SelectionInitIInv ==
  ASSUME ServerAudioAssumption, SelectionInit
  PROVE  SelectionIInv
<1> USE ServerAudioAssumption DEF ServerAudioAssumption, SelectionInit
<1>1. SelectionShapes
  BY DEF SelectionShapes, Directions, NoDevice, Off, Sources, HandlerSteps
<1>2. Holding /\ MergesHold /\ OverlapConfuses
  BY DEF Holding, MergesHold, OverlapConfuses, Changing
<1>3. Counted
  <2>1. Applying = {}
    BY DEF Applying
  <2> QED
    BY <2>1, FS_EmptySet DEF Counted
<1>4. ToldInv
  BY DEF ToldInv, RightFor, Right
<1>5. EnabledRuns
  BY DEF EnabledRuns, NoDevice
<1> QED
  BY <1>1, <1>2, <1>3, <1>4, <1>5 DEF SelectionIInv

-----------------------------------------------------------------------------
(***************************************************************************)
(* Every step preserves it.                                                *)
(***************************************************************************)

\* Handlers that are about to apply are counted one by one.
LEMMA ApplyingFinite ==
  ASSUME ServerAudioAssumption
  PROVE  IsFiniteSet(Applying) /\ Cardinality(Applying) \in Nat
<1>1. Applying \subseteq Panels
  BY DEF Applying
<1>2. IsFiniteSet(Applying)
  BY <1>1, FS_Subset DEF ServerAudioAssumption
<1> QED
  BY <1>2, FS_CardinalityType

LEMMA OneMore ==
  ASSUME NEW S, IsFiniteSet(S), NEW x
  PROVE  /\ Cardinality(S \cup {x}) \in Nat /\ Cardinality(S) \in Nat
         /\ Cardinality(S \cup {x}) <= Cardinality(S) + 1
<1>1. /\ Cardinality(S) \in Nat
      /\ Cardinality(S \cup {x}) = IF x \in S THEN Cardinality(S) ELSE Cardinality(S) + 1
  BY FS_CardinalityType, FS_AddElement
<1> QED
  BY <1>1

\* A merge of a request with a selection, each of its parts.
LEMMA MergeHolds ==
  ASSUME NEW r \in Request, ServerAudioAssumption,
         NEW on \in [Directions -> BOOLEAN], NEW ids \in [Directions -> Ids]
  PROVE  /\ Merge(r, on, ids).enabled \in [Directions -> BOOLEAN]
         /\ Merge(r, on, ids).selected \in [Directions -> Ids]
         /\ \A d \in Directions :
              /\ r.enable[d] # "keep" => Merge(r, on, ids).enabled[d] = (r.enable[d] = "on")
              /\ r.id[d] # Keep => Merge(r, on, ids).selected[d] = r.id[d]
              /\ r.enable[d] = "keep" => Merge(r, on, ids).enabled[d] = on[d]
              /\ r.id[d] = Keep => Merge(r, on, ids).selected[d] = ids[d]
  BY DEF Merge, Request, ServerAudioAssumption

\* A panel asks for the status, or what it asks for is invalid.
LEMMA AsksKeeps ==
  ASSUME ServerAudioAssumption, SelectionIInv, NEW p \in Panels, step[p] = "idle", Asks(p),
         UNCHANGED <<device, source, pumps, ask, want, opened, note, untold, told, overtaken>>,
         asks' \in 0 .. MaxRequests, asks <= asks'
  PROVE  SelectionIInv'
<1> USE DEF SelectionIInv, Asks, device
<1>1. SelectionShapes'
  BY DEF SelectionShapes, HandlerSteps
<1>2. Holding' /\ MergesHold'
  BY DEF Holding, MergesHold, Merged, Changing, SelectionShapes
<1>3. Counted'
  <2>1. Applying' = Applying
    BY DEF Applying, SelectionShapes
  <2> QED
    BY <2>1, ApplyingFinite DEF Counted, SelectionShapes, ServerAudioAssumption
<1>4. \A q \in Panels : Changing(q)' => Changing(q) /\ q # p
  BY DEF Changing, SelectionShapes
<1>5. OverlapConfuses'
  BY <1>4 DEF OverlapConfuses, Changers
<1>6. ToldInv'
  <2> SUFFICES ASSUME NEW o \in Panels \ confused' PROVE RightFor(o)'
    BY DEF ToldInv
  <2>1. CASE o = p
    <3>1. confused' # confused => \A q \in Panels : step'[q] # "tell"
      BY DEF Changers, Changing, SelectionShapes
    <3>2. CASE p \in confused
      BY <2>1, <3>1, <3>2 DEF RightFor, Right, Answering, SelectionShapes
    <3>3. CASE p \notin confused
      BY <2>1, <3>3 DEF ToldInv, RightFor, Right, Answering, Status, Changed, SelectionShapes
    <3> QED
      BY <3>2, <3>3
  <2>2. CASE o # p
    <3>1. RightFor(o)
      BY <2>2 DEF ToldInv
    <3>2. /\ Right(o)' = Right(o)
          /\ \A q \in Panels : Changed(q)' = Changed(q) /\ (step'[q] = "tell" <=> step[q] = "tell")
      BY <2>2 DEF Right, Answering, Status, Changed, SelectionShapes
    <3> QED
      BY <3>1, <3>2 DEF RightFor, Status
  <2> QED
    BY <2>1, <2>2
<1> QED
  BY <1>1, <1>2, <1>3, <1>5, <1>6 DEF EnabledRuns

\* A message arrives.
LEMMA ReceiveKeeps ==
  ASSUME ServerAudioAssumption, SelectionIInv, NEW p \in Panels, NEW r \in Requests, Receive(p, r)
  PROVE  SelectionIInv'
<1> USE ServerAudioAssumption DEF ServerAudioAssumption, Receive, SelectionIInv, device
<1>0. r \in Request
  OBVIOUS
<1>1. CASE r.source = "bad"
  <2>1. asks' \in 0 .. MaxRequests /\ asks <= asks'
    BY DEF SelectionShapes
  <2> QED
    BY <1>1, <2>1, AsksKeeps
<1>2. CASE r.source # "bad"
  <2> DEFINE merged == Merge(r, enabled, selected)
             made == [enabled |-> merged.enabled, selected |-> merged.selected,
                      source |-> IF r.devices THEN SourceOf(r, merged.enabled) ELSE r.source]
             to == IF r.devices THEN "apply" ELSE "source"
  <2>1. /\ want' = [want EXCEPT ![p] = made] /\ step' = [step EXCEPT ![p] = to]
        /\ ask' = [ask EXCEPT ![p] = r] /\ overtaken' = overtaken \ {p}
        /\ confused' = IF Changers(p) = {} THEN confused ELSE Panels
        /\ UNCHANGED <<device, source, pumps, opened, note, untold, told>>
        /\ step[p] = "idle" /\ asks' = asks + 1 /\ asks' \in 0 .. MaxRequests
    BY <1>2 DEF SelectionShapes
  <2>2. /\ made.enabled \in [Directions -> BOOLEAN] /\ made.selected \in [Directions -> Ids]
        /\ \A d \in Directions :
             /\ r.enable[d] # "keep" => made.enabled[d] = (r.enable[d] = "on")
             /\ r.id[d] # Keep => made.selected[d] = r.id[d]
             /\ r.enable[d] = "keep" => made.enabled[d] = enabled[d]
             /\ r.id[d] = Keep => made.selected[d] = selected[d]
    BY MergeHolds DEF SelectionShapes
  <2>3. made.source \in Sources \cup {Keep}
    BY <1>2, <1>0 DEF SourceOf, Sources, Request
  <2>4. made \in MergedRequest
    BY <2>2, <2>3 DEF MergedRequest
  <2> HIDE DEF made
  <2>0. SelectionShapes'
    BY <2>1 DEF SelectionShapes, HandlerSteps
  <2>5. Holding'
    BY <2>1, <2>4, <1>0 DEF Holding, Changing, SelectionShapes
  <2>6. MergesHold'
    BY <2>1, <2>2 DEF MergesHold, Merged, SelectionShapes
  <2>7. Counted'
    <3>1. Applying' = Applying \/ Applying' = Applying \cup {p}
      BY <2>1 DEF Applying, SelectionShapes
    <3>2. /\ Cardinality(Applying \cup {p}) \in Nat /\ Cardinality(Applying) \in Nat
          /\ Cardinality(Applying \cup {p}) <= Cardinality(Applying) + 1
      BY OneMore, ApplyingFinite
    <3>3. /\ Cardinality(Applying)' \in Nat /\ Cardinality(Applying) \in Nat
          /\ Cardinality(Applying)' <= Cardinality(Applying) + 1
      <4>1. CASE Applying' = Applying
        BY <3>2, <4>1
      <4>2. CASE Applying' = Applying \cup {p}
        BY <3>2, <4>2
      <4> QED
        BY <3>1, <4>1, <4>2
    <3> QED
      BY <3>3 DEF Counted, SelectionShapes
  <2>8. OverlapConfuses'
    <3>1. \A q \in Panels \ {p} : Changing(q)' = Changing(q)
      BY <2>1 DEF Changing, SelectionShapes
    <3>2. ASSUME NEW q \in Panels \ {p}, Changing(q) PROVE confused' = Panels
      BY <2>1, <3>2 DEF Changers
    <3> QED
      BY <2>1, <3>1, <3>2 DEF OverlapConfuses, SelectionShapes
  <2>9. ToldInv'
    <3> SUFFICES ASSUME NEW o \in Panels \ confused' PROVE RightFor(o)'
      BY DEF ToldInv
    <3>1. confused' = confused /\ \A q \in Panels \ {p} : ~Changing(q)
      BY <2>1 DEF Changers
    <3>2. RightFor(o) /\ Right(o)
      BY <2>1, <3>1 DEF ToldInv, RightFor, Changed, Changing
    <3>3. Right(o)'
      BY <2>1, <3>2 DEF Right, Answering, Status, device, SelectionShapes
    <3>4. \A q \in Panels : step'[q] # "tell"
      BY <2>1, <3>1 DEF Changing, SelectionShapes
    <3> QED
      BY <3>3, <3>4 DEF RightFor
  <2> QED
    BY <2>1, <2>0, <2>5, <2>6, <2>7, <2>8, <2>9 DEF EnabledRuns
<1> QED
  BY <1>1, <1>2

\* A build without audio refuses.
LEMMA UnsupportedKeeps ==
  ASSUME ServerAudioAssumption, SelectionIInv, NEW p \in Panels, step[p] = "apply",
         step' = [step EXCEPT ![p] = "answer"],
         UNCHANGED <<device, source, pumps, ask, want, opened, note, untold, told, ghosts, asks>>
  PROVE  SelectionIInv'
<1> USE DEF SelectionIInv, device, ghosts
<1>1. SelectionShapes'
  BY DEF SelectionShapes, HandlerSteps
<1>2. \A q \in Panels : Changing(q)' => Changing(q)
  BY DEF Changing, SelectionShapes
<1>3. Holding' /\ MergesHold' /\ OverlapConfuses'
  BY <1>2 DEF Holding, MergesHold, Merged, OverlapConfuses, SelectionShapes
<1>4. Counted'
  <2>1. Applying' = Applying \ {p} /\ p \in Applying
    BY DEF Applying, SelectionShapes
  <2>2. Cardinality(Applying') = Cardinality(Applying) - 1 /\ Cardinality(Applying) \in Nat
    BY <2>1, FS_RemoveElement, FS_CardinalityType, ApplyingFinite
  <2> QED
    BY <2>2 DEF Counted, SelectionShapes, ServerAudioAssumption
<1>5. ToldInv'
  <2> SUFFICES ASSUME NEW o \in Panels \ confused PROVE RightFor(o)'
    BY DEF ToldInv
  <2>1. \A q \in Panels \ {p} : ~Changing(q)
    BY DEF OverlapConfuses, Changing
  <2>2. RightFor(o) /\ Right(o)
    BY <2>1 DEF ToldInv, RightFor, Changed, Changing
  <2>3. Right(o)'
    BY <2>2 DEF Right, Answering, Status, SelectionShapes
  <2>4. \A q \in Panels : step'[q] # "tell"
    BY <2>1 DEF Changing, SelectionShapes
  <2> QED
    BY <2>3, <2>4 DEF RightFor
<1> QED
  BY <1>1, <1>3, <1>4, <1>5 DEF EnabledRuns

\* The selection is applied, or its devices do not open.
LEMMA ApplyKeeps ==
  ASSUME ServerAudioAssumption, SelectionIInv, NEW p \in Panels, Apply(p)
  PROVE  SelectionIInv'
<1> USE ServerAudioAssumption DEF ServerAudioAssumption, SelectionIInv
<1>0. step[p] = "apply" /\ want[p] \in MergedRequest
  BY DEF Apply, Holding, Changing
<1>a. CASE ApplyUnsupported(p)
  BY <1>0, <1>a, UnsupportedKeeps DEF Apply, ApplyUnsupported
<1>b. CASE ApplyFailed(p) \/ ApplyDone(p)
  <2>1. /\ step' \in {[step EXCEPT ![p] = "answer"], [step EXCEPT ![p] = "pump"]}
        /\ generation' = generation + 1
        /\ enabled' \in {want[p].enabled, Off} /\ selected' = want[p].selected
        /\ local'.generation \in {0, generation'} /\ enabled' = local'.running
        /\ overtaken' = overtaken \cup {q \in Panels \ {p} : Busy(q)}
        /\ UNCHANGED <<source, pumps, ask, want, note, untold, told, asks>>
    <3>1. CASE ApplyFailed(p)
      BY <1>0, <3>1 DEF Apply, ApplyFailed, Overtake, NoDevice
    <3>2. CASE ApplyDone(p)
      BY <1>0, <3>2 DEF Apply, ApplyDone, Overtake, NoDevice, SelectionShapes
    <3> QED
      BY <1>b, <3>1, <3>2
  <2>2. \/ /\ step' = [step EXCEPT ![p] = "answer"] /\ confused' = confused \cup (Panels \ {p})
           /\ opened' = opened
        \/ /\ step' = [step EXCEPT ![p] = "pump"] /\ confused' = confused
           /\ opened' = [opened EXCEPT ![p] = generation']
    BY <1>b, <2>1 DEF ApplyFailed, ApplyDone
  <2>3. SelectionShapes'
    <3>1. selected' \in [Directions -> Ids] /\ enabled' \in [Directions -> BOOLEAN]
      BY <1>0, <2>1 DEF MergedRequest, Off
    <3>2. generation' \in Nat /\ pumps' \subseteq 1 .. generation'
      BY <2>1 DEF SelectionShapes
    <3>3. step' \in [Panels -> HandlerSteps]
      BY <2>1 DEF SelectionShapes, HandlerSteps
    <3>4. opened' \in [Panels -> Nat]
      BY <2>2, <3>2 DEF SelectionShapes
    <3>5. overtaken' \subseteq Panels /\ confused' \subseteq Panels
      BY <2>1, <2>2 DEF SelectionShapes
    <3> QED
      BY <2>1, <3>1, <3>2, <3>3, <3>4, <3>5 DEF SelectionShapes
  <2>4. Holding'
    <3>1. /\ \A q \in Panels \ {p} : step'[q] = step[q] /\ opened'[q] = opened[q]
          /\ step'[p] \in {"answer", "pump"} /\ (step'[p] = "pump" => opened'[p] = generation')
      BY <2>1, <2>2 DEF SelectionShapes
    <3>2. generation' \in 1 .. generation' /\ 1 .. generation \subseteq 1 .. generation'
      BY <2>1 DEF SelectionShapes
    <3> QED
      BY <1>0, <2>1, <3>1, <3>2 DEF Holding, Changing
  <2>5. Counted'
    <3>1. Applying' = Applying \ {p} /\ p \in Applying
      BY <1>0, <2>1 DEF Applying, SelectionShapes
    <3>2. Cardinality(Applying') = Cardinality(Applying) - 1 /\ Cardinality(Applying) \in Nat
      BY <3>1, FS_RemoveElement, FS_CardinalityType, ApplyingFinite
    <3> QED
      BY <2>1, <3>2 DEF Counted, SelectionShapes
  <2>6. MergesHold'
    BY <2>1 DEF MergesHold, Merged, Busy, SelectionShapes
  <2>7. OverlapConfuses'
    <3>1. \A q \in Panels : Changing(q)' => Changing(q)
      BY <1>0, <2>1 DEF Changing, SelectionShapes
    <3> QED
      BY <2>2, <3>1 DEF OverlapConfuses, SelectionShapes
  <2>8. ToldInv'
    <3> SUFFICES ASSUME NEW o \in Panels \ confused' PROVE RightFor(o)'
      BY DEF ToldInv
    <3>1. o \in Panels \ confused
      BY <2>2
    <3>2. \A q \in Panels \ {p} : ~Changing(q)
      BY <1>0, <3>1 DEF OverlapConfuses, Changing
    <3>3. \A q \in Panels : step'[q] # "tell"
      BY <2>1, <3>2 DEF Changing, SelectionShapes
    <3>4. CASE step' = [step EXCEPT ![p] = "answer"]
      <4>1. o = p
        BY <2>2, <3>4 DEF SelectionShapes
      <4>2. Right(o)'
        BY <3>4, <4>1 DEF Right, Answering, SelectionShapes
      <4> QED
        BY <3>3, <4>2 DEF RightFor
    <3>5. CASE step' = [step EXCEPT ![p] = "pump"]
      <4>1. Changed(p)'
        BY <3>5 DEF Changed, SelectionShapes
      <4> QED
        BY <3>3, <4>1 DEF RightFor
    <3> QED
      BY <2>1, <3>4, <3>5
  <2> QED
    BY <2>1, <2>3, <2>4, <2>5, <2>6, <2>7, <2>8 DEF EnabledRuns
<1> QED
  BY <1>a, <1>b DEF Apply

\* A handler goes on with its pump and its source.
LEMMA HandlerKeeps ==
  ASSUME ServerAudioAssumption, SelectionIInv, NEW p \in Panels, StartPump(p) \/ SetSource(p)
  PROVE  SelectionIInv'
<1> USE DEF SelectionIInv
<1>1. /\ step[p] \in {"pump", "source"}
      /\ step' \in {[step EXCEPT ![p] = "source"], [step EXCEPT ![p] = "compose"]}
      /\ UNCHANGED <<device, ask, want, opened, note, untold, told, ghosts, asks>>
  BY DEF StartPump, SetSource
<1>2. SelectionShapes'
  <2>1. pumps' \subseteq 1 .. generation /\ source' \in Sources
    <3>1. CASE StartPump(p)
      BY <3>1 DEF StartPump, Holding, SelectionShapes
    <3>2. CASE SetSource(p)
      BY <3>2 DEF SetSource, Holding, Changing, MergedRequest, SelectionShapes
    <3> QED
      BY <3>1, <3>2
  <2>2. step' \in [Panels -> HandlerSteps]
    BY <1>1 DEF SelectionShapes, HandlerSteps
  <2> QED
    BY <1>1, <2>1, <2>2 DEF SelectionShapes, device, ghosts
<1>3. \A q \in Panels : /\ Changing(q)' = Changing(q)
                        /\ q # p => step'[q] = step[q]
                        /\ step'[p] \in {"source", "compose"}
  BY <1>1 DEF Changing, SelectionShapes
<1>4. Holding' /\ MergesHold' /\ OverlapConfuses'
  BY <1>1, <1>3 DEF Holding, MergesHold, Merged, OverlapConfuses, device, ghosts
<1>5. Counted'
  <2>1. Applying' = Applying
    BY <1>1 DEF Applying, SelectionShapes
  <2> QED
    BY <1>1, <2>1 DEF Counted, device
<1>6. ToldInv'
  <2> SUFFICES ASSUME NEW o \in Panels \ confused PROVE RightFor(o)'
    BY <1>1 DEF ToldInv, ghosts
  <2>1. \A q \in Panels \ {p} : ~Changing(q)
    BY <1>1 DEF OverlapConfuses, Changing
  <2>2. Changed(p)' /\ \A q \in Panels : step'[q] # "tell"
    BY <1>3, <2>1 DEF Changing, Changed
  <2> QED
    BY <2>2 DEF RightFor
<1> QED
  BY <1>1, <1>2, <1>4, <1>5, <1>6 DEF EnabledRuns, device

\* It composes a status, and reads the source again.
LEMMA ComposeKeeps ==
  ASSUME ServerAudioAssumption, SelectionIInv, NEW p \in Panels, Compose(p) \/ ComposeSource(p)
  PROVE  SelectionIInv'
<1> USE DEF SelectionIInv
<1>1. /\ step[p] \in {"compose", "answer", "tell", "reply"}
      /\ \E s \in {"tell", "reply"} : step' = [step EXCEPT ![p] = s]
      /\ step'[p] = (IF step[p] \in {"compose", "tell"} THEN "tell" ELSE "reply")
      /\ UNCHANGED <<device, source, pumps, ask, want, opened, told, ghosts, asks>>
  <2>1. CASE Compose(p)
    BY <2>1 DEF Compose, SelectionShapes
  <2>2. CASE ComposeSource(p)
    BY <2>2 DEF ComposeSource, SelectionShapes
  <2> QED
    BY <2>1, <2>2
<1>2. /\ untold'[p] = (IF step'[p] = "tell" THEN Panels ELSE {p})
      /\ untold' = [untold EXCEPT ![p] = untold'[p]] /\ note' = [note EXCEPT ![p] = note'[p]]
  <2>1. CASE Compose(p)
    BY <2>1 DEF Compose, SelectionShapes
  <2>2. CASE ComposeSource(p)
    BY <2>2 DEF ComposeSource, SelectionShapes
  <2> QED
    BY <2>1, <2>2
<1>3. step'[p] \in {"tell", "reply"} /\ \A q \in Panels \ {p} : step'[q] = step[q]
  BY <1>1 DEF SelectionShapes
<1>4. /\ DOMAIN note' = Panels /\ untold' \in [Panels -> SUBSET Panels]
      /\ \A q \in Panels \ {p} : note'[q] = note[q] /\ untold'[q] = untold[q]
  BY <1>2 DEF SelectionShapes
<1>5. SelectionShapes'
  BY <1>1, <1>4 DEF SelectionShapes, HandlerSteps, device, ghosts
<1>6. \A q \in Panels : /\ Changing(q)' = Changing(q) /\ Answering(q)' = Answering(q)
                        /\ Changed(q)' = Changed(q)
  BY <1>1, <1>3 DEF Changing, Answering, Changed
<1>7. Holding'
  BY <1>1, <1>2, <1>3, <1>4, <1>6 DEF Holding, device
<1>8. MergesHold' /\ OverlapConfuses'
  BY <1>1, <1>3, <1>6 DEF MergesHold, Merged, OverlapConfuses, device, ghosts
<1>9. Counted'
  <2>1. Applying' = Applying
    BY <1>1 DEF Applying, SelectionShapes
  <2> QED
    BY <1>1, <2>1 DEF Counted, device
<1>10. ToldInv'
  <2> SUFFICES ASSUME NEW o \in Panels \ confused PROVE RightFor(o)'
    BY <1>1 DEF ToldInv, ghosts
  <2>1. RightFor(o) /\ Status' = Status
    BY <1>1 DEF ToldInv, Status, device
  \* What is composed now is the case, and is read again only to be the case.
  <2>2. \/ note'[p] = Status
        \/ ComposeSource(p) /\ note[p] # Status /\ step[p] = step'[p]
    <3>1. CASE Compose(p)
      BY <3>1 DEF Compose, SelectionShapes
    <3>2. CASE ComposeSource(p)
      BY <3>2 DEF ComposeSource, Status, SelectionShapes
    <3> QED
      BY <3>1, <3>2
  <2>3. Right(o) => Right(o)'
    BY <1>3, <1>4, <1>6, <1>1, <2>1, <2>2 DEF Right, Answering
  <2>4. ASSUME NEW q \in Panels, step'[q] = "tell"
        PROVE  note'[q] = Status /\ (o \in untold'[q] \/ Right(o)')
    <3>1. CASE q = p
      BY <1>2, <1>3, <2>1, <2>2, <2>4, <3>1 DEF RightFor
    <3>2. CASE q # p
      BY <1>3, <1>4, <2>1, <2>3, <2>4, <3>2 DEF RightFor
    <3> QED
      BY <3>1, <3>2
  <2>5. (\A q \in Panels : ~Changed(q)') => Right(o)'
    BY <1>6, <2>1, <2>3 DEF RightFor
  <2> QED
    BY <2>1, <2>4, <2>5 DEF RightFor
<1> QED
  BY <1>1, <1>5, <1>7, <1>8, <1>9, <1>10 DEF EnabledRuns, device

\* A status is sent to one panel.
LEMMA TellKeeps ==
  ASSUME ServerAudioAssumption, SelectionIInv, NEW p \in Panels, NEW q \in Panels, Tell(p, q)
  PROVE  SelectionIInv'
<1> USE DEF SelectionIInv
<1>1. /\ step[p] \in {"tell", "reply"} /\ q \in untold[p]
      /\ told' = [told EXCEPT ![q] = note[p]]
      /\ untold' = [untold EXCEPT ![p] = untold[p] \ {q}]
      /\ confused' = confused \cup {o \in {q} \ {p} : step[o] = "reply"}
      /\ UNCHANGED <<device, source, pumps, overtaken, asks>>
  BY DEF Tell
<1>2. \/ untold'[p] # {} /\ UNCHANGED <<step, ask, want, opened, note>>
      \/ untold'[p] = {} /\ Finish(p)
  BY DEF Tell
<1>3. /\ \A o \in Panels \ {p} : /\ step'[o] = step[o] /\ ask'[o] = ask[o] /\ want'[o] = want[o]
                                /\ note'[o] = note[o] /\ untold'[o] = untold[o] /\ opened'[o] = opened[o]
      /\ step'[p] \in {step[p], "idle"} /\ (step'[p] # "idle" => note'[p] = note[p] /\ want'[p] = want[p])
      /\ untold'[p] = untold[p] \ {q}
      /\ step'[p] = "idle" => untold'[p] = {}
  BY <1>1, <1>2 DEF Finish, SelectionShapes
<1>4. SelectionShapes'
  <2>1. untold' \in [Panels -> SUBSET Panels] /\ DOMAIN told' = Panels /\ confused' \subseteq Panels
    BY <1>1 DEF SelectionShapes
  <2>2. /\ step' \in [Panels -> HandlerSteps] /\ opened' \in [Panels -> Nat]
        /\ DOMAIN ask' = Panels /\ DOMAIN want' = Panels /\ DOMAIN note' = Panels
    BY <1>2 DEF Finish, SelectionShapes, HandlerSteps
  <2> QED
    BY <1>1, <2>1, <2>2 DEF SelectionShapes, device
<1>5. \A o \in Panels : Changing(o)' => Changing(o)
  BY <1>1, <1>3 DEF Changing
<1>6. Holding' /\ MergesHold' /\ OverlapConfuses'
  <2>1. Holding'
    BY <1>1, <1>3, <1>5 DEF Holding, Changing, device
  <2>2. MergesHold'
    BY <1>1, <1>3 DEF MergesHold, Merged, device
  <2>3. OverlapConfuses'
    BY <1>1, <1>5 DEF OverlapConfuses, SelectionShapes
  <2> QED
    BY <2>1, <2>2, <2>3
<1>7. Counted'
  <2>1. Applying' = Applying
    BY <1>1, <1>3 DEF Applying
  <2> QED
    BY <1>1, <2>1 DEF Counted, device
<1>8. ToldInv'
  <2> SUFFICES ASSUME NEW o \in Panels \ confused' PROVE RightFor(o)'
    BY DEF ToldInv
  <2>1. /\ o \in Panels \ confused /\ RightFor(o) /\ Status' = Status
        /\ o = q => o = p \/ step[o] # "reply"
    BY <1>1 DEF ToldInv, Status, device
  <2>2. told'[o] = IF o = q THEN note[p] ELSE told[o]
    BY <1>1 DEF SelectionShapes
  <2>3. CASE step[p] = "tell"
    <3>1. note[p] = Status /\ (o \in untold[p] \/ Right(o))
      BY <2>1, <2>3 DEF RightFor
    <3>2. \A k \in Panels \ {p} : ~Changing(k)
      BY <2>1, <2>3 DEF OverlapConfuses, Changing
    <3>3. o \in untold'[p] \/ Right(o)'
      <4>1. CASE o = q
        BY <1>3, <2>1, <2>2, <2>3, <3>1, <4>1 DEF Right, Answering
      <4>2. CASE o # q
        BY <1>3, <2>1, <2>2, <2>3, <3>1, <4>2 DEF Right, Answering
      <4> QED
        BY <4>1, <4>2
    <3>4. \A k \in Panels : step'[k] = "tell" => k = p
      BY <1>3, <3>2 DEF Changing
    <3>5. (\A k \in Panels : ~Changed(k)') => step'[p] = "idle"
      BY <1>3, <2>3 DEF Changed
    <3> QED
      BY <1>3, <2>1, <3>1, <3>3, <3>4, <3>5 DEF RightFor
  <2>4. CASE step[p] = "reply"
    <3>1. q = p
      BY <1>1, <2>4 DEF Holding
    <3>2. Right(o) => Right(o)'
      BY <1>3, <2>1, <2>2, <2>4, <3>1 DEF Right, Answering
    <3>3. \A k \in Panels : /\ Changed(k)' = Changed(k)
                            /\ step'[k] = "tell" => step[k] = "tell" /\ k # p
      BY <1>3, <2>4 DEF Changed
    <3> QED
      BY <1>3, <2>1, <3>2, <3>3 DEF RightFor
  <2> QED
    BY <1>1, <2>3, <2>4
<1> QED
  BY <1>1, <1>4, <1>6, <1>7, <1>8 DEF EnabledRuns, device

\* A panel asks for the status; a pump ends.
LEMMA RefreshKeeps ==
  ASSUME ServerAudioAssumption, SelectionIInv, NEW p \in Panels, Refresh(p)
  PROVE  SelectionIInv'
<1>1. asks' \in 0 .. MaxRequests /\ asks <= asks'
  BY DEF Refresh, SelectionIInv, SelectionShapes
<1> QED
  BY <1>1, AsksKeeps DEF Refresh

LEMMA PumpEndsKeeps ==
  ASSUME ServerAudioAssumption, SelectionIInv, NEW g \in pumps, PumpEnds(g)
  PROVE  SelectionIInv'
  BY DEF SelectionIInv, PumpEnds, SelectionShapes, Holding, MergesHold, Merged, Counted, Applying,
         OverlapConfuses, ToldInv, RightFor, Right, Changed, Changing, Answering, EnabledRuns, Status,
         device, handlers, ghosts

LEMMA SelectionNextIInv ==
  ASSUME ServerAudioAssumption, SelectionIInv, [SelectionNext]_selection
  PROVE  SelectionIInv'
<1>1. CASE UNCHANGED selection
  BY <1>1 DEF SelectionIInv, SelectionShapes, Holding, MergesHold, Merged, Counted, Applying,
              OverlapConfuses, ToldInv, RightFor, Right, Changed, Changing, Answering, EnabledRuns,
              Status, selection, device, handlers, ghosts
<1>2. CASE SelectionNext
  BY <1>2, ReceiveKeeps, ApplyKeeps, HandlerKeeps, ComposeKeeps, TellKeeps, RefreshKeeps, PumpEndsKeeps
     DEF SelectionNext, HandlerStep
<1> QED
  BY <1>1, <1>2

LEMMA SelectionInvariance == ASSUME ServerAudioAssumption PROVE SelectionSpec => []SelectionIInv
<1> QED
  BY SelectionInitIInv, SelectionNextIInv, PTL DEF SelectionSpec

\* What is believed enabled runs, whatever failed and in any order of requests; and when no
\* request is under way, a panel that nothing confused was told so.
THEOREM ToldRightCorrect == ASSUME ServerAudioAssumption PROVE SelectionSpec => []ToldRight
<1>1. ASSUME SelectionIInv PROVE ToldRight
  <2>1. generation \in 0 .. MaxRequests
    BY <1>1, FS_CardinalityType, ApplyingFinite
       DEF SelectionIInv, SelectionShapes, Counted, ServerAudioAssumption
  <2>2. UndisturbedTold
    BY <1>1 DEF SelectionIInv, ToldInv, RightFor, Right, Changed, Answering, UndisturbedTold, Busy
  <2> QED
    BY <1>1, <2>1, <2>2 DEF ToldRight, SelectionTypeOK, SelectionIInv, SelectionShapes, Sources
<1> QED
  BY <1>1, SelectionInvariance, PTL

\* A request changes what it names and, unless another one was applied since it was read,
\* nothing else.
THEOREM MergesCorrect == ASSUME ServerAudioAssumption PROVE SelectionSpec => Merges
<1>1. ASSUME SelectionIInv, [SelectionNext]_selection,
             NEW p \in Panels, step[p] = "apply", step'[p] = "pump"
      PROVE  /\ Merged(p)
             /\ enabled' = want[p].enabled /\ selected' = want[p].selected
  <2>1. Apply(p)
    <3>1. step' # step /\ DOMAIN step = Panels
      BY <1>1 DEF SelectionIInv, SelectionShapes
    <3>2. PICK q \in Panels : HandlerStep(q) \/ Refresh(q) \/ \E r \in Requests : Receive(q, r)
      BY <1>1, <3>1 DEF SelectionNext, selection, handlers, PumpEnds
    <3>3. CASE Refresh(q) \/ \E r \in Requests : Receive(q, r)
      BY <1>1, <3>1, <3>3 DEF Receive, Refresh, Asks
    <3>4. CASE \E o \in Panels : Tell(q, o)
      <4>1. step' = step \/ step' = [step EXCEPT ![q] = "idle"]
        BY <3>4 DEF Tell, Finish
      <4> QED
        BY <1>1, <3>1, <4>1
    <3>5. CASE StartPump(q) \/ SetSource(q) \/ Compose(q) \/ ComposeSource(q)
      BY <1>1, <3>1, <3>5 DEF StartPump, SetSource, Compose, ComposeSource
    <3>6. CASE Apply(q)
      BY <1>1, <3>1, <3>6 DEF Apply, ApplyUnsupported, ApplyFailed, ApplyDone
    <3> QED
      BY <3>2, <3>3, <3>4, <3>5, <3>6 DEF HandlerStep
  <2>2. ApplyDone(p)
    BY <1>1, <2>1 DEF Apply, ApplyUnsupported, ApplyFailed, SelectionIInv, SelectionShapes
  <2> QED
    BY <1>1, <2>2 DEF ApplyDone, SelectionIInv, MergesHold
<1>2. SelectionIInv /\ [SelectionNext]_selection =>
        [\A p \in Panels : step[p] = "apply" /\ step'[p] = "pump" =>
           /\ \A d \in Directions :
                /\ ask[p].enable[d] # "keep" => enabled'[d] = (ask[p].enable[d] = "on")
                /\ ask[p].id[d] # Keep => selected'[d] = ask[p].id[d]
           /\ p \notin overtaken =>
                \A d \in Directions :
                  /\ ask[p].enable[d] = "keep" => enabled'[d] = enabled[d]
                  /\ ask[p].id[d] = Keep => selected'[d] = selected[d]]_selection
  BY <1>1 DEF Merged
<1> QED
  BY <1>2, SelectionInvariance, PTL DEF SelectionSpec, Merges

-----------------------------------------------------------------------------
(***************************************************************************)
(* Browsers: quotients.                                                    *)
(***************************************************************************)
LEMMA NamedQuotient ==
  ASSUME NEW a \in Int, NEW b \in Int, b > 0, NEW q \in Int, q = a \div b, NEW r \in Int, r = a % b
  PROVE  a = (b * q) + r /\ r \in 0 .. b - 1
BY SMTT(30)

LEMMA Dividing ==
  ASSUME NEW a \in Int, NEW b \in Nat \ {0}
  PROVE  /\ a \div b \in Int /\ a % b \in 0 .. b - 1
         /\ a = (b * (a \div b)) + (a % b)
         /\ a >= 0 => a \div b >= 0
<1>1. a % b \in Int /\ a \div b \in Int
  OBVIOUS
<1>2. a >= 0 => a \div b >= 0
  OBVIOUS
<1>3. ASSUME NEW q \in Int, q = a \div b, NEW r \in Int, r = a % b
      PROVE  a = (b * q) + r
  BY <1>3, NamedQuotient
<1>4. a = (b * (a \div b)) + (a % b)
  <2>1. \A q, r \in Int : q = a \div b /\ r = a % b => a = (b * q) + r
    BY <1>3
  <2> QED
    BY <1>1, <2>1, Zenon
<1>5. a % b \in 0 .. b - 1
  OBVIOUS
<1> QED
  BY <1>1, <1>2, <1>4, <1>5

LEMMA AsSequence ==
  ASSUME NEW m \in Nat, NEW out, out = [k \in 1 .. m |-> out[k]],
         \A k \in 1 .. m : out[k] \in Nat \ {0}
  PROVE  out \in Seq(Nat \ {0}) /\ Len(out) = m
OBVIOUS

LEMMA Multiple ==
  ASSUME NEW b \in Nat \ {0}, NEW q \in Nat
  PROVE  (b * q) \div b = q
OBVIOUS

\* A quotient is at least what it is a quotient of.
LEMMA QuotientBound ==
  ASSUME NEW a \in Nat, NEW b \in Nat \ {0}, NEW n \in Nat
  PROVE  /\ a >= n * b => a \div b >= n
         /\ a < n * b => a \div b < n
<1> DEFINE q == a \div b
           r == a % b
<1>0. a \in Int /\ a >= 0
  OBVIOUS
<1>1. q \in Int /\ r \in 0 .. b - 1 /\ a = (b * q) + r /\ q >= 0
  BY <1>0, Dividing, Zenon
<1> HIDE DEF q, r
<1>2. ASSUME a >= n * b, q < n
      PROVE  FALSE
  <2>1. q + 1 <= n
    BY <1>1, <1>2
  <2>2. b * (q + 1) <= b * n
    BY <1>1, <2>1
  <2>3. b * (q + 1) = b * q + b /\ b * n = n * b
    BY <1>1
  <2> QED
    BY <1>1, <1>2, <2>2, <2>3
<1>3. ASSUME a < n * b, q >= n
      PROVE  FALSE
  <2>1. b * q >= b * n
    BY <1>1, <1>3
  <2>2. b * n = n * b
    OBVIOUS
  <2> QED
    BY <1>1, <1>3, <2>1, <2>2
<1> QED
  BY <1>1, <1>2, <1>3 DEF q

-----------------------------------------------------------------------------
(***************************************************************************)
(* What the converter makes of a ramp.                                     *)
(***************************************************************************)
Resampler == [inRate : Nat, outRate : Nat, buf : Seq(Nat), pos : Nat]

\* As many positions as have a sample on both sides.
LEMMA StepsOf ==
  ASSUME NEW r \in Resampler, r.inRate > 0, r.outRate > 0, NEW len \in Nat \ {0}
  PROVE  /\ Steps(r, len) \in Nat
         /\ r.pos + Steps(r, len) * r.inRate >= (len - 1) * r.outRate
         /\ \A k \in 1 .. Steps(r, len) : r.pos + (k - 1) * r.inRate < (len - 1) * r.outRate
<1> DEFINE i == r.inRate
           l == r.outRate
           p == r.pos
           room == (len - 1) * l - p
           m == Steps(r, len)
<1>1. i \in Nat \ {0} /\ l \in Nat \ {0} /\ p \in Nat /\ (len - 1) * l \in Nat
  BY DEF Resampler
<1>2. m = IF room <= 0 THEN 0 ELSE (room + i - 1) \div i
  BY DEF Steps
<1>3. room \in Int
  BY <1>1
<1>3a. room = (len - 1) * l - p
  OBVIOUS
<1> HIDE DEF i, l, p, room, m
<1>4. CASE room <= 0
  <2>1. m = 0 /\ m * i = 0
    BY <1>1, <1>2, <1>4
  <2> QED
    BY <1>1, <1>3, <1>3a, <1>4, <2>1 DEF m, i, l, p
<1>5. CASE room > 0
  <2> DEFINE s == room + i - 1
  <2>1. s \in Nat /\ m = s \div i /\ s = room + i - 1
    BY <1>1, <1>2, <1>3, <1>5
  <2> HIDE DEF s
  <2>1a. s \in Int /\ s >= 0
    BY <2>1
  <2>2. m \in Int /\ m >= 0 /\ s % i \in 0 .. i - 1 /\ s = (i * m) + (s % i)
    BY <1>1, <2>1, <2>1a, Dividing, Zenon
  <2>3. m * i \in Nat /\ m * i = i * m
    BY <1>1, <2>2
  <2>4. m * i >= room
    BY <1>1, <1>3, <2>1, <2>2, <2>3
  <2>5. ASSUME NEW k \in 1 .. m
        PROVE  p + (k - 1) * i < (len - 1) * l
    <3>1. (k - 1) * i <= (m - 1) * i
      BY <1>1, <2>2
    <3>2. (m - 1) * i = m * i - i
      BY <1>1, <2>2
    <3>3. (k - 1) * i \in Int
      BY <1>1, <2>2
    <3>4. m * i - i < room
      BY <1>1, <1>3, <2>1, <2>2, <2>3
    <3>5. p + room = (len - 1) * l
      BY <1>1, <1>3a
    <3> QED
      BY <1>1, <1>3, <2>3, <3>1, <3>2, <3>3, <3>4, <3>5
  <2> QED
    BY <1>1, <1>3, <1>3a, <2>2, <2>3, <2>4, <2>5 DEF m, i, l, p
<1> QED
  BY <1>3, <1>4, <1>5

\* One sample is kept of a buffer that was read to its end.
LEMMA KeepsLast ==
  ASSUME NEW r, r.outRate \in Nat \ {0}, NEW S, NEW buf \in Seq(S), buf # <<>>,
         NEW pos \in Nat, pos >= (Len(buf) - 1) * r.outRate
  PROVE  KeepRest(r, buf, pos)
           = [r EXCEPT !.buf = <<buf[Len(buf)]>>, !.pos = pos - (Len(buf) - 1) * r.outRate]
<1> DEFINE n == Len(buf) - 1
           l == r.outRate
<1>1. n \in Nat /\ l \in Nat \ {0}
  <2>1. Len(buf) \in Nat /\ Len(buf) # 0
    BY LenProperties, EmptySeq
  <2> QED
    BY <2>1
<1>2. pos \div l >= n
  BY <1>1, QuotientBound
<1>3. pos \div l \in Int
  BY <1>1
<1>4. (IF pos \div l > n THEN n ELSE pos \div l) = n
  BY <1>1, <1>2, <1>3
<1>5. SubSeq(buf, n + 1, Len(buf)) = <<buf[Len(buf)]>>
  <2> DEFINE z == Len(buf)
             t == SubSeq(buf, z, z)
  <2>1. z \in 1 .. Len(buf) /\ z \in Int
    OBVIOUS
  <2>2. \A i \in z .. z : buf[i] \in S
    BY <2>1
  <2>3. t \in Seq(S) /\ Len(t) = (IF z <= z THEN z - z + 1 ELSE 0)
        /\ \A i \in 1 .. z - z + 1 : t[i] = buf[z + i - 1]
    BY <2>1, <2>2, SubSeqProperties
  <2> HIDE DEF t
  <2>4. Len(t) = 1 /\ t[1] = buf[z]
    BY <2>1, <2>3
  <2>5. t = <<buf[z]>>
    BY <2>3, <2>4
  <2> QED
    BY <2>1, <2>5 DEF t
<1> QED
  BY <1>4, <1>5 DEF KeepRest

\* A buffer of samples of a ramp that rises by l: the first, and behind it others that
\* may have missed lead steps.
OnRamp(buf, q, lead, l) ==
  /\ buf \in Seq(Nat) /\ buf # <<>> /\ buf[1] = q * l
  /\ \A k \in 2 .. Len(buf) : buf[k] = (q + lead + k - 1) * l

ReadAt(buf, l, at) == Between(buf[(at \div l) + 1], buf[(at \div l) + 2], at % l, l)
RampAt(q, lead, l, at) == q * l + at + (IF at < l THEN lead * at ELSE lead * l)
Inside(buf, l, at) == at < (Len(buf) - 1) * l

\* What lies between two samples of 16 bits is one: nothing there is left to clip.
Sample16(s) == s \in Int /\ s >= -32768 /\ s <= 32767

LEMMA NothingToClip ==
  ASSUME NEW d \in Nat \ {0}, NEW s0 \in Int, NEW s1 \in Int, NEW f \in 0 .. d - 1,
         Sample16(s0), Sample16(s1)
  PROVE  Sample16(Between(s0, s1, f, d))
<1>1. PICK a \in Int, b \in Int, g \in Int : a = s0 * g /\ b = s1 * f /\ g = d - f /\ g >= 0
  OBVIOUS
<1>2. -(32768 * g) <= a /\ a <= 32767 * g /\ -(32768 * f) <= b /\ b <= 32767 * f
  BY <1>1 DEF Sample16
<1>3. PICK n \in Int : n = a + b
  OBVIOUS
<1>4. -(32768 * d) <= n /\ n < 32768 * d
  BY <1>1, <1>2, <1>3
<1>5. Between(s0, s1, f, d) = IF n >= 0 THEN n \div d ELSE -((-n) \div d)
  BY <1>1, <1>3 DEF Between, Truncate
<1>6. CASE n >= 0
  <2>1. n \in Nat
    BY <1>6
  <2>2. n \div d >= 0 /\ n \div d \in Int
    BY <2>1, <1>6, Dividing
  <2>3. n \div d < 32768
    BY <1>4, <2>1, QuotientBound
  <2> QED
    BY <1>5, <1>6, <2>2, <2>3 DEF Sample16
<1>7. CASE n < 0
  <2>1. PICK m \in Nat : m = -n
    BY <1>7
  <2>2. m \div d >= 0 /\ m \div d \in Int
    BY <2>1, Dividing
  <2>3. m \div d < 32769
    <3>1. m < 32769 * d
      BY <1>4, <2>1
    <3> QED
      BY <2>1, <3>1, QuotientBound
  <2>4. Between(s0, s1, f, d) = -(m \div d)
    BY <1>5, <1>7, <2>1
  <2> QED
    BY <2>2, <2>3, <2>4 DEF Sample16
<1> QED
  BY <1>3, <1>6, <1>7

\* What is between two samples of it, at places counted in parts of one over l.
LEMMA BetweenOnRamp ==
  ASSUME NEW buf, NEW q \in Nat, NEW lead \in Nat, NEW l \in Nat \ {0},
         OnRamp(buf, q, lead, l), NEW at \in Nat, Inside(buf, l, at)
  PROVE  ReadAt(buf, l, at) = RampAt(q, lead, l, at)
<1> USE DEF ReadAt, RampAt, Inside
<1> DEFINE j == at \div l
           f == at % l
           z == Len(buf)
           hi == q + lead + j
<1>1. j \in Nat /\ f \in 0 .. l - 1 /\ at = (l * j) + f
  <2>1. at \in Int /\ at >= 0
    OBVIOUS
  <2>2. j \in Int /\ j >= 0 /\ f \in 0 .. l - 1 /\ at = (l * j) + f
    BY <2>1, Dividing, Zenon
  <2> HIDE DEF j, f
  <2> QED
    BY <2>2
<1>2. z \in Nat /\ z >= 1
  BY DEF OnRamp
<1>2a. \A k \in 2 .. z : buf[k] = (q + lead + k - 1) * l
  BY DEF OnRamp
<1>3. j < z - 1
  BY <1>2, QuotientBound
<1> HIDE DEF j, f, z
<1>4. j + 2 \in 2 .. z /\ buf[j + 2] = (hi + 1) * l
  <2>1. j + 2 \in 2 .. z
    BY <1>1, <1>2, <1>3
  <2>2. buf[j + 2] = (q + lead + (j + 2) - 1) * l
    BY <1>2a, <2>1
  <2>3. q + lead + (j + 2) - 1 = hi + 1
    BY <1>1
  <2> QED
    BY <2>1, <2>2, <2>3
<1>6. hi \in Nat /\ l - f \in Nat /\ f \in Nat
  BY <1>1
<1>7. CASE j = 0
  <2> DEFINE x == q * (l - f) + (q + lead + 1) * f
  <2>1. buf[1] = q * l /\ buf[2] = (q + lead + 1) * l
    BY <1>1, <1>4, <1>7 DEF OnRamp
  <2>2. buf[1] * (l - f) + buf[2] * f = l * x
    <3>1. (q * l) * (l - f) = l * (q * (l - f))
      BY <1>6
    <3>2. ((q + lead + 1) * l) * f = l * ((q + lead + 1) * f)
      BY <1>6
    <3>3. l * (q * (l - f)) + l * ((q + lead + 1) * f) = l * x
      BY <1>6
    <3> QED
      BY <2>1, <3>1, <3>2, <3>3
  <2>3. x \in Nat
    BY <1>6
  <2>4. x = q * l + f + lead * f
    <3>1. q * (l - f) = q * l - q * f
      BY <1>1
    <3>2. (q + lead + 1) * f = q * f + lead * f + f
      BY <1>6
    <3>3. q * l \in Nat /\ q * f \in Nat /\ lead * f \in Nat
      BY <1>6
    <3> QED
      BY <1>6, <3>1, <3>2, <3>3
  <2> HIDE DEF x
  <2>6. l * x \in Nat /\ (l * x) \div l = x
    BY <2>3, Multiple
  <2>7. Between(buf[1], buf[2], f, l) = x
    BY <2>2, <2>3, <2>6 DEF Between, Truncate
  <2>8. at = f /\ at < l /\ j + 1 = 1 /\ j + 2 = 2
    BY <1>1, <1>7
  <2> QED
    BY <2>4, <2>7, <2>8 DEF j, f
<1>8. CASE j > 0
  <2> DEFINE x == hi * l + f
  <2>1. buf[j + 1] = hi * l
    <3>1. j + 1 \in 2 .. z
      BY <1>1, <1>2, <1>3, <1>8
    <3>2. buf[j + 1] = (q + lead + (j + 1) - 1) * l
      BY <1>2a, <3>1
    <3>3. q + lead + (j + 1) - 1 = hi
      BY <1>1
    <3> QED
      BY <3>2, <3>3
  <2>2. buf[j + 1] * (l - f) + buf[j + 2] * f = l * x
    <3>1. (hi * l) * (l - f) = l * (hi * l) - l * (hi * f)
      BY <1>1, <1>6
    <3>2. ((hi + 1) * l) * f = l * (hi * f) + l * f
      BY <1>6
    <3>3. l * x = l * (hi * l) + l * f
      BY <1>6
    <3>4. l * (hi * l) \in Nat /\ l * (hi * f) \in Nat /\ l * f \in Nat
      BY <1>6
    <3> QED
      BY <1>4, <2>1, <3>1, <3>2, <3>3, <3>4
  <2>3. x \in Nat /\ hi * l \in Nat
    BY <1>6
  <2>5. x = q * l + at + lead * l
    <3>1. hi * l = q * l + lead * l + l * j
      BY <1>1
    <3>2. q * l \in Nat /\ lead * l \in Nat /\ l * j \in Nat
      BY <1>1
    <3> QED
      BY <1>1, <1>6, <3>1, <3>2
  <2> HIDE DEF x, hi
  <2>6. l * x \in Nat /\ (l * x) \div l = x
    BY <2>3, Multiple
  <2>7. Between(buf[j + 1], buf[j + 2], f, l) = x
    BY <2>2, <2>3, <2>6 DEF Between, Truncate
  <2>8. ~(at < l)
    <3>1. l * j >= l
      BY <1>1, <1>8
    <3> QED
      BY <1>1, <3>1
  <2> QED
    BY <2>5, <2>7, <2>8 DEF j, f
<1> QED
  BY <1>1, <1>7, <1>8

-----------------------------------------------------------------------------
\* y comes after x; by exactly d, if nothing was missed.
Follows(x, y, d, e) == y > x /\ (e => y - x = d)

Ascends(s, d, e) == \A k \in 2 .. Len(s) : Follows(s[k - 1], s[k], d, e)

Values(out, i, l, p, q, lead, m) ==
  DOMAIN out = 1 .. m /\ \A k \in 1 .. m : out[k] = RampAt(q, lead, l, p + (k - 1) * i)
Passes(i, l, p, m, z) == p + m * i >= (z - 1) * l
After(i, l, p, q, lead, m, z, top, pos) == top = q + lead + z - 1 /\ pos = p + m * i - (z - 1) * l
Rises(out, i, l, p, q, lead, m, top, pos) ==
  /\ \A k \in 1 .. m : out[k] \in Nat \ {0}
  /\ \A k \in 2 .. m : Follows(out[k - 1], out[k], i, lead = 0)
  /\ pos \in Nat
  /\ m = 0 => /\ top * l + pos >= q * l + p
              /\ lead = 0 => top * l + pos = q * l + p
  /\ m > 0 => /\ out[1] >= q * l + p
              /\ lead = 0 => out[1] = q * l + p
              /\ Follows(out[m], top * l + pos, i, lead = 0)

\* Sounds read off a ramp at steps of i rise by i, or more at the place missed.
LEMMA RisesOverRamp ==
  ASSUME NEW i \in Nat \ {0}, NEW l \in Nat \ {0}, NEW p \in Nat, NEW z \in Nat \ {0},
         NEW q \in Nat \ {0}, NEW lead \in Nat, NEW m \in Nat, NEW top \in Nat, NEW pos \in Int,
         NEW out, Values(out, i, l, p, q, lead, m), Passes(i, l, p, m, z),
         After(i, l, p, q, lead, m, z, top, pos)
  PROVE  Rises(out, i, l, p, q, lead, m, top, pos)
<1> USE DEF Values, Passes, After, Rises, RampAt
<1> DEFINE at(k) == p + (k - 1) * i
           extra(a) == IF a < l THEN lead * a ELSE lead * l
<1>1. i \in Nat \ {0} /\ l \in Nat \ {0} /\ p \in Nat
  OBVIOUS
<1>2. z \in Nat \ {0}
  OBVIOUS
<1>3. m \in Nat
  OBVIOUS
<1>4. \A k \in 1 .. m : at(k) \in Nat
  <2> SUFFICES ASSUME NEW k \in 1 .. m
               PROVE  at(k) \in Nat
    OBVIOUS
  <2>1. k - 1 \in Nat
    OBVIOUS
  <2>2. (k - 1) * i \in Nat /\ p \in Nat
    BY <2>1
  <2>3. \A a, b \in Nat : a + b \in Nat
    OBVIOUS
  <2> QED
    BY <2>2, <2>3, Zenon
<1>5. \A k \in 1 .. m : out[k] = q * l + at(k) + extra(at(k))
  OBVIOUS
<1>6. DOMAIN out = 1 .. m
  OBVIOUS
<1>7. q * l \in Nat \ {0} /\ lead * l \in Nat /\ \A a \in Nat : lead * a \in Nat
  BY <1>1
<1>8. \A a, b \in Nat : a <= b => extra(a) <= extra(b)
  <2> SUFFICES ASSUME NEW a \in Nat, NEW b \in Nat, a <= b
               PROVE  extra(a) <= extra(b)
    OBVIOUS
  <2>1. lead * a <= lead * b
    OBVIOUS
  <2>2. a < l => lead * a <= lead * l
    BY <1>1
  <2> QED
    BY <1>1, <1>7, <2>1, <2>2
<1>9. \A a \in Nat : extra(a) \in Nat /\ extra(a) <= lead * l /\ (lead = 0 => extra(a) = 0)
  <2> SUFFICES ASSUME NEW a \in Nat
               PROVE  extra(a) \in Nat /\ extra(a) <= lead * l /\ (lead = 0 => extra(a) = 0)
    OBVIOUS
  <2>1. a < l => lead * a <= lead * l
    BY <1>1
  <2>2. lead = 0 => lead * a = 0 /\ lead * l = 0
    BY <1>1
  <2> QED
    BY <1>1, <1>7, <2>1, <2>2
<1>11. top * l = (q + lead) * l + (z - 1) * l /\ (q + lead) * l = q * l + lead * l
       /\ top \in Nat
  BY <1>1, <1>2
<1>12. m * i \in Nat /\ (z - 1) * l \in Nat
  BY <1>1, <1>2, <1>3
<1>13. pos \in Nat /\ pos = p + m * i - (z - 1) * l
  BY <1>1, <1>3, <1>12
<1>14. top * l + pos = q * l + lead * l + p + m * i
  BY <1>1, <1>7, <1>11, <1>12, <1>13
<1> HIDE DEF extra
<1>17. \A k \in 1 .. m : out[k] \in Nat \ {0} /\ out[k] >= q * l + at(k)
                         /\ out[k] <= q * l + at(k) + lead * l
                         /\ (lead = 0 => out[k] = q * l + at(k))
  <2> SUFFICES ASSUME NEW k \in 1 .. m
               PROVE  out[k] \in Nat \ {0} /\ out[k] >= q * l + at(k)
                      /\ out[k] <= q * l + at(k) + lead * l
                      /\ (lead = 0 => out[k] = q * l + at(k))
    OBVIOUS
  <2> DEFINE a == at(k)
  <2>1. a \in Nat /\ out[k] = q * l + a + extra(a)
    BY <1>4, <1>5
  <2> HIDE DEF a
  <2>2. extra(a) \in Nat /\ extra(a) <= lead * l /\ (lead = 0 => extra(a) = 0)
    BY <1>9, <2>1
  <2>3. out[k] \in Nat \ {0} /\ out[k] >= q * l + a /\ out[k] <= q * l + a + lead * l
        /\ (lead = 0 => out[k] = q * l + a)
    BY <1>7, <2>1, <2>2
  <2> QED
    BY <2>3 DEF a
<1>18. ASSUME NEW k \in 2 .. m
       PROVE  Follows(out[k - 1], out[k], i, lead = 0)
  <2> DEFINE a == at(k - 1)
             b == at(k)
  <2>1. k \in 1 .. m /\ k - 1 \in 1 .. m
    BY <1>3
  <2>2. a \in Nat /\ b \in Nat /\ out[k - 1] = q * l + a + extra(a) /\ out[k] = q * l + b + extra(b)
    BY <1>4, <1>5, <2>1
  <2>3. b = a + i
    <3>1. (k - 1) * i = (k - 1 - 1) * i + i
      BY <1>1, <1>3
    <3>2. (k - 1 - 1) * i \in Int /\ (k - 1) * i \in Int
      BY <1>1, <1>3
    <3> QED
      BY <1>1, <3>1, <3>2
  <2> HIDE DEF a, b
  <2>4. extra(a) <= extra(b) /\ extra(a) \in Nat /\ extra(b) \in Nat
        /\ (lead = 0 => extra(a) = 0 /\ extra(b) = 0)
    BY <1>1, <1>8, <1>9, <2>2, <2>3
  <2> QED
    BY <1>1, <1>7, <2>2, <2>3, <2>4 DEF Follows
<1>19. CASE m = 0
  <2>1. m * i = 0
    BY <1>1, <1>19
  <2>2. top * l + pos >= q * l + p /\ (lead = 0 => top * l + pos = q * l + p)
    <3>1. lead = 0 => lead * l = 0
      BY <1>1
    <3> QED
      BY <1>1, <1>7, <1>14, <2>1, <3>1
  <2> QED
    BY <1>3, <1>13, <1>17, <1>18, <1>19, <2>2
<1>20. CASE m > 0
  <2>1. 1 \in 1 .. m /\ m \in 1 .. m
    BY <1>3, <1>20
  <2>2. at(1) = p
    BY <1>1
  <2>3. m * i = (m - 1) * i + i /\ (m - 1) * i \in Nat
    BY <1>1, <1>3, <1>20
  <2>4. at(m) + i = p + m * i /\ at(m) \in Nat
    BY <1>1, <1>12, <2>3
  <2>5. lead = 0 => lead * l = 0
    BY <1>1
  <2>6. out[m] \in Nat /\ out[m] <= q * l + at(m) + lead * l /\ (lead = 0 => out[m] = q * l + at(m))
    BY <1>17, <2>1
  <2> HIDE DEF at
  <2>7. Follows(out[m], top * l + pos, i, lead = 0)
    BY <1>1, <1>7, <1>12, <1>14, <2>4, <2>5, <2>6 DEF Follows
  <2>8. out[1] >= q * l + p /\ (lead = 0 => out[1] = q * l + p)
    BY <1>17, <2>1, <2>2
  <2> QED
    BY <1>13, <1>17, <1>18, <1>20, <2>7, <2>8
<1> QED
  BY <1>3, <1>19, <1>20

AtEnd(r, buf, pos) == pos >= (Len(buf) - 1) * r.outRate
OnlyLast(r, buf, pos) == [r EXCEPT !.buf = <<buf[Len(buf)]>>, !.pos = pos - (Len(buf) - 1) * r.outRate]

LEMMA KeepsOnlyLast ==
  ASSUME NEW r \in Resampler, r.outRate > 0, NEW buf \in Seq(Nat), buf # <<>>,
         NEW pos \in Nat, AtEnd(r, buf, pos)
  PROVE  KeepRest(r, buf, pos) = OnlyLast(r, buf, pos)
<1>1. r.outRate \in Nat \ {0}
  BY DEF Resampler
<1> QED
  BY <1>1, KeepsLast, Zenon DEF AtEnd, OnlyLast

Converter(r, i, l, p) == r \in Resampler /\ r.inRate = i /\ r.outRate = l /\ r.pos = p
Continues(r, in, buf) == in # <<>> /\ buf = r.buf \o in
Converting(r, in, buf, i, l, p, q, lead, z, top, out) ==
  /\ Converter(r, i, l, p) /\ i # l /\ Continues(r, in, buf) /\ OnRamp(buf, q, lead, l)
  /\ z = Len(buf) /\ (z >= 2 \/ lead = 0) /\ top = q + lead + z - 1
  /\ out = Process(r, in).out
Converted(r, in, i, l, p, q, lead, top, out) ==
  /\ out \in Seq(Nat \ {0})
  /\ Ascends(out, i, lead = 0)
  /\ \E pos \in Nat :
       /\ Process(r, in).next = [r EXCEPT !.buf = <<top * l>>, !.pos = pos]
       /\ out = <<>> => /\ top * l + pos >= q * l + p
                        /\ lead = 0 => top * l + pos = q * l + p
       /\ out # <<>> => /\ out[1] >= q * l + p
                        /\ lead = 0 => out[1] = q * l + p
                        /\ Follows(out[Len(out)], top * l + pos, i, lead = 0)

\* What the converter makes of samples that continue a ramp, and from where it goes on.
LEMMA ConvertsRamp ==
  ASSUME NEW r, NEW i \in Nat \ {0}, NEW l \in Nat \ {0}, NEW p \in Nat, NEW in, NEW buf,
         NEW q \in Nat \ {0}, NEW lead \in Nat, NEW z \in Nat \ {0}, NEW top \in Nat, NEW out,
         Converting(r, in, buf, i, l, p, q, lead, z, top, out)
  PROVE  Converted(r, in, i, l, p, q, lead, top, out)
<1> USE DEF Converting
<1> USE DEF Converted
<1> DEFINE m == Steps(r, z)
           at(k) == p + (k - 1) * i
           pos == p + m * i - (z - 1) * l
<1>1. /\ m \in Nat
      /\ p + m * i >= (z - 1) * l
      /\ \A k \in 1 .. m : at(k) < (z - 1) * l
  <2>1. r \in Resampler /\ r.inRate > 0 /\ r.outRate > 0
    BY DEF Converter
  <2>2. r.inRate = i /\ r.outRate = l /\ r.pos = p
    BY DEF Converter
  <2> QED
    BY <2>1, <2>2, StepsOf, Zenon
<1>2. /\ out = [k \in 1 .. m |-> Between(buf[(at(k) \div l) + 1], buf[(at(k) \div l) + 2], at(k) % l, l)]
      /\ Process(r, in).next = KeepRest(r, buf, p + m * i)
  BY Zenon DEF Process, Converter, Continues
<1>3. buf \in Seq(Nat) /\ buf # <<>>
  BY DEF OnRamp
<1> HIDE DEF m
<1>4. \A k \in 1 .. m : at(k) \in Nat
  <2> SUFFICES ASSUME NEW k \in 1 .. m
               PROVE  at(k) \in Nat
    OBVIOUS
  <2>1. k - 1 \in Nat
    BY <1>1
  <2>2. (k - 1) * i \in Nat /\ p \in Nat
    BY <2>1
  <2>3. \A a, b \in Nat : a + b \in Nat
    OBVIOUS
  <2> QED
    BY <2>2, <2>3, Zenon
<1>5. ASSUME NEW k \in 1 .. m
      PROVE  out[k] = RampAt(q, lead, l, at(k))
  <2> DEFINE a == at(k)
  <2>1. a \in Nat /\ Inside(buf, l, a)
    BY <1>1, <1>4 DEF Inside
  <2>2. out[k] = ReadAt(buf, l, a)
    BY <1>2, Zenon DEF ReadAt
  <2> HIDE DEF a
  <2>3. q \in Nat
    OBVIOUS
  <2>4. ReadAt(buf, l, a) = RampAt(q, lead, l, a)
    BY <2>1, <2>3, BetweenOnRamp
  <2> QED
    BY <2>2, <2>4, Zenon DEF a
<1>6. DOMAIN out = 1 .. m
  BY <1>2, Zenon
<1>7. m * i \in Nat /\ (z - 1) * l \in Nat /\ p + m * i \in Nat /\ pos \in Int
  <2>1. m * i \in Nat /\ (z - 1) * l \in Nat
    BY <1>1
  <2> QED
    BY <2>1
<1> DEFINE after == pos
<1>8. after \in Int /\ after = p + m * i - (z - 1) * l
  BY <1>7, Zenon
<1> HIDE DEF after
<1>9. Rises(out, i, l, p, q, lead, m, top, after)
  <2>1. Values(out, i, l, p, q, lead, m) /\ Passes(i, l, p, m, z)
    BY <1>1, <1>5, <1>6, Zenon DEF Values, Passes
  <2>2. After(i, l, p, q, lead, m, z, top, after)
    BY <1>8, Zenon DEF After
  <2> QED
    BY <1>1, <1>8, <2>1, <2>2, RisesOverRamp
<1>10. buf[z] = top * l
  <2>1. buf[1] = q * l /\ \A k \in 2 .. z : buf[k] = (q + lead + k - 1) * l
    BY DEF OnRamp
  <2>2. CASE z = 1
    BY <2>1, <2>2
  <2>3. CASE z >= 2
    BY <2>1, <2>3
  <2> QED
    BY <2>2, <2>3
<1>11. Process(r, in).next = [r EXCEPT !.buf = <<top * l>>, !.pos = after]
  <2> DEFINE end == p + m * i
  <2>1. r \in Resampler /\ r.outRate > 0 /\ r.outRate = l
    BY DEF Converter
  <2>2. end \in Nat /\ AtEnd(r, buf, end)
    BY <1>1, <1>7, <2>1, Zenon DEF AtEnd
  <2>5. after = end - (z - 1) * l
    BY <1>7, <1>8
  <2>6. Process(r, in).next = KeepRest(r, buf, end)
    BY <1>2, Zenon
  <2> HIDE DEF end
  <2>3. KeepRest(r, buf, end) = OnlyLast(r, buf, end)
    BY <1>3, <2>1, <2>2, KeepsOnlyLast
  <2>4. OnlyLast(r, buf, end) = [r EXCEPT !.buf = <<buf[z]>>, !.pos = end - (z - 1) * l]
    BY <2>1, Zenon DEF OnlyLast
  <2> QED
    BY <1>10, <2>3, <2>4, <2>5, <2>6
<1>12. out \in Seq(Nat \ {0}) /\ Len(out) = m
  <2> HIDE DEF at
  <2>1. out = [k \in 1 .. m |-> out[k]]
    BY <1>2, <1>6, Zenon
  <2>2. \A k \in 1 .. m : out[k] \in Nat \ {0}
    BY <1>9, Zenon DEF Rises
  <2> QED
    BY <1>1, <2>1, <2>2, AsSequence
<1>13. Ascends(out, i, lead = 0)
  BY <1>9, <1>12, Zenon DEF Ascends, Rises
<1>14. (out = <<>>) <=> (m = 0)
  BY <1>1, <1>12, EmptySeq
<1> QED
  <2>1. m # 0 => m > 0
    BY <1>1
  <2> QED
    BY <1>9, <1>11, <1>12, <1>13, <1>14, <2>1, Zenon DEF Rises

-----------------------------------------------------------------------------
(***************************************************************************)
(* The converter of a connection, which has sent p samples.                *)
(***************************************************************************)
RampFrom(p, n) == [k \in 1 .. n |-> (p + k) * LineRate]

\* One sample may be kept, the last one if nothing was missed.
Kept(r, p, e) == \E q \in 1 .. p : r.buf = <<q * LineRate>> /\ (e => q = p)

Ready(r, rate, p, e) ==
  /\ r \in Resampler /\ r.inRate = rate /\ r.outRate = LineRate
  /\ r.buf = <<>> => r.pos = 0
  /\ rate = LineRate => r.buf = <<>>
  /\ r.buf # <<>> => Kept(r, p, e)

\* The value of the next sample it will make.
NextSaid(r, p) == IF r.buf = <<>> THEN (p + 1) * LineRate ELSE r.buf[1] + r.pos

\* What was said goes on: out continues at w and ends ahead of v.
GoesOn(out, w, v, rate, e) ==
  /\ out \in Seq(Nat \ {0}) /\ Ascends(out, rate, e)
  /\ out = <<>> => v >= w /\ (e => v = w)
  /\ out # <<>> => /\ out[1] >= w /\ (e => out[1] = w)
                   /\ Follows(out[Len(out)], v, rate, e)

LEMMA RampShape ==
  ASSUME InputAssumption, NEW p \in Nat, NEW n \in Nat, p + n <= MaxSamples
  PROVE  /\ RampFrom(p, n) \in Seq(Nat \ {0}) /\ Len(RampFrom(p, n)) = n
         /\ RampFrom(p, n) = <<>> <=> n = 0
         /\ \A k \in 1 .. n : RampFrom(p, n)[k] = (p + k) * LineRate
<1>1. LineRate \in Nat \ {0}
  BY DEF InputAssumption
<1>4. \A k \in 1 .. n : (p + k) * LineRate \in Nat \ {0}
  BY <1>1
<1> DEFINE f(k) == (p + k) * LineRate
           s == [k \in 1 .. n |-> f(k)]
<1>6. \A k \in 1 .. n : f(k) \in Nat \ {0}
  BY <1>4
<1> HIDE DEF f
<1>7. s \in Seq(Nat \ {0}) /\ Len(s) = n /\ \A k \in 1 .. n : s[k] = f(k)
  BY <1>6
<1>8. s = <<>> <=> n = 0
  BY <1>7, EmptySeq
<1>9. RampFrom(p, n) = s
  BY Zenon DEF RampFrom, f
<1>10. \A k \in 1 .. n : f(k) = (p + k) * LineRate
  BY Zenon DEF f
<1> HIDE DEF s
<1> QED
  BY <1>7, <1>8, <1>9, <1>10

\* A connection at the rate of the line: its samples pass as they are.
LEMMA PassesOn ==
  ASSUME InputAssumption, NEW p \in Nat, NEW n \in Nat, p + n <= MaxSamples, NEW e \in BOOLEAN
  PROVE  GoesOn(RampFrom(p, n), (p + 1) * LineRate, (p + n + 1) * LineRate, LineRate, e)
<1> DEFINE out == RampFrom(p, n)
<1>1. LineRate \in Nat \ {0}
  BY DEF InputAssumption
<1>2. /\ out \in Seq(Nat \ {0}) /\ Len(out) = n /\ (out = <<>> <=> n = 0)
      /\ \A k \in 1 .. n : out[k] = (p + k) * LineRate
  BY RampShape
<1> HIDE DEF out
<1>3. ASSUME NEW k \in 2 .. n
      PROVE  Follows(out[k - 1], out[k], LineRate, e)
  <2>1. k - 1 \in 1 .. n /\ k \in 1 .. n
    OBVIOUS
  <2>2. out[k - 1] = (p + (k - 1)) * LineRate /\ out[k] = (p + k) * LineRate
    BY <1>2, <2>1
  <2>3. (p + k) * LineRate = (p + (k - 1)) * LineRate + LineRate /\ (p + (k - 1)) * LineRate \in Nat
    BY <1>1
  <2> QED
    BY <1>1, <2>2, <2>3 DEF Follows
<1>4. CASE n = 0
  <2>1. (p + n + 1) * LineRate = (p + 1) * LineRate /\ (p + 1) * LineRate \in Nat
    BY <1>1, <1>4
  <2> QED
    BY <1>2, <1>3, <1>4, <2>1 DEF GoesOn, Ascends, out
<1>5. CASE n # 0
  <2>1. 1 \in 1 .. n /\ n \in 1 .. n
    BY <1>5
  <2>2. out[1] = (p + 1) * LineRate /\ out[n] = (p + n) * LineRate
    BY <1>2, <2>1
  <2>3. (p + n + 1) * LineRate = (p + n) * LineRate + LineRate /\ (p + n) * LineRate \in Nat
        /\ (p + 1) * LineRate \in Nat
    BY <1>1
  <2>4. Follows(out[n], (p + n + 1) * LineRate, LineRate, e)
    BY <1>1, <2>2, <2>3 DEF Follows
  <2> QED
    BY <1>2, <1>3, <1>5, <2>2, <2>3, <2>4 DEF GoesOn, Ascends, out
<1> QED
  BY <1>4, <1>5

\* What is kept and what is received make a ramp.
LEMMA Continuing ==
  ASSUME InputAssumption, NEW i, NEW e \in BOOLEAN, NEW r, NEW p \in Nat, NEW n \in Nat \ {0},
         p + n <= MaxSamples, Ready(r, i, p, e)
  PROVE  \E q \in Nat \ {0}, lead \in Nat, z \in Nat \ {0} :
           /\ OnRamp(r.buf \o RampFrom(p, n), q, lead, LineRate)
           /\ z = Len(r.buf \o RampFrom(p, n)) /\ (z >= 2 \/ lead = 0)
           /\ p + n = q + lead + z - 1
           /\ e => lead = 0
           /\ NextSaid(r, p) = q * LineRate + r.pos
<1> DEFINE in == RampFrom(p, n)
           l == LineRate
<1>1. l \in Nat \ {0}
  BY DEF InputAssumption
<1>2. /\ in \in Seq(Nat \ {0}) /\ Len(in) = n /\ in # <<>>
      /\ \A k \in 1 .. n : in[k] = (p + k) * l
  BY RampShape
<1>2a. in \in Seq(Nat)
  BY <1>2
<1>3. r.buf = <<>> => r.pos = 0
  BY DEF Ready
<1>4. CASE r.buf = <<>>
  <2>1. r.buf \o in = in
    BY <1>2a, <1>4, ConcatEmptySeq
  <2> HIDE DEF in, l
  <2>2. OnRamp(in, p + 1, 0, l)
    <3>1. in[1] = (p + 1) * l
      BY <1>2
    <3>2. ASSUME NEW k \in 2 .. n
          PROVE  in[k] = (p + 1 + 0 + k - 1) * l
      <4>1. k \in 1 .. n /\ p + 1 + 0 + k - 1 = p + k
        OBVIOUS
      <4> QED
        BY <1>2, <4>1
    <3> QED
      BY <1>2, <1>2a, <3>1, <3>2 DEF OnRamp
  <2>3. NextSaid(r, p) = (p + 1) * l + r.pos
    <3>1. (p + 1) * l \in Nat
      BY <1>1
    <3> QED
      BY <1>3, <1>4, <3>1 DEF NextSaid, l
  <2>4. p + n = (p + 1) + 0 + n - 1 /\ p + 1 \in Nat \ {0}
    OBVIOUS
  <2> WITNESS p + 1 \in Nat \ {0}, 0 \in Nat, n \in Nat \ {0}
  <2>5. 0 = 0 /\ (n >= 2 \/ 0 = 0) /\ p + n = (p + 1) + 0 + n - 1 /\ n = Len(in)
    BY <1>2, <2>4
  <2> QED
    BY <2>1, <2>2, <2>3, <2>5, Zenon DEF in, l
<1>5. CASE r.buf # <<>>
  <2>1. PICK q \in 1 .. p : r.buf = <<q * l>> /\ (e => q = p)
    BY <1>5 DEF Ready, Kept
  <2> DEFINE lead == p - q
             buf == r.buf \o in
  <2>2. lead \in Nat /\ (e => lead = 0) /\ q \in Nat \ {0}
    BY <2>1
  <2> HIDE DEF in, l
  <2>3. q * l \in Nat
    BY <1>1, <2>2
  <2>4. <<q * l>> \in Seq(Nat) /\ Len(<<q * l>>) = 1 /\ <<q * l>>[1] = q * l
    BY <2>3
  <2>5. /\ buf \in Seq(Nat) /\ Len(buf) = n + 1
        /\ buf[1] = q * l
        /\ \A k \in 2 .. n + 1 : buf[k] = in[k - 1]
    <3> DEFINE one == <<q * l>>
    <3>1. buf = one \o in
      BY <2>1
    <3> HIDE DEF one
    <3>2. one \in Seq(Nat) /\ Len(one) = 1 /\ one[1] = q * l
      BY <2>4 DEF one
    <3> HIDE DEF buf
    <3> QED
      <4>1. buf \in Seq(Nat) /\ Len(buf) = Len(one) + Len(in)
            /\ \A k \in 1 .. Len(one) + Len(in) :
                 buf[k] = IF k <= Len(one) THEN one[k] ELSE in[k - Len(one)]
        BY <1>2a, <3>1, <3>2, ConcatProperties
      <4> QED
        BY <1>2, <3>2, <4>1
  <2>6. NextSaid(r, p) = q * l + r.pos
    <3>1. r.buf[1] = q * l
      BY <2>1, <2>4
    <3> QED
      BY <1>5, <3>1 DEF NextSaid
  <2>7. p + n = q + lead + (n + 1) - 1 /\ n + 1 \in Nat \ {0} /\ n + 1 >= 2
    BY <2>2
  <2> HIDE DEF buf
  <2>8. OnRamp(buf, q, lead, l)
    <3>1. ASSUME NEW k \in 2 .. n + 1
          PROVE  buf[k] = (q + lead + k - 1) * l
      <4>1. k - 1 \in 1 .. n /\ q + lead + k - 1 = p + (k - 1)
        BY <2>2
      <4>2. buf[k] = in[k - 1]
        BY <2>5
      <4>3. in[k - 1] = (p + (k - 1)) * l
        BY <1>2, <4>1
      <4> QED
        BY <4>1, <4>2, <4>3
    <3>2. buf # <<>>
      BY <2>5
    <3> HIDE DEF lead
    <3> QED
      BY <2>5, <3>1, <3>2 DEF OnRamp
  <2> HIDE DEF lead
  <2> QED
    BY <2>2, <2>5, <2>6, <2>7, <2>8, Zenon DEF buf, in, l
<1> QED
  BY <1>4, <1>5

\* Sounds at another rate are converted from where the last message ended.
LEMMA ConvertsOn ==
  ASSUME InputAssumption, NEW i \in Nat \ {0}, i # LineRate, NEW e \in BOOLEAN, NEW r,
         NEW p \in Nat, NEW n \in Nat \ {0}, p + n <= MaxSamples, Ready(r, i, p, e),
         NEW made, made = Process(r, RampFrom(p, n))
  PROVE  /\ Ready(made.next, i, p + n, e)
         /\ GoesOn(made.out, NextSaid(r, p), NextSaid(made.next, p + n), i, e)
<1> DEFINE in == RampFrom(p, n)
           buf == r.buf \o in
           l == LineRate
           out == made.out
           top == p + n
           pos0 == r.pos
<1>1. l \in Nat \ {0}
  BY DEF InputAssumption
<1>2. in # <<>>
  BY RampShape
<1>3. PICK q \in Nat \ {0}, lead \in Nat, z \in Nat \ {0} :
           /\ OnRamp(r.buf \o RampFrom(p, n), q, lead, LineRate)
           /\ z = Len(r.buf \o RampFrom(p, n)) /\ (z >= 2 \/ lead = 0)
           /\ p + n = q + lead + z - 1
           /\ e => lead = 0
           /\ NextSaid(r, p) = q * LineRate + r.pos
  BY Continuing
<1>4. OnRamp(buf, q, lead, l) /\ z = Len(buf) /\ (z >= 2 \/ lead = 0)
      /\ top \in Nat /\ top = q + lead + z - 1
  <2>1. top \in Nat
    OBVIOUS
  <2> QED
    BY <1>3, <2>1, Zenon
<1>5. pos0 \in Nat /\ Converter(r, i, l, pos0) /\ Continues(r, in, buf)
  BY <1>2 DEF Ready, Converter, Continues, Resampler
<1>6. out = Process(r, in).out
  OBVIOUS
<1> HIDE DEF in, buf, l, top, pos0
<1>7. Converted(r, in, i, l, pos0, q, lead, top, out)
  <2>1. Converting(r, in, buf, i, l, pos0, q, lead, z, top, out)
    BY <1>4, <1>5, <1>6, Zenon DEF Converting, l
  <2> QED
    BY <1>1, <1>4, <1>5, <2>1, ConvertsRamp
<1>8. PICK pos \in Nat :
           /\ Process(r, in).next = [r EXCEPT !.buf = <<top * l>>, !.pos = pos]
           /\ out = <<>> => /\ top * l + pos >= q * l + pos0
                            /\ lead = 0 => top * l + pos = q * l + pos0
           /\ out # <<>> => /\ out[1] >= q * l + pos0
                            /\ lead = 0 => out[1] = q * l + pos0
                            /\ Follows(out[Len(out)], top * l + pos, i, lead = 0)
  BY <1>7, Zenon DEF Converted
<1>9. /\ made.next = [r EXCEPT !.buf = <<top * l>>, !.pos = pos]
      /\ NextSaid(r, p) = q * l + pos0
      /\ e => lead = 0
  BY <1>3, <1>8 DEF in, l, pos0
<1>10. r \in Resampler /\ r.inRate = i /\ r.outRate = LineRate
  BY DEF Ready
<1>11. top * l \in Nat /\ top \in 1 .. top
  <2>1. top # 0
    BY DEF top
  <2> QED
    BY <1>1, <1>4, <2>1
<1> DEFINE v == top * l
<1>12. v \in Nat /\ <<v>> \in Seq(Nat) /\ <<v>> # <<>> /\ <<v>>[1] = v
  BY <1>11
<1> HIDE DEF v
<1>13. made.next.buf = <<v>> /\ made.next.pos = pos /\ made.next.inRate = i /\ made.next.outRate = LineRate
       /\ made.next \in Resampler
  BY <1>9, <1>10, <1>12 DEF Resampler, v
<1>14. Ready(made.next, i, p + n, e)
  <2>1. Kept(made.next, top, e)
    BY <1>11, <1>13 DEF Kept, v, l
  <2> QED
    BY <1>12, <1>13, <2>1 DEF Ready, top
<1>15. NextSaid(made.next, p + n) = top * l + pos
  BY <1>12, <1>13 DEF NextSaid, v
<1>16. Ascends(out, i, e)
  BY <1>7, <1>9, Zenon DEF Converted, Ascends, Follows
<1>17. out # <<>> => Follows(out[Len(out)], top * l + pos, i, e)
  BY <1>8, <1>9, Zenon DEF Follows
<1> QED
  BY <1>7, <1>8, <1>9, <1>14, <1>15, <1>16, <1>17, Zenon DEF GoesOn, Converted

-----------------------------------------------------------------------------
(***************************************************************************)
(* Sequences that rise, each with the sample before it, 0 for none.        *)
(***************************************************************************)
Sounds == Seq(Nat \ {0})

RisesFrom(x, s, d, e) == Ascends(s, d, e) /\ (x # 0 /\ s # <<>> => Follows(x, s[1], d, e))
LastOf(x, s) == IF s = <<>> THEN x ELSE s[Len(s)]
Ahead(x, v, d, e) == x # 0 => Follows(x, v, d, e)

LEMMA Joins ==
  ASSUME NEW x \in Nat, NEW s \in Sounds, NEW out \in Sounds, NEW d \in Nat \ {0}, NEW e \in BOOLEAN,
         NEW w \in Nat, NEW v \in Nat,
         RisesFrom(x, s, d, e), Ahead(LastOf(x, s), w, d, e), GoesOn(out, w, v, d, e)
  PROVE  /\ s \o out \in Sounds
         /\ RisesFrom(x, s \o out, d, e) /\ Ahead(LastOf(x, s \o out), v, d, e)
<1> DEFINE t == s \o out
<1>1. /\ t \in Sounds /\ Len(t) = Len(s) + Len(out)
      /\ \A k \in 1 .. Len(s) + Len(out) : t[k] = IF k <= Len(s) THEN s[k] ELSE out[k - Len(s)]
  BY ConcatProperties DEF Sounds
<1>2. /\ Len(s) \in Nat /\ Len(out) \in Nat
      /\ \A k \in 1 .. Len(s) : s[k] \in Nat \ {0}
      /\ \A k \in 1 .. Len(out) : out[k] \in Nat \ {0}
      /\ (s = <<>> <=> Len(s) = 0) /\ (out = <<>> <=> Len(out) = 0)
  BY EmptySeq DEF Sounds
<1>2a. t = <<>> <=> Len(t) = 0
  BY <1>1, EmptySeq DEF Sounds
<1> HIDE DEF t
<1>3. ASSUME s # <<>>, out # <<>>
      PROVE  Follows(s[Len(s)], out[1], d, e)
  BY <1>2, <1>3 DEF Ahead, LastOf, GoesOn, Follows
<1>4. ASSUME s = <<>>, out # <<>>, x # 0
      PROVE  Follows(x, out[1], d, e)
  BY <1>2, <1>4 DEF Ahead, LastOf, GoesOn, Follows
<1>5. ASSUME NEW k \in 2 .. Len(t)
      PROVE  Follows(t[k - 1], t[k], d, e)
  <2>1. k \in 1 .. Len(t) /\ k - 1 \in 1 .. Len(t)
    BY <1>1, <1>2
  <2>2. CASE k <= Len(s)
    <3>1. t[k] = s[k] /\ t[k - 1] = s[k - 1] /\ k \in 2 .. Len(s)
      BY <1>1, <1>2, <2>1, <2>2
    <3> QED
      BY <3>1 DEF RisesFrom, Ascends
  <2>3. CASE k = Len(s) + 1
    <3>1. t[k] = out[1] /\ t[k - 1] = s[Len(s)] /\ s # <<>> /\ out # <<>>
      BY <1>1, <1>2, <2>1, <2>3
    <3> QED
      BY <1>3, <3>1
  <2>4. CASE k > Len(s) + 1
    <3> DEFINE i == k - Len(s)
    <3>1. t[k] = out[i] /\ t[k - 1] = out[i - 1] /\ i \in 2 .. Len(out)
      <4>1. i \in 2 .. Len(out) /\ i \in Int /\ ~(k <= Len(s)) /\ ~(k - 1 <= Len(s))
        BY <1>1, <1>2, <2>1, <2>4
      <4>2. (k - 1) - Len(s) = i - 1
        BY <1>2
      <4>3. t[k] = out[k - Len(s)] /\ t[k - 1] = out[(k - 1) - Len(s)]
        BY <1>1, <2>1, <4>1
      <4> QED
        BY <4>1, <4>2, <4>3
    <3> HIDE DEF i
    <3> QED
      BY <3>1 DEF GoesOn, Ascends
  <2> QED
    BY <1>2, <2>1, <2>2, <2>3, <2>4
<1>6. t # <<>> => t[1] = IF s = <<>> THEN out[1] ELSE s[1]
  BY <1>1, <1>2, <1>2a
<1>7. RisesFrom(x, t, d, e)
  <2>1. Ascends(t, d, e)
    BY <1>5 DEF Ascends
  <2>2. t # <<>> /\ s = <<>> => out # <<>>
    BY <1>1, <1>2, <1>2a
  <2> QED
    BY <1>4, <1>6, <2>1, <2>2 DEF RisesFrom
<1>8. Ahead(LastOf(x, t), v, d, e)
  <2>1. CASE out = <<>>
    <3>1. LastOf(x, t) = LastOf(x, s)
      BY <1>1, <1>2, <1>2a, <2>1 DEF LastOf
    <3>2. LastOf(x, s) \in Nat
      BY <1>2 DEF LastOf
    <3>3. v >= w /\ (e => v = w)
      BY <2>1 DEF GoesOn
    <3> QED
      BY <3>1, <3>2, <3>3 DEF Ahead, Follows
  <2>2. CASE out # <<>>
    <3>1. LastOf(x, t) = out[Len(out)]
      BY <1>1, <1>2, <1>2a, <2>2 DEF LastOf
    <3> QED
      BY <2>2, <3>1 DEF Ahead, GoesOn
  <2> QED
    BY <2>1, <2>2
<1> QED
  BY <1>1, <1>7, <1>8 DEF t

Parts(s, m, a, b) == a = SubSeq(s, 1, m) /\ b = SubSeq(s, m + 1, Len(s))

LEMMA Splits ==
  ASSUME NEW x \in Nat, NEW s \in Sounds, NEW d \in Nat, NEW e \in BOOLEAN, RisesFrom(x, s, d, e),
         NEW m \in 0 .. Len(s), NEW a, NEW b, Parts(s, m, a, b)
  PROVE  /\ a \in Sounds /\ b \in Sounds /\ Len(b) = Len(s) - m
         /\ RisesFrom(x, a, d, e) /\ RisesFrom(LastOf(x, a), b, d, e)
         /\ LastOf(LastOf(x, a), b) = LastOf(x, s)
<1> USE DEF Parts
<1>1. Len(s) \in Nat /\ \A k \in 1 .. Len(s) : s[k] \in Nat \ {0}
  BY DEF Sounds
<1>2. /\ a \in Sounds /\ Len(a) = m
      /\ \A k \in 1 .. m : a[k] = s[k]
  <2>1. \A k \in 1 .. m : s[k] \in Nat \ {0}
    BY <1>1
  <2>2. /\ SubSeq(s, 1, m) \in Seq(Nat \ {0})
        /\ Len(SubSeq(s, 1, m)) = (IF 1 <= m THEN m - 1 + 1 ELSE 0)
        /\ \A k \in 1 .. m - 1 + 1 : SubSeq(s, 1, m)[k] = s[1 + k - 1]
    BY <1>1, <2>1, SubSeqProperties
  <2> HIDE DEF Sounds
  <2>3. a \in Sounds
    BY <2>2 DEF Sounds
  <2>4. \A k \in 1 .. m : 1 + k - 1 = k
    BY <1>1
  <2> QED
    BY <1>1, <2>2, <2>3, <2>4
<1>3. /\ b \in Sounds /\ Len(b) = Len(s) - m
      /\ \A k \in 1 .. Len(s) - m : b[k] = s[m + k]
  <2> DEFINE l == Len(s)
  <2>1. l \in Nat /\ \A k \in m + 1 .. l : s[k] \in Nat \ {0}
    BY <1>1
  <2>2. /\ SubSeq(s, m + 1, l) \in Seq(Nat \ {0})
        /\ Len(SubSeq(s, m + 1, l)) = (IF m + 1 <= l THEN l - (m + 1) + 1 ELSE 0)
        /\ \A k \in 1 .. l - (m + 1) + 1 : SubSeq(s, m + 1, l)[k] = s[m + 1 + k - 1]
    BY <1>1, <2>1, SubSeqProperties
  <2>3. b \in Sounds
    BY <2>2 DEF Sounds
  <2>4. \A k \in 1 .. l - m : m + 1 + k - 1 = m + k /\ k \in 1 .. l - (m + 1) + 1
    BY <1>1
  <2> QED
    BY <1>1, <2>2, <2>3, <2>4
<1>4. (a = <<>> <=> m = 0) /\ (b = <<>> <=> m = Len(s)) /\ (s = <<>> <=> Len(s) = 0)
  <2>1. \A z \in Sounds : z = <<>> <=> Len(z) = 0
    BY EmptySeq DEF Sounds
  <2> HIDE DEF Sounds
  <2>2. b = <<>> <=> Len(b) = 0
    BY <1>3, <2>1
  <2>3. Len(b) = 0 <=> m = Len(s)
    BY <1>1, <1>3
  <2> QED
    BY <1>2, <2>1, <2>2, <2>3
<1>5. \A k \in 2 .. Len(s) : Follows(s[k - 1], s[k], d, e)
  BY DEF RisesFrom, Ascends
<1>6. Ascends(a, d, e)
  BY <1>1, <1>2, <1>5 DEF Ascends
<1>7. Ascends(b, d, e)
  <2>1. ASSUME NEW k \in 2 .. Len(s) - m
        PROVE  Follows(b[k - 1], b[k], d, e)
    <3>1. m + k \in 2 .. Len(s) /\ m + (k - 1) = (m + k) - 1 /\ k \in 1 .. Len(s) - m /\ k - 1 \in 1 .. Len(s) - m
      BY <1>1
    <3> QED
      BY <1>3, <1>5, <3>1
  <2> QED
    BY <1>3, <2>1 DEF Ascends
<1>8. x # 0 /\ s # <<>> => Follows(x, s[1], d, e)
  BY DEF RisesFrom
<1>9. RisesFrom(x, a, d, e)
  BY <1>1, <1>2, <1>4, <1>6, <1>8 DEF RisesFrom
<1>10. RisesFrom(LastOf(x, a), b, d, e)
  <2>1. CASE m = 0
    BY <1>1, <1>3, <1>4, <1>7, <1>8, <2>1 DEF RisesFrom, LastOf
  <2>2. CASE m # 0
    <3>1. LastOf(x, a) = s[m]
      BY <1>2, <1>4, <2>2 DEF LastOf
    <3>2. ASSUME b # <<>>
          PROVE  Follows(s[m], b[1], d, e)
      <4>1. m + 1 \in 2 .. Len(s) /\ (m + 1) - 1 = m /\ 1 \in 1 .. Len(s) - m
        BY <1>1, <1>4, <2>2, <3>2
      <4> QED
        BY <1>3, <1>5, <4>1
    <3> QED
      BY <1>7, <3>1, <3>2 DEF RisesFrom
  <2> QED
    BY <2>1, <2>2
<1>11. LastOf(LastOf(x, a), b) = LastOf(x, s)
  <2>1. CASE m = Len(s)
    BY <1>1, <1>2, <1>4, <2>1 DEF LastOf
  <2>2. CASE m # Len(s)
    <3>1. b[Len(b)] = s[Len(s)]
      <4>1. Len(s) - m \in 1 .. Len(s) - m /\ m + (Len(s) - m) = Len(s)
        BY <1>1, <2>2
      <4> QED
        BY <1>3, <4>1
    <3>2. s # <<>>
      BY <1>1, <1>4, <2>2
    <3> QED
      BY <1>4, <2>2, <3>1, <3>2 DEF LastOf
  <2> QED
    BY <2>1, <2>2
<1> QED
  BY <1>2, <1>3, <1>9, <1>10, <1>11

-----------------------------------------------------------------------------
(***************************************************************************)
(* Blocks.                                                                 *)
(***************************************************************************)
Flat(bs) == [k \in 1 .. Len(bs) * FrameSamples |->
               bs[((k - 1) \div FrameSamples) + 1][((k - 1) % FrameSamples) + 1]]

AreBlocks(bs) == bs \in Seq(Sounds) /\ \A j \in 1 .. Len(bs) : Len(bs[j]) = FrameSamples

LEMMA PlaceInBlocks ==
  ASSUME NEW f \in Nat \ {0}, NEW n \in Nat, NEW k \in 1 .. n * f
  PROVE  /\ (k - 1) \div f \in 0 .. n - 1 /\ (k - 1) % f \in 0 .. f - 1
         /\ k = (f * ((k - 1) \div f)) + (((k - 1) % f) + 1)
<1> DEFINE j == (k - 1) \div f
           i == (k - 1) % f
<1>1. n * f \in Nat
  OBVIOUS
<1>2. k - 1 \in Nat /\ k - 1 \in Int /\ k - 1 >= 0 /\ k - 1 < n * f /\ k \in Int
  BY <1>1
<1> DEFINE a == k - 1
<1>3. a \in Nat /\ a \in Int /\ a >= 0 /\ a < n * f
  BY <1>2
<1> HIDE DEF a
<1>4. a \div f < n
  BY <1>3, QuotientBound
<1>5. a \div f \in Int /\ a % f \in 0 .. f - 1 /\ a = (f * (a \div f)) + (a % f) /\ a \div f >= 0
  BY <1>3, Dividing, Zenon
<1>6. j = a \div f /\ i = a % f
  BY Zenon DEF a
<1> HIDE DEF i, j
<1>7. j \in Int /\ j >= 0 /\ j < n /\ i \in 0 .. f - 1 /\ a = (f * j) + i
  BY <1>4, <1>5, <1>6, Zenon
<1>8. f * j \in Int
  BY <1>7
<1>9. j \in 0 .. n - 1 /\ i \in 0 .. f - 1 /\ k = (f * j) + (i + 1)
  BY <1>2, <1>7, <1>8 DEF a
<1> QED
  BY <1>9, Zenon DEF i, j

LEMMA FlatShape ==
  ASSUME FrameSamples \in Nat \ {0}, NEW bs, AreBlocks(bs), NEW x
  PROVE  /\ Flat(bs) \in Sounds /\ Len(Flat(bs)) = Len(bs) * FrameSamples
         /\ LastOf(x, Flat(bs)) = IF bs = <<>> THEN x ELSE bs[Len(bs)][FrameSamples]
<1> DEFINE f == FrameSamples
           n == Len(bs)
           m == n * f
<1>1. f \in Nat \ {0} /\ n \in Nat /\ m \in Nat
  BY DEF AreBlocks
<1>2. \A j \in 1 .. n : /\ bs[j] \in Sounds /\ Len(bs[j]) = f
  BY DEF AreBlocks
<1>3. Flat(bs) = [k \in 1 .. m |-> bs[((k - 1) \div f) + 1][((k - 1) % f) + 1]]
  BY Zenon DEF Flat
<1> HIDE DEF f, n, m
<1>4. \A j \in 1 .. n, i \in 1 .. f : bs[j][i] \in Nat \ {0}
  BY <1>1, <1>2 DEF Sounds
<1>5. ASSUME NEW k \in 1 .. m
      PROVE  Flat(bs)[k] \in Nat \ {0}
  <2> DEFINE j == (k - 1) \div f
             i == (k - 1) % f
  <2>1. Flat(bs)[k] = bs[j + 1][i + 1]
    BY <1>3, Zenon
  <2>2. j \in 0 .. n - 1 /\ i \in 0 .. f - 1
    BY <1>1, PlaceInBlocks, Zenon DEF m
  <2> HIDE DEF i, j
  <2>3. j + 1 \in 1 .. n /\ i + 1 \in 1 .. f
    BY <1>1, <2>2
  <2> QED
    BY <1>4, <2>1, <2>3
<1>6. Flat(bs) = [k \in 1 .. m |-> Flat(bs)[k]]
  BY <1>3, Zenon
<1>7. Flat(bs) \in Seq(Nat \ {0}) /\ Len(Flat(bs)) = m
  BY <1>1, <1>5, <1>6, AsSequence
<1>8. bs = <<>> <=> n = 0
  BY <1>1, EmptySeq DEF AreBlocks, n
<1>9. Flat(bs) = <<>> <=> m = 0
  BY <1>1, <1>7, EmptySeq
<1>10. m = 0 <=> n = 0
  BY <1>1 DEF m
<1>11. ASSUME n # 0
       PROVE  Flat(bs)[m] = bs[n][f]
  <2> DEFINE j == (m - 1) \div f
             i == (m - 1) % f
  <2>1. m \in 1 .. m
    BY <1>1, <1>10, <1>11
  <2>2. Flat(bs)[m] = bs[j + 1][i + 1]
    BY <1>3, <2>1, Zenon
  <2>3. j \in 0 .. n - 1 /\ i \in 0 .. f - 1 /\ m = (f * j) + (i + 1)
    <3>1. m \in 1 .. n * f
      BY <2>1, Zenon DEF m
    <3> QED
      BY <1>1, <3>1, PlaceInBlocks, Zenon
  <2> HIDE DEF i, j
  <2>4. j = n - 1
    <3>1. ASSUME j < n - 1
          PROVE  FALSE
      <4>1. f * (j + 1) <= f * (n - 1)
        BY <1>1, <2>3, <3>1
      <4>2. f * (j + 1) = f * j + f /\ f * (n - 1) = n * f - f /\ f * j \in Int /\ n * f \in Int
        BY <1>1, <2>3
      <4> QED
        BY <1>1, <2>3, <4>1, <4>2 DEF m
    <3> QED
      BY <1>1, <2>3, <3>1
  <2>5. i + 1 = f
    <3>1. f * (n - 1) = n * f - f /\ n * f \in Int
      BY <1>1
    <3> QED
      BY <1>1, <2>3, <2>4, <3>1 DEF m
  <2>6. j + 1 = n
    BY <1>1, <2>4
  <2> QED
    BY <2>2, <2>5, <2>6
<1> QED
  BY <1>7, <1>8, <1>9, <1>10, <1>11, Zenon DEF LastOf, Sounds, m, n, f

\* Blocks are the samples in their order; what is short of a block is behind them.
LEMMA Cutting ==
  ASSUME FrameSamples \in Nat \ {0}, NEW pcm \in Sounds
  PROVE  /\ AreBlocks(CutBlocks(pcm))
         /\ Len(CutBlocks(pcm)) * FrameSamples \in 0 .. Len(pcm)
         /\ Len(pcm) - Len(CutBlocks(pcm)) * FrameSamples < FrameSamples
         /\ Flat(CutBlocks(pcm)) = SubSeq(pcm, 1, Len(CutBlocks(pcm)) * FrameSamples)
<1> DEFINE f == FrameSamples
           z == Len(pcm)
           n == z \div f
           m == n * f
           cut == CutBlocks(pcm)
<1>1. f \in Nat \ {0} /\ z \in Nat /\ z \in Int /\ z >= 0 /\ \A k \in 1 .. z : pcm[k] \in Nat \ {0}
  BY DEF Sounds
<1> HIDE DEF f, z
<1>2. n \in Int /\ z % f \in 0 .. f - 1 /\ z = (f * n) + (z % f) /\ n >= 0
  BY <1>1, Dividing, Zenon
<1> HIDE DEF n
<1>3. m = f * n /\ m \in Nat /\ n \in Nat /\ m <= z /\ z - m < f
  <2>1. f * n \in Nat /\ n * f = f * n
    BY <1>1, <1>2
  <2> QED
    BY <1>1, <1>2, <2>1
<1>4. cut = [k \in 1 .. n |-> SubSeq(pcm, (k - 1) * f + 1, k * f)]
  BY Zenon DEF CutBlocks, f, n, z
<1> HIDE DEF cut, m
<1>5. ASSUME NEW j \in 1 .. n
      PROVE  /\ cut[j] \in Sounds /\ Len(cut[j]) = f
             /\ \A i \in 1 .. f : cut[j][i] = pcm[(j - 1) * f + i]
  <2> DEFINE a == (j - 1) * f
             b == j * f
  <2>1. a \in Nat /\ b \in Nat /\ b = a + f /\ b <= m
    <3>1. (j - 1) * f + f = j * f /\ j - 1 \in Nat
      BY <1>1, <1>3
    <3>2. j * f <= n * f /\ (j - 1) * f \in Nat
      BY <1>1, <1>3, <3>1
    <3> QED
      BY <1>1, <3>1, <3>2 DEF m
  <2>2. cut[j] = SubSeq(pcm, a + 1, b)
    BY <1>4, Zenon
  <2> HIDE DEF a, b
  <2>3. \A k \in a + 1 .. b : pcm[k] \in Nat \ {0}
    BY <1>1, <1>3, <2>1
  <2> DEFINE c == a + 1
  <2>4. c \in Int /\ b \in Int /\ \A k \in c .. b : pcm[k] \in Nat \ {0}
    BY <2>1, <2>3
  <2>5. /\ SubSeq(pcm, c, b) \in Seq(Nat \ {0})
        /\ Len(SubSeq(pcm, c, b)) = (IF c <= b THEN b - c + 1 ELSE 0)
        /\ \A k \in 1 .. b - c + 1 : SubSeq(pcm, c, b)[k] = pcm[c + k - 1]
    BY <2>4, SubSeqProperties
  <2>6. c <= b /\ b - c + 1 = f /\ \A k \in 1 .. f : c + k - 1 = a + k
    BY <1>1, <2>1
  <2>7. SubSeq(pcm, c, b) \in Sounds
    BY <2>5 DEF Sounds
  <2>8. \A i \in 1 .. f : cut[j][i] = pcm[a + i]
    BY <2>2, <2>5, <2>6
  <2>9. cut[j] \in Sounds /\ Len(cut[j]) = f
    BY <2>2, <2>5, <2>6, <2>7
  <2> QED
    BY <2>8, <2>9, Zenon DEF a
<1>6. cut \in Seq(Sounds) /\ Len(cut) = n
  <2>1. cut = [k \in 1 .. n |-> cut[k]]
    BY <1>4, Zenon
  <2>2. \A k \in 1 .. n : cut[k] \in Sounds
    BY <1>5
  <2> HIDE DEF Sounds
  <2> QED
    BY <1>3, <2>1, <2>2
<1>7. AreBlocks(cut)
  BY <1>5, <1>6, Zenon DEF AreBlocks, f
<1>8. Flat(cut) = SubSeq(pcm, 1, m)
  <2> DEFINE flat == Flat(cut)
             head == SubSeq(pcm, 1, m)
  <2>1. flat = [k \in 1 .. m |-> cut[((k - 1) \div f) + 1][((k - 1) % f) + 1]]
    BY <1>6, Zenon DEF Flat, m, f
  <2>2. \A k \in 1 .. m : pcm[k] \in Nat \ {0}
    BY <1>1, <1>3
  <2>3. /\ head \in Seq(Nat \ {0}) /\ Len(head) = (IF 1 <= m THEN m - 1 + 1 ELSE 0)
        /\ \A k \in 1 .. m - 1 + 1 : head[k] = pcm[1 + k - 1]
    BY <1>3, <2>2, SubSeqProperties
  <2>4. Len(head) = m /\ \A k \in 1 .. m : head[k] = pcm[k]
    <3>1. \A k \in 1 .. m : k \in 1 .. m - 1 + 1 /\ 1 + k - 1 = k
      BY <1>3
    <3> HIDE DEF head
    <3> QED
      BY <1>3, <2>3, <3>1
  <2>5. ASSUME NEW k \in 1 .. m
        PROVE  flat[k] = pcm[k]
    <3> DEFINE j == (k - 1) \div f
               i == (k - 1) % f
    <3>1. flat[k] = cut[j + 1][i + 1]
      BY <2>1, Zenon
    <3>2. j \in 0 .. n - 1 /\ i \in 0 .. f - 1 /\ k = (f * j) + (i + 1)
      <4>1. k \in 1 .. n * f
        BY Zenon DEF m
      <4> QED
        BY <1>1, <1>3, <4>1, PlaceInBlocks, Zenon
    <3> HIDE DEF i, j
    <3>3. j + 1 \in 1 .. n /\ i + 1 \in 1 .. f /\ (j + 1) - 1 = j
      BY <1>1, <1>3, <3>2
    <3>4. cut[j + 1][i + 1] = pcm[((j + 1) - 1) * f + (i + 1)]
      BY <1>5, <3>3
    <3>5. ((j + 1) - 1) * f + (i + 1) = k
      <4>1. j * f = f * j
        BY <1>1, <3>2
      <4> QED
        BY <3>2, <3>3, <4>1
    <3> QED
      BY <3>1, <3>4, <3>5
  <2>6. DOMAIN flat = 1 .. m /\ flat = [k \in 1 .. m |-> flat[k]]
    BY <2>1, Zenon
  <2>7. head = [k \in 1 .. m |-> head[k]]
    BY <2>3, <2>4
  <2> HIDE DEF flat, head
  <2>8. \A k \in 1 .. m : flat[k] = head[k]
    BY <2>4, <2>5
  <2>9. flat = head
    BY <2>6, <2>7, <2>8, Zenon
  <2> QED
    BY <2>9 DEF flat, head
<1> QED
  <2>1. m \in 0 .. z
    BY <1>1, <1>3
  <2>2. Len(cut) * f = m
    BY <1>6 DEF m
  <2> QED
    BY <1>3, <1>7, <1>8, <2>1, <2>2, Zenon DEF cut, f, z

-----------------------------------------------------------------------------
(***************************************************************************)
(* A connection.                                                           *)
(***************************************************************************)
LEMMA NextSaidIsNat ==
  ASSUME InputAssumption, NEW i, NEW e \in BOOLEAN, NEW r, NEW p \in Nat, Ready(r, i, p, e)
  PROVE  NextSaid(r, p) \in Nat
<1>1. LineRate \in Nat \ {0} /\ r.pos \in Nat
  BY DEF InputAssumption, Ready, Resampler
<1>2. CASE r.buf = <<>>
  BY <1>1, <1>2 DEF NextSaid
<1>3. CASE r.buf # <<>>
  <2>1. PICK q \in 1 .. p : r.buf = <<q * LineRate>>
    BY <1>3 DEF Ready, Kept
  <2>2. q * LineRate \in Nat
    BY <1>1
  <2>3. r.buf[1] \in Nat
    BY <2>1, <2>2
  <2> QED
    BY <1>1, <1>3, <2>3 DEF NextSaid
<1> QED
  BY <1>2, <1>3

\* A message of n samples at any rate.
LEMMA ProcessesOn ==
  ASSUME InputAssumption, NEW i \in Nat \ {0}, NEW e \in BOOLEAN, NEW r,
         NEW p \in Nat, NEW n \in Nat, p + n <= MaxSamples, Ready(r, i, p, e)
  PROVE  /\ Ready(Process(r, RampFrom(p, n)).next, i, p + n, e)
         /\ GoesOn(Process(r, RampFrom(p, n)).out, NextSaid(r, p),
                   NextSaid(Process(r, RampFrom(p, n)).next, p + n), i, e)
<1> DEFINE made == Process(r, RampFrom(p, n))
<1>1. RampFrom(p, n) = <<>> <=> n = 0
  BY RampShape
<1>2. r.inRate = i /\ r.outRate = LineRate
  BY DEF Ready
<1>3. CASE n = 0
  <2>1. made.next = r /\ made.out = <<>>
    BY <1>1, <1>3 DEF Process
  <2>2. p + n = p /\ NextSaid(r, p) \in Nat
    BY <1>3, NextSaidIsNat
  <2>3. Ascends(<<>>, i, e) /\ <<>> \in Seq(Nat \ {0})
    BY DEF Ascends
  <2> QED
    BY <2>1, <2>2, <2>3 DEF GoesOn
<1>4. CASE n # 0 /\ i = LineRate
  <2>1. made.next = r /\ made.out = RampFrom(p, n)
    BY <1>1, <1>2, <1>4, Zenon DEF Process
  <2>2. r.buf = <<>> /\ Ready(r, i, p + n, e)
    BY <1>4 DEF Ready
  <2>3. NextSaid(r, p) = (p + 1) * LineRate /\ NextSaid(r, p + n) = (p + n + 1) * LineRate
    BY <2>2, Zenon DEF NextSaid
  <2>4. GoesOn(RampFrom(p, n), (p + 1) * LineRate, (p + n + 1) * LineRate, LineRate, e)
    BY PassesOn
  <2> QED
    BY <1>4, <2>1, <2>2, <2>3, <2>4, Zenon
<1>5. CASE n # 0 /\ i # LineRate
  <2>1. n \in Nat \ {0}
    BY <1>5
  <2> QED
    BY <1>5, <2>1, ConvertsOn
<1> QED
  BY <1>3, <1>4, <1>5

\* What a connection has said, and what it keeps for its next block and its next sample.
Saying(s, p, x, e) ==
  /\ Ready(s.resampler, s.rate, p, e)
  /\ RisesFrom(x, s.pcmBuf, s.rate, e)
  /\ Ahead(LastOf(x, s.pcmBuf), NextSaid(s.resampler, p), s.rate, e)

Inputs == [rate : Nat, resampler : Resampler, pcmBuf : Sounds]

Talks(s, p, bs, b, miss) ==
  /\ AreBlocks(bs) /\ Len(s.pcmBuf) < FrameSamples
  /\ s.rate = 0 => bs = <<>> /\ b = 0 /\ s.pcmBuf = <<>> /\ s.resampler.buf = <<>>
  /\ s.rate # 0 => /\ RisesFrom(b, Flat(bs), s.rate, ~miss)
                   /\ Saying(s, p, LastOf(b, Flat(bs)), ~miss)

\* The blocks cut of a sequence that rises, and what is left of it.
CutOff(pcm, cut, rest) ==
  cut = CutBlocks(pcm) /\ rest = SubSeq(pcm, Len(cut) * FrameSamples + 1, Len(pcm))

LEMMA CutsRising ==
  ASSUME FrameSamples \in Nat \ {0}, NEW pcm \in Sounds, NEW x \in Nat, NEW d \in Nat, NEW e \in BOOLEAN,
         RisesFrom(x, pcm, d, e), NEW cut, NEW rest, CutOff(pcm, cut, rest)
  PROVE  /\ rest \in Sounds /\ Len(rest) = Len(pcm) - Len(cut) * FrameSamples
         /\ RisesFrom(x, Flat(cut), d, e) /\ RisesFrom(LastOf(x, Flat(cut)), rest, d, e)
         /\ LastOf(LastOf(x, Flat(cut)), rest) = LastOf(x, pcm)
<1> DEFINE m == Len(cut) * FrameSamples
<1>1. m \in 0 .. Len(pcm) /\ Flat(cut) = SubSeq(pcm, 1, m)
  BY Cutting DEF CutOff
<1>2. Parts(pcm, m, Flat(cut), rest)
  BY <1>1, Zenon DEF Parts, CutOff
<1> HIDE DEF m
<1>3. /\ rest \in Sounds /\ Len(rest) = Len(pcm) - m
      /\ RisesFrom(x, Flat(cut), d, e) /\ RisesFrom(LastOf(x, Flat(cut)), rest, d, e)
      /\ LastOf(LastOf(x, Flat(cut)), rest) = LastOf(x, pcm)
  BY <1>1, <1>2, Splits
<1> QED
  BY <1>3, Zenon DEF m

\* A message that is converted and cut.
Utters(s, p, n, made, pcm, cut, t) ==
  /\ made = Process(s.resampler, RampFrom(p, n)) /\ pcm = s.pcmBuf \o made.out
  /\ cut = CutBlocks(pcm)
  /\ t = [s EXCEPT !.resampler = made.next,
                    !.pcmBuf = SubSeq(pcm, Len(cut) * FrameSamples + 1, Len(pcm))]

LEMMA TalksOn ==
  ASSUME InputAssumption, NEW miss \in BOOLEAN, NEW p \in Nat, NEW n \in Nat, p + n <= MaxSamples,
         NEW s \in Inputs, s.rate # 0, NEW x \in Nat, Saying(s, p, x, ~miss),
         NEW made, NEW pcm, NEW cut, NEW t, Utters(s, p, n, made, pcm, cut, t)
  PROVE  t \in Inputs /\ t.rate = s.rate /\ Talks(t, p + n, cut, x, miss)
<1> DEFINE e == ~miss
           d == s.rate
           r == s.resampler
           m == Len(cut) * FrameSamples
           rest == SubSeq(pcm, m + 1, Len(pcm))
<1>0. e \in BOOLEAN
  OBVIOUS
<1>1. d \in Nat \ {0} /\ s.pcmBuf \in Sounds /\ FrameSamples \in Nat \ {0}
  BY DEF Inputs, InputAssumption
<1>2. Ready(r, d, p, e) /\ RisesFrom(x, s.pcmBuf, d, e) /\ Ahead(LastOf(x, s.pcmBuf), NextSaid(r, p), d, e)
  BY Zenon DEF Saying
<1> HIDE DEF d, r, e
<1>3. made = Process(r, RampFrom(p, n))
  BY Zenon DEF r, Utters
<1>4. Ready(made.next, d, p + n, e) /\ GoesOn(made.out, NextSaid(r, p), NextSaid(made.next, p + n), d, e)
  BY <1>0, <1>1, <1>2, <1>3, ProcessesOn, Zenon
<1>5. NextSaid(r, p) \in Nat /\ NextSaid(made.next, p + n) \in Nat
  BY <1>0, <1>2, <1>4, NextSaidIsNat
<1> DEFINE w == NextSaid(r, p)
           v == NextSaid(made.next, p + n)
<1>6. /\ pcm \in Sounds
      /\ RisesFrom(x, pcm, d, e) /\ Ahead(LastOf(x, pcm), v, d, e)
  <2>1. made.out \in Sounds
    BY <1>4 DEF GoesOn, Sounds
  <2>2. w \in Nat /\ v \in Nat /\ Ahead(LastOf(x, s.pcmBuf), w, d, e) /\ GoesOn(made.out, w, v, d, e)
    BY <1>2, <1>4, <1>5
  <2> HIDE DEF w, v
  <2> QED
    <3>1. pcm = s.pcmBuf \o made.out
      BY Zenon DEF Utters
    <3>2. /\ s.pcmBuf \o made.out \in Sounds
          /\ RisesFrom(x, s.pcmBuf \o made.out, d, e) /\ Ahead(LastOf(x, s.pcmBuf \o made.out), v, d, e)
      BY <1>0, <1>1, <1>2, <2>1, <2>2, Joins
    <3> QED
      BY <3>1, <3>2, Zenon
<1> HIDE DEF w, v
<1>7. /\ AreBlocks(cut) /\ m \in 0 .. Len(pcm) /\ Len(pcm) - m < FrameSamples
      /\ Flat(cut) = SubSeq(pcm, 1, m)
  <2>1. cut = CutBlocks(pcm)
    BY Zenon DEF Utters
  <2> QED
    BY <1>1, <1>6, <2>1, Cutting, Zenon
<1> HIDE DEF m
<1>8. /\ rest \in Sounds /\ Len(rest) = Len(pcm) - m
      /\ RisesFrom(x, Flat(cut), d, e) /\ RisesFrom(LastOf(x, Flat(cut)), rest, d, e)
      /\ LastOf(LastOf(x, Flat(cut)), rest) = LastOf(x, pcm)
  <2>1. CutOff(pcm, cut, rest)
    BY Zenon DEF CutOff, m, Utters
  <2>2. d \in Nat
    BY <1>1
  <2> HIDE DEF rest
  <2> QED
    <3>1. /\ rest \in Sounds /\ Len(rest) = Len(pcm) - Len(cut) * FrameSamples
          /\ RisesFrom(x, Flat(cut), d, e) /\ RisesFrom(LastOf(x, Flat(cut)), rest, d, e)
          /\ LastOf(LastOf(x, Flat(cut)), rest) = LastOf(x, pcm)
      BY <1>0, <1>1, <1>6, <2>1, <2>2, CutsRising
    <3> QED
      BY <3>1, Zenon DEF m
<1>9. t = [s EXCEPT !.resampler = made.next, !.pcmBuf = rest]
  BY Zenon DEF m, Utters
<1> HIDE DEF rest
<1>10. made.next \in Resampler
  BY <1>4 DEF Ready
<1>11. t \in Inputs /\ t.rate = d /\ t.resampler = made.next /\ t.pcmBuf = rest
  <2> HIDE DEF Sounds
  <2> QED
    BY <1>8, <1>9, <1>10 DEF Inputs, d
<1>12. Len(t.pcmBuf) < FrameSamples
  BY <1>7, <1>8, <1>11
<1>13. Saying(t, p + n, LastOf(x, Flat(cut)), e)
  <2>1. Ahead(LastOf(x, pcm), NextSaid(made.next, p + n), d, e)
    BY <1>6 DEF v
  <2> QED
    BY <1>4, <1>8, <1>11, <2>1, Zenon DEF Saying
<1>15. Talks(t, p + n, cut, x, miss)
  BY <1>1, <1>7, <1>8, <1>11, <1>12, <1>13, Zenon DEF Talks, e
<1> QED
  BY <1>11, <1>15, Zenon DEF d

\* Sounds that are ignored: what is kept waits, and the next sample is a later one.
LEMMA WaitsOn ==
  ASSUME InputAssumption, NEW e \in BOOLEAN, NEW p \in Nat, NEW n \in Nat,
         NEW s \in Inputs, NEW x \in Nat, Saying(s, p, x, e)
  PROVE  Saying(s, p + n, x, FALSE)
<1> DEFINE r == s.resampler
           w == NextSaid(r, p)
           v == NextSaid(r, p + n)
<1>1. Ready(r, s.rate, p, e) /\ RisesFrom(x, s.pcmBuf, s.rate, e) /\ Ahead(LastOf(x, s.pcmBuf), w, s.rate, e)
  BY DEF Saying
<1>2. Ready(r, s.rate, p + n, FALSE)
  <2>1. Kept(r, p, e) => Kept(r, p + n, FALSE)
    <3>1. \A q \in 1 .. p : q \in 1 .. p + n
      OBVIOUS
    <3> QED
      BY <3>1, Zenon DEF Kept
  <2> QED
    BY <1>1, <2>1, Zenon DEF Ready
<1>3. RisesFrom(x, s.pcmBuf, s.rate, FALSE)
  BY <1>1, Zenon DEF RisesFrom, Ascends, Follows
<1>4. w \in Nat /\ v \in Nat
  <2>1. p + n \in Nat /\ FALSE \in BOOLEAN
    OBVIOUS
  <2>2. v \in Nat
    BY <1>2, <2>1, NextSaidIsNat
  <2> QED
    BY <1>1, <2>2, NextSaidIsNat
<1>5. w <= v
  <2>1. (p + 1) * LineRate <= (p + n + 1) * LineRate
    BY DEF InputAssumption
  <2> QED
    BY <1>4, <2>1 DEF NextSaid
<1>6. Ahead(LastOf(x, s.pcmBuf), v, s.rate, FALSE)
  <2>1. LastOf(x, s.pcmBuf) \in Nat
    <3> DEFINE z == s.pcmBuf
    <3>1. z \in Seq(Nat \ {0})
      BY DEF Inputs, Sounds
    <3>2. z # <<>> => Len(z) \in 1 .. Len(z)
      BY <3>1, EmptySeq
    <3> HIDE DEF z
    <3>3. z # <<>> => z[Len(z)] \in Nat
      BY <3>1, <3>2
    <3> QED
      BY <3>3 DEF LastOf, z
  <2> HIDE DEF w, v, r
  <2> QED
    BY <1>1, <1>4, <1>5, <2>1 DEF Ahead, Follows
<1> QED
  BY <1>2, <1>3, <1>6, Zenon DEF Saying

-----------------------------------------------------------------------------
(***************************************************************************)
(* The inductive invariant: each connection has said, without a seam, all  *)
(* that was cut into blocks, and what it keeps goes on from there.         *)
(***************************************************************************)
InputShapes ==
  /\ wsInputRate \in Rates \cup {LineRate}
  /\ state \in [Client -> Inputs]
  /\ place \in [Client -> Nat]
  /\ blocks \in [Client -> Seq(Sounds)]
  /\ before \in [Client -> Nat]
  /\ missed \in [Client -> BOOLEAN]

InputIInv ==
  InputShapes /\ \A c \in Client : Talks(state[c], place[c], blocks[c], before[c], missed[c])

LEMMA NothingSaid ==
  ASSUME InputAssumption
  PROVE  /\ <<>> \in Sounds /\ AreBlocks(<<>>) /\ Flat(<<>>) = <<>>
         /\ \A x : LastOf(x, Flat(<<>>)) = x
         /\ \A x, d, e : RisesFrom(x, Flat(<<>>), d, e) /\ RisesFrom(x, <<>>, d, e)
<1>1. <<>> \in Sounds /\ AreBlocks(<<>>)
  BY DEF Sounds, AreBlocks
<1>2. FrameSamples \in Nat \ {0}
  BY DEF InputAssumption
<1>3. Flat(<<>>) = <<>>
  <2>1. Flat(<<>>) \in Sounds /\ Len(Flat(<<>>)) = Len(<<>>) * FrameSamples
    BY <1>1, <1>2, FlatShape
  <2>2. Len(Flat(<<>>)) = 0
    BY <1>2, <2>1
  <2> DEFINE z == Flat(<<>>)
  <2>3. z \in Seq(Nat \ {0}) /\ Len(z) = 0
    BY <2>1, <2>2 DEF Sounds
  <2> HIDE DEF z
  <2>4. z = <<>>
    BY <2>3, EmptySeq
  <2> QED
    BY <2>4 DEF z
<1>4. \A d, e : Ascends(<<>>, d, e)
  BY DEF Ascends
<1> QED
  BY <1>1, <1>3, <1>4, Zenon DEF LastOf, RisesFrom

LEMMA InputInitIInv ==
  ASSUME InputAssumption, InputInit
  PROVE  InputIInv
<1>1. NoInput \in Inputs
  BY NothingSaid DEF NoInput, NewResampler, Inputs, Resampler
<1>2. InputShapes
  <2>1. /\ wsInputRate = LineRate
        /\ state = [c \in Client |-> NoInput] /\ place = [c \in Client |-> 0]
        /\ blocks = [c \in Client |-> <<>>] /\ before = [c \in Client |-> 0]
        /\ missed = [c \in Client |-> FALSE]
    BY Zenon DEF InputInit
  <2> QED
    BY <1>1, <2>1 DEF InputShapes
<1>3. ASSUME NEW c \in Client
      PROVE  Talks(state[c], place[c], blocks[c], before[c], missed[c])
  <2>1. state[c] = NoInput /\ blocks[c] = <<>> /\ before[c] = 0
    BY Zenon DEF InputInit
  <2>2. NoInput.rate = 0 /\ NoInput.pcmBuf = <<>> /\ NoInput.resampler.buf = <<>>
    BY DEF NoInput, NewResampler
  <2>3. Len(<<>>) < FrameSamples
    BY DEF InputAssumption
  <2> QED
    BY <2>1, <2>2, <2>3, NothingSaid, Zenon DEF Talks
<1> QED
  BY <1>2, <1>3 DEF InputIInv

\* A converter that was just made.
LEMMA NewIsReady ==
  ASSUME InputAssumption, NEW i \in Nat \ {0}, NEW p \in Nat, NEW e
  PROVE  /\ NewResampler(i, LineRate) \in Resampler
         /\ Ready(NewResampler(i, LineRate), i, p, e)
<1>1. LineRate \in Nat
  BY DEF InputAssumption
<1> QED
  BY <1>1 DEF NewResampler, Ready, Resampler

LEMMA LastSaidIs ==
  ASSUME InputAssumption, InputIInv, NEW c \in Client
  PROVE  LastSaid(c) = LastOf(before[c], Flat(blocks[c])) /\ LastSaid(c) \in Nat
<1>1. AreBlocks(blocks[c]) /\ before[c] \in Nat /\ FrameSamples \in Nat \ {0}
  BY DEF InputIInv, InputShapes, Talks, InputAssumption
<1>2. LastSaid(c) = LastOf(before[c], Flat(blocks[c])) /\ Flat(blocks[c]) \in Sounds
  BY <1>1, FlatShape, Zenon DEF LastSaid
<1> DEFINE z == Flat(blocks[c])
<1>3. z \in Seq(Nat \ {0})
  BY <1>2 DEF Sounds
<1> HIDE DEF z
<1>4. z # <<>> => z[Len(z)] \in Nat
  <2>1. z # <<>> => Len(z) \in 1 .. Len(z)
    BY <1>3, EmptySeq
  <2> QED
    BY <1>3, <2>1
<1> QED
  BY <1>1, <1>2, <1>4 DEF LastOf, z

\* What a connection says with a message that is heard.
LEMMA HeardTalks ==
  ASSUME InputAssumption, InputIInv, NEW c \in Client, NEW n \in Nat, place[c] + n <= MaxSamples,
         NEW s, s = Current(state[c]), NEW made, NEW pcm, NEW cut, NEW t,
         Utters(s, place[c], n, made, pcm, cut, t)
  PROVE  /\ t \in Inputs /\ cut \in Seq(Sounds)
         /\ Talks(t, place[c] + n, cut, IF s.rate # state[c].rate THEN 0 ELSE LastSaid(c),
                  IF s.rate # state[c].rate THEN FALSE ELSE missed[c])
<1> DEFINE p == place[c]
           x == IF s.rate # state[c].rate THEN 0 ELSE LastSaid(c)
           miss == IF s.rate # state[c].rate THEN FALSE ELSE missed[c]
<1>1. state[c] \in Inputs /\ p \in Nat /\ missed[c] \in BOOLEAN /\ wsInputRate \in Nat \ {0}
  BY DEF InputIInv, InputShapes, InputAssumption
<1>2. Talks(state[c], p, blocks[c], before[c], missed[c])
  BY DEF InputIInv
<1>3. LastSaid(c) = LastOf(before[c], Flat(blocks[c])) /\ LastSaid(c) \in Nat
  BY LastSaidIs
<1>4. s \in Inputs /\ s.rate # 0 /\ Saying(s, p, x, ~miss) /\ x \in Nat /\ miss \in BOOLEAN
  <2>1. CASE state[c].rate = wsInputRate
    <3>1. s = state[c] /\ x = LastSaid(c) /\ miss = missed[c]
      BY <2>1 DEF Current
    <3>2. state[c].rate # 0
      BY <1>1, <2>1
    <3>3. Saying(state[c], p, LastSaid(c), ~missed[c])
      BY <1>2, <1>3, <3>2, Zenon DEF Talks
    <3> HIDE DEF x, miss
    <3> QED
      BY <1>1, <1>3, <3>1, <3>2, <3>3, Zenon
  <2>2. CASE state[c].rate # wsInputRate
    <3> DEFINE fresh == NewResampler(wsInputRate, LineRate)
    <3>1. fresh \in Resampler /\ (\A e : Ready(fresh, wsInputRate, p, e))
      BY <1>1, NewIsReady
    <3> HIDE DEF fresh
    <3>2. s = [rate |-> wsInputRate, resampler |-> fresh, pcmBuf |-> <<>>]
      BY <2>2, Zenon DEF Current, fresh
    <3>3. s.rate = wsInputRate /\ s.resampler = fresh /\ s.pcmBuf = <<>>
      BY <3>2
    <3>4. s \in Inputs
      BY <1>1, <3>1, <3>2, NothingSaid DEF Inputs
    <3>5. x = 0 /\ miss = FALSE /\ x \in Nat /\ miss \in BOOLEAN /\ s.rate # 0
      BY <1>1, <2>2, <3>3
    <3>6. \A e : RisesFrom(0, <<>>, s.rate, e)
      BY NothingSaid, Zenon
    <3>7. \A e : Ahead(LastOf(0, <<>>), NextSaid(fresh, p), s.rate, e)
      BY Zenon DEF Ahead, LastOf
    <3>8. \A e : Saying(s, p, 0, e)
      BY <3>1, <3>3, <3>6, <3>7, Zenon DEF Saying
    <3> HIDE DEF x, miss
    <3> QED
      BY <3>4, <3>5, <3>8, Zenon
  <2> QED
    BY <2>1, <2>2
<1>5. p + n <= MaxSamples /\ Utters(s, p, n, made, pcm, cut, t)
  OBVIOUS
<1> HIDE DEF x, miss, p
<1>6. t \in Inputs /\ Talks(t, p + n, cut, x, miss)
  BY <1>1, <1>4, <1>5, TalksOn
<1>7. cut \in Seq(Sounds)
  BY <1>6 DEF Talks, AreBlocks
<1> QED
  BY <1>6, <1>7, Zenon DEF x, p, miss

LEMMA BinaryKeeps ==
  ASSUME InputAssumption, InputIInv, NEW c \in Client, Binary(c)
  PROVE  InputIInv'
<1>1. PICK n \in Sizes :
        /\ place[c] + n <= MaxSamples
        /\ place' = [place EXCEPT ![c] = @ + n]
        /\ IF txSource # "ws"
             THEN /\ missed' = [missed EXCEPT ![c] = TRUE]
                  /\ blocks' = [blocks EXCEPT ![c] = <<>>]
                  /\ before' = [before EXCEPT ![c] = LastSaid(c)]
                  /\ UNCHANGED state
             ELSE LET s == Current(state[c])
                      made == Process(s.resampler, Ramp(c, n))
                      pcm == s.pcmBuf \o made.out
                      cut == CutBlocks(pcm)
                      anew == s.rate # state[c].rate
                  IN /\ state' = [state EXCEPT ![c] =
                                    [s EXCEPT !.resampler = made.next,
                                              !.pcmBuf = SubSeq(pcm, Len(cut) * FrameSamples + 1, Len(pcm))]]
                     /\ blocks' = [blocks EXCEPT ![c] = cut]
                     /\ before' = [before EXCEPT ![c] = IF anew THEN 0 ELSE LastSaid(c)]
                     /\ missed' = [missed EXCEPT ![c] = IF anew THEN FALSE ELSE @]
        /\ UNCHANGED <<wsInputRate, txSource, configs>>
  BY Zenon DEF Binary
<1>2. n \in Nat
  BY DEF InputAssumption
<1>3. InputShapes /\ \A a \in Client : Talks(state[a], place[a], blocks[a], before[a], missed[a])
  BY DEF InputIInv
<1>4. place[c] \in Nat /\ LastSaid(c) \in Nat /\ LastSaid(c) = LastOf(before[c], Flat(blocks[c]))
      /\ missed[c] \in BOOLEAN /\ state[c] \in Inputs
  BY <1>3, LastSaidIs DEF InputShapes
<1>5. \E t \in Inputs, cut \in Seq(Sounds), b \in Nat, miss \in BOOLEAN :
        /\ Talks(t, place[c] + n, cut, b, miss)
        /\ state' = [state EXCEPT ![c] = t] /\ blocks' = [blocks EXCEPT ![c] = cut]
        /\ before' = [before EXCEPT ![c] = b] /\ missed' = [missed EXCEPT ![c] = miss]
  <2>1. CASE txSource # "ws"
    <3> DEFINE s == state[c]
    <3>1. state' = [state EXCEPT ![c] = s] /\ blocks' = [blocks EXCEPT ![c] = <<>>]
          /\ before' = [before EXCEPT ![c] = LastSaid(c)] /\ missed' = [missed EXCEPT ![c] = TRUE]
      BY <1>1, <1>3, <2>1 DEF InputShapes
    <3>2. Talks(s, place[c], blocks[c], before[c], missed[c])
      BY <1>3
    <3>3. s.rate # 0 => Saying(s, place[c], LastSaid(c), ~missed[c])
      BY <1>4, <3>2, Zenon DEF Talks
    <3>4. s.rate # 0 => Saying(s, place[c] + n, LastSaid(c), FALSE)
      <4> DEFINE e == ~missed[c]
      <4>1. e \in BOOLEAN
        BY <1>4
      <4> HIDE DEF e
      <4>2. ASSUME s.rate # 0
            PROVE  Saying(s, place[c] + n, LastSaid(c), FALSE)
        <5>1. Saying(s, place[c], LastSaid(c), e)
          BY <3>3, <4>2, Zenon DEF e
        <5> HIDE DEF s
        <5>2. s \in Inputs
          BY <1>4 DEF s
        <5> QED
          BY <1>2, <1>4, <4>1, <5>1, <5>2, WaitsOn
      <4> QED
        BY <4>2
    <3>5. s.rate = 0 => LastSaid(c) = 0
      BY <1>4, <3>2, NothingSaid, Zenon DEF Talks
    <3>6. Talks(s, place[c] + n, <<>>, LastSaid(c), TRUE)
      <4>1. s.rate # 0 => Saying(s, place[c] + n, LastOf(LastSaid(c), Flat(<<>>)), FALSE)
        BY <3>4, NothingSaid
      <4>2. ~TRUE = FALSE
        OBVIOUS
      <4> QED
        BY <3>2, <3>5, <4>1, <4>2, NothingSaid, Zenon DEF Talks
    <3>7. <<>> \in Seq(Sounds)
      OBVIOUS
    <3>8. TRUE \in BOOLEAN
      OBVIOUS
    <3>9. s \in Inputs /\ LastSaid(c) \in Nat
      BY <1>4
    <3> HIDE DEF s
    <3> QED
      BY <3>1, <3>6, <3>7, <3>8, <3>9, Zenon
  <2>2. CASE txSource = "ws"
    <3> DEFINE s == Current(state[c])
               made == Process(s.resampler, Ramp(c, n))
               pcm == s.pcmBuf \o made.out
               cut == CutBlocks(pcm)
               t == [s EXCEPT !.resampler = made.next,
                              !.pcmBuf = SubSeq(pcm, Len(cut) * FrameSamples + 1, Len(pcm))]
               b == IF s.rate # state[c].rate THEN 0 ELSE LastSaid(c)
               miss == IF s.rate # state[c].rate THEN FALSE ELSE missed[c]
    <3>1. state' = [state EXCEPT ![c] = t] /\ blocks' = [blocks EXCEPT ![c] = cut]
          /\ before' = [before EXCEPT ![c] = b] /\ missed' = [missed EXCEPT ![c] = miss]
      BY <1>1, <2>2, Zenon
    <3>2. Ramp(c, n) = RampFrom(place[c], n)
      BY Zenon DEF Ramp, RampFrom
    <3>3. Utters(s, place[c], n, made, pcm, cut, t)
      BY <3>2, Zenon DEF Utters
    <3>4. s = Current(state[c])
      OBVIOUS
    <3>5. b \in Nat /\ miss \in BOOLEAN
      BY <1>4
    <3>6. b = (IF s.rate # state[c].rate THEN 0 ELSE LastSaid(c))
          /\ miss = (IF s.rate # state[c].rate THEN FALSE ELSE missed[c])
      BY Zenon
    <3> HIDE DEF s, made, pcm, cut, t, b, miss
    <3>7. /\ t \in Inputs /\ cut \in Seq(Sounds)
          /\ Talks(t, place[c] + n, cut, b, miss)
      BY <1>1, <1>2, <3>3, <3>4, <3>6, HeardTalks, Zenon
    <3> QED
      BY <3>1, <3>5, <3>7, Zenon
  <2> QED
    BY <2>1, <2>2
<1>6. PICK t \in Inputs, cut \in Seq(Sounds), b \in Nat, miss \in BOOLEAN :
        /\ Talks(t, place[c] + n, cut, b, miss)
        /\ state' = [state EXCEPT ![c] = t] /\ blocks' = [blocks EXCEPT ![c] = cut]
        /\ before' = [before EXCEPT ![c] = b] /\ missed' = [missed EXCEPT ![c] = miss]
  BY <1>5, Zenon
<1> DEFINE p == place[c] + n
<1>7. place' = [place EXCEPT ![c] = p] /\ p \in Nat /\ wsInputRate' = wsInputRate
  BY <1>1, <1>2, <1>4
<1> HIDE DEF p
<1>8. InputShapes'
  BY <1>3, <1>6, <1>7 DEF InputShapes
<1>9. ASSUME NEW a \in Client
      PROVE  Talks(state'[a], place'[a], blocks'[a], before'[a], missed'[a])
  <2>1. CASE a = c
    <3>1. state'[c] = t /\ place'[c] = p /\ blocks'[c] = cut /\ before'[c] = b /\ missed'[c] = miss
      BY <1>3, <1>6, <1>7 DEF InputShapes
    <3> QED
      BY <1>6, <2>1, <3>1, Zenon DEF p
  <2>2. CASE a # c
    <3>1. /\ state'[a] = state[a] /\ place'[a] = place[a] /\ blocks'[a] = blocks[a]
          /\ before'[a] = before[a] /\ missed'[a] = missed[a]
      BY <1>3, <1>6, <1>7, <2>2 DEF InputShapes
    <3> QED
      BY <1>3, <3>1, Zenon
  <2> QED
    BY <2>1, <2>2
<1> QED
  BY <1>8, <1>9, Zenon DEF InputIInv, Talks, Saying

LEMMA InputNextIInv ==
  ASSUME InputAssumption, InputIInv, [InputNext]_input
  PROVE  InputIInv'
<1>1. CASE Configure
  <2>1. UNCHANGED <<state, place, blocks, before, missed>> /\ wsInputRate' \in Rates \cup {LineRate}
    BY <1>1 DEF Configure, ChooseRate, ChooseSource, InputIInv, InputShapes
  <2> QED
    BY <2>1, Zenon DEF InputIInv, InputShapes
<1>2. CASE \E c \in Client : Binary(c)
  BY <1>2, BinaryKeeps
<1>3. CASE UNCHANGED input
  BY <1>3, Zenon DEF input, InputIInv, InputShapes
<1> QED
  BY <1>1, <1>2, <1>3 DEF InputNext

LEMMA InputIInvNoSeam ==
  ASSUME InputAssumption, InputIInv
  PROVE  NoSeam
<1>1. InputTypeOK
  <2>1. ASSUME NEW c \in Client
        PROVE  Len(state[c].pcmBuf) < FrameSamples /\ Len(state[c].resampler.buf) <= 1
    <3> DEFINE s == state[c]
    <3>1. Talks(s, place[c], blocks[c], before[c], missed[c])
      BY DEF InputIInv
    <3>2. Len(s.pcmBuf) < FrameSamples
      BY <3>1, Zenon DEF Talks
    <3>3. Len(s.resampler.buf) <= 1
      <4>1. CASE s.resampler.buf = <<>>
        BY <4>1
      <4>2. CASE s.resampler.buf # <<>>
        <5>1. Kept(s.resampler, place[c], ~missed[c])
          BY <3>1, <4>2, Zenon DEF Talks, Saying, Ready
        <5>2. PICK q \in 1 .. place[c] : s.resampler.buf = <<q * LineRate>>
          BY <5>1, Zenon DEF Kept
        <5> DEFINE v == q * LineRate
        <5>3. s.resampler.buf = <<v>>
          BY <5>2
        <5> HIDE DEF v
        <5> QED
          BY <5>3
      <4> QED
        BY <4>1, <4>2
    <3> QED
      BY <3>2, <3>3
  <2> QED
    BY <2>1 DEF InputIInv, InputShapes, InputTypeOK
<1>2. Seamless
  <2> DEFINE Said(c) == (IF before[c] = 0 THEN <<>> ELSE <<before[c]>>) \o Flat(blocks[c])
  <2> SUFFICES ASSUME NEW c \in Client
               PROVE  /\ \A k \in 2 .. Len(Said(c)) : Said(c)[k] > Said(c)[k - 1]
                      /\ ~missed[c] => \A k \in 2 .. Len(Said(c)) :
                                         Said(c)[k] - Said(c)[k - 1] = state[c].rate
    BY Zenon DEF Seamless, Flat
  <2> DEFINE said == Said(c)
             s == state[c]
             z == Flat(blocks[c])
             b == before[c]
  <2>1. Talks(s, place[c], blocks[c], b, missed[c]) /\ b \in Nat
    BY DEF InputIInv, InputShapes
  <2>2. FrameSamples \in Nat \ {0} /\ AreBlocks(blocks[c])
    BY <2>1 DEF Talks, InputAssumption
  <2>3. z \in Seq(Nat \ {0})
    BY <2>2, FlatShape DEF Sounds
  <2>4. s.rate = 0 => z = <<>> /\ b = 0
    <3>1. Flat(<<>>) = <<>>
      BY NothingSaid
    <3> QED
      BY <2>1, <3>1, Zenon DEF Talks
  <2>5. s.rate # 0 => RisesFrom(b, z, s.rate, ~missed[c])
    BY <2>1, Zenon DEF Talks
  <2> DEFINE one == IF b = 0 THEN <<>> ELSE <<b>>
             d == s.rate
  <2>6. said = one \o z
    OBVIOUS
  <2>7. one \in Seq(Nat) /\ z \in Seq(Nat) /\ (b = 0 => one = <<>>) /\ (b # 0 => Len(one) = 1 /\ one[1] = b)
    BY <2>1, <2>3
  <2> HIDE DEF one, z, b, s, d, said, Said
  <2>8. Ascends(said, d, ~missed[c])
    <3>1. CASE b = 0
      <4>1. said = z
        BY <2>6, <2>7, <3>1, ConcatEmptySeq
      <4>2. d = 0 => z = <<>>
        BY <2>4 DEF d
      <4> QED
        BY <2>5, <4>1, <4>2, NothingSaid DEF RisesFrom, d
    <3>2. CASE b # 0
      <4>1. RisesFrom(b, z, d, ~missed[c])
        BY <2>4, <2>5, <3>2 DEF d
      <4>2. /\ Len(said) = 1 + Len(z) /\ said[1] = b
            /\ \A k \in 2 .. 1 + Len(z) : said[k] = z[k - 1]
        <5>1. /\ Len(one \o z) = Len(one) + Len(z)
              /\ \A k \in 1 .. Len(one) + Len(z) :
                   (one \o z)[k] = IF k <= Len(one) THEN one[k] ELSE z[k - Len(one)]
          BY <2>7, ConcatProperties
        <5>2. Len(one) = 1 /\ one[1] = b /\ Len(z) \in Nat
          BY <2>7, <3>2
        <5> QED
          BY <2>6, <5>1, <5>2
      <4>3. z = <<>> <=> Len(z) = 0
        BY <2>7, EmptySeq
      <4>4. ASSUME NEW k \in 2 .. Len(said)
            PROVE  Follows(said[k - 1], said[k], d, ~missed[c])
        <5>1. CASE k = 2
          BY <2>7, <3>2, <4>1, <4>2, <4>3, <5>1 DEF RisesFrom
        <5>2. CASE k > 2
          <6> DEFINE i == k - 1
          <6>1. i \in 2 .. Len(z) /\ k \in 2 .. 1 + Len(z) /\ k - 1 \in 2 .. 1 + Len(z)
            BY <2>7, <4>2, <5>2
          <6>2. said[k] = z[i] /\ said[k - 1] = z[i - 1]
            BY <4>2, <6>1
          <6> HIDE DEF i
          <6> QED
            BY <4>1, <6>1, <6>2 DEF RisesFrom, Ascends
        <5> QED
          BY <5>1, <5>2
      <4> QED
        BY <4>4 DEF Ascends
    <3> QED
      BY <3>1, <3>2
  <2> QED
    BY <2>8, Zenon DEF Ascends, Follows, d, s, said
<1> QED
  BY <1>1, <1>2 DEF NoSeam

\* The audio of a browser goes to the matrix without a seam: whatever the rates, the sizes of
\* its messages and the changes of rate and source by others, from sample to sample and from
\* block to block it advances by its rate (handleAudioBinary, Int16StreamResampler.Process).
THEOREM NoSeamCorrect ==
  ASSUME InputAssumption
  PROVE  InputSpec => []NoSeam
<1>1. InputInit => InputIInv
  BY InputInitIInv
<1>2. InputIInv /\ [InputNext]_input => InputIInv'
  BY InputNextIInv
<1>3. InputIInv => NoSeam
  BY InputIInvNoSeam
<1> QED
  BY <1>1, <1>2, <1>3, PTL DEF InputSpec

-----------------------------------------------------------------------------
(***************************************************************************)
(* The jitter buffer: products and remainders of its parts of a sample.    *)
(***************************************************************************)

LEMMA Products ==
  ASSUME NEW a \in Int, NEW b \in Int, NEW u \in Nat
  PROVE  /\ a <= b => a * u <= b * u
         /\ a < b => a * u + u <= b * u
         /\ (a + b) * u = a * u + b * u /\ (b - a) * u = b * u - a * u
<1>1. (a + b) * u = a * u + b * u /\ (b - a) * u = b * u - a * u
  OBVIOUS
<1>2. ASSUME NEW d \in Nat PROVE d * u >= 0 /\ (d # 0 => d * u >= u)
  OBVIOUS
<1>3. a <= b => (b - a) * u >= 0
  BY <1>2
<1>4. a < b => (b - a) * u >= u
  BY <1>2
<1> QED
  BY <1>1, <1>3, <1>4

\* A quotient is the whole number of times the divisor fits.
LEMMA Quotient ==
  ASSUME NEW a \in Int, NEW b \in Nat \ {0}, NEW z \in Int
  PROVE  /\ z * b <= a /\ a < z * b + b => a \div b = z
         /\ (a \div b) \in Int /\ (a \div b) * b <= a /\ a < (a \div b) * b + b
<1> DEFINE q == a \div b
           r == a % b
<1>1. q \in Int /\ r \in 0 .. b - 1 /\ a = (b * q) + r
  BY Dividing, Zenon
<1> HIDE DEF q, r
<1>2. b * q = q * b
  BY <1>1
<1>3. q * b <= a /\ a < q * b + b
  BY <1>1, <1>2
<1>4. ASSUME z * b <= a, a < z * b + b, q < z PROVE FALSE
  <2>1. q * b + b <= z * b
    BY <1>1, <1>4, Products
  <2>2. q * b \in Int /\ z * b \in Int
    BY <1>1
  <2> QED
    BY <1>3, <1>4, <2>1, <2>2
<1>5. ASSUME z * b <= a, a < z * b + b, z < q PROVE FALSE
  <2>1. z * b + b <= q * b
    BY <1>1, <1>5, Products
  <2>2. q * b \in Int /\ z * b \in Int
    BY <1>1
  <2> QED
    BY <1>3, <1>5, <2>1, <2>2
<1>6. z * b <= a /\ a < z * b + b => q = z
  BY <1>1, <1>4, <1>5
<1> QED
  BY <1>1, <1>3, <1>6 DEF q

\* Once round the ring and not twice.
LEMMA Wraps ==
  ASSUME NEW x \in Nat, NEW c \in Nat \ {0}, x < 2 * c
  PROVE  (x < c => x % c = x) /\ (x >= c => x % c = x - c)
<1> DEFINE q == x \div c
           r == x % c
<1>0. x \in Int /\ x >= 0
  OBVIOUS
<1>1. q \in Int /\ r \in 0 .. c - 1 /\ x = (c * q) + r /\ q >= 0
  BY <1>0, Dividing, Zenon
<1>2. q = IF x < c THEN 0 ELSE 1
  <2>1. x < c => 0 * c <= x /\ x < 0 * c + c
    OBVIOUS
  <2>2. x >= c => 1 * c <= x /\ x < 1 * c + c
    OBVIOUS
  <2>3. x < c => q = 0
    BY <2>1, Quotient
  <2>4. x >= c => q = 1
    BY <2>2, Quotient
  <2> QED
    BY <2>3, <2>4
<1> HIDE DEF q, r
<1>3. c * q = IF x < c THEN 0 ELSE c
  BY <1>2
<1>4. r = IF x < c THEN x ELSE x - c
  BY <1>1, <1>3
<1> QED
  BY <1>4 DEF r

\* A number with a property has a least one at or below it.
LEMMA LeastOne ==
  ASSUME NEW n \in Nat, NEW T, n \in T
  PROVE  \E x \in 0 .. n : x \in T /\ \A y \in 0 .. x - 1 : y \notin T
<1> DEFINE Below == {p \in Nat \X Nat : p[1] < p[2]}
           S == T \cap 0 .. n
<1>1. IsWellFoundedOn(Below, Nat)
  <2>1. OpToRel(<, Nat) = Below
    BY DEF OpToRel
  <2> QED
    BY <2>1, NatLessThanWellFounded
<1>2. S \subseteq Nat /\ S # {}
  OBVIOUS
<1> HIDE DEF S, Below
<1>3. PICK x \in S : \A y \in S : ~ (<<y, x>> \in Below)
  BY <1>1, <1>2, WFMin
<1>4. \A y \in S : ~ (y < x)
  <2> SUFFICES ASSUME NEW y \in S, y < x PROVE FALSE
    OBVIOUS
  <2>1. <<y, x>> \in Nat \X Nat /\ <<y, x>>[1] = y /\ <<y, x>>[2] = x
    BY <1>2
  <2> QED
    BY <1>3, <2>1 DEF Below
<1> QED
  BY <1>3, <1>4 DEF S
-----------------------------------------------------------------------------
(***************************************************************************)
(* The ring.                                                               *)
(***************************************************************************)
Recorded == [n : Nat, loud : BOOLEAN]
Around == Capacity * Unit

\* From the reading position r it is c to the writing position.
Way(r, c) ==
  /\ r \in 0 .. Around - 1 /\ c \in 0 .. Around
  /\ r + c = write * Unit \/ r + c = write * Unit + Around

\* The newest samples are there, as far as c reaches back.
Slot(i) == (write - 1 - i + Capacity) % Capacity
Holds(c) ==
  /\ c <= received * Unit
  /\ \A i \in 0 .. Capacity - 1 : i * Unit < c => samples[Slot(i)].n = received - i

RingShapes ==
  /\ samples \in [0 .. Capacity - 1 -> Recorded]
  /\ write \in 0 .. Capacity - 1 /\ received \in Nat

\* The place in the stream that is c behind its end, and the sample there.
Place(c) == (received + 1) * Unit - c
Sample(c) == Place(c) \div Unit

\* The sizes and the rates the buffer works with, without what relates them.
LEMMA Sizable ==
  ASSUME BufferAssumption
  PROVE  /\ Unit \in Nat \ {0} /\ Capacity \in Nat \ {0} /\ Block \in Nat \ {0}
         /\ HardMax \in Nat /\ HardMax <= Capacity
         /\ PacketFrames \in Nat /\ MinSilenceFrames \in Nat /\ CrossfadeFrames \in Nat /\ MaxReceived \in Nat
         /\ MinRate \in Nat /\ MinRate >= 1 /\ MinRate <= Unit
         /\ MaxRate \in Nat /\ Unit <= MaxRate /\ MaxRate <= 2 * Unit
         /\ Unit - MinRate \in Nat
BY DEF BufferAssumption

\* The way round the ring, in parts of a sample.
LEMMA AroundIsNat == ASSUME BufferAssumption PROVE Around \in Nat \ {0}
BY DEF BufferAssumption, Around

\* A step forward goes round the ring at most once.
LEMMA GoesRound ==
  ASSUME NEW r \in Nat, NEW n \in Nat, NEW c \in Nat \ {0}, r + n < 2 * c
  PROVE  (r + n < c => (r + n) % c = r + n) /\ (r + n >= c => (r + n) % c = (r + n) - c)
<1>1. \E x \in Nat : x = r + n
  OBVIOUS
<1>2. PICK x \in Nat : x = r + n
  BY <1>1
<1>3. x < 2 * c
  BY <1>2
<1>4. (x < c => x % c = x) /\ (x >= c => x % c = x - c)
  BY <1>3, Wraps
<1> QED
  BY <1>2, <1>4, Zenon

\* Reading on shortens the way by what was read.
LEMMA WayShorter ==
  ASSUME BufferAssumption, RingShapes, NEW r, NEW c, Way(r, c), NEW n \in 0 .. c
  PROVE  Way((r + n) % Around, c - n)
<1>1. Around \in Nat \ {0} /\ Unit \in Nat /\ write \in Nat
  BY AroundIsNat, Sizable DEF RingShapes
<1> DEFINE w == write * Unit
<1>2. w \in Nat
  BY <1>1
<1>3. w < Around
  <2>1. write < Capacity /\ Capacity \in Int /\ Unit # 0
    BY Sizable DEF RingShapes
  <2>2. write * Unit + Unit <= Capacity * Unit
    BY <1>1, <2>1, Products
  <2> QED
    BY <1>1, <1>2, <2>1, <2>2 DEF Around
<1>4. r \in 0 .. Around - 1 /\ c \in 0 .. Around /\ (r + c = w \/ r + c = w + Around)
  BY DEF Way
<1> HIDE DEF w
<1>5. r \in Nat /\ n \in Nat /\ r + n < 2 * Around
  BY <1>1, <1>2, <1>3, <1>4
<1>6. (r + n < Around => (r + n) % Around = r + n) /\ (r + n >= Around => (r + n) % Around = (r + n) - Around)
  BY <1>1, <1>5, GoesRound, Zenon
<1> DEFINE g == (r + n) % Around
<1>7. (r + n < Around => g = r + n) /\ (r + n >= Around => g = (r + n) - Around)
  BY <1>6
<1> HIDE DEF g
<1>8. /\ g \in 0 .. Around - 1 /\ c - n \in 0 .. Around
      /\ g + (c - n) = w \/ g + (c - n) = w + Around
  <2>1. r \in Int /\ c \in Int /\ n \in Int /\ Around \in Int /\ w \in Int /\ 0 <= n /\ n <= c
    BY <1>1, <1>2, <1>4
  <2>2. 0 <= r /\ c <= Around /\ g \in Int
    BY <1>1, <1>4, <1>7, <2>1
  <2>3. CASE r + n < Around
    BY <1>3, <1>4, <1>7, <2>1, <2>2, <2>3
  <2>4. CASE r + n >= Around
    BY <1>3, <1>4, <1>7, <2>1, <2>2, <2>4
  <2> QED
    BY <2>1, <2>3, <2>4
<1> QED
  BY <1>8 DEF Way, w, g

\* A shorter way back holds the newest samples too.
LEMMA HoldsLess ==
  ASSUME BufferAssumption, RingShapes, NEW c \in Nat, NEW d \in Nat, Holds(c), d <= c
  PROVE  Holds(d)
<1>1. Capacity \in Nat /\ Unit \in Nat /\ received * Unit \in Nat
  <2>1. Capacity \in Nat /\ Unit \in Nat
    BY Sizable
  <2>2. received \in Nat
    BY DEF RingShapes
  <2> QED
    BY <2>1, <2>2
<1>2. ASSUME NEW i \in 0 .. Capacity - 1, i * Unit < d PROVE i * Unit < c
  <2>1. i * Unit \in Nat
    BY <1>1
  <2> QED
    BY <1>2, <2>1
<1> QED
  BY <1>1, <1>2 DEF Holds

\* What is not yet read is a sample of the stream.
LEMMA SampleIs ==
  ASSUME BufferAssumption, RingShapes, NEW c \in Nat, c <= received * Unit
  PROVE  /\ Place(c) \in Nat /\ Sample(c) \in Nat /\ Sample(c) >= 1
         /\ Sample(c) * Unit <= Place(c) /\ Place(c) < Sample(c) * Unit + Unit
<1>1. received \in Nat /\ Unit \in Nat \ {0}
  BY Sizable DEF RingShapes
<1>2. (received + 1) * Unit = received * Unit + Unit /\ received * Unit \in Nat
  BY <1>1
<1>3. Place(c) \in Nat /\ Place(c) >= Unit
  BY <1>1, <1>2 DEF Place
<1> DEFINE q == Sample(c)
<1>4. q \in Int /\ q * Unit <= Place(c) /\ Place(c) < q * Unit + Unit
  <2>1. Place(c) \in Int /\ 0 \in Int
    BY <1>3
  <2> QED
    BY <1>1, <2>1, Quotient, Zenon DEF Sample
<1> HIDE DEF q
<1>5. ~ (q <= 0)
  <2> SUFFICES ASSUME q <= 0 PROVE FALSE
    OBVIOUS
  <2>1. q * Unit <= 0 * Unit
    BY <1>1, <1>4, Products
  <2>2. q * Unit \in Int
    BY <1>1, <1>4
  <2> QED
    BY <1>1, <1>3, <1>4, <2>1, <2>2
<1> QED
  BY <1>3, <1>4, <1>5 DEF q

\* What is read j samples after the reading position.
LEMMA SampleRead ==
  ASSUME BufferAssumption, RingShapes, NEW r, NEW c, Way(r, c), Holds(c),
         NEW j \in Nat, j * Unit < c
  PROVE  /\ samples[(r \div Unit + j) % Capacity] \in Recorded
         /\ samples[(r \div Unit + j) % Capacity].n = Sample(c) + j
<1>1. Around \in Nat \ {0} /\ Unit \in Nat \ {0} /\ Capacity \in Nat \ {0} /\ write \in 0 .. Capacity - 1
      /\ received \in Nat
  BY AroundIsNat, Sizable DEF RingShapes
<1>2. r \in Nat /\ c \in Nat /\ c <= Around
  BY <1>1 DEF Way
<1>3. PICK round \in {0, 1} : r + c = write * Unit + round * Around
  <2>1. r + c = write * Unit + 0 * Around \/ r + c = write * Unit + 1 * Around
    BY <1>1, <1>2 DEF Way
  <2> QED
    BY <2>1
<1> DEFINE q == r \div Unit
           z == write + round * Capacity - q
           i == z - 1 - j
<1>4. q \in Nat /\ q * Unit <= r /\ r < q * Unit + Unit
  BY <1>1, <1>2, Quotient
<1> HIDE DEF q
<1>5. z \in Int /\ i \in Int
  BY <1>1, <1>4
<1>6. z * Unit = r + c - q * Unit
  <2>1. z * Unit = write * Unit + (round * Capacity) * Unit - q * Unit
    BY <1>1, <1>4
  <2>2. (round * Capacity) * Unit = round * Around
    BY <1>1 DEF Around
  <2> QED
    BY <1>1, <1>2, <1>3, <1>4, <2>1, <2>2
<1>7. i * Unit = z * Unit - Unit - j * Unit
  BY <1>1, <1>5
<1>8. z * Unit \in Int /\ j * Unit \in Nat /\ q * Unit \in Nat
  BY <1>1, <1>4, <1>5
<1>9. i >= 0
  <2> SUFFICES ASSUME i < 0 PROVE FALSE
    BY <1>5
  <2>1. i * Unit + Unit <= 0 * Unit
    BY <1>1, <1>5, Products
  <2> QED
    BY <1>1, <1>2, <1>4, <1>6, <1>7, <1>8, <2>1
<1>10. i * Unit < c
  BY <1>1, <1>2, <1>4, <1>6, <1>7, <1>8
<1>11. i < Capacity
  <2> SUFFICES ASSUME Capacity <= i PROVE FALSE
    BY <1>1, <1>5
  <2>1. Capacity * Unit <= i * Unit /\ i * Unit \in Int /\ Capacity * Unit \in Int
    BY <1>1, <1>5, Products
  <2> QED
    BY <1>2, <1>10, <2>1 DEF Around
<1>12. samples[Slot(i)].n = received - i
  BY <1>1, <1>5, <1>9, <1>10, <1>11 DEF Holds
<1>13. Slot(i) = (q + j) % Capacity
  <2>1. write - 1 - i + Capacity = q + j + (1 - round) * Capacity
    BY <1>1, <1>4, <1>5
  <2>2. CASE round = 1
    BY <1>1, <1>4, <2>1, <2>2 DEF Slot
  <2>3. CASE round = 0
    <3>1. q + j = write - 1 - i
      BY <1>1, <1>4, <2>3
    <3>2. q + j \in Nat /\ q + j < Capacity
      BY <1>1, <1>4, <1>5, <1>9, <3>1
    <3>3. write - 1 - i + Capacity = q + j + Capacity
      BY <1>1, <1>4, <2>1, <2>3
    <3>4. (q + j + Capacity) % Capacity = q + j /\ (q + j) % Capacity = q + j
      BY <1>1, <3>2, Wraps
    <3> QED
      BY <3>3, <3>4 DEF Slot
  <2> QED
    BY <2>2, <2>3
<1>14. Sample(c) = received + 1 - z
  <2>1. (received + 1 - z) * Unit = (received + 1) * Unit - z * Unit /\ (received + 1) * Unit \in Nat
    BY <1>1, <1>5
  <2>2. Place(c) \in Int /\ (received + 1 - z) * Unit <= Place(c) /\ Place(c) < (received + 1 - z) * Unit + Unit
    BY <1>1, <1>2, <1>4, <1>6, <1>8, <2>1 DEF Place
  <2>3. received + 1 - z \in Int
    BY <1>1, <1>5
  <2> HIDE DEF z
  <2> QED
    BY <1>1, <2>2, <2>3, Quotient DEF Sample
<1>15. (q + j) % Capacity \in 0 .. Capacity - 1
  BY <1>1, <1>4, Dividing
<1>16. received - i = Sample(c) + j
  BY <1>1, <1>5, <1>14
<1> QED
  BY <1>12, <1>13, <1>15, <1>16 DEF q, RingShapes
-----------------------------------------------------------------------------
(***************************************************************************)
(* A call of process: what is read, what is left, what is faded out.       *)
(***************************************************************************)

\* What is faded out are samples that follow each other.  They are so far behind that they
\* stay behind at the lowest rate, and are over before the ring is empty at the highest.
FadeFrom(f, m, c) ==
  /\ \A i \in 1 .. Len(f) : f[i].n = m + i - 1
  /\ (m + 1) * Unit + Len(f) * (Unit - MinRate) <= Place(c)
Fades(f, c) ==
  /\ f \in Seq(Recorded) /\ Len(f) <= CrossfadeFrames
  /\ f # <<>> => /\ \E m \in Nat : FadeFrom(f, m, c)
                 /\ Len(f) * MaxRate + Unit <= c

Rings == [read : Nat, count : Nat, fade : Seq(Recorded)]
Good(ring) ==
  /\ ring \in Rings
  /\ Way(ring.read, ring.count) /\ Holds(ring.count) /\ Fades(ring.fade, ring.count)

\* advance takes no more than there is.
LEMMA AdvanceIs ==
  ASSUME NEW ring, ring.count \in Nat, NEW n \in 0 .. ring.count
  PROVE  Advance(ring, n) = [ring EXCEPT !.read = (ring.read + n) % Around, !.count = ring.count - n]
<1>1. Smaller(ring.count, n) = n
  BY DEF Smaller
<1>2. Larger(0, n) = n
  BY DEF Larger
<1> QED
  BY <1>1, <1>2 DEF Advance, Around

\* A ring that is good stays so when it is advanced, with a fade that is good for what is left.
LEMMA Advances ==
  ASSUME BufferAssumption, RingShapes, NEW ring, Good(ring), NEW n \in 0 .. ring.count
  PROVE  /\ Advance(ring, n).read = (ring.read + n) % Around
         /\ Advance(ring, n).count = ring.count - n
         /\ Advance(ring, n).fade = ring.fade
         /\ Fades(ring.fade, ring.count - n) => Good(Advance(ring, n))
         /\ \A f : Fades(f, ring.count - n) => Good([Advance(ring, n) EXCEPT !.fade = f])
<1>1. ring \in Rings /\ ring.count \in Nat /\ ring.read \in Nat /\ ring.fade \in Seq(Recorded)
  BY DEF Good, Rings
<1>2. Advance(ring, n) = [ring EXCEPT !.read = (ring.read + n) % Around, !.count = ring.count - n]
  BY <1>1, AdvanceIs
<1>3. Way((ring.read + n) % Around, ring.count - n)
  BY WayShorter DEF Good
<1>4. Holds(ring.count - n)
  <2>1. ring.count - n \in Nat /\ ring.count - n <= ring.count
    BY <1>1
  <2> QED
    BY <1>1, <2>1, HoldsLess DEF Good
<1>5. (ring.read + n) % Around \in Nat /\ ring.count - n \in Nat
  <2>1. Around \in Nat \ {0}
    BY AroundIsNat
  <2> QED
    BY <1>1, <1>3, <2>1 DEF Way
<1> DEFINE g == (ring.read + n) % Around
           d == ring.count - n
<1>6. Advance(ring, n) = [read |-> g, count |-> d, fade |-> ring.fade]
  <2> HIDE DEF g, d
  <2>1. ring = [read |-> ring.read, count |-> ring.count, fade |-> ring.fade]
    BY <1>1 DEF Rings
  <2>2. Advance(ring, n) = [ring EXCEPT !.read = g, !.count = d]
    BY <1>2 DEF g, d
  <2> QED
    BY <2>1, <2>2
<1> HIDE DEF g, d
<1>7. \A f : [Advance(ring, n) EXCEPT !.fade = f] = [read |-> g, count |-> d, fade |-> f]
  BY <1>6
<1>8. \A f : Fades(f, d) => Good([read |-> g, count |-> d, fade |-> f])
  BY <1>3, <1>4, <1>5 DEF Good, Rings, Fades, g, d
<1>9. Advance(ring, n).read = g /\ Advance(ring, n).count = d /\ Advance(ring, n).fade = ring.fade
  BY <1>6
<1>10. Fades(ring.fade, d) => Good(Advance(ring, n))
  BY <1>6, <1>8
<1>11. \A f : Fades(f, d) => Good([Advance(ring, n) EXCEPT !.fade = f])
  <2> SUFFICES ASSUME NEW f, Fades(f, d) PROVE Good([Advance(ring, n) EXCEPT !.fade = f])
    OBVIOUS
  <2>1. [Advance(ring, n) EXCEPT !.fade = f] = [read |-> g, count |-> d, fade |-> f]
    BY <1>7
  <2>2. Good([read |-> g, count |-> d, fade |-> f])
    BY <1>8
  <2> QED
    BY <2>1, <2>2, Zenon
<1> QED
  BY <1>9, <1>10, <1>11 DEF g, d

\* A fade stays in order when the ring is shortened to no less than it needs.
LEMMA FadesOn ==
  ASSUME BufferAssumption, RingShapes, NEW f, NEW c \in Nat, Fades(f, c), NEW d \in Nat,
         d <= c, d = c \/ d >= CrossfadeFrames * MaxRate + Unit
  PROVE  Fades(f, d)
<1>1. received \in Nat /\ Unit \in Nat /\ MaxRate \in Nat /\ MinRate \in Nat /\ CrossfadeFrames \in Nat
      /\ Unit - MinRate \in Nat
  BY Sizable DEF RingShapes
<1>2. Len(f) \in Nat /\ Len(f) <= CrossfadeFrames
  BY DEF Fades
<1>3. Len(f) * MaxRate <= CrossfadeFrames * MaxRate /\ Len(f) * MaxRate \in Nat
      /\ CrossfadeFrames * MaxRate \in Nat
  BY <1>1, <1>2, Products
<1>4. Place(c) <= Place(d) /\ Place(c) \in Int /\ Place(d) \in Int
  <2>1. (received + 1) * Unit \in Nat
    BY <1>1
  <2> QED
    BY <2>1 DEF Place
<1>5. ASSUME NEW m \in Nat, FadeFrom(f, m, c) PROVE FadeFrom(f, m, d)
  <2>1. (m + 1) * Unit + Len(f) * (Unit - MinRate) \in Int
    BY <1>1, <1>2
  <2> QED
    BY <1>4, <1>5, <2>1 DEF FadeFrom
<1>6. f # <<>> => Len(f) * MaxRate + Unit <= d
  BY <1>1, <1>3 DEF Fades
<1> QED
  BY <1>5, <1>6 DEF Fades

\* What BufferAssumption says of the limits, as the steps below use it.
LEMMA Limits ==
  ASSUME BufferAssumption, NEW t \in Targets
  PROVE  /\ t \in Nat /\ t * Unit \in Nat /\ HardMax * Unit \in Nat /\ HardMax * Unit <= Around
         /\ CrossfadeFrames * MaxRate \in Nat /\ CrossfadeFrames * Unit <= CrossfadeFrames * MaxRate
         /\ CrossfadeFrames * Unit \in Nat
         /\ t * Unit >= CrossfadeFrames * MaxRate + Unit
         /\ Block * MaxRate \in Nat /\ t * Unit >= Block * MaxRate + Unit
         /\ t * Unit >= 2 * Unit
         /\ CrossfadeFrames * (Unit - MinRate) \in Nat
         /\ HardMax * Unit >= t * Unit + Unit + CrossfadeFrames * (Unit - MinRate)
<1>1. /\ Unit \in Nat \ {0} /\ Capacity \in Nat \ {0} /\ Block \in Nat \ {0} /\ HardMax \in Nat
      /\ HardMax <= Capacity /\ CrossfadeFrames \in Nat /\ MinRate \in Nat /\ MaxRate \in Nat
      /\ MinRate <= Unit /\ Unit <= MaxRate /\ t \in Nat
  BY DEF BufferAssumption
<1>2. /\ t * Unit >= CrossfadeFrames * MaxRate + Unit /\ t * Unit >= Block * MaxRate + Unit
      /\ (HardMax - t - 1) * Unit >= CrossfadeFrames * (Unit - MinRate)
  BY DEF BufferAssumption
<1>3. HardMax * Unit <= Capacity * Unit
  BY <1>1, Products
<1>4. Unit * CrossfadeFrames <= MaxRate * CrossfadeFrames
  BY <1>1, Products
<1>5. Unit * CrossfadeFrames = CrossfadeFrames * Unit /\ MaxRate * CrossfadeFrames = CrossfadeFrames * MaxRate
  BY <1>1
<1>6. 1 * MaxRate <= Block * MaxRate
  BY <1>1, Products
<1>7. (HardMax - t - 1) * Unit = HardMax * Unit - t * Unit - Unit
  BY <1>1
<1>8. /\ t * Unit \in Nat /\ HardMax * Unit \in Nat /\ CrossfadeFrames * MaxRate \in Nat
      /\ CrossfadeFrames * Unit \in Nat /\ Block * MaxRate \in Nat
      /\ CrossfadeFrames * (Unit - MinRate) \in Nat
  BY <1>1
<1>9. t * Unit >= 2 * Unit
  BY <1>1, <1>2, <1>6, <1>8
<1>10. HardMax * Unit >= t * Unit + Unit + CrossfadeFrames * (Unit - MinRate)
  BY <1>1, <1>2, <1>7, <1>8
<1> QED
  BY <1>1, <1>2, <1>3, <1>4, <1>5, <1>8, <1>9, <1>10 DEF Around

\* What a call drops leaves the target.
Leaves(ring, g) == g.count <= ring.count /\ (g.count # ring.count => g.count >= targetFrames * Unit)

\* What the ceiling fades out follows from the reading position on.
LEMMA FadesOut ==
  ASSUME BufferAssumption, RingShapes, targetFrames \in Targets, NEW ring, Good(ring),
         CrossfadeFrames * Unit < ring.count, NEW n \in 0 .. ring.count,
         n >= Unit + CrossfadeFrames * (Unit - MinRate),
         ring.count - n >= targetFrames * Unit
  PROVE  Fades([i \in 1 .. CrossfadeFrames |-> SampleAt(ring.read, i - 1).a], ring.count - n)
<1> DEFINE f == [i \in 1 .. CrossfadeFrames |-> SampleAt(ring.read, i - 1).a]
           c == ring.count
           m == Sample(c)
<1>1. CrossfadeFrames \in Nat /\ Unit \in Nat /\ MinRate \in Nat /\ Unit - MinRate \in Nat /\ received \in Nat
  BY Sizable DEF RingShapes
<1>2. c \in Nat /\ c <= received * Unit
  BY DEF Good, Rings, Holds
<1>3. Place(c) \in Nat /\ m \in Nat /\ m * Unit <= Place(c)
  BY <1>2, SampleIs
<1>4. ASSUME NEW i \in 1 .. CrossfadeFrames
      PROVE  f[i] \in Recorded /\ f[i].n = m + i - 1
  <2>1. i - 1 \in Nat /\ (i - 1) * Unit < c
    <3>1. (i - 1) * Unit <= CrossfadeFrames * Unit /\ (i - 1) * Unit \in Nat /\ CrossfadeFrames * Unit \in Nat
      BY <1>1, Products
    <3> QED
      BY <1>2, <3>1
  <2>2. f[i] = samples[(ring.read \div Unit + (i - 1)) % Capacity]
    BY DEF SampleAt
  <2>3. Way(ring.read, ring.count) /\ Holds(ring.count)
    BY DEF Good
  <2>4. /\ samples[(ring.read \div Unit + (i - 1)) % Capacity] \in Recorded
        /\ samples[(ring.read \div Unit + (i - 1)) % Capacity].n = m + (i - 1)
    BY <2>1, <2>3, SampleRead
  <2> QED
    BY <1>3, <2>2, <2>4
<1>5. f \in Seq(Recorded) /\ Len(f) = CrossfadeFrames
  <2>1. f \in [1 .. CrossfadeFrames -> Recorded]
    BY <1>4
  <2>2. Len(f) = CrossfadeFrames
    BY <1>1
  <2> QED
    BY <1>1, <2>1, <2>2
<1> HIDE DEF f, c, m
<1>6. Place(c - n) = Place(c) + n
  BY <1>1, <1>2, <1>3 DEF Place, c
<1>7. (m + 1) * Unit + CrossfadeFrames * (Unit - MinRate) <= Place(c - n)
  <2>1. (m + 1) * Unit = m * Unit + Unit /\ m * Unit \in Nat
    BY <1>1, <1>3
  <2>2. CrossfadeFrames * (Unit - MinRate) \in Nat
    BY Limits
  <2> QED
    BY <1>1, <1>3, <1>6, <2>1, <2>2
<1>8. FadeFrom(f, m, c - n)
  BY <1>4, <1>5, <1>7 DEF FadeFrom
<1>9. CrossfadeFrames * MaxRate + Unit <= c - n
  BY <1>1, <1>2, Limits DEF c
<1>10. Fades(f, c - n)
  BY <1>3, <1>5, <1>8, <1>9 DEF Fades
<1> QED
  BY <1>10 DEF f, c

\* enforceHardCeiling keeps the ring good and leaves the target and at most the ceiling.
LEMMA CeilingLeaves ==
  ASSUME BufferAssumption, RingShapes, targetFrames \in Targets, NEW ring, Good(ring)
  PROVE  /\ Good(EnforceHardCeiling(ring)) /\ Leaves(ring, EnforceHardCeiling(ring))
         /\ EnforceHardCeiling(ring).count <= HardMax * Unit
<1>1. CASE ring.count <= HardMax * Unit
  <2>1. EnforceHardCeiling(ring) = ring
    BY <1>1 DEF EnforceHardCeiling
  <2>2. ring.count \in Nat
    BY DEF Good, Rings
  <2> QED
    BY <1>1, <2>1, <2>2 DEF Leaves
<1>2. CASE ~ (ring.count <= HardMax * Unit)
  <2> DEFINE t == targetFrames
             c == ring.count
             z == (c - t * Unit) \div Unit
             n == Larger(0, Smaller(c - 2 * Unit, z * Unit))
             f == [i \in 1 .. CrossfadeFrames |-> SampleAt(ring.read, i - 1).a]
  <2>1. c \in Nat /\ Unit \in Nat \ {0}
    BY DEF BufferAssumption, Good, Rings
  <2>2. /\ t * Unit \in Nat /\ HardMax * Unit \in Nat /\ t * Unit >= 2 * Unit
        /\ CrossfadeFrames * (Unit - MinRate) \in Nat
        /\ HardMax * Unit >= t * Unit + Unit + CrossfadeFrames * (Unit - MinRate)
        /\ CrossfadeFrames * Unit \in Nat /\ CrossfadeFrames * Unit <= t * Unit
    BY Limits DEF BufferAssumption
  <2> HIDE DEF t, c
  <2>3. c > HardMax * Unit
    BY <1>2, <2>1, <2>2 DEF c
  <2>4. z \in Int /\ z * Unit <= c - t * Unit /\ c - t * Unit < z * Unit + Unit
    <3>1. c - t * Unit \in Int
      BY <2>1, <2>2
    <3> QED
      BY <2>1, <3>1, Quotient, Zenon
  <2> HIDE DEF z
  <2>5. z * Unit \in Int /\ 2 * Unit \in Nat
    BY <2>1, <2>4
  <2>6. n = Smaller(c - 2 * Unit, z * Unit) /\ n > 0 /\ n <= c - t * Unit /\ n \in Nat
        /\ n >= Unit + CrossfadeFrames * (Unit - MinRate) /\ c - n <= HardMax * Unit
    <3> DEFINE a == c - 2 * Unit
               b == z * Unit
               k == CrossfadeFrames * (Unit - MinRate)
    <3>1. a \in Int /\ b \in Int /\ k \in Nat /\ b <= c - t * Unit /\ c - t * Unit <= a
      BY <2>1, <2>2, <2>4, <2>5
    <3>2. b >= Unit + k
      <4>1. HardMax \in Int /\ t \in Int /\ (HardMax - t - 1) * Unit >= k
        BY DEF BufferAssumption, t
      <4>2. (HardMax - t) * Unit = HardMax * Unit - t * Unit
            /\ (HardMax - t - 1) * Unit = HardMax * Unit - t * Unit - Unit
        BY <2>1, <4>1
      <4>3. ~ (z < HardMax - t)
        <5> SUFFICES ASSUME z < HardMax - t PROVE FALSE
          OBVIOUS
        <5>1. z * Unit + Unit <= (HardMax - t) * Unit
          BY <2>1, <2>4, <4>1, Products
        <5> QED
          BY <2>1, <2>2, <2>3, <2>4, <2>5, <4>2, <5>1
      <4>4. (HardMax - t) * Unit <= z * Unit
        BY <2>1, <2>4, <4>1, <4>3, Products
      <4> QED
        BY <2>1, <2>2, <2>5, <4>1, <4>2, <4>4
    <3>3. Smaller(a, b) = b
      <4> HIDE DEF a, b
      <4> QED
        BY <2>1, <2>2, <3>1 DEF Smaller
    <3>4. n = b
      BY <2>1, <3>1, <3>2, <3>3 DEF Larger
    <3> HIDE DEF a, b, k, n
    <3>5. c - b < t * Unit + Unit
      BY <2>1, <2>2, <2>4, <2>5 DEF b
    <3>6. b >= Unit + k /\ Smaller(a, b) = b /\ b \in Int /\ b > 0 /\ b <= c - t * Unit
          /\ c - b <= HardMax * Unit
      BY <2>1, <2>2, <3>1, <3>2, <3>3, <3>5 DEF k
    <3> QED
      BY <3>4, <3>6 DEF a, b, k
  <2> HIDE DEF n
  <2>7. n \in 0 .. c /\ c - n >= t * Unit /\ c - n <= HardMax * Unit
    BY <2>1, <2>2, <2>6
  <2>8. EnforceHardCeiling(ring) = [Advance(ring, n) EXCEPT !.fade = f]
    <3>1. n # 0
      BY <2>6
    <3> QED
      BY <1>2, <3>1, Zenon DEF EnforceHardCeiling, BeginCrossfadedDrop, n, z, t, c
  <2>9. Fades(f, c - n)
    <3>1. CrossfadeFrames * Unit < c
      BY <2>1, <2>2, <2>3
    <3> QED
      BY <2>6, <2>7, <3>1, FadesOut DEF c, t
  <2> HIDE DEF f
  <2>10. /\ \A g : Fades(g, c - n) => Good([Advance(ring, n) EXCEPT !.fade = g])
         /\ Advance(ring, n).count = c - n
    BY <2>7, Advances, Zenon DEF c
  <2>11. Good([Advance(ring, n) EXCEPT !.fade = f])
    BY <2>9, <2>10
  <2>12. [Advance(ring, n) EXCEPT !.fade = f].count = c - n
    <3>1. [Advance(ring, n) EXCEPT !.fade = f] \in Rings
      BY <2>11 DEF Good
    <3>2. [Advance(ring, n) EXCEPT !.fade = f].count = Advance(ring, n).count
      BY <3>1 DEF Rings
    <3> QED
      BY <2>10, <3>2
  <2> QED
    BY <2>1, <2>7, <2>8, <2>11, <2>12 DEF Leaves, c, t
<1> QED
  BY <1>1, <1>2

\* Silence is sought in what is above the target.
LEMMA SilenceFound ==
  ASSUME NEW ring, NEW scan \in Nat,
         NEW s, s = CHOOSE x \in 0 .. scan : /\ \A i \in 0 .. x - 1 : Silent(ring, i)
                                             /\ x = scan \/ ~ Silent(ring, x)
  PROVE  s \in 0 .. scan
<1> DEFINE T == {x \in 0 .. scan : x = scan \/ ~ Silent(ring, x)}
<1>1. scan \in T
  OBVIOUS
<1> HIDE DEF T
<1>2. PICK x \in 0 .. scan : x \in T /\ \A y \in 0 .. x - 1 : y \notin T
  BY <1>1, LeastOne, Zenon
<1>3. \A i \in 0 .. x - 1 : Silent(ring, i)
  <2> SUFFICES ASSUME NEW i \in 0 .. x - 1 PROVE Silent(ring, i)
    OBVIOUS
  <2>1. i \in 0 .. scan
    BY <1>2
  <2> QED
    BY <1>2, <2>1 DEF T
<1>4. x = scan \/ ~ Silent(ring, x)
  BY <1>2 DEF T
<1> QED
  BY <1>2, <1>3, <1>4, Zenon

\* trimLeadingSilence keeps the ring good and leaves the target.
LEMMA TrimLeaves ==
  ASSUME BufferAssumption, RingShapes, targetFrames \in Targets, NEW ring, Good(ring)
  PROVE  Good(TrimLeadingSilence(ring)) /\ Leaves(ring, TrimLeadingSilence(ring))
<1> DEFINE excess == (ring.count - targetFrames * Unit) \div Unit
           scan == Smaller(excess, 4 * PacketFrames)
           s == CHOOSE x \in 0 .. scan : /\ \A i \in 0 .. x - 1 : Silent(ring, i)
                                         /\ x = scan \/ ~ Silent(ring, x)
           n == (s - Smaller(CrossfadeFrames, s)) * Unit
<1>1. ring.count \in Nat /\ Unit \in Nat \ {0} /\ {PacketFrames, CrossfadeFrames, MinSilenceFrames} \subseteq Nat
  BY DEF Good, Rings, BufferAssumption
<1>2. Leaves(ring, ring)
  BY <1>1 DEF Leaves
<1>3. CASE excess < MinSilenceFrames \/ s < MinSilenceFrames
  <2>1. TrimLeadingSilence(ring) = ring
    BY <1>3, Zenon DEF TrimLeadingSilence
  <2> QED
    BY <1>2, <2>1
<1>4. CASE ~ (excess < MinSilenceFrames \/ s < MinSilenceFrames)
  <2>1. TrimLeadingSilence(ring) = Advance(ring, n)
    BY <1>4, Zenon DEF TrimLeadingSilence
  <2>2. targetFrames * Unit \in Nat /\ targetFrames * Unit >= CrossfadeFrames * MaxRate + Unit
        /\ CrossfadeFrames * MaxRate \in Nat
    BY Limits DEF BufferAssumption
  <2> DEFINE over == ring.count - targetFrames * Unit
  <2>3. over \in Int
    BY <1>1, <2>2
  <2>4. excess \in Int /\ excess * Unit <= over
    <3> HIDE DEF over
    <3>1. over \div Unit \in Int /\ (over \div Unit) * Unit <= over
      BY <1>1, <2>3, Quotient, Zenon
    <3> QED
      BY <3>1 DEF over
  <2> HIDE DEF excess
  <2>5. excess \in Nat
    BY <1>1, <1>4, <2>4
  <2>6. scan \in Nat /\ scan <= excess
    BY <1>1, <2>5 DEF Smaller
  <2> HIDE DEF scan
  <2>7. s \in 0 .. scan
    BY <2>6, SilenceFound, Zenon
  <2> HIDE DEF s
  <2>8. s \in Nat /\ s <= excess /\ s - Smaller(CrossfadeFrames, s) \in Nat
        /\ s - Smaller(CrossfadeFrames, s) <= excess
    BY <1>1, <2>5, <2>6, <2>7 DEF Smaller
  <2>9. n \in Nat /\ n <= excess * Unit
    <3>1. \A a \in Nat : a * Unit \in Nat
      BY <1>1
    <3> QED
      BY <1>1, <2>5, <2>8, <3>1, Products
  <2> HIDE DEF n
  <2>10. n \in 0 .. ring.count /\ ring.count - n >= targetFrames * Unit /\ ring.count - n \in Nat
         /\ ring.count - n <= ring.count
    BY <1>1, <2>2, <2>4, <2>5, <2>9
  <2>11. Fades(ring.fade, ring.count - n)
    <3>1. ring.count - n >= CrossfadeFrames * MaxRate + Unit
      BY <1>1, <2>2, <2>10
    <3> QED
      BY <1>1, <2>10, <3>1, FadesOn DEF Good
  <2>12. Good(Advance(ring, n)) /\ Advance(ring, n).count = ring.count - n
    BY <2>10, <2>11, Advances, Zenon
  <2> QED
    BY <2>1, <2>10, <2>12 DEF Leaves
<1> QED
  BY <1>3, <1>4

\* The smoothed rate stays between the limits.
LEMMA SmoothedWithin ==
  ASSUME BufferAssumption, playbackRate \in MinRate .. MaxRate, NEW c, NEW rate \in SmoothedRates(c)
  PROVE  rate \in MinRate .. MaxRate
<1>1. MinRate \in Nat /\ Unit \in Nat /\ MaxRate \in Nat /\ MinRate <= Unit /\ Unit <= MaxRate
  BY DEF BufferAssumption
<1>2. \A w \in WantedRates(c) : w \in MinRate .. MaxRate
  <2>1. {Unit} \subseteq MinRate .. MaxRate /\ {MaxRate} \subseteq MinRate .. MaxRate
        /\ MinRate .. Unit \subseteq MinRate .. MaxRate /\ Unit .. MaxRate \subseteq MinRate .. MaxRate
    BY <1>1
  <2> QED
    BY <2>1, Zenon DEF WantedRates
<1>3. PICK w \in WantedRates(c) : rate \in Smaller(playbackRate, w) .. Larger(playbackRate, w)
  BY Zenon DEF SmoothedRates
<1>4. w \in MinRate .. MaxRate
  BY <1>2, <1>3
<1> QED
  BY <1>1, <1>3, <1>4 DEF Smaller, Larger

\* The fade that is left after p samples of a block.
LEMMA FadeGoesOn ==
  ASSUME BufferAssumption, RingShapes, NEW f, NEW c \in Nat, Fades(f, c),
         NEW rate \in MinRate .. MaxRate, NEW p \in Nat, p * rate <= c
  PROVE  Fades(SubSeq(f, p + 1, Len(f)), c - p * rate)
<1> DEFINE g == SubSeq(f, p + 1, Len(f))
           l == Len(f)
<1>1. f \in Seq(Recorded) /\ l \in Nat /\ l <= CrossfadeFrames /\ CrossfadeFrames \in Nat
  BY Sizable DEF Fades
<1>2. rate \in Nat /\ p * rate \in Nat
  BY DEF BufferAssumption
<1>3. CASE p >= l
  <2>1. g = <<>>
    BY <1>1, <1>3
  <2> QED
    BY <1>1, <2>1 DEF Fades
<1>4. CASE p < l
  <2>1. g \in Seq(Recorded) /\ Len(g) = l - p /\ \A i \in 1 .. l - p : g[i] = f[p + i]
    BY <1>1, <1>4
  <2>2. f # <<>>
    BY <1>1, <1>4
  <2>3. PICK m \in Nat : FadeFrom(f, m, c)
    BY <2>2 DEF Fades
  <2>4. \A i \in 1 .. Len(g) : g[i].n = (m + p) + i - 1
    <3> SUFFICES ASSUME NEW i \in 1 .. Len(g) PROVE g[i].n = (m + p) + i - 1
      OBVIOUS
    <3>1. p + i \in 1 .. Len(f) /\ g[i] = f[p + i]
      BY <1>1, <1>4, <2>1
    <3>2. f[p + i].n = m + (p + i) - 1
      BY <2>3, <3>1 DEF FadeFrom
    <3> QED
      BY <2>1, <3>1, <3>2
  <2> HIDE DEF g, l
  <2>5. /\ Unit \in Nat /\ MinRate \in Nat /\ MaxRate \in Nat /\ Unit - MinRate \in Nat /\ received \in Nat
        /\ MinRate <= rate /\ rate <= MaxRate
    BY Sizable DEF RingShapes
  <2>6. (m + 1) * Unit + l * (Unit - MinRate) <= Place(c)
    BY <2>3 DEF FadeFrom, l
  <2>7. Place(c - p * rate) = Place(c) + p * rate /\ Place(c) \in Int
    <3>1. (received + 1) * Unit \in Nat
      BY <2>5
    <3> QED
      BY <1>2, <3>1 DEF Place
  <2>8. p * MinRate <= p * rate
    <3>1. MinRate * p <= rate * p
      BY <1>2, <2>5, Products
    <3>2. MinRate * p = p * MinRate /\ rate * p = p * rate
      BY <1>2, <2>5
    <3> QED
      BY <3>1, <3>2
  <2>9. (m + p + 1) * Unit + (l - p) * (Unit - MinRate) = ((m + 1) * Unit + l * (Unit - MinRate)) + p * MinRate
    <3>1. (m + p + 1) * Unit = (m + 1) * Unit + p * Unit
      BY <2>5
    <3>2. (l - p) * (Unit - MinRate) = l * (Unit - MinRate) - p * (Unit - MinRate)
      BY <1>1, <2>5, Products
    <3>3. p * (Unit - MinRate) = p * Unit - p * MinRate
      BY <2>5
    <3>4. (m + 1) * Unit \in Nat /\ p * Unit \in Nat /\ l * (Unit - MinRate) \in Nat /\ p * MinRate \in Nat
      BY <1>1, <2>5
    <3> QED
      BY <3>1, <3>2, <3>3, <3>4
  <2>10. (m + p + 1) * Unit + (l - p) * (Unit - MinRate) <= Place(c - p * rate)
    <3>1. (m + 1) * Unit + l * (Unit - MinRate) \in Int /\ p * MinRate \in Nat
      BY <1>1, <2>5
    <3> QED
      BY <1>2, <2>6, <2>7, <2>8, <2>9, <3>1
  <2>11. FadeFrom(g, m + p, c - p * rate)
    BY <2>1, <2>4, <2>10 DEF FadeFrom
  <2>12. l * MaxRate + Unit <= c
    BY <2>2 DEF Fades, l
  <2>13. (l - p) * MaxRate + Unit <= c - p * rate
    <3>1. (l - p) * MaxRate = l * MaxRate - p * MaxRate
      BY <1>1, <2>5, Products
    <3>2. rate * p <= MaxRate * p /\ rate * p = p * rate /\ MaxRate * p = p * MaxRate
      BY <1>2, <2>5, Products
    <3>3. l * MaxRate \in Nat /\ p * MaxRate \in Nat
      BY <1>1, <2>5
    <3> QED
      BY <1>2, <2>5, <2>12, <3>1, <3>2, <3>3
  <2>14. Len(g) <= CrossfadeFrames /\ m + p \in Nat
    BY <1>1, <2>1
  <2>15. Fades(g, c - p * rate)
    BY <2>1, <2>11, <2>13, <2>14 DEF Fades
  <2> QED
    BY <2>15 DEF g, l
<1> QED
  BY <1>1, <1>3, <1>4

\* As many samples are produced as there are enough for.
EnoughAt(ring, rate, k) == Enough(Advance(ring, k * rate).count, rate)

\* The samples of a block are the first for which there was enough; if they are fewer, it no longer is.
LEMMA Produces ==
  ASSUME BufferAssumption, NEW ring, NEW rate, NEW p,
         p = CHOOSE n \in 0 .. Block : /\ \A k \in 0 .. n - 1 : EnoughAt(ring, rate, k)
                                       /\ n = Block \/ ~ EnoughAt(ring, rate, n)
  PROVE  /\ p \in 0 .. Block /\ \A k \in 0 .. p - 1 : EnoughAt(ring, rate, k)
         /\ p = Block \/ ~ EnoughAt(ring, rate, p)
<1> DEFINE T == {n \in 0 .. Block : n = Block \/ ~ EnoughAt(ring, rate, n)}
<1>0. Block \in Nat
  BY DEF BufferAssumption
<1>1. Block \in T
  BY <1>0
<1> HIDE DEF T
<1>2. PICK n \in 0 .. Block : n \in T /\ \A k \in 0 .. n - 1 : k \notin T
  BY <1>0, <1>1, LeastOne, Zenon
<1>3. \A k \in 0 .. n - 1 : EnoughAt(ring, rate, k)
  <2> SUFFICES ASSUME NEW k \in 0 .. n - 1 PROVE EnoughAt(ring, rate, k)
    OBVIOUS
  <2>1. k \in 0 .. Block
    BY <1>0, <1>2
  <2> QED
    BY <1>2, <2>1 DEF T
<1>4. n = Block \/ ~ EnoughAt(ring, rate, n)
  BY <1>2 DEF T
<1> QED
  BY <1>2, <1>3, <1>4, Zenon

\* What is rendered of a ring: p samples, each at its place in the stream.
Plays(out, f, c, rate, p) ==
  /\ Len(out) = p /\ DOMAIN out = 1 .. p
  /\ \A k \in 1 .. p :
       /\ c - (k - 1) * rate >= rate + Unit
       /\ out[k].a.n = Sample(c - (k - 1) * rate) /\ out[k].b.n = out[k].a.n + 1
       /\ out[k].old = IF k <= Len(f) THEN f[k] ELSE None

\* What is played is what follows the reading position, with the fade beside it, and the ring stays good.
LEMMA Renders ==
  ASSUME BufferAssumption, RingShapes, NEW ring, Good(ring), NEW rate \in MinRate .. MaxRate
  PROVE  \E p \in 0 .. Block :
           /\ p * rate \in 0 .. ring.count
           /\ Plays(Rendered(ring, rate).out, ring.fade, ring.count, rate, p)
           /\ Good(Rendered(ring, rate).ring)
           /\ Rendered(ring, rate).ring.count = ring.count - p * rate
           /\ p = Block \/ ring.count - p * rate < rate + Unit
<1> DEFINE c == ring.count
           f == ring.fade
           p == CHOOSE n \in 0 .. Block : /\ \A k \in 0 .. n - 1 : EnoughAt(ring, rate, k)
                                          /\ n = Block \/ ~ EnoughAt(ring, rate, n)
           g == SubSeq(f, p + 1, Len(f))
           left == [Advance(ring, p * rate) EXCEPT !.fade = g]
           out == [k \in 1 .. p |->
                    [a |-> SampleAt(Advance(ring, (k - 1) * rate).read, 0).a,
                     b |-> SampleAt(Advance(ring, (k - 1) * rate).read, 0).b,
                     old |-> IF k <= Len(f) THEN f[k] ELSE None]]
<1>1. Rendered(ring, rate) = [ring |-> left, out |-> out]
  BY Zenon DEF Rendered, EnoughAt
<1>2. /\ c \in Nat /\ f \in Seq(Recorded) /\ rate \in Nat \ {0} /\ Unit \in Nat \ {0} /\ Block \in Nat
      /\ c <= received * Unit /\ Fades(f, c)
  BY DEF Good, Rings, Holds, BufferAssumption
<1>3. /\ p \in 0 .. Block /\ \A k \in 0 .. p - 1 : EnoughAt(ring, rate, k)
      /\ p = Block \/ ~ EnoughAt(ring, rate, p)
  BY Produces, Zenon
<1> HIDE DEF p, c, f
<1>4. \A k \in Nat : k * rate \in Nat /\ (k + 1) * rate = k * rate + rate
  BY <1>2
<1>5. ASSUME NEW k \in Nat, k * rate <= c
      PROVE  /\ Advance(ring, k * rate).count = c - k * rate
             /\ Advance(ring, k * rate).read = (ring.read + k * rate) % Around
  <2>1. k * rate \in 0 .. c
    BY <1>2, <1>4, <1>5
  <2> QED
    BY <2>1, Advances, Zenon DEF c
<1>6. ASSUME NEW k \in Nat, EnoughAt(ring, rate, k)
      PROVE  k * rate <= c /\ c - k * rate >= rate + Unit
  <2>1. CASE k * rate <= c
    <3>1. Advance(ring, k * rate).count = c - k * rate
      BY <1>5, <2>1
    <3> QED
      BY <1>6, <2>1, <3>1 DEF EnoughAt, Enough
  <2>2. CASE ~ (k * rate <= c)
    <3> DEFINE n == k * rate
    <3>1. n \in Nat /\ n > c
      BY <1>2, <1>4, <2>2
    <3> HIDE DEF n
    <3>2. Larger(0, Smaller(c, n)) = c
      BY <1>2, <3>1 DEF Larger, Smaller
    <3>3. ring \in Rings
      BY DEF Good
    <3>4. Advance(ring, n).count = ring.count - c
      <4>1. Advance(ring, n) = [ring EXCEPT !.read = (ring.read + c) % Around, !.count = ring.count - c]
        BY <3>2, Zenon DEF Advance, Around, c
      <4> QED
        BY <3>3, <4>1 DEF Rings
    <3>5. Advance(ring, n).count = 0
      BY <1>2, <3>4 DEF c
    <3>6. 0 >= rate + Unit
      BY <1>6, <3>5 DEF EnoughAt, Enough, n
    <3> QED
      BY <1>2, <3>6
  <2> QED
    BY <2>1, <2>2
<1>7. p * rate <= c /\ p * rate \in 0 .. c
  <2>1. CASE p = 0
    BY <1>2, <2>1
  <2>2. CASE p # 0
    <3>1. p - 1 \in Nat /\ p - 1 \in 0 .. p - 1 /\ p * rate = (p - 1) * rate + rate
      BY <1>2, <1>3, <1>4, <2>2
    <3>2. c - (p - 1) * rate >= rate + Unit
      BY <1>3, <1>6, <3>1
    <3>3. (p - 1) * rate \in Nat /\ p * rate \in Nat
      BY <1>3, <1>4, <3>1
    <3> QED
      BY <1>2, <3>1, <3>2, <3>3
  <2> QED
    BY <2>1, <2>2
<1>8. p = Block \/ c - p * rate < rate + Unit
  <2>1. ASSUME ~ EnoughAt(ring, rate, p) PROVE c - p * rate < rate + Unit
    <3>1. Advance(ring, p * rate).count = c - p * rate
      BY <1>3, <1>5, <1>7
    <3>2. p * rate \in Nat
      BY <1>3, <1>4
    <3> QED
      BY <1>2, <2>1, <3>1, <3>2 DEF EnoughAt, Enough
  <2> QED
    BY <1>3, <2>1
<1>9. ASSUME NEW k \in 1 .. p
      PROVE  /\ c - (k - 1) * rate >= rate + Unit
             /\ out[k].a.n = Sample(c - (k - 1) * rate) /\ out[k].b.n = out[k].a.n + 1
             /\ out[k].old = IF k <= Len(f) THEN f[k] ELSE None
  <2> DEFINE n == (k - 1) * rate
  <2>1. k - 1 \in Nat /\ k - 1 \in 0 .. p - 1
    BY <1>3
  <2>2. n <= c /\ c - n >= rate + Unit /\ n \in Nat
    BY <1>3, <1>4, <1>6, <2>1
  <2>3. Advance(ring, n).read = (ring.read + n) % Around
    BY <1>5, <2>1, <2>2
  <2> DEFINE r == (ring.read + n) % Around
             x == SampleAt(r, 0)
  <2>4. out[k].a = x.a /\ out[k].b = x.b /\ out[k].old = IF k <= Len(f) THEN f[k] ELSE None
    BY <2>3
  <2> HIDE DEF n, out
  <2>5. n \in 0 .. c /\ c - n \in Nat /\ c - n <= c
    BY <1>2, <2>2
  <2>6. Way(r, c - n)
    BY <2>5, WayShorter DEF Good, c
  <2>7. Holds(c - n)
    BY <1>2, <2>5, HoldsLess DEF Good, c
  <2>8. x.a.n = Sample(c - n) /\ x.b.n = Sample(c - n) + 1
    <3> HIDE DEF r
    <3>1. 0 * Unit < c - n /\ 1 * Unit < c - n
      BY <1>2, <2>2
    <3>2. /\ samples[(r \div Unit + 0) % Capacity].n = Sample(c - n) + 0
          /\ samples[(r \div Unit + 1) % Capacity].n = Sample(c - n) + 1
      BY <2>6, <2>7, <3>1, SampleRead
    <3>3. r \div Unit \in Int /\ Sample(c - n) \in Nat
      <4>1. r \in Int
        BY <2>6, AroundIsNat DEF Way
      <4>2. c - n <= received * Unit
        BY <2>7 DEF Holds
      <4> QED
        BY <1>2, <2>5, <4>1, <4>2, Quotient, SampleIs
    <3>4. x = [a |-> samples[(r \div Unit + 0) % Capacity], b |-> samples[(r \div Unit + 0 + 1) % Capacity]]
      BY Zenon DEF SampleAt
    <3>5. r \div Unit + 0 + 1 = r \div Unit + 1
      BY <3>3
    <3> QED
      BY <3>2, <3>3, <3>4, <3>5
  <2> QED
    BY <2>2, <2>4, <2>8 DEF n
<1>10. Plays(out, f, c, rate, p)
  <2>1. Len(out) = p /\ DOMAIN out = 1 .. p
    BY <1>3
  <2> HIDE DEF out
  <2> QED
    BY <1>9, <2>1 DEF Plays
<1>11. Fades(g, c - p * rate)
  BY <1>2, <1>3, <1>7, FadeGoesOn
<1> HIDE DEF g, out
<1>12. Good(left) /\ left.count = c - p * rate
  <2> DEFINE n == p * rate
  <2> HIDE DEF n
  <2>1. /\ Advance(ring, n).count = c - n
        /\ \A h : Fades(h, c - n) => Good([Advance(ring, n) EXCEPT !.fade = h])
    BY <1>7, Advances, Zenon DEF c, n
  <2>2. Good([Advance(ring, n) EXCEPT !.fade = g])
    BY <1>11, <2>1 DEF n
  <2>3. [Advance(ring, n) EXCEPT !.fade = g].count = Advance(ring, n).count
    <3>1. [Advance(ring, n) EXCEPT !.fade = g] \in Rings
      BY <2>2 DEF Good
    <3> QED
      BY <3>1 DEF Rings
  <2> QED
    BY <2>1, <2>2, <2>3 DEF n
<1> HIDE DEF left
<1>13. Rendered(ring, rate).ring = left /\ Rendered(ring, rate).out = out
  BY <1>1
<1> QED
  BY <1>3, <1>7, <1>8, <1>10, <1>12, <1>13 DEF c, f

GoesForward(out) ==
  \A k \in DOMAIN out :
    LET s == out[k] IN
      /\ s.a.n > 0 /\ s.b.n = s.a.n + 1
      /\ k > 1 => s.a.n - out[k - 1].a.n \in 0 .. 2
      /\ s.old # None => /\ s.old.n < s.a.n
                         /\ k > 1 => s.old.n = out[k - 1].old.n + 1

\* A step of at most two samples reaches one of the next two.
LEMMA StepsForward ==
  ASSUME BufferAssumption, RingShapes, NEW c \in Nat, c <= received * Unit, NEW rate \in 0 .. 2 * Unit,
         rate <= c
  PROVE  Sample(c - rate) - Sample(c) \in 0 .. 2
<1> DEFINE d == c - rate
           x == Sample(c)
           y == Sample(d)
<1>1. Unit \in Nat \ {0} /\ received \in Nat
  BY Sizable DEF RingShapes
<1>2. rate \in Nat /\ rate <= 2 * Unit /\ d \in Nat /\ d <= c /\ received * Unit \in Nat
  BY <1>1
<1>3. x \in Nat /\ x * Unit <= Place(c) /\ Place(c) < x * Unit + Unit
  BY SampleIs
<1>4. y \in Nat /\ y * Unit <= Place(d) /\ Place(d) < y * Unit + Unit
  BY <1>2, SampleIs
<1>5. Place(d) = Place(c) + rate /\ Place(c) \in Int
  <2>1. (received + 1) * Unit \in Nat
    BY <1>1
  <2> QED
    BY <1>2, <2>1 DEF Place
<1> HIDE DEF x, y, d
<1>6. x * Unit \in Nat /\ y * Unit \in Nat
  BY <1>1, <1>3, <1>4
<1>7. ~ (y < x)
  <2> SUFFICES ASSUME y < x PROVE FALSE
    OBVIOUS
  <2>1. y * Unit + Unit <= x * Unit
    BY <1>1, <1>3, <1>4, Products
  <2> QED
    BY <1>1, <1>2, <1>3, <1>4, <1>5, <1>6, <2>1
<1>8. ~ (x + 2 < y)
  <2> SUFFICES ASSUME x + 2 < y PROVE FALSE
    OBVIOUS
  <2>1. (x + 2) * Unit + Unit <= y * Unit
    BY <1>1, <1>3, <1>4, Products
  <2>2. (x + 2) * Unit = x * Unit + 2 * Unit
    BY <1>1, <1>3
  <2> QED
    BY <1>1, <1>2, <1>3, <1>4, <1>5, <1>6, <2>1, <2>2
<1>9. y - x \in 0 .. 2
  BY <1>3, <1>4, <1>7, <1>8
<1> QED
  BY <1>9 DEF x, y, d

\* What is faded out is older than what is faded in, sample by sample.
LEMMA FadeBehind ==
  ASSUME BufferAssumption, RingShapes, NEW f, NEW c \in Nat, c <= received * Unit, NEW m \in Nat,
         FadeFrom(f, m, c), NEW rate \in MinRate .. MaxRate, NEW k \in 1 .. Len(f), Len(f) \in Nat,
         (k - 1) * rate <= c
  PROVE  m + k - 1 < Sample(c - (k - 1) * rate)
<1> DEFINE n == (k - 1) * rate
           d == c - n
           x == Sample(d)
<1>1. /\ Unit \in Nat \ {0} /\ MinRate \in Nat /\ MaxRate \in Nat /\ Unit - MinRate \in Nat /\ received \in Nat
      /\ rate \in Nat /\ MinRate <= rate /\ k \in Nat /\ k - 1 \in Nat /\ k - 1 <= Len(f)
  <2>1. received \in Nat
    BY DEF RingShapes
  <2>2. Unit \in Nat \ {0} /\ MinRate \in Nat /\ MaxRate \in Nat /\ Unit - MinRate \in Nat
    BY Sizable
  <2>3. rate \in Nat /\ MinRate <= rate
    BY <2>2
  <2>4. k \in Nat /\ k - 1 \in Nat /\ k - 1 <= Len(f)
    OBVIOUS
  <2> QED
    BY <2>1, <2>2, <2>3, <2>4
<1>2. n \in Nat /\ d \in Nat /\ d <= c /\ received * Unit \in Nat
  BY <1>1
<1>3. x \in Nat /\ x * Unit <= Place(d) /\ Place(d) < x * Unit + Unit
  <2>1. d <= received * Unit
    BY <1>2
  <2> QED
    BY <1>2, <2>1, SampleIs
<1>4. Place(d) = Place(c) + n /\ Place(c) \in Int
  <2>1. (received + 1) * Unit \in Nat
    BY <1>1
  <2> QED
    BY <1>2, <2>1 DEF Place
<1>5. (m + 1) * Unit + Len(f) * (Unit - MinRate) <= Place(c)
  BY DEF FadeFrom
<1>6. (k - 1) * (Unit - MinRate) <= Len(f) * (Unit - MinRate)
  BY <1>1, Products
<1>7. (k - 1) * MinRate <= n
  <2>1. MinRate * (k - 1) <= rate * (k - 1)
    BY <1>1, Products
  <2>2. MinRate * (k - 1) = (k - 1) * MinRate /\ rate * (k - 1) = (k - 1) * rate
    BY <1>1
  <2> QED
    BY <2>1, <2>2
<1>8. (k - 1) * (Unit - MinRate) = (k - 1) * Unit - (k - 1) * MinRate
  BY <1>1
<1>9. (m + k) * Unit = (m + 1) * Unit + (k - 1) * Unit
  BY <1>1
<1> HIDE DEF x, d, n
<1>10. (m + k) * Unit <= Place(d)
  <2>1. /\ (m + 1) * Unit \in Nat /\ (k - 1) * Unit \in Nat /\ (k - 1) * MinRate \in Nat
        /\ Len(f) * (Unit - MinRate) \in Nat /\ (k - 1) * (Unit - MinRate) \in Nat
        /\ (m + k) * Unit \in Int
    BY <1>1
  <2> DEFINE a == (m + 1) * Unit
             b == (k - 1) * Unit
             low == (k - 1) * MinRate
             far == Len(f) * (Unit - MinRate)
             near == (k - 1) * (Unit - MinRate)
             z == (m + k) * Unit
             q == Place(d)
             s == Place(c)
  <2>2. /\ a \in Nat /\ b \in Nat /\ low \in Nat /\ far \in Nat /\ near \in Nat /\ z \in Int /\ s \in Int
        /\ n \in Nat /\ a + far <= s /\ near <= far /\ low <= n /\ near = b - low /\ z = a + b /\ q = s + n
    BY <1>2, <1>4, <1>5, <1>6, <1>7, <1>8, <1>9, <2>1, Zenon
  <2> HIDE DEF a, b, low, far, near, z, q, s
  <2>3. z <= q
    BY <2>2
  <2> QED
    BY <2>3 DEF z, q
<1>11. ~ (x < m + k)
  <2> SUFFICES ASSUME x < m + k PROVE FALSE
    OBVIOUS
  <2>1. x * Unit + Unit <= (m + k) * Unit /\ x * Unit \in Nat /\ (m + k) * Unit \in Nat
    BY <1>1, <1>3, Products
  <2> QED
    BY <1>1, <1>2, <1>3, <1>4, <1>10, <2>1
<1>12. m + k - 1 < x
  BY <1>1, <1>3, <1>11
<1> QED
  BY <1>12 DEF x, d, n

\* A block that begins with a good ring moves forward.
LEMMA PlaysOn ==
  ASSUME BufferAssumption, RingShapes, NEW f, NEW c \in Nat, c <= received * Unit, Fades(f, c),
         NEW rate \in MinRate .. MaxRate, NEW p \in Nat, NEW out, Plays(out, f, c, rate, p)
  PROVE  GoesForward(out)
<1>1. /\ Unit \in Nat \ {0} /\ rate \in 0 .. 2 * Unit /\ rate \in Nat /\ received * Unit \in Nat
  <2>1. received \in Nat
    BY DEF RingShapes
  <2> QED
    BY <2>1, Sizable
<1>2. DOMAIN out = 1 .. p /\ f \in Seq(Recorded) /\ Len(f) \in Nat
  BY DEF Plays, Fades
<1>3. ASSUME NEW k \in 1 .. p
      PROVE  /\ c - (k - 1) * rate >= rate + Unit /\ (k - 1) * rate \in Nat /\ (k - 1) * rate <= c
             /\ out[k].a.n = Sample(c - (k - 1) * rate) /\ out[k].b.n = out[k].a.n + 1
             /\ out[k].old = IF k <= Len(f) THEN f[k] ELSE None
  <2>1. (k - 1) * rate \in Nat
    BY <1>1
  <2>2. /\ c - (k - 1) * rate >= rate + Unit
        /\ out[k].a.n = Sample(c - (k - 1) * rate) /\ out[k].b.n = out[k].a.n + 1
        /\ out[k].old = IF k <= Len(f) THEN f[k] ELSE None
    BY DEF Plays
  <2> QED
    BY <1>1, <2>1, <2>2
<1>4. ASSUME NEW k \in 1 .. p PROVE out[k].a.n > 0
  <2> DEFINE n == (k - 1) * rate
  <2>1. n \in Nat /\ n <= c /\ out[k].a.n = Sample(c - n)
    BY <1>3
  <2> HIDE DEF n
  <2>2. c - n \in Nat /\ c - n <= received * Unit
    BY <1>1, <2>1
  <2> QED
    BY <2>1, <2>2, SampleIs
<1>5. ASSUME NEW k \in 1 .. p, k > 1 PROVE out[k].a.n - out[k - 1].a.n \in 0 .. 2
  <2>1. k - 1 \in 1 .. p /\ (k - 1) * rate = (k - 1 - 1) * rate + rate
    BY <1>1, <1>5
  <2> DEFINE n == (k - 1 - 1) * rate
  <2>2. n \in Nat /\ n <= c /\ c - n >= rate + Unit /\ out[k - 1].a.n = Sample(c - n)
    BY <1>3, <2>1
  <2>3. out[k].a.n = Sample(c - (k - 1) * rate)
    BY <1>3
  <2> HIDE DEF n
  <2>4. c - (k - 1) * rate = (c - n) - rate
    BY <1>1, <2>1, <2>2 DEF n
  <2>5. c - n \in Nat /\ c - n <= received * Unit /\ rate <= c - n
    BY <1>1, <2>2
  <2>6. Sample((c - n) - rate) - Sample(c - n) \in 0 .. 2
    BY <1>1, <2>5, StepsForward
  <2> QED
    BY <2>2, <2>3, <2>4, <2>6
<1>6. ASSUME NEW k \in 1 .. p, out[k].old # None
      PROVE  /\ out[k].old.n < out[k].a.n
             /\ k > 1 => out[k].old.n = out[k - 1].old.n + 1
  <2>1. k \in 1 .. Len(f) /\ out[k].old = f[k]
    <3>1. out[k].old = IF k <= Len(f) THEN f[k] ELSE None
      BY <1>3
    <3>2. k <= Len(f)
      BY <1>6, <3>1
    <3> QED
      BY <1>2, <3>1, <3>2
  <2>2. PICK m \in Nat : FadeFrom(f, m, c)
    <3>1. f # <<>>
      BY <1>2, <2>1
    <3> QED
      BY <3>1 DEF Fades
  <2>3. f[k].n = m + k - 1
    BY <2>1, <2>2 DEF FadeFrom
  <2>4. (k - 1) * rate <= c /\ out[k].a.n = Sample(c - (k - 1) * rate)
    BY <1>3
  <2>5. m + k - 1 < out[k].a.n
    BY <1>2, <2>1, <2>2, <2>4, FadeBehind
  <2>6. ASSUME k > 1 PROVE out[k].old.n = out[k - 1].old.n + 1
    <3>1. k - 1 \in 1 .. p /\ k - 1 \in 1 .. Len(f)
      BY <1>2, <2>1, <2>6
    <3>2. out[k - 1].old = f[k - 1]
      <4>1. out[k - 1].old = IF k - 1 <= Len(f) THEN f[k - 1] ELSE None
        BY <1>3, <3>1
      <4> QED
        BY <3>1, <4>1
    <3>3. f[k - 1].n = m + (k - 1) - 1
      BY <2>2, <3>1 DEF FadeFrom
    <3> QED
      BY <2>1, <2>3, <3>1, <3>2, <3>3
  <2> QED
    BY <2>1, <2>3, <2>5, <2>6
<1> QED
  BY <1>2, <1>3, <1>4, <1>5, <1>6 DEF GoesForward

-----------------------------------------------------------------------------
(***************************************************************************)
(* The inductive invariant of the jitter buffer.                           *)
(***************************************************************************)
BufferShapes ==
  /\ RingShapes
  /\ targetFrames \in Targets /\ started \in BOOLEAN /\ playbackRate \in MinRate .. MaxRate

Buffered == [read |-> read, count |-> count, fade |-> crossfade]

BufferIInv ==
  /\ BufferShapes /\ Good(Buffered)
  /\ Forward /\ NoSelfUnderrun /\ NoStaleFade /\ LatencyBounded

\* An empty ring without a fade is good.
LEMMA EmptyIsGood ==
  ASSUME BufferAssumption, NEW r, r \in 0 .. Around - 1, r = write * Unit, RingShapes
  PROVE  Good([read |-> r, count |-> 0, fade |-> <<>>])
<1>1. Around \in Nat \ {0} /\ Unit \in Nat /\ Capacity \in Nat /\ received * Unit \in Nat /\ CrossfadeFrames \in Nat
  <2>1. received \in Nat
    BY DEF RingShapes
  <2> QED
    BY <2>1, AroundIsNat, Sizable
<1>2. Way(r, 0)
  BY <1>1 DEF Way
<1>3. Holds(0)
  <2>1. \A i \in 0 .. Capacity - 1 : ~ (i * Unit < 0)
    BY <1>1
  <2> QED
    BY <1>1, <2>1 DEF Holds
<1>4. Fades(<<>>, 0)
  BY <1>1 DEF Fades
<1> QED
  BY <1>1, <1>2, <1>3, <1>4 DEF Good, Rings

\* The invariant holds at the start.
LEMMA BufferInitIInv == ASSUME BufferAssumption, BufferInit PROVE BufferIInv
<1>1. BufferShapes
  <2>1. Unit \in MinRate .. MaxRate /\ 0 \in 0 .. Capacity - 1
    BY DEF BufferAssumption
  <2>2. None \in Recorded
    BY DEF None, Recorded
  <2>3. samples \in [0 .. Capacity - 1 -> Recorded]
    BY <2>2 DEF BufferInit
  <2> QED
    BY <2>1, <2>3 DEF BufferInit, BufferShapes, RingShapes
<1>2. Good(Buffered)
  <2>1. read = 0 /\ count = 0 /\ crossfade = <<>> /\ write = 0 /\ RingShapes
    BY <1>1 DEF BufferInit, BufferShapes
  <2>2. 0 \in 0 .. Around - 1 /\ 0 = write * Unit
    BY <2>1, AroundIsNat DEF BufferAssumption
  <2> QED
    BY <2>1, <2>2, EmptyIsGood DEF Buffered
<1>3. Forward /\ NoSelfUnderrun /\ NoStaleFade /\ LatencyBounded
  BY DEF BufferInit, Forward, NoSelfUnderrun, NoStaleFade, LatencyBounded
<1> QED
  BY <1>1, <1>2, <1>3 DEF BufferIInv

\* Where nothing is played, nothing is claimed of what was played.
LEMMA PlaysNothingKeeps ==
  ASSUME PlaysNothing
  PROVE  Forward' /\ NoSelfUnderrun' /\ LatencyBounded'
BY DEF PlaysNothing, Forward, NoSelfUnderrun, LatencyBounded

\* What is good of the ring stays so while nothing is written.
LEMMA GoodStays ==
  ASSUME Good([read |-> read', count |-> count', fade |-> crossfade']),
         UNCHANGED <<samples, write, received>>
  PROVE  Good(Buffered)'
BY DEF Good, Buffered, Way, Holds, Slot, Fades, FadeFrom, Place

\* A new target, and a block of silence before the target is reached, keep the ring.
LEMMA ConfigKeeps == ASSUME BufferAssumption, BufferIInv, ConfigMessage \/ Prefill PROVE BufferIInv'
<1>1. /\ UNCHANGED <<samples, read, write, count, started, playbackRate, crossfade, received>>
      /\ targetFrames' \in Targets /\ PlaysNothing
  BY DEF BufferIInv, BufferShapes, ConfigMessage, Prefill
<1>2. BufferShapes'
  BY <1>1 DEF BufferIInv, BufferShapes, RingShapes
<1>3. Good(Buffered)'
  BY <1>1, GoodStays DEF BufferIInv, Buffered
<1>4. NoStaleFade'
  BY <1>1 DEF BufferIInv, NoStaleFade
<1> QED
  BY <1>1, <1>2, <1>3, <1>4, PlaysNothingKeeps DEF BufferIInv

\* After a reset the ring is empty.
LEMMA ResetKeeps == ASSUME BufferAssumption, BufferIInv, ResetMessage PROVE BufferIInv'
<1>1. /\ read' = 0 /\ write' = 0 /\ count' = 0 /\ ~ started' /\ started' \in BOOLEAN /\ playbackRate' = Unit
      /\ crossfade' = <<>> /\ PlaysNothing /\ UNCHANGED <<samples, targetFrames, received>>
  BY DEF ResetMessage
<1>2. BufferShapes'
  BY <1>1 DEF BufferIInv, BufferShapes, RingShapes, BufferAssumption
<1>3. Good(Buffered)'
  <2>1. Around \in Nat \ {0} /\ Unit \in Nat /\ Capacity \in Nat /\ CrossfadeFrames \in Nat
    BY AroundIsNat DEF BufferAssumption
  <2>5. received' \in Nat
    BY <1>2 DEF BufferShapes, RingShapes
  <2>6. received' * Unit \in Nat
    <3>1. \A x \in Nat : x * Unit \in Nat
      BY <2>1
    <3> QED
      BY <2>5, <3>1, Zenon
  <2>2. Way(0, 0)'
    BY <1>1, <2>1 DEF Way, Around
  <2>3. Holds(0)'
    <3>1. \A i \in 0 .. Capacity - 1 : ~ (i * Unit < 0)
      BY <2>1
    <3> QED
      BY <2>1, <2>6, <3>1 DEF Holds
  <2>4. Fades(<<>>, 0)'
    BY <2>1 DEF Fades
  <2> QED
    BY <1>1, <2>2, <2>3, <2>4 DEF Good, Rings, Buffered
<1>4. NoStaleFade'
  BY <1>1 DEF NoStaleFade
<1> QED
  BY <1>1, <1>2, <1>3, <1>4, PlaysNothingKeeps DEF BufferIInv

\* A call of process that plays keeps the invariant.
LEMMA PlayBlockKeeps == ASSUME BufferAssumption, BufferIInv, PlayBlock PROVE BufferIInv'
<1> DEFINE ceiled == EnforceHardCeiling(Buffered)
           trimmed == TrimLeadingSilence(ceiled)
           c == trimmed.count
<1>1. PICK rate \in SmoothedRates(c) :
        LET done == Rendered(trimmed, rate)
            short == Len(done.out) < Block
        IN /\ rendered' = done.out
           /\ crossfade' = done.ring.fade
           /\ dropped' = (c < count)
           /\ underrun' = short
           /\ started' = ~short
           /\ playbackRate' = IF short THEN Unit ELSE rate
           /\ read' = IF short THEN write * Unit ELSE done.ring.read
           /\ count' = IF short THEN 0 ELSE done.ring.count
  BY Zenon DEF PlayBlock, Buffered
<1>2. UNCHANGED <<samples, write, targetFrames, received>>
  BY DEF PlayBlock
<1>3. RingShapes /\ targetFrames \in Targets /\ playbackRate \in MinRate .. MaxRate /\ Good(Buffered)
      /\ Buffered.count = count
  BY DEF BufferIInv, BufferShapes, Buffered
<1>4. Good(ceiled) /\ Leaves(Buffered, ceiled) /\ ceiled.count <= HardMax * Unit
  BY <1>3, CeilingLeaves, Zenon
<1>5. Good(trimmed) /\ Leaves(ceiled, trimmed)
  BY <1>3, <1>4, TrimLeaves, Zenon
<1>6. rate \in MinRate .. MaxRate
  BY <1>3, SmoothedWithin
<1> DEFINE done == Rendered(trimmed, rate)
           short == Len(done.out) < Block
<1>7. PICK p \in 0 .. Block :
        /\ p * rate \in 0 .. c
        /\ Plays(done.out, trimmed.fade, c, rate, p)
        /\ Good(done.ring) /\ done.ring.count = c - p * rate
        /\ p = Block \/ c - p * rate < rate + Unit
  BY <1>3, <1>5, <1>6, Renders, Zenon
<1>8. /\ rendered' = done.out /\ crossfade' = done.ring.fade /\ dropped' = (c < count)
      /\ underrun' = short /\ started' = ~short
      /\ playbackRate' = IF short THEN Unit ELSE rate
      /\ read' = IF short THEN write * Unit ELSE done.ring.read
      /\ count' = IF short THEN 0 ELSE done.ring.count
  BY <1>1, Zenon
<1> HIDE DEF done
<1>9. Len(done.out) = p
  BY <1>7 DEF Plays
<1>10. /\ Unit \in Nat \ {0} /\ MinRate \in Nat /\ MaxRate \in Nat /\ MinRate <= Unit /\ Unit <= MaxRate
       /\ Block \in Nat /\ rate \in Nat /\ rate <= MaxRate
  BY <1>6 DEF BufferAssumption
<1>11. /\ count \in Nat /\ ceiled.count \in Nat /\ c \in Nat /\ c <= received * Unit /\ c <= ceiled.count
       /\ (c < count => c >= targetFrames * Unit) /\ Fades(trimmed.fade, c)
  <2>1. count \in Nat
    BY <1>3 DEF Good, Rings
  <2>2. ceiled.count \in Nat
    BY <1>4 DEF Good, Rings
  <2>3. c \in Nat /\ c <= received * Unit /\ Fades(trimmed.fade, c)
    BY <1>5 DEF Good, Rings, Holds
  <2> DEFINE e == ceiled.count
             t == targetFrames * Unit
  <2>4. e <= count /\ (e # count => e >= t) /\ c <= e /\ (c # e => c >= t)
    BY <1>3, <1>4, <1>5 DEF Leaves
  <2>5. e \in Nat /\ t \in Nat
    BY <1>3, <2>2, Limits
  <2> HIDE DEF e, t, c
  <2>6. c <= e /\ (c < count => c >= t)
    BY <2>1, <2>3, <2>4, <2>5
  <2> QED
    BY <2>1, <2>2, <2>3, <2>6 DEF e, t
<1> HIDE DEF ceiled, trimmed, c
<1>12. BufferShapes'
  BY <1>2, <1>3, <1>6, <1>8, <1>10 DEF BufferShapes, RingShapes
<1>13. Forward'
  <2>1. GoesForward(done.out)
    BY <1>3, <1>6, <1>7, <1>11, PlaysOn
  <2> QED
    BY <1>8, <2>1 DEF GoesForward, Forward
<1>14. NoSelfUnderrun'
  <2> SUFFICES ASSUME c < count, short PROVE FALSE
    BY <1>8 DEF NoSelfUnderrun
  <2>1. p \in Nat /\ p + 1 <= Block /\ c - p * rate < rate + Unit
    BY <1>7, <1>9, <1>10
  <2>2. (p + 1) * rate = p * rate + rate /\ p * rate \in Nat
    BY <1>10, <2>1
  <2>3. (p + 1) * rate <= Block * rate
    BY <1>10, <2>1, Products
  <2>4. Block * rate <= Block * MaxRate
    <3>1. rate * Block <= MaxRate * Block
      BY <1>10, Products
    <3>2. rate * Block = Block * rate /\ MaxRate * Block = Block * MaxRate
      BY <1>10
    <3> QED
      BY <3>1, <3>2
  <2>5. Block * rate \in Nat /\ Block * MaxRate \in Nat /\ targetFrames * Unit >= Block * MaxRate + Unit
        /\ targetFrames * Unit \in Nat
    BY <1>3, <1>10, Limits
  <2>6. c >= targetFrames * Unit
    BY <1>11
  <2> QED
    BY <1>10, <1>11, <2>1, <2>2, <2>3, <2>4, <2>5, <2>6
<1>15. short => done.ring.fade = <<>>
  <2> SUFFICES ASSUME short, done.ring.fade # <<>> PROVE FALSE
    OBVIOUS
  <2> DEFINE f == done.ring.fade
  <2>1. done.ring.count < rate + Unit /\ done.ring.count \in Nat
    BY <1>7, <1>9, <1>10, <1>11 DEF Good, Rings
  <2>2. f \in Seq(Recorded) /\ f # <<>> /\ Len(f) * MaxRate + Unit <= done.ring.count
    BY <1>7 DEF Good, Fades
  <2>3. Len(f) \in Nat /\ 1 <= Len(f)
    BY <2>2
  <2> HIDE DEF f
  <2>4. 1 * MaxRate <= Len(f) * MaxRate /\ Len(f) * MaxRate \in Nat
    BY <1>10, <2>3, Products
  <2> QED
    BY <1>10, <2>1, <2>2, <2>4
<1>16. NoStaleFade'
  BY <1>8, <1>15 DEF NoStaleFade
<1>17. LatencyBounded'
  <2> SUFFICES ASSUME ~ short PROVE count' <= HardMax * Unit
    BY <1>8 DEF LatencyBounded
  <2>1. count' = c - p * rate
    BY <1>7, <1>8
  <2>2. HardMax * Unit \in Nat
    BY <1>3, Limits
  <2> QED
    BY <1>4, <1>7, <1>11, <2>1, <2>2
<1>18. Good(Buffered)'
  <2>1. Good([read |-> read', count |-> count', fade |-> crossfade'])
    <3>1. CASE short
      <4>1. read' = write * Unit /\ count' = 0 /\ crossfade' = <<>>
        BY <1>8, <1>15, <3>1
      <4>2. write * Unit \in 0 .. Around - 1
        <5>1. write \in Nat /\ write < Capacity /\ Capacity \in Nat /\ write * Unit \in Nat
          BY <1>3, <1>10 DEF RingShapes, BufferAssumption
        <5>2. write * Unit + Unit <= Capacity * Unit
          BY <1>10, <5>1, Products
        <5> QED
          BY <1>10, <5>1, <5>2, AroundIsNat DEF Around
      <4> QED
        BY <1>3, <4>1, <4>2, EmptyIsGood
    <3>2. CASE ~ short
      <4>1. read' = done.ring.read /\ count' = done.ring.count /\ crossfade' = done.ring.fade
        BY <1>8, <3>2
      <4>2. done.ring = [read |-> done.ring.read, count |-> done.ring.count, fade |-> done.ring.fade]
        BY <1>7 DEF Good, Rings
      <4> QED
        BY <1>7, <4>1, <4>2
    <3> QED
      BY <3>1, <3>2
  <2> QED
    BY <1>2, <2>1, GoodStays
<1> QED
  BY <1>12, <1>13, <1>14, <1>16, <1>17, <1>18 DEF BufferIInv

\* Where the samples of a message of n go, and where the ones before them are.
PlacedAt(cap, w, n, v, i) ==
  LET x == (v - 1 - i + cap) % cap IN
  /\ x \in 0 .. cap - 1
  /\ i < n => (x - w + cap) % cap = n - 1 - i
  /\ i >= n => /\ (x - w + cap) % cap = cap + n - 1 - i
               /\ x = (w - 1 - (i - n) + cap) % cap

LEMMA Places ==
  ASSUME NEW cap \in Nat \ {0}, NEW w \in 0 .. cap - 1, NEW n \in 0 .. cap, NEW v \in 0 .. cap - 1,
         v = w + n \/ v = w + n - cap, NEW i \in 0 .. cap - 1
  PROVE  PlacedAt(cap, w, n, v, i)
<1> DEFINE u == v - 1 - i + cap
           x == u % cap
           z == x - w + cap
<1>1. u \in Nat /\ u < 2 * cap
  OBVIOUS
<1>2. u = w + n - 1 - i + cap \/ u = w + n - 1 - i
  OBVIOUS
<1>3. (u < cap => x = u) /\ (u >= cap => x = u - cap)
  <2> HIDE DEF u
  <2> QED
    BY <1>1, Wraps
<1> HIDE DEF u, x
<1>4. x \in 0 .. cap - 1 /\ (x = u \/ x = u - cap)
  BY <1>1, <1>3
<1>5. z \in Nat /\ z < 2 * cap
  BY <1>4
<1>6. (z < cap => z % cap = z) /\ (z >= cap => z % cap = z - cap)
  <2> HIDE DEF z
  <2> QED
    BY <1>5, Wraps
<1> DEFINE k == n - 1 - i
<1>7. u = w + k + cap \/ u = w + k
  BY <1>2
<1>8. k \in Int /\ (i < n => k \in 0 .. cap - 1) /\ (i >= n => k + cap \in 0 .. cap - 1)
  OBVIOUS
<1> HIDE DEF k
<1>9. x = w + k \/ x = w + k + cap \/ x = w + k - cap
  BY <1>4, <1>7, <1>8
<1>10. z = k + cap \/ z = k + cap + cap \/ z = k
  BY <1>8, <1>9
<1> HIDE DEF z
<1>11. i < n => z % cap = k
  <2> SUFFICES ASSUME i < n PROVE z % cap = k
    OBVIOUS
  <2>1. CASE z < cap
    BY <1>5, <1>6, <1>8, <1>10, <2>1
  <2>2. CASE z >= cap
    BY <1>5, <1>6, <1>8, <1>10, <2>2
  <2> QED
    BY <1>5, <2>1, <2>2
<1>12. i >= n => z % cap = k + cap
  <2> SUFFICES ASSUME i >= n PROVE z % cap = k + cap
    OBVIOUS
  <2>1. CASE z < cap
    BY <1>5, <1>6, <1>8, <1>10, <2>1
  <2>2. CASE z >= cap
    BY <1>5, <1>6, <1>8, <1>10, <2>2
  <2> QED
    BY <1>5, <2>1, <2>2
<1> DEFINE y == w - 1 - (i - n) + cap
<1>13. i >= n => x = y % cap
  <2> SUFFICES ASSUME i >= n PROVE x = y % cap
    OBVIOUS
  <2>1. y \in Nat /\ y < 2 * cap /\ y = w + k + cap
    BY DEF k
  <2> HIDE DEF y
  <2>2. (y < cap => y % cap = y) /\ (y >= cap => y % cap = y - cap)
    BY <2>1, Wraps
  <2>3. (y < cap => x = y) /\ (y >= cap => x = y - cap)
    BY <1>1, <1>3, <1>4, <1>7, <1>8, <2>1
  <2> QED
    BY <2>1, <2>2, <2>3
<1>14. k + cap = cap + n - 1 - i
  BY DEF k
<1> QED
  BY <1>4, <1>11, <1>12, <1>13, <1>14 DEF PlacedAt, k, x, z, u, y

\* What a message adds to the end of the stream is at least what it adds to the fill level.
LEMMA NoEarlier ==
  ASSUME NEW a \in Nat, NEW z \in Nat, NEW u \in Nat, NEW c \in Nat, NEW d \in Nat, NEW e,
         d <= c + z, e = a + z
  PROVE  (a + u) - c <= (e + u) - d
<1>1. (a + u) - c <= ((a + z) + u) - d
  OBVIOUS
<1> QED
  BY <1>1

\* After a message the newest samples are those of the message, as far as the ring goes.
LEMMA EnqueueKeeps ==
  ASSUME BufferAssumption, BufferIInv, NEW size \in MessageSizes, NEW loud \in BOOLEAN, Enqueue(size, loud)
  PROVE  BufferIInv'
<1> DEFINE n == Smaller(size, Capacity)
           start == [read |-> read, count |-> count]
           over == Overflow(n)
           ring == Advance(start, over)
           full == count + (n - Capacity) * Unit
<1>1. /\ received' = received + size
      /\ samples' = [i \in 0 .. Capacity - 1 |->
                       IF (i - write + Capacity) % Capacity < n
                       THEN [n |-> received' - n + ((i - write + Capacity) % Capacity) + 1, loud |-> loud]
                       ELSE samples[i]]
      /\ read' = ring.read /\ count' = ring.count + n * Unit /\ write' = (write + n) % Capacity
      /\ PlaysNothing /\ UNCHANGED <<targetFrames, started, playbackRate, crossfade>>
  BY Zenon DEF Enqueue
<1>2. /\ RingShapes /\ targetFrames \in Targets /\ Good(Buffered)
      /\ Way(read, count) /\ Holds(count) /\ Fades(crossfade, count) /\ count \in Nat
  BY DEF BufferIInv, BufferShapes, Good, Rings, Buffered
<1>3. /\ Unit \in Nat \ {0} /\ Capacity \in Nat \ {0} /\ size \in Nat \ {0} /\ received \in Nat
      /\ write \in 0 .. Capacity - 1 /\ Around \in Nat \ {0} /\ count <= Around /\ count <= received * Unit
      /\ samples \in [0 .. Capacity - 1 -> Recorded]
  <2>1. Unit \in Nat \ {0} /\ Capacity \in Nat \ {0} /\ size \in Nat \ {0} /\ Around \in Nat \ {0}
    BY AroundIsNat DEF BufferAssumption
  <2>2. received \in Nat /\ write \in 0 .. Capacity - 1 /\ samples \in [0 .. Capacity - 1 -> Recorded]
    BY <1>2 DEF RingShapes
  <2>3. count <= received * Unit
    BY <1>2 DEF Holds
  <2>4. count <= Around
    BY <1>2, <2>1 DEF Way
  <2> QED
    BY <2>1, <2>2, <2>3, <2>4
<1>4. n \in Nat \ {0} /\ n <= size /\ n <= Capacity /\ (n # size => n = Capacity)
  BY <1>3 DEF Smaller
<1> HIDE DEF n
<1>5. n * Unit \in Nat /\ n * Unit <= Around /\ full = count + n * Unit - Around
  <2>1. n * Unit <= Capacity * Unit /\ (n - Capacity) * Unit = n * Unit - Capacity * Unit
    BY <1>3, <1>4, Products
  <2>2. n * Unit \in Nat
    BY <1>3, <1>4
  <2> QED
    BY <1>3, <2>1, <2>2 DEF Around
<1> DEFINE b == n * Unit
<1> HIDE DEF b
<1>6. full = count + b - Around /\ b \in Nat /\ b <= Around
  BY <1>5 DEF b
<1> HIDE DEF full
<1>7. over \in 0 .. count /\ (over = 0 \/ count - over = Around - b) /\ count - over + b <= Around
  <2>1. over = Larger(0, full)
    BY DEF Overflow, full
  <2> HIDE DEF over
  <2> QED
    BY <1>2, <1>3, <1>6, <2>1 DEF Larger
<1> HIDE DEF over
<1>8. ring.read = (read + over) % Around /\ ring.count = count - over
  <2>1. start.count \in Nat /\ over \in 0 .. start.count
    BY <1>2, <1>7
  <2>2. ring = [start EXCEPT !.read = (start.read + over) % Around, !.count = start.count - over]
    BY <2>1, AdvanceIs
  <2> QED
    BY <2>2
<1> HIDE DEF ring, start
<1> DEFINE g == (read + over) % Around
           d == count - over
<1>9. Way(g, d) /\ d \in Nat /\ d <= count
  BY <1>2, <1>7, WayShorter
<1>10. read' = g /\ count' = d + b
  BY <1>1, <1>8 DEF b
<1>11. d + b \in 0 .. Around
  BY <1>6, <1>7, <1>9
<1> HIDE DEF g, d
<1>12. write' \in 0 .. Capacity - 1
       /\ (write' * Unit = write * Unit + b \/ write' * Unit = write * Unit + b - Around)
  <2>1. write \in Nat /\ n \in Nat /\ write + n < 2 * Capacity
    BY <1>3, <1>4
  <2>2. (write + n < Capacity => write' = write + n) /\ (write + n >= Capacity => write' = (write + n) - Capacity)
    BY <1>1, <1>3, <2>1, GoesRound
  <2>3. (write + n) * Unit = write * Unit + b
    BY <1>3, <2>1 DEF b
  <2>4. ((write + n) - Capacity) * Unit = (write + n) * Unit - Around
    BY <1>3, <2>1, Products DEF Around
  <2>5. CASE write + n < Capacity
    BY <1>3, <2>1, <2>2, <2>3, <2>5
  <2>6. CASE write + n >= Capacity
    <3>1. write' = (write + n) - Capacity /\ write' \in 0 .. Capacity - 1
      BY <1>3, <2>1, <2>2, <2>6
    <3>2. write' * Unit = (write * Unit + b) - Around
      BY <2>3, <2>4, <3>1, Zenon
    <3>3. write * Unit \in Nat
      BY <1>3
    <3> QED
      BY <1>3, <1>6, <3>1, <3>2, <3>3
  <2> QED
    BY <1>3, <2>1, <2>5, <2>6
<1>13. write' * Unit \in Nat /\ write * Unit \in Nat
  <2>1. \A x \in 0 .. Capacity - 1 : x * Unit \in Nat
    BY <1>3
  <2> QED
    BY <1>3, <1>12, <2>1, Zenon
<1>14. Way(read, count)'
  <2> DEFINE v == write' * Unit
             w == write * Unit
  <2>1. g \in 0 .. Around - 1 /\ (g + d = w \/ g + d = w + Around)
    BY <1>9 DEF Way
  <2>2. (v = w + b \/ v = w + b - Around) /\ v \in Nat /\ w \in Nat
    BY <1>12, <1>13
  <2> HIDE DEF v, w
  <2>3. g + (d + b) = v \/ g + (d + b) = v + Around
    BY <1>3, <1>6, <1>9, <1>11, <2>1, <2>2
  <2> QED
    BY <1>10, <1>11, <2>1, <2>3 DEF Way, v
<1>15. received' * Unit = received * Unit + size * Unit /\ received' \in Nat /\ size * Unit \in Nat
       /\ received * Unit \in Nat /\ b <= size * Unit
  <2>1. (received + size) * Unit = received * Unit + size * Unit
    BY <1>3
  <2>2. size * Unit \in Nat /\ received * Unit \in Nat /\ received + size \in Nat
    BY <1>3
  <2>3. b <= size * Unit
    BY <1>3, <1>4, Products DEF b
  <2> QED
    BY <1>1, <2>1, <2>2, <2>3
<1>16. count' \in Nat /\ count' <= received' * Unit
  <2> DEFINE e == received' * Unit
             a == received * Unit
             z == size * Unit
  <2>1. e = a + z /\ a \in Nat /\ z \in Nat /\ b <= z /\ count <= a
    BY <1>3, <1>15
  <2> HIDE DEF e, a, z
  <2>2. count' \in Nat /\ count' <= e
    BY <1>2, <1>6, <1>9, <1>10, <2>1
  <2> QED
    BY <2>2 DEF e
<1>17. ASSUME NEW i \in 0 .. Capacity - 1, i * Unit < count'
       PROVE  samples'[Slot(i)'].n = received' - i
  <2> DEFINE x == (write' - 1 - i + Capacity) % Capacity
             k == (x - write + Capacity) % Capacity
  <2>1. write' = write + n \/ write' = write + n - Capacity
    <3>1. write + n \in Nat /\ write + n < 2 * Capacity /\ write \in Nat /\ n \in Nat
      BY <1>3, <1>4
    <3>2. (write + n < Capacity => write' = write + n) /\ (write + n >= Capacity => write' = (write + n) - Capacity)
      BY <1>1, <1>3, <3>1, GoesRound
    <3> QED
      BY <1>3, <3>1, <3>2
  <2>2. n \in 0 .. Capacity
    BY <1>3, <1>4
  <2>3. /\ x \in 0 .. Capacity - 1
        /\ i < n => k = n - 1 - i
        /\ i >= n => k = Capacity + n - 1 - i /\ x = (write - 1 - (i - n) + Capacity) % Capacity
    <3>1. write' \in 0 .. Capacity - 1 /\ Capacity \in Nat \ {0} /\ write \in 0 .. Capacity - 1
      BY <1>3, <1>12
    <3>2. PlacedAt(Capacity, write, n, write', i)
      BY <2>1, <2>2, <3>1, Places, Zenon
    <3> QED
      BY <3>2, Zenon DEF PlacedAt
  <2>4. samples'[x] = IF k < n THEN [n |-> received' - n + k + 1, loud |-> loud] ELSE samples[x]
    BY <1>1, <2>3
  <2> HIDE DEF x, k
  <2>5. CASE i < n
    <3>1. k < n /\ received' - n + k + 1 = received' - i
      BY <1>4, <1>15, <2>3, <2>5
    <3> QED
      BY <2>4, <3>1 DEF Slot, x
  <2>6. CASE ~ (i < n)
    <3>1. i >= n /\ k = Capacity + n - 1 - i /\ ~ (k < n) /\ n = size
      BY <1>3, <1>4, <2>3, <2>6
    <3>2. i - n \in 0 .. Capacity - 1
      BY <1>3, <1>4, <3>1
    <3>3. (i - n) * Unit < count
      <4>1. (i - n) * Unit = i * Unit - n * Unit
        BY <1>3, <1>4
      <4>2. i * Unit \in Nat
        BY <1>3
      <4> QED
        BY <1>2, <1>6, <1>9, <1>10, <1>17, <4>1, <4>2 DEF b
    <3>4. samples[Slot(i - n)].n = received - (i - n)
      BY <1>2, <3>2, <3>3 DEF Holds
    <3>5. samples'[x] = samples[Slot(i - n)]
      BY <2>3, <2>4, <3>1 DEF Slot
    <3>6. received - (i - n) = received' - i
      BY <1>1, <1>3, <1>4, <3>1
    <3> QED
      BY <3>4, <3>5, <3>6 DEF Slot, x
  <2> QED
    BY <2>5, <2>6
<1>18. Holds(count)'
  BY <1>16, <1>17 DEF Holds
<1>19. Fades(crossfade, count)'
  <2>1. count <= count' \/ count' >= CrossfadeFrames * MaxRate + Unit
    <3>1. CASE over = 0
      BY <1>2, <1>6, <1>10, <3>1 DEF d
    <3>2. CASE count - over = Around - b
      <4>1. count' = Around
        BY <1>3, <1>6, <1>10, <3>2 DEF d
      <4>2. CrossfadeFrames * MaxRate \in Nat /\ targetFrames * Unit \in Nat /\ HardMax * Unit \in Nat
            /\ CrossfadeFrames * (Unit - MinRate) \in Nat
            /\ targetFrames * Unit >= CrossfadeFrames * MaxRate + Unit /\ HardMax * Unit <= Around
            /\ HardMax * Unit >= targetFrames * Unit + Unit + CrossfadeFrames * (Unit - MinRate)
        BY <1>2, Limits
      <4> QED
        BY <1>3, <4>1, <4>2
    <3> QED
      BY <1>7, <3>1, <3>2
  <2>2. /\ crossfade \in Seq(Recorded) /\ Len(crossfade) \in Nat /\ Len(crossfade) <= CrossfadeFrames
        /\ MaxRate \in Nat /\ CrossfadeFrames \in Nat /\ Unit - MinRate \in Nat
    BY <1>2, Sizable DEF Fades
  <2>3. Len(crossfade) * MaxRate <= CrossfadeFrames * MaxRate /\ Len(crossfade) * MaxRate \in Nat
        /\ CrossfadeFrames * MaxRate \in Nat
    BY <2>2, Products
  <2>4. crossfade # <<>> => Len(crossfade) * MaxRate + Unit <= count'
    <3>1. crossfade # <<>> => Len(crossfade) * MaxRate + Unit <= count
      BY <1>2 DEF Fades
    <3> QED
      BY <1>2, <1>3, <1>16, <2>1, <2>3, <3>1
  <2>5. Place(count) <= (received' + 1) * Unit - count'
    <3>1. (received + 1) * Unit = received * Unit + Unit /\ (received' + 1) * Unit = received' * Unit + Unit
      BY <1>3, <1>15
    <3>2. count' <= count + size * Unit
      BY <1>2, <1>6, <1>9, <1>10, <1>15
    <3> QED
      <4> DEFINE e == received' * Unit
                 a == received * Unit
                 z == size * Unit
      <4>1. e = a + z /\ a \in Nat /\ z \in Nat /\ count' <= count + z
        BY <1>15, <3>2
      <4>2. Place(count) = (a + Unit) - count /\ (received' + 1) * Unit - count' = (e + Unit) - count'
        BY <3>1 DEF Place
      <4> HIDE DEF e, a, z
      <4>3. (a + Unit) - count <= (e + Unit) - count'
        <5>1. count' \in Nat /\ count \in Nat /\ Unit \in Nat
          BY <1>2, <1>3, <1>16
        <5> QED
          BY <4>1, <5>1, NoEarlier, Zenon
      <4> QED
        BY <4>2, <4>3, Zenon
  <2>6. ASSUME NEW m \in Nat, FadeFrom(crossfade, m, count) PROVE FadeFrom(crossfade, m, count)'
    <3>1. (m + 1) * Unit + Len(crossfade) * (Unit - MinRate) <= Place(count)
      BY <2>6 DEF FadeFrom
    <3>2. (m + 1) * Unit \in Nat /\ Len(crossfade) * (Unit - MinRate) \in Nat
      BY <1>3, <2>2
    <3>3. Place(count) \in Int /\ (received' + 1) * Unit - count' \in Int
      <4>1. (received + 1) * Unit \in Nat /\ (received' + 1) * Unit \in Nat
        <5>1. \A x \in Nat : (x + 1) * Unit \in Nat
          BY <1>3
        <5> QED
          BY <1>3, <1>15, <5>1, Zenon
      <4> QED
        BY <1>2, <1>16, <4>1 DEF Place
    <3>4. (m + 1) * Unit + Len(crossfade) * (Unit - MinRate) <= (received' + 1) * Unit - count'
      BY <2>5, <3>1, <3>2, <3>3
    <3> QED
      BY <1>1, <2>6, <3>4 DEF FadeFrom, Place
  <2> QED
    BY <1>1, <1>2, <2>4, <2>6 DEF Fades
<1>20. RingShapes'
  <2>1. ASSUME NEW i \in 0 .. Capacity - 1 PROVE samples'[i] \in Recorded
    <3> DEFINE k == (i - write + Capacity) % Capacity
    <3>1. samples'[i] = IF k < n THEN [n |-> received' - n + k + 1, loud |-> loud] ELSE samples[i]
      BY <1>1
    <3>2. k \in Nat
      <4>1. i - write + Capacity \in Int
        BY <1>3
      <4> QED
        BY <1>3, <4>1, Dividing
    <3> HIDE DEF k
    <3>3. received' - n \in Nat
      BY <1>1, <1>3, <1>4
    <3>4. received' - n + k + 1 \in Nat
      BY <3>2, <3>3
    <3> QED
      BY <1>3, <3>1, <3>4 DEF Recorded
  <2>2. samples' \in [0 .. Capacity - 1 -> Recorded]
    BY <1>1, <2>1
  <2> QED
    BY <1>12, <1>15, <2>2 DEF RingShapes
<1>21. BufferShapes'
  BY <1>1, <1>20 DEF BufferIInv, BufferShapes
<1>22. Good(Buffered)'
  <2>1. read' \in Nat /\ count' \in Nat /\ crossfade' \in Seq(Recorded)
    <3>1. read' \in 0 .. Around - 1
      BY <1>9, <1>10 DEF Way
    <3> QED
      BY <1>3, <1>16, <1>19, <3>1 DEF Fades
  <2> QED
    BY <1>14, <1>18, <1>19, <2>1 DEF Good, Rings, Buffered
<1>23. NoStaleFade'
  BY <1>1 DEF BufferIInv, NoStaleFade
<1> QED
  BY <1>1, <1>21, <1>22, <1>23, PlaysNothingKeeps DEF BufferIInv

\* Every step keeps the invariant.
LEMMA BufferNextIInv == ASSUME BufferAssumption, BufferIInv, BufferNext PROVE BufferIInv'
<1>1. CASE ConfigMessage \/ Prefill
  BY <1>1, ConfigKeeps
<1>2. CASE ResetMessage
  BY <1>2, ResetKeeps
<1>3. CASE PlayBlock
  BY <1>3, PlayBlockKeeps
<1>4. CASE \E size \in MessageSizes, loud \in BOOLEAN : Enqueue(size, loud)
  <2>1. PICK size \in MessageSizes, loud \in BOOLEAN : Enqueue(size, loud)
    BY <1>4
  <2> QED
    BY <2>1, EnqueueKeeps
<1> QED
  BY <1>1, <1>2, <1>3, <1>4 DEF BufferNext, ProcessBlock

\* It does not change where the worklet does not.
LEMMA StillBuffered == ASSUME BufferIInv, UNCHANGED worklet PROVE BufferIInv'
<1>1. BufferShapes' /\ Good(Buffered)'
  BY DEF worklet, BufferIInv, BufferShapes, RingShapes, Good, Buffered, Way, Holds, Slot, Fades, FadeFrom, Place
<1>2. Forward' /\ NoSelfUnderrun' /\ NoStaleFade' /\ LatencyBounded'
  BY DEF worklet, BufferIInv, Forward, NoSelfUnderrun, NoStaleFade, LatencyBounded
<1> QED
  BY <1>1, <1>2 DEF BufferIInv

\* The fill level is what the invariant says of the way.
LEMMA BufferedIsTypeOK == ASSUME BufferAssumption, BufferIInv PROVE BufferTypeOK
<1>1. /\ Way(read, count) /\ Fades(crossfade, count) /\ playbackRate \in MinRate .. MaxRate
      /\ write \in Nat /\ Unit \in Nat /\ Around \in Nat \ {0}
  <2>1. BufferShapes /\ Good(Buffered)
    BY DEF BufferIInv
  <2>2. Way(read, count) /\ Fades(crossfade, count)
    BY <2>1 DEF Good, Buffered
  <2>3. playbackRate \in MinRate .. MaxRate /\ write \in Nat
    BY <2>1 DEF BufferShapes, RingShapes
  <2>4. Unit \in Nat /\ Around \in Nat \ {0}
    BY AroundIsNat DEF BufferAssumption
  <2> QED
    BY <2>2, <2>3, <2>4
<1> DEFINE w == write * Unit
           x == read + count - w
<1>2. w \in Nat
  BY <1>1
<1>3. x = 0 \/ x = Around
  BY <1>1, <1>2 DEF Way
<1>4. \A y \in Nat : y = 0 \/ y = Around => y % Around = 0
  <2> SUFFICES ASSUME NEW y \in Nat, y = 0 \/ y = Around PROVE y % Around = 0
    OBVIOUS
  <2>1. y < 2 * Around
    BY <1>1
  <2>2. (y < Around => y % Around = y) /\ (y >= Around => y % Around = y - Around)
    BY <1>1, <2>1, Wraps
  <2> QED
    BY <1>1, <2>2
<1>5. x % Around = 0
  <2> HIDE DEF x
  <2> QED
    BY <1>1, <1>3, <1>4
<1> QED
  BY <1>1, <1>5 DEF BufferTypeOK, Way, Fades, Around

\* The newest samples are held, of which the fill level counts whole ones.
LEMMA BufferedIsNewest == ASSUME BufferAssumption, BufferIInv PROVE HoldsNewest
<1>1. /\ Way(read, count) /\ Holds(count) /\ count \in Nat /\ Unit \in Nat \ {0} /\ Capacity \in Nat
      /\ count <= Capacity * Unit
  BY DEF BufferIInv, Good, Rings, Buffered, BufferAssumption, Way, Around
<1> DEFINE q == count \div Unit
<1>2. q \in Int /\ q * Unit <= count
  <2>1. count \in Int /\ 0 \in Int
    BY <1>1
  <2> QED
    BY <1>1, <2>1, Quotient, Zenon
<1> HIDE DEF q
<1>3. ASSUME NEW i \in 0 .. q - 1 PROVE samples[Slot(i)].n = received - i
  <2>1. i \in Nat /\ i < q
    BY <1>2
  <2>2. i * Unit + Unit <= q * Unit /\ i * Unit \in Nat /\ q * Unit \in Int
    BY <1>1, <1>2, <2>1, Products
  <2>3. i * Unit < count
    BY <1>1, <1>2, <2>2
  <2>4. i < Capacity
    <3> SUFFICES ASSUME Capacity <= i PROVE FALSE
      BY <1>1, <2>1
    <3>1. Capacity * Unit <= i * Unit /\ Capacity * Unit \in Nat
      BY <1>1, <2>1, Products
    <3> QED
      BY <1>1, <2>2, <2>3, <3>1
  <2> QED
    BY <1>1, <2>1, <2>3, <2>4 DEF Holds
<1> QED
  BY <1>3 DEF HoldsNewest, Slot, q

\* The jitter buffer plays forward and holds the newest samples without a gap, drops only down
\* to its target and so never runs dry by dropping, and keeps nothing longer than the ceiling:
\* for any ring, any messages, resets and targets, and any rates that the smoothing takes
\* (rx-worklet.js).
THEOREM PlaysForwardCorrect == ASSUME BufferAssumption PROVE BufferSpec => []PlaysForward
<1>1. BufferInit => BufferIInv
  BY BufferInitIInv
<1>2. BufferIInv /\ [BufferNext]_worklet => BufferIInv'
  BY BufferNextIInv, StillBuffered
<1>3. BufferIInv => PlaysForward
  BY BufferedIsTypeOK, BufferedIsNewest DEF PlaysForward, BufferIInv
<1> QED
  BY <1>1, <1>2, <1>3, PTL DEF BufferSpec

-----------------------------------------------------------------------------
(***************************************************************************)
(* A signal in pieces: lists, joined.                                      *)
(***************************************************************************)

\* A sequence of whatever elements.
IsList(x) == Len(x) \in Nat /\ x = [k \in 1 .. Len(x) |-> x[k]]
IsJoined(z, x, y) ==
  /\ IsList(z) /\ Len(z) = Len(x) + Len(y)
  /\ \A k \in 1 .. Len(x) : z[k] = x[k]
  /\ \A k \in 1 .. Len(y) : z[Len(x) + k] = y[k]

LEMMA ListOfElements ==
  ASSUME NEW S, NEW n \in Nat, NEW x, x = [k \in 1 .. n |-> x[k]], \A k \in 1 .. n : x[k] \in S
  PROVE  x \in Seq(S) /\ Len(x) = n
OBVIOUS

LEMMA IsAList == ASSUME NEW n \in Nat, NEW x, x = [k \in 1 .. n |-> x[k]] PROVE IsList(x) /\ Len(x) = n
<1> DEFINE S == {x[k] : k \in 1 .. n}
<1>1. \A k \in 1 .. n : x[k] \in S
  OBVIOUS
<1>2. Len(x) = n
  <2> HIDE DEF S
  <2> QED
    BY <1>1, ListOfElements, Zenon
<1> QED
  BY <1>2, Zenon DEF IsList

\* A sequence over a set is a list, and a list is one over the set of its elements.
LEMMA SequenceIsList == ASSUME NEW S, NEW x \in Seq(S) PROVE IsList(x)
BY LenProperties DEF IsList

LEMMA ListIsSequence ==
  ASSUME NEW x, IsList(x), NEW S, \A k \in 1 .. Len(x) : x[k] \in S
  PROVE  x \in Seq(S)
BY ListOfElements, Zenon DEF IsList

\* Two lists put one after the other.
LEMMA Joined == ASSUME NEW x, IsList(x), NEW y, IsList(y) PROVE IsJoined(x \o y, x, y)
<1> DEFINE S == {x[k] : k \in 1 .. Len(x)} \cup {y[k] : k \in 1 .. Len(y)}
<1>1. (\A k \in 1 .. Len(x) : x[k] \in S) /\ (\A k \in 1 .. Len(y) : y[k] \in S)
  OBVIOUS
<1> HIDE DEF S
<1>2. x \in Seq(S) /\ y \in Seq(S)
  BY <1>1, ListIsSequence, Zenon
<1>3. PICK m \in Nat, n \in Nat : m = Len(x) /\ n = Len(y)
  BY DEF IsList
<1>4. /\ x \o y \in Seq(S) /\ Len(x \o y) = m + n
      /\ \A i \in 1 .. m + n : (x \o y)[i] = IF i <= m THEN x[i] ELSE y[i - m]
  BY <1>2, <1>3, ConcatProperties
<1>5. IsList(x \o y)
  BY <1>4, SequenceIsList, Zenon
<1>6. ASSUME NEW k \in 1 .. m PROVE (x \o y)[k] = x[k]
  BY <1>3, <1>4
<1>7. ASSUME NEW k \in 1 .. n PROVE (x \o y)[m + k] = y[k]
  <2>1. PICK i \in 1 .. m + n : i = m + k /\ ~ (i <= m) /\ i - m = k
    OBVIOUS
  <2>2. (x \o y)[i] = IF i <= m THEN x[i] ELSE y[i - m]
    BY <1>4
  <2>3. (x \o y)[i] = y[k]
    BY <2>1, <2>2, Zenon
  <2> QED
    BY <2>1, <2>3, Zenon
<1> QED
  BY <1>3, <1>4, <1>5, <1>6, <1>7 DEF IsJoined

\* Two lists of the same elements are the same.
LEMMA SameList ==
  ASSUME NEW x, IsList(x), NEW y, IsList(y), Len(x) = Len(y), \A k \in 1 .. Len(x) : x[k] = y[k]
  PROVE  x = y
BY Zenon DEF IsList

-----------------------------------------------------------------------------
(***************************************************************************)
(* A signal in pieces: the stream converter.                               *)
(***************************************************************************)

\* All samples but the last, which the converter keeps.
Latest(n) == IF n = 0 THEN 0 ELSE n - 1
Left(s, c, i, o) ==
  [inRate |-> i, outRate |-> o, buf |-> IF Len(s) = 0 THEN <<>> ELSE <<s[Len(s)]>>,
   pos |-> c * i - Latest(Len(s)) * o]
ReadSoFar(c, b, i, o) == c * i >= b * o /\ \A k \in 1 .. c : (k - 1) * i < b * o
Streamed(r, s, out, i, o) ==
  /\ IsList(out) /\ r = Left(s, Len(out), i, o)
  /\ ReadSoFar(Len(out), Latest(Len(s)), i, o)
  /\ \A k \in 1 .. Len(out) : out[k] = ReadAt(s, o, (k - 1) * i)

\* As many positions as have a sample on both sides, whatever is in the buffer.
LEMMA PositionsRead ==
  ASSUME NEW i \in Nat \ {0}, NEW o \in Nat \ {0}, NEW p \in Nat, NEW len \in Nat \ {0},
         NEW r, r.inRate = i, r.outRate = o, r.pos = p
  PROVE  /\ Steps(r, len) \in Nat
         /\ p + Steps(r, len) * i >= (len - 1) * o
         /\ \A k \in 1 .. Steps(r, len) : p + (k - 1) * i < (len - 1) * o
<1> DEFINE w == [inRate |-> i, outRate |-> o, buf |-> <<>>, pos |-> p]
<1>1. /\ w \in Resampler /\ w.inRate = i /\ w.outRate = o /\ w.pos = p
      /\ w.inRate > 0 /\ w.outRate > 0
  BY EmptySeq DEF Resampler
<1>2. Steps(w, len) = Steps(r, len)
  BY <1>1 DEF Steps
<1> HIDE DEF w
<1>3. /\ Steps(w, len) \in Nat
      /\ w.pos + Steps(w, len) * w.inRate >= (len - 1) * w.outRate
      /\ \A k \in 1 .. Steps(w, len) : w.pos + (k - 1) * w.inRate < (len - 1) * w.outRate
  BY <1>1, StepsOf, Zenon
<1> QED
  BY <1>1, <1>2, <1>3

\* A position inside a list that is part of another is a position inside the other.
Agrees(x, len, y, d) == \A k \in 1 .. len : x[k] = y[d + k]

BothRead(x, len, y, d, o, a1, a2) ==
  /\ d \in Nat /\ len \in Nat /\ Agrees(x, len, y, d)
  /\ o \in Nat \ {0} /\ a1 \in Nat /\ a1 < (len - 1) * o
  /\ a2 \in Nat /\ a2 = a1 + d * o

LEMMA ReadsTheSame ==
  ASSUME NEW x, NEW y, NEW d, NEW len, NEW o, NEW a1, NEW a2, BothRead(x, len, y, d, o, a1, a2)
  PROVE  ReadAt(x, o, a1) = ReadAt(y, o, a2)
<1> USE DEF BothRead
<1> DEFINE j == a1 \div o
           f == a1 % o
<1>1. j \in Nat /\ f \in 0 .. o - 1 /\ a1 = (o * j) + f
  <2>1. a1 \in Int /\ a1 >= 0
    OBVIOUS
  <2>2. j \in Int /\ j >= 0 /\ f \in 0 .. o - 1 /\ a1 = (o * j) + f
    BY <2>1, Dividing, Zenon
  <2> QED
    BY <2>2
<1>2. len - 1 \in Nat
  <2>1. len = 0 => (len - 1) * o < 0
    OBVIOUS
  <2> QED
    BY <2>1
<1>3. j < len - 1
  BY <1>2, QuotientBound
<1> HIDE DEF j, f
<1>4. (d + j) * o = d * o + o * j /\ (d + j) \in Int
  BY <1>1
<1>5. a2 \div o = d + j
  <2>1. (d + j) * o <= a2 /\ a2 < (d + j) * o + o
    BY <1>1, <1>4
  <2> QED
    BY <1>4, <2>1, Quotient
<1>6. a2 % o = f
  <2>1. a2 \in Int /\ a2 >= 0
    OBVIOUS
  <2>2. a2 % o \in 0 .. o - 1 /\ a2 = (o * (d + j)) + (a2 % o)
    BY <1>5, <2>1, Dividing, Zenon
  <2>3. o * (d + j) = (d + j) * o
    BY <1>4
  <2> QED
    BY <1>1, <1>4, <2>2, <2>3
<1>7. x[j + 1] = y[d + j + 1] /\ x[j + 2] = y[d + j + 2]
  <2>1. j + 1 \in 1 .. len /\ j + 2 \in 1 .. len /\ d + (j + 1) = d + j + 1 /\ d + (j + 2) = d + j + 2
    BY <1>1, <1>3
  <2>2. x[j + 1] = y[d + (j + 1)] /\ x[j + 2] = y[d + (j + 2)]
    BY <2>1 DEF Agrees
  <2> QED
    BY <2>1, <2>2
<1>8. ReadAt(x, o, a1) = Between(x[j + 1], x[j + 2], f, o)
  BY DEF ReadAt, j, f
<1>9. ReadAt(y, o, a2) = Between(y[d + j + 1], y[d + j + 2], f, o)
  BY <1>5, <1>6, Zenon DEF ReadAt
<1> QED
  BY <1>7, <1>8, <1>9, Zenon

\* What is in the converter's hands when a piece comes: its last sample and the piece.
InHands(s, m, t, buf, b) ==
  /\ IsList(t) /\ Len(t) = Len(s) + m /\ Agrees(s, Len(s), t, 0)
  /\ IsList(buf) /\ Len(buf) = Len(t) - b /\ Agrees(buf, Len(buf), t, b)

LEMMA InHand ==
  ASSUME NEW s, IsList(s), NEW in, IsList(in), NEW b, b = Latest(Len(s)),
         NEW rest, rest = IF Len(s) = 0 THEN <<>> ELSE <<s[Len(s)]>>,
         NEW t, t = s \o in, NEW buf, buf = rest \o in
  PROVE  InHands(s, Len(in), t, buf, b)
<1>1. PICK n \in Nat, m \in Nat, e \in {0, 1} :
         n = Len(s) /\ m = Len(in) /\ e = (IF n = 0 THEN 0 ELSE 1) /\ b = n - e
  BY DEF IsList, Latest
<1>2. IsJoined(t, s, in)
  BY Joined, Zenon
<1>3. IsList(rest) /\ Len(rest) = e /\ \A k \in 1 .. e : rest[k] = s[n]
  <2>1. rest \in Seq({s[n]}) /\ Len(rest) = e /\ \A k \in 1 .. e : rest[k] = s[n]
    <3>1. CASE n = 0
      <4>1. rest = <<>> /\ e = 0 /\ \A k \in 1 .. 0 : rest[k] = s[n]
        BY <1>1, <3>1
      <4>2. <<>> \in Seq({s[n]}) /\ Len(<<>>) = 0
        BY EmptySeq
      <4> QED
        BY <4>1, <4>2, Zenon
    <3>2. CASE n # 0
      <4>1. rest = <<s[n]>> /\ e = 1
        BY <1>1, <3>2
      <4>2. <<s[n]>> \in Seq({s[n]}) /\ Len(<<s[n]>>) = 1 /\ \A k \in 1 .. 1 : <<s[n]>>[k] = s[n]
        OBVIOUS
      <4> QED
        BY <4>1, <4>2, Zenon
    <3> QED
      BY <3>1, <3>2
  <2> QED
    BY <2>1, SequenceIsList, Zenon
<1>4. IsJoined(buf, rest, in)
  BY <1>3, Joined, Zenon
<1>5. IsList(t) /\ Len(t) = n + m /\ (\A k \in 1 .. n : t[k] = s[k]) /\ \A k \in 1 .. m : t[n + k] = in[k]
  BY <1>1, <1>2, Zenon DEF IsJoined
<1>6. /\ IsList(buf) /\ Len(buf) = e + m
      /\ \A k \in 1 .. e : buf[k] = rest[k]
      /\ \A k \in 1 .. m : buf[e + k] = in[k]
  BY <1>1, <1>3, <1>4, Zenon DEF IsJoined
<1>7. ASSUME NEW k \in 1 .. e + m PROVE buf[k] = t[b + k]
  <2>1. CASE k <= e
    <3>1. k \in 1 .. e /\ b + k = n /\ n \in 1 .. n
      BY <1>1, <2>1
    <3>2. buf[k] = s[n] /\ t[n] = s[n]
      BY <1>3, <1>5, <1>6, <3>1
    <3> QED
      BY <3>1, <3>2
  <2>2. CASE k > e
    <3>1. PICK j \in 1 .. m : k = e + j /\ b + k = n + j
      <4>1. k - e \in 1 .. m /\ k = e + (k - e) /\ b + k = n + (k - e)
        BY <1>1, <2>2
      <4> QED
        BY <4>1
    <3>2. buf[e + j] = in[j] /\ t[n + j] = in[j]
      BY <1>5, <1>6, Zenon
    <3> QED
      BY <3>1, <3>2
  <2> QED
    BY <1>1, <2>1, <2>2
<1>8. \A k \in 1 .. n : s[k] = t[0 + k]
  <2>1. \A k \in 1 .. n : 0 + k = k
    OBVIOUS
  <2> QED
    BY <1>5, <2>1
<1>9. e + m = (n + m) - b
  <2>1. b \in Int /\ b = n - e /\ e \in Int
    BY <1>1
  <2> QED
    BY <2>1
<1>10. Agrees(s, Len(s), t, 0)
  BY <1>1, <1>8 DEF Agrees
<1>11. Len(buf) = Len(t) - b /\ Len(t) = Len(s) + Len(in)
  BY <1>1, <1>5, <1>6, <1>9, Zenon
<1>12. Agrees(buf, Len(buf), t, b)
  BY <1>6, <1>7, Zenon DEF Agrees
<1> QED
  BY <1>5, <1>6, <1>10, <1>11, <1>12, Zenon DEF InHands

RestKept(r, v, q) == [r EXCEPT !.buf = v, !.pos = q]

LEMMA KeptAs ==
  ASSUME NEW i, NEW o, NEW y1, NEW x1, NEW r, r = [inRate |-> i, outRate |-> o, buf |-> y1, pos |-> x1],
         NEW y2, NEW x2
  PROVE  RestKept(r, y2, x2) = [inRate |-> i, outRate |-> o, buf |-> y2, pos |-> x2]
<1>1. PICK w : w = [r EXCEPT !.buf = y2]
  OBVIOUS
<1>2. w = [inRate |-> i, outRate |-> o, buf |-> y2, pos |-> x1]
  BY <1>1
<1>3. [w EXCEPT !.pos = x2] = [inRate |-> i, outRate |-> o, buf |-> y2, pos |-> x2]
  BY <1>2
<1>4. RestKept(r, y2, x2) = [w EXCEPT !.pos = x2]
  BY <1>1 DEF RestKept
<1> QED
  BY <1>3, <1>4

\* A piece more.
LEMMA StreamsOn ==
  ASSUME NEW i \in Nat \ {0}, NEW o \in Nat \ {0}, i # o, NEW s, IsList(s), NEW in, IsList(in), in # <<>>,
         NEW r, NEW out, Streamed(r, s, out, i, o)
  PROVE  /\ Streamed(Process(r, in).next, s \o in, out \o Process(r, in).out, i, o)
         /\ IsList(Process(r, in).out)
<1> DEFINE t == s \o in
           rest == IF Len(s) = 0 THEN <<>> ELSE <<s[Len(s)]>>
           buf == rest \o in
           made == Process(r, in).out
           all == out \o made
<1>1. PICK n \in Nat, m \in Nat, c \in Nat : n = Len(s) /\ m = Len(in) /\ c = Len(out)
  BY DEF IsList, Streamed
<1>2. PICK b \in Nat : b = Latest(n) /\ b <= n
  BY DEF Latest
<1>3. m >= 1
  <2>1. m = 0 => in = <<>>
    <3> SUFFICES ASSUME m = 0 PROVE in = <<>>
      OBVIOUS
    <3>1. \A k \in 1 .. Len(in) : in[k] \in {}
      BY <1>1
    <3>2. in \in Seq({}) /\ Len(in) = 0
      BY <1>1, <3>1, ListIsSequence, Zenon
    <3> QED
      BY <3>2, EmptySeq
  <2> QED
    BY <2>1
<1>3a. rest = IF Len(s) = 0 THEN <<>> ELSE <<s[Len(s)]>>
  OBVIOUS
<1> HIDE DEF rest
<1>4. /\ IsList(t) /\ Len(t) = n + m /\ Agrees(s, n, t, 0)
      /\ IsList(buf) /\ Len(buf) = (n + m) - b /\ Agrees(buf, Len(buf), t, b)
  <2>1. b = Latest(Len(s)) /\ rest = IF Len(s) = 0 THEN <<>> ELSE <<s[Len(s)]>>
    BY <1>1, <1>2, <1>3a, Zenon
  <2>2. InHands(s, Len(in), t, buf, b)
    BY <2>1, InHand, Zenon
  <2> QED
    BY <1>1, <2>2, Zenon DEF InHands
<1>5. PICK z \in Nat \ {0} : z = Len(buf) /\ b + z = n + m /\ Latest(n + m) = b + (z - 1)
  <2> DEFINE z == (n + m) - b
  <2>1. b < n + m
    BY <1>2, <1>3
  <2>2. z \in Nat \ {0} /\ b + z = n + m /\ n + m # 0 /\ (n + m) - 1 = b + (z - 1)
    BY <2>1
  <2>3. z = Len(buf) /\ Latest(n + m) = b + (z - 1)
    BY <1>4, <2>2, Zenon DEF Latest
  <2> HIDE DEF z
  <2> QED
    BY <2>2, <2>3, Zenon
<1> DEFINE p == c * i - b * o
<1>6. r = [inRate |-> i, outRate |-> o, buf |-> rest, pos |-> p]
  BY <1>1, <1>2, <1>3a DEF Streamed, Left
<1>7. ReadSoFar(c, b, i, o) /\ (\A k \in 1 .. c : out[k] = ReadAt(s, o, (k - 1) * i)) /\ IsList(out)
  BY <1>1, <1>2, Zenon DEF Streamed
<1>8. c * i \in Nat /\ b * o \in Nat /\ p \in Nat /\ p = c * i - b * o
  BY <1>7 DEF ReadSoFar
<1> HIDE DEF p
<1>9. r.inRate = i /\ r.outRate = o /\ r.pos = p /\ r.buf = rest
  BY <1>6
<1> DEFINE e == Steps(r, z)
<1>10. /\ e \in Nat /\ p + e * i >= (z - 1) * o
       /\ \A k \in 1 .. e : p + (k - 1) * i < (z - 1) * o
  BY <1>8, <1>9, PositionsRead, Zenon
<1> HIDE DEF buf, t
<1> DEFINE at(k) == r.pos + (k - 1) * r.inRate
           j(k) == at(k) \div r.outRate
<1>11. /\ Process(r, in).next = KeepRest(r, buf, r.pos + e * r.inRate)
       /\ made = [k \in 1 .. e |-> Between(buf[j(k) + 1], buf[j(k) + 2], at(k) % r.outRate, r.outRate)]
  <2>1. in # <<>> /\ r.inRate # r.outRate
    BY <1>9
  <2>2. r.buf \o in = buf
    BY <1>9 DEF buf
  <2> QED
    BY <1>5, <2>1, <2>2 DEF Process
<1> HIDE DEF e, made, all
<1>12. made = [k \in 1 .. e |-> ReadAt(buf, o, p + (k - 1) * i)]
  BY <1>9, <1>11, Zenon DEF ReadAt
<1>13. IsList(made) /\ Len(made) = e /\ \A k \in 1 .. e : made[k] = ReadAt(buf, o, p + (k - 1) * i)
  <2>1. made = [k \in 1 .. e |-> made[k]] /\ \A k \in 1 .. e : made[k] = ReadAt(buf, o, p + (k - 1) * i)
    BY <1>12
  <2> QED
    BY <1>10, <2>1, IsAList, Zenon
<1>14. /\ IsList(all) /\ Len(all) = c + e
       /\ \A k \in 1 .. c : all[k] = out[k]
       /\ \A k \in 1 .. e : all[c + k] = made[k]
  <2>1. IsJoined(all, out, made)
    BY <1>7, <1>13, Joined, Zenon DEF all
  <2> QED
    BY <1>1, <1>13, <2>1, Zenon DEF IsJoined
<1>15. (c + e) * i = c * i + e * i /\ (b + (z - 1)) * o = b * o + (z - 1) * o
  BY <1>10
<1>16. c * i \in Int /\ e * i \in Int /\ b * o \in Int /\ (z - 1) * o \in Nat
  BY <1>10
<1>17. ReadSoFar(c + e, b + (z - 1), i, o)
  <2>1. (c + e) * i >= (b + (z - 1)) * o
    BY <1>8, <1>10, <1>15, <1>16
  <2>2. ASSUME NEW k \in 1 .. c + e PROVE (k - 1) * i < (b + (z - 1)) * o
    <3>1. CASE k <= c
      <4>1. (k - 1) * i < b * o
        BY <1>7, <3>1 DEF ReadSoFar
      <4>2. (k - 1) * i \in Int
        OBVIOUS
      <4> QED
        BY <1>15, <1>16, <4>1, <4>2
    <3>2. CASE k > c
      <4>1. PICK h \in 1 .. e : k = c + h /\ k - 1 = c + (h - 1)
        <5>1. k - c \in 1 .. e /\ k = c + (k - c) /\ k - 1 = c + ((k - c) - 1)
          BY <1>10, <3>2
        <5> QED
          BY <5>1
      <4>2. (c + (h - 1)) * i = c * i + (h - 1) * i /\ (h - 1) * i \in Int
        OBVIOUS
      <4>3. p + (h - 1) * i < (z - 1) * o
        BY <1>10
      <4> QED
        BY <1>8, <1>15, <1>16, <4>1, <4>2, <4>3
    <3> QED
      BY <3>1, <3>2
  <2> QED
    BY <2>1, <2>2 DEF ReadSoFar
<1>18. ASSUME NEW k \in 1 .. c + e PROVE all[k] = ReadAt(t, o, (k - 1) * i)
  <2> DEFINE g == (k - 1) * i
  <2>0. g \in Nat
    OBVIOUS
  <2>1. CASE k <= c
    <3>1. k \in 1 .. c
      BY <2>1
    <3>2. all[k] = ReadAt(s, o, g)
      BY <1>7, <1>14, <3>1
    <3>3. g < b * o
      BY <1>7, <3>1 DEF ReadSoFar
    <3>4. n # 0 /\ b = n - 1
      <4>1. b # 0
        BY <2>0, <3>3
      <4> QED
        BY <1>2, <4>1 DEF Latest
    <3>5. g < (n - 1) * o /\ g = g + 0 * o
      BY <2>0, <3>3, <3>4
    <3>6. 0 \in Nat /\ Agrees(s, n, t, 0)
      BY <1>4, Zenon
    <3> HIDE DEF g
    <3>7. ReadAt(s, o, g) = ReadAt(t, o, g)
      <4>1. BothRead(s, n, t, 0, o, g, g)
        BY <2>0, <3>5, <3>6 DEF BothRead
      <4> QED
        BY <4>1, ReadsTheSame
    <3> QED
      BY <3>2, <3>7, Zenon DEF g
  <2>2. CASE k > c
    <3>1. PICK h \in 1 .. e : k = c + h /\ k - 1 = c + (h - 1)
      <4>1. k - c \in 1 .. e /\ k = c + (k - c) /\ k - 1 = c + ((k - c) - 1)
        BY <1>10, <2>2
      <4> QED
        BY <4>1
    <3> DEFINE w == p + (h - 1) * i
    <3>2. all[k] = ReadAt(buf, o, w)
      BY <1>13, <1>14, <3>1
    <3>3. w \in Nat /\ w < (z - 1) * o
      BY <1>8, <1>10
    <3>4. g = w + b * o
      <4>1. (c + (h - 1)) * i = c * i + (h - 1) * i /\ (h - 1) * i \in Int
        OBVIOUS
      <4> QED
        BY <1>8, <1>16, <3>1, <4>1
    <3>5. Agrees(buf, z, t, b)
      BY <1>4, <1>5, Zenon
    <3> HIDE DEF g, w
    <3>6. ReadAt(buf, o, w) = ReadAt(t, o, g)
      <4>1. BothRead(buf, z, t, b, o, w, g)
        BY <2>0, <3>3, <3>4, <3>5 DEF BothRead
      <4> QED
        BY <4>1, ReadsTheSame
    <3> QED
      BY <3>2, <3>6, Zenon DEF g
  <2> QED
    BY <2>1, <2>2
<1>19. Process(r, in).next = Left(t, c + e, i, o)
  <2> DEFINE pos == p + e * i
  <2>1. pos \in Nat /\ pos >= (z - 1) * o /\ pos - (z - 1) * o = (c + e) * i - (b + (z - 1)) * o
    BY <1>8, <1>10, <1>15, <1>16
  <2>2. Process(r, in).next = KeepRest(r, buf, pos)
    BY <1>9, <1>11
  <2> HIDE DEF pos
  <2>3. KeepRest(r, buf, pos) = RestKept(r, <<buf[z]>>, pos - (z - 1) * o)
    <3>1. \E S : buf \in Seq(S)
      <4> DEFINE S == {buf[k] : k \in 1 .. Len(buf)}
      <4>1. \A k \in 1 .. Len(buf) : buf[k] \in S
        OBVIOUS
      <4>2. buf \in Seq(S)
        BY <1>4, <4>1, ListIsSequence
      <4> QED
        BY <4>2
    <3>2. PICK S : buf \in Seq(S)
      BY <3>1
    <3>3. buf # <<>>
      BY <1>5
    <3>4. r.outRate \in Nat \ {0} /\ pos >= (Len(buf) - 1) * r.outRate
      BY <1>5, <1>9, <2>1
    <3>5. KeepRest(r, buf, pos) = RestKept(r, <<buf[Len(buf)]>>, pos - (Len(buf) - 1) * r.outRate)
      BY <2>1, <3>2, <3>3, <3>4, KeepsLast, Zenon DEF RestKept
    <3> QED
      BY <1>5, <1>9, <3>5, Zenon
  <2>4. buf[z] = t[n + m]
    BY <1>4, <1>5 DEF Agrees
  <2>5. Len(t) = n + m /\ n + m # 0 /\ Latest(Len(t)) = b + (z - 1)
    BY <1>3, <1>4, <1>5
  <2>6. Left(t, c + e, i, o)
          = [inRate |-> i, outRate |-> o, buf |-> <<t[n + m]>>, pos |-> (c + e) * i - (b + (z - 1)) * o]
    BY <2>5 DEF Left
  <2>7. RestKept(r, <<buf[z]>>, pos - (z - 1) * o)
          = [inRate |-> i, outRate |-> o, buf |-> <<buf[z]>>, pos |-> pos - (z - 1) * o]
    BY <1>6, KeptAs
  <2> QED
    BY <2>1, <2>2, <2>3, <2>4, <2>6, <2>7
<1>20. Len(t) = n + m /\ Latest(Len(t)) = b + (z - 1)
  BY <1>4, <1>5
<1> QED
  BY <1>13, <1>14, <1>17, <1>18, <1>19, <1>20 DEF Streamed, all, made, t

LEMMA EmptyList == IsList(<<>>) /\ Len(<<>>) = 0 /\ \A x : IsList(x) /\ Len(x) = 0 => x = <<>>
<1>1. IsList(<<>>) /\ Len(<<>>) = 0
  <2>1. <<>> \in Seq({}) /\ Len(<<>>) = 0
    BY EmptySeq
  <2> QED
    BY <2>1, SequenceIsList, Zenon
<1>2. ASSUME NEW x, IsList(x), Len(x) = 0 PROVE x = <<>>
  <2>1. \A k \in 1 .. Len(x) : x[k] = <<>>[k]
    BY <1>2
  <2> QED
    BY <1>1, <1>2, <2>1, SameList, Zenon
<1> QED
  BY <1>1, <1>2

\* The empty list adds nothing.
LEMMA JoinedToNothing == ASSUME NEW x, IsList(x) PROVE <<>> \o x = x
<1>1. PICK n \in Nat : n = Len(x)
  BY DEF IsList
<1>2. IsJoined(<<>> \o x, <<>>, x) /\ Len(<<>>) = 0
  BY EmptyList, Joined, Zenon
<1>3. /\ IsList(<<>> \o x) /\ Len(<<>> \o x) = 0 + n
      /\ \A k \in 1 .. n : (<<>> \o x)[0 + k] = x[k]
  BY <1>1, <1>2, Zenon DEF IsJoined
<1>4. Len(<<>> \o x) = n /\ \A k \in 1 .. n : (<<>> \o x)[k] = x[k]
  <2>1. 0 + n = n /\ \A k \in 1 .. n : 0 + k = k
    OBVIOUS
  <2> QED
    BY <1>3, <2>1, Zenon
<1> QED
  BY <1>1, <1>3, <1>4, SameList, Zenon

\* A new converter has read nothing.
LEMMA StreamStarts ==
  ASSUME NEW i \in Nat \ {0}, NEW o \in Nat \ {0}
  PROVE  Streamed(NewResampler(i, o), <<>>, <<>>, i, o)
<1>1. 0 * i = 0 /\ 0 * o = 0 /\ 0 - 0 = 0 /\ 1 .. 0 = {} /\ Latest(0) = 0
  BY DEF Latest
<1>2. 0 * i - Latest(0) * o = 0
  BY <1>1
<1>3. ReadSoFar(0, 0, i, o)
  BY <1>1 DEF ReadSoFar
<1>4. NewResampler(i, o) = Left(<<>>, 0, i, o)
  BY <1>2, EmptyList, Zenon DEF NewResampler, Left
<1> QED
  BY <1>1, <1>3, <1>4, EmptyList, Zenon DEF Streamed

\* How many positions have been read follows from how many samples there were.
LEMMA AsMany ==
  ASSUME NEW i \in Nat \ {0}, NEW o \in Nat \ {0}, NEW b \in Nat, NEW c \in Nat, NEW d \in Nat,
         ReadSoFar(c, b, i, o), ReadSoFar(d, b, i, o)
  PROVE  c = d
<1>1. ASSUME NEW x \in Nat, NEW y \in Nat, ReadSoFar(x, b, i, o), ReadSoFar(y, b, i, o), x < y
      PROVE  FALSE
  <2>1. x + 1 \in 1 .. y /\ (x + 1) - 1 = x
    BY <1>1
  <2>2. ((x + 1) - 1) * i < b * o /\ x * i >= b * o
    BY <1>1, <2>1, Zenon DEF ReadSoFar
  <2>3. x * i \in Int /\ b * o \in Int /\ x * i < b * o
    BY <2>1, <2>2
  <2> QED
    BY <2>2, <2>3
<1> QED
  BY <1>1

\* Two converters that went through the same signal made the same of it.
LEMMA SameStream ==
  ASSUME NEW i \in Nat \ {0}, NEW o \in Nat \ {0}, NEW s, IsList(s), NEW r, NEW out, NEW w, NEW made,
         Streamed(r, s, out, i, o), Streamed(w, s, made, i, o)
  PROVE  out = made
<1>1. PICK c \in Nat, d \in Nat : c = Len(out) /\ d = Len(made)
  BY DEF Streamed, IsList
<1>2. PICK b \in Nat : b = Latest(Len(s))
  BY DEF Latest, IsList
<1>3. ReadSoFar(c, b, i, o) /\ ReadSoFar(d, b, i, o)
  BY <1>1, <1>2, Zenon DEF Streamed
<1>4. c = d
  BY <1>3, AsMany
<1>5. \A k \in 1 .. c : out[k] = made[k]
  BY <1>1, <1>4, Zenon DEF Streamed
<1> QED
  BY <1>1, <1>4, <1>5, SameList, Zenon DEF Streamed

\* The converter's output for the signal in pieces is that for the signal at once.
LEMMA StreamIsWhole ==
  ASSUME NEW i \in Nat \ {0}, NEW o \in Nat \ {0}, i # o, NEW s, IsList(s), NEW r, NEW out,
         Streamed(r, s, out, i, o)
  PROVE  out = Process(NewResampler(i, o), s).out
<1> DEFINE w == NewResampler(i, o)
<1>1. Streamed(w, <<>>, <<>>, i, o) /\ IsList(<<>>)
  BY StreamStarts, EmptyList
<1>2. CASE s = <<>>
  <2>1. out = <<>>
    BY <1>1, <1>2, SameStream, Zenon
  <2> QED
    BY <1>2, <2>1 DEF Process
<1>3. CASE s # <<>>
  <2> HIDE DEF w
  <2>1. /\ Streamed(Process(w, s).next, <<>> \o s, <<>> \o Process(w, s).out, i, o)
        /\ IsList(Process(w, s).out)
    BY <1>1, <1>3, StreamsOn
  <2>2. <<>> \o s = s /\ <<>> \o Process(w, s).out = Process(w, s).out
    BY <2>1, JoinedToNothing, Zenon
  <2>3. Streamed(Process(w, s).next, s, Process(w, s).out, i, o)
    BY <2>1, <2>2, Zenon
  <2> QED
    BY <2>3, SameStream, Zenon DEF w
<1> QED
  BY <1>2, <1>3

\* Sample for sample it is what the other converter makes of the whole.
LEMMA StreamAgrees ==
  ASSUME NEW i \in Nat \ {0}, NEW o \in Nat \ {0}, i # o, NEW s, IsList(s), NEW r, NEW out,
         Streamed(r, s, out, i, o), NEW k \in DOMAIN out \cap DOMAIN ResampleInt16(s, i, o)
  PROVE  out[k] = ResampleInt16(s, i, o)[k]
<1> DEFINE whole == ResampleInt16(s, i, o)
<1>1. PICK c \in Nat, n \in Nat : c = Len(out) /\ n = Len(s)
  BY DEF Streamed, IsList
<1>2. k \in 1 .. c
  BY <1>1 DEF Streamed, IsList
<1> DEFINE g == (k - 1) * i
           q == g \div o
<1>3. g < Latest(n) * o /\ g \in Nat
  BY <1>1, <1>2 DEF Streamed, ReadSoFar
<1>4. n # 0 /\ Latest(n) = n - 1 /\ n - 1 \in Nat
  <2>1. Latest(n) # 0
    BY <1>3
  <2> QED
    BY <1>1, <2>1 DEF Latest
<1>5. q \in Nat /\ q < n - 1
  <2>1. q \in Int /\ q >= 0
    BY <1>3
  <2>2. q < n - 1
    BY <1>3, <1>4, QuotientBound
  <2> QED
    BY <2>1, <2>2
<1>6. s # <<>>
  BY <1>1, <1>4, EmptyList
<1>7. whole[k] = Between(s[Least(q, n - 1) + 1], s[Least(q + 1, n - 1) + 1], g % o, o)
  <2>1. PICK z : whole = [x \in 1 .. z |->
                            Between(s[Least(((x - 1) * i) \div o, n - 1) + 1],
                                    s[Least(((x - 1) * i) \div o + 1, n - 1) + 1],
                                    ((x - 1) * i) % o, o)]
    BY <1>1, <1>6, Zenon DEF ResampleInt16
  <2>2. k \in 1 .. z
    BY <2>1
  <2> HIDE DEF whole
  <2> QED
    BY <2>1, <2>2, Zenon
<1>8. Least(q, n - 1) = q /\ Least(q + 1, n - 1) = q + 1 /\ (q + 1) + 1 = q + 2
  BY <1>5 DEF Least
<1>9. out[k] = ReadAt(s, o, g)
  BY <1>1, <1>2 DEF Streamed
<1>10. whole[k] = Between(s[q + 1], s[q + 2], g % o, o)
  BY <1>7, <1>8, Zenon
<1> QED
  BY <1>9, <1>10, Zenon DEF ReadAt

\* It is behind by less than a sample either way.
LEMMA StreamIsLevel ==
  ASSUME NEW i \in Nat \ {0}, NEW o \in Nat \ {0}, NEW n \in Nat, NEW c \in Nat, ReadSoFar(c, Latest(n), i, o)
  PROVE  -i < n * o - c * i /\ n * o - c * i <= o
<1>1. PICK b \in Nat : b = Latest(n) /\ (n = 0 => b = 0) /\ (n # 0 => n = b + 1) /\ n * o >= b * o
                       /\ n * o <= b * o + o
  <2>1. CASE n = 0
    BY <2>1 DEF Latest
  <2>2. CASE n # 0
    <3>1. n - 1 \in Nat /\ n = (n - 1) + 1 /\ Latest(n) = n - 1 /\ n * o = (n - 1) * o + o
      BY <2>2 DEF Latest
    <3> QED
      BY <2>2, <3>1
  <2> QED
    BY <2>1, <2>2
<1>2. c * i \in Nat /\ b * o \in Nat /\ n * o \in Nat
  BY <1>1
<1>3. c * i >= b * o /\ \A k \in 1 .. c : (k - 1) * i < b * o
  BY <1>1 DEF ReadSoFar
<1>4. c * i < b * o + i
  <2>1. CASE c = 0
    BY <1>2, <2>1
  <2>2. CASE c # 0
    <3>1. (c - 1) * i < b * o
      BY <1>3, <2>2
    <3>2. (c - 1) * i = c * i - i
      OBVIOUS
    <3> QED
      BY <1>2, <3>1, <3>2
  <2> QED
    BY <2>1, <2>2
<1>5. PICK x \in Nat, y \in Nat, z \in Nat : x = c * i /\ y = b * o /\ z = n * o
  BY <1>2
<1>6. z >= y /\ z <= y + o /\ x >= y /\ x < y + i
  BY <1>1, <1>3, <1>4, <1>5, Zenon
<1>7. -i < z - x /\ z - x <= o
  BY <1>6
<1> QED
  BY <1>5, <1>7, Zenon

\* What one piece by itself adds to the drift, twice over.
MostPerPiece(i, o) == IF i > o THEN 2 * i ELSE i

\* It makes at most half a sample too few, and half a sample or one too many.
LEMMA PieceDrifts ==
  ASSUME NEW i \in Nat \ {0}, NEW o \in Nat \ {0}, NEW in, IsList(in), in # <<>>
  PROVE  LET made == ResampleInt16(in, i, o)
         IN /\ IsList(made)
            /\ -i <= 2 * (Len(made) * i - Len(in) * o)
            /\ 2 * (Len(made) * i - Len(in) * o) <= MostPerPiece(i, o)
<1> DEFINE made == ResampleInt16(in, i, o)
<1>1. PICK m \in Nat : m = Len(in) /\ m # 0
  BY EmptyList DEF IsList
<1>2. CASE i = o
  <2>1. made = in
    BY <1>2 DEF ResampleInt16
  <2>2. m * i - m * o = 0
    BY <1>2
  <2>3. MostPerPiece(i, o) = i
    BY <1>2 DEF MostPerPiece
  <2> HIDE DEF made
  <2>4. IsList(made) /\ 2 * (Len(made) * i - Len(in) * o) = 0
    BY <1>1, <2>1, <2>2
  <2> QED
    BY <2>3, <2>4 DEF made
<1>3. CASE i # o
  <2> DEFINE t == Rounded(m * o, i)
             l == IF t <= 0 THEN 1 ELSE t
  <2>1. t \in Int /\ t * (2 * i) <= 2 * (m * o) + i /\ 2 * (m * o) + i < t * (2 * i) + 2 * i
    <3>1. 2 * (m * o) + i \in Int /\ 2 * i \in Nat \ {0}
      OBVIOUS
    <3>2. t = (2 * (m * o) + i) \div (2 * i)
      BY DEF Rounded
    <3> QED
      BY <3>1, <3>2, Quotient
  <2>2. IsList(made) /\ Len(made) = l
    <3>1. l \in Nat
      BY <2>1
    <3>2. made = [x \in 1 .. l |-> made[x]]
      BY <1>1, <1>3 DEF ResampleInt16
    <3> HIDE DEF made, l
    <3> QED
      BY <3>1, <3>2, IsAList, Zenon
  <2> HIDE DEF made, t
  <2>3. t * (2 * i) = 2 * (t * i) /\ t * i \in Int /\ m * o \in Nat /\ l * i \in Int
    BY <2>1
  <2>4. -i <= 2 * (l * i - m * o) /\ 2 * (l * i - m * o) <= MostPerPiece(i, o)
    <3>1. CASE t <= 0
      <4>1. l = 1 /\ l * i = i
        BY <3>1
      <4>2. t * i <= 0
        BY <2>1, <3>1
      <4>3. 2 * (m * o) < i
        BY <2>1, <2>3, <4>2
      <4>4. o <= m * o
        BY <1>1
      <4>5. i > o /\ MostPerPiece(i, o) = 2 * i
        BY <2>3, <4>3, <4>4 DEF MostPerPiece
      <4> QED
        BY <2>3, <4>1, <4>3, <4>5
    <3>2. CASE t > 0
      <4>1. l = t
        BY <2>1, <3>2
      <4>2. i <= MostPerPiece(i, o) /\ MostPerPiece(i, o) \in Int
        BY DEF MostPerPiece
      <4> QED
        BY <2>1, <2>3, <4>1, <4>2
    <3> QED
      BY <2>1, <3>1, <3>2
  <2> HIDE DEF l
  <2> QED
    BY <1>1, <2>2, <2>4 DEF made
<1> QED
  BY <1>2, <1>3

-----------------------------------------------------------------------------
(***************************************************************************)
(* A signal in pieces: the filter.                                         *)
(***************************************************************************)
Taps == Len(Coeffs)

\* The sample a samples before the last of the first n, silence before the first.
Past(s, n, a) == IF a < n THEN s[n - a] ELSE 0
Delayed(s, n) == [x \in 1 .. Taps |-> Past(s, n, (n - x) % Taps)]
RingAt(s, n) == [coeffs |-> Coeffs, delay |-> Delayed(s, n), idx |-> (n % Taps) + 1]
Convolve(s, n) == Clamp(SumOf(Weighed(s, n), Taps))

\* The remainder is what is left of a multiple.
LEMMA Remainder ==
  ASSUME NEW a \in Int, NEW b \in Nat \ {0}, NEW x \in Int, NEW z \in 0 .. b - 1, a = x * b + z
  PROVE  a % b = z
<1>1. x * b \in Int /\ x * b <= a /\ a < x * b + b
  OBVIOUS
<1>2. a \div b = x
  BY <1>1, Quotient
<1>3. a = (b * x) + (a % b) /\ a % b \in 0 .. b - 1
  BY <1>2, Dividing, Zenon
<1> QED
  BY <1>1, <1>3

\* There is a coefficient.
LEMMA ManyTaps == ASSUME ConversionAssumption PROVE Taps \in Nat \ {0} /\ \A j \in 1 .. Taps : Coeffs[j] \in Int
<1>1. Coeffs \in Seq(Int) /\ Coeffs # <<>>
  BY DEF ConversionAssumption
<1>2. Len(Coeffs) \in Nat /\ Len(Coeffs) # 0
  BY <1>1, EmptySeq, LenProperties
<1>3. \A j \in 1 .. Len(Coeffs) : Coeffs[j] \in Int
  BY <1>1
<1> QED
  BY <1>2, <1>3 DEF Taps

\* Where the next sample goes, and how long ago the others went in.
Turns(t, n, z) ==
  /\ z \in 0 .. t - 1
  /\ ((n + 1) - (z + 1)) % t = 0
  /\ \A x \in 1 .. t : x # z + 1 => /\ (n - x) % t \in Nat
                                    /\ ((n + 1) - x) % t = ((n - x) % t) + 1
  /\ (n + 1) % t = IF z + 1 = t THEN 0 ELSE z + 1

LEMMA RingTurns ==
  ASSUME NEW t \in Nat \ {0}, NEW n \in Nat, NEW z, z = n % t
  PROVE  Turns(t, n, z)
<1>1. PICK q \in Int : n = q * t + z /\ z \in 0 .. t - 1
  <2>1. n \div t \in Int /\ z \in 0 .. t - 1 /\ n = (t * (n \div t)) + z
    <3>1. n \in Int
      OBVIOUS
    <3> QED
      BY <3>1, Dividing, Zenon
  <2>2. t * (n \div t) = (n \div t) * t
    BY <2>1
  <2> QED
    BY <2>1, <2>2
<1>2. q * t \in Int
  BY <1>1
<1>3. ((n + 1) - (z + 1)) % t = 0
  <2>1. (n + 1) - (z + 1) = q * t + 0 /\ (n + 1) - (z + 1) \in Int /\ 0 \in 0 .. t - 1
    BY <1>1, <1>2
  <2> QED
    BY <1>1, <2>1, Remainder, Zenon
<1>4. ASSUME NEW x \in 1 .. t, x # z + 1
      PROVE  (n - x) % t \in Nat /\ ((n + 1) - x) % t = ((n - x) % t) + 1
  <2> DEFINE a == (n - x) % t
  <2>1. PICK u \in Int : n - x = u * t + a /\ a \in 0 .. t - 1
    <3>1. (n - x) \in Int
      OBVIOUS
    <3>2. (n - x) \div t \in Int /\ a \in 0 .. t - 1 /\ n - x = (t * ((n - x) \div t)) + a
      BY <3>1, Dividing, Zenon
    <3>3. t * ((n - x) \div t) = ((n - x) \div t) * t
      BY <3>2
    <3> QED
      BY <3>2, <3>3
  <2> HIDE DEF a
  <2>2. u * t \in Int /\ (u + 1) * t = u * t + t
    BY <2>1
  <2>3. a # t - 1
    <3> SUFFICES ASSUME a = t - 1 PROVE FALSE
      OBVIOUS
    <3>1. n = (u + 1) * t + (x - 1) /\ x - 1 \in 0 .. t - 1 /\ u + 1 \in Int
      BY <2>1, <2>2
    <3>2. n % t = x - 1
      BY <3>1, Remainder
    <3> QED
      BY <1>4, <3>2
  <2>4. (n + 1) - x = u * t + (a + 1) /\ (n + 1) - x \in Int /\ a + 1 \in 0 .. t - 1
    BY <2>1, <2>2, <2>3
  <2>5. ((n + 1) - x) % t = a + 1
    BY <2>1, <2>4, Remainder
  <2> QED
    BY <2>1, <2>5 DEF a
<1>5. (n + 1) % t = IF z + 1 = t THEN 0 ELSE z + 1
  <2>1. CASE z + 1 = t
    <3>1. (q + 1) * t = q * t + t /\ q + 1 \in Int
      BY <1>1
    <3>2. n + 1 = (q + 1) * t + 0 /\ n + 1 \in Int /\ 0 \in 0 .. t - 1
      BY <1>1, <1>2, <2>1, <3>1
    <3> QED
      BY <2>1, <3>1, <3>2, Remainder
  <2>2. CASE z + 1 # t
    <3>1. n + 1 = q * t + (z + 1) /\ n + 1 \in Int /\ z + 1 \in 0 .. t - 1
      BY <1>1, <1>2, <2>2
    <3> QED
      BY <1>1, <2>2, <3>1, Remainder
  <2> QED
    BY <2>1, <2>2
<1> QED
  BY <1>1, <1>3, <1>4, <1>5 DEF Turns

\* Reading back from there meets the samples from the newest to the oldest.
ReadsBack(t, n, w, j) == w + 1 \in 1 .. t /\ ((n + 1) - (w + 1)) % t = j - 1

LEMMA RingReads ==
  ASSUME NEW t \in Nat \ {0}, NEW n \in Nat, NEW z, z = n % t, NEW j \in 1 .. t,
         NEW w, w = ((z + 1) - j + t) % t
  PROVE  ReadsBack(t, n, w, j)
<1>1. PICK q \in Int : n = q * t + z /\ z \in 0 .. t - 1
  <2>1. n \div t \in Int /\ z \in 0 .. t - 1 /\ n = (t * (n \div t)) + z
    <3>1. n \in Int
      OBVIOUS
    <3> QED
      BY <3>1, Dividing, Zenon
  <2>2. t * (n \div t) = (n \div t) * t
    BY <2>1
  <2> QED
    BY <2>1, <2>2
<1> DEFINE m == (z + 1) - j + t
<1>2. PICK v \in Int : m = v * t + w /\ w \in 0 .. t - 1
  <2>1. m \in Int
    BY <1>1
  <2>2. m \div t \in Int /\ w \in 0 .. t - 1 /\ m = (t * (m \div t)) + w
    BY <2>1, Dividing, Zenon
  <2>3. t * (m \div t) = (m \div t) * t
    BY <2>2
  <2> QED
    BY <2>2, <2>3
<1>3. m = (z + 1) - j + t
  OBVIOUS
<1> HIDE DEF m
<1>4. ((q + v) - 1) * t = (q * t + v * t) - t /\ q * t \in Int /\ v * t \in Int /\ (q + v) - 1 \in Int
  BY <1>1, <1>2
<1>5. (n + 1) - (w + 1) = ((q + v) - 1) * t + (j - 1) /\ (n + 1) - (w + 1) \in Int /\ j - 1 \in 0 .. t - 1
  <2>1. PICK b \in Int, c \in Int, d \in Int : b = q * t /\ c = v * t /\ d = ((q + v) - 1) * t
    BY <1>4
  <2>2. d = (b + c) - t /\ n = b + z /\ ((z + 1) - j) + t = c + w
    BY <1>1, <1>2, <1>3, <1>4, <2>1, Zenon
  <2>2a. z \in Int /\ w \in Int
    BY <1>1, <1>2
  <2>3. (n + 1) - (w + 1) = d + (j - 1) /\ (n + 1) - (w + 1) \in Int /\ j - 1 \in 0 .. t - 1
    BY <2>2, <2>2a
  <2> QED
    BY <1>4, <2>1, <2>3, Zenon
<1>6. ((n + 1) - (w + 1)) % t = j - 1
  BY <1>4, <1>5, Remainder, Zenon
<1> QED
  BY <1>2, <1>6 DEF ReadsBack

\* One sample more.
LEMMA TapIs ==
  ASSUME ConversionAssumption, NEW s, NEW n \in Nat
  PROVE  /\ Tap(RingAt(s, n), s[n + 1]).next = RingAt(s, n + 1)
         /\ Tap(RingAt(s, n), s[n + 1]).out = Convolve(s, n + 1)
<1>1. PICK t \in Nat \ {0} : t = Taps /\ \A j \in 1 .. t : Coeffs[j] \in Int
  BY ManyTaps
<1>2. PICK z : z = n % t
  OBVIOUS
<1>3. /\ z \in 0 .. t - 1
      /\ ((n + 1) - (z + 1)) % t = 0
      /\ \A x \in 1 .. t : x # z + 1 => /\ (n - x) % t \in Nat
                                        /\ ((n + 1) - x) % t = ((n - x) % t) + 1
      /\ (n + 1) % t = IF z + 1 = t THEN 0 ELSE z + 1
  <2>1. Turns(t, n, z)
    BY <1>2, RingTurns
  <2> QED
    BY <2>1, Zenon DEF Turns
<1>4. PICK d, dd : d = Delayed(s, n) /\ dd = Delayed(s, n + 1)
  OBVIOUS
<1>5. /\ d = [x \in 1 .. t |-> Past(s, n, (n - x) % t)]
      /\ dd = [x \in 1 .. t |-> Past(s, n + 1, ((n + 1) - x) % t)]
  BY <1>1, <1>4, Zenon DEF Delayed
<1>6. PICK f : f = RingAt(s, n) /\ f = [coeffs |-> Coeffs, delay |-> d, idx |-> z + 1]
  BY <1>1, <1>2, <1>4, Zenon DEF RingAt
<1>7. f.coeffs = Coeffs /\ f.delay = d /\ f.idx = z + 1
  BY <1>6
<1>8. Len(d) = t
  <2>1. d = [x \in 1 .. t |-> d[x]]
    BY <1>5
  <2> QED
    BY <2>1, IsAList, Zenon
<1>9. PICK i \in 1 .. t : i = z + 1
  BY <1>3
<1>10. [d EXCEPT ![i] = s[n + 1]] = dd
  <2>1. ASSUME NEW x \in 1 .. t PROVE dd[x] = IF x = i THEN s[n + 1] ELSE d[x]
    <3>1. dd[x] = Past(s, n + 1, ((n + 1) - x) % t) /\ d[x] = Past(s, n, (n - x) % t)
      BY <1>5
    <3>2. CASE x = i
      <4>1. ((n + 1) - x) % t = 0
        BY <1>3, <1>9, <3>2, Zenon
      <4>2. Past(s, n + 1, 0) = s[n + 1]
        <5>1. 0 < n + 1 /\ (n + 1) - 0 = n + 1
          OBVIOUS
        <5> QED
          BY <5>1, Zenon DEF Past
      <4> QED
        BY <3>1, <3>2, <4>1, <4>2, Zenon
    <3>3. CASE x # i
      <4>1. PICK a \in Nat : a = (n - x) % t /\ ((n + 1) - x) % t = a + 1
        BY <1>3, <1>9, <3>3, Zenon
      <4>2. Past(s, n + 1, a + 1) = Past(s, n, a)
        <5>1. (a + 1 < n + 1 <=> a < n) /\ (n + 1) - (a + 1) = n - a
          OBVIOUS
        <5> QED
          BY <5>1, Zenon DEF Past
      <4> QED
        BY <3>1, <3>3, <4>1, <4>2, Zenon
    <3> QED
      BY <3>2, <3>3
  <2>2. dd = [x \in 1 .. t |-> IF x = i THEN s[n + 1] ELSE d[x]]
    <3>1. dd = [x \in 1 .. t |-> dd[x]]
      BY <1>5
    <3> QED
      BY <2>1, <3>1, Zenon
  <2>3. d = [x \in 1 .. t |-> d[x]]
    BY <1>5
  <2> QED
    BY <2>2, <2>3
<1>11. PICK w : w = [f EXCEPT !.delay[f.idx] = s[n + 1]] /\ w = [coeffs |-> Coeffs, delay |-> dd, idx |-> i]
  <2>1. [f EXCEPT !.delay[f.idx] = s[n + 1]] = [f EXCEPT !.delay = [d EXCEPT ![i] = s[n + 1]]]
    BY <1>7, <1>9
  <2>2. [f EXCEPT !.delay = dd] = [coeffs |-> Coeffs, delay |-> dd, idx |-> i]
    BY <1>6, <1>9
  <2> QED
    BY <1>10, <2>1, <2>2
<1>12. w.delay = dd /\ w.idx = i
  BY <1>11
<1>13. Tap(f, s[n + 1]).next = RingAt(s, n + 1)
  <2>1. Tap(f, s[n + 1]).next = [w EXCEPT !.idx = IF w.idx = t THEN 1 ELSE w.idx + 1]
    BY <1>7, <1>8, <1>11 DEF Tap
  <2>2. (IF i = t THEN 1 ELSE i + 1) = ((n + 1) % t) + 1
    <3>1. PICK u \in Int : u = IF i = t THEN 0 ELSE i
      OBVIOUS
    <3>2. (n + 1) % t = u
      BY <1>3, <1>9, <3>1, Zenon
    <3>3. (IF i = t THEN 1 ELSE i + 1) = u + 1
      BY <3>1
    <3> QED
      BY <3>2, <3>3, Zenon
  <2>3. PICK y : y = ((n + 1) % t) + 1
    OBVIOUS
  <2>4. Tap(f, s[n + 1]).next = [w EXCEPT !.idx = y]
    BY <1>12, <2>1, <2>2, <2>3, Zenon
  <2>5. [w EXCEPT !.idx = y] = [coeffs |-> Coeffs, delay |-> dd, idx |-> y]
    <3>1. w = [coeffs |-> Coeffs, delay |-> dd, idx |-> i]
      BY <1>11
    <3> QED
      BY <3>1
  <2>6. RingAt(s, n + 1) = [coeffs |-> Coeffs, delay |-> dd, idx |-> y]
    BY <1>1, <1>4, <2>3, Zenon DEF RingAt
  <2> QED
    BY <2>4, <2>5, <2>6, Zenon
<1> DEFINE back(j) == ((i - j + t) % t) + 1
           met == [j \in 1 .. t |-> Coeffs[j] * dd[back(j)]]
<1>14. met = Weighed(s, n + 1)
  <2>1. ASSUME NEW j \in 1 .. t
        PROVE  Coeffs[j] * dd[back(j)] = IF n + 1 >= j THEN Coeffs[j] * s[(n + 1) - j + 1] ELSE 0
    <3>1. PICK v : v = ((z + 1) - j + t) % t
      OBVIOUS
    <3>2. v + 1 \in 1 .. t /\ ((n + 1) - (v + 1)) % t = j - 1
      <4>1. ReadsBack(t, n, v, j)
        BY <1>2, <3>1, RingReads
      <4> QED
        BY <4>1, Zenon DEF ReadsBack
    <3>3. back(j) = v + 1
      BY <1>9, <3>1
    <3>4. dd[v + 1] = Past(s, n + 1, j - 1)
      BY <1>5, <3>2
    <3>5. Past(s, n + 1, j - 1) = IF n + 1 >= j THEN s[(n + 1) - j + 1] ELSE 0
      <4>1. (j - 1 < n + 1 <=> n + 1 >= j) /\ (n + 1) - (j - 1) = (n + 1) - j + 1
        OBVIOUS
      <4> QED
        BY <4>1, Zenon DEF Past
    <3>6. Coeffs[j] * 0 = 0
      BY <1>1
    <3> QED
      BY <3>3, <3>4, <3>5, <3>6, Zenon
  <2>2. Weighed(s, n + 1) = [j \in 1 .. t |-> IF n + 1 >= j THEN Coeffs[j] * s[(n + 1) - j + 1] ELSE 0]
    BY <1>1, Zenon DEF Weighed, Taps
  <2> HIDE DEF back
  <2> QED
    BY <2>1, <2>2, Zenon
<1>15. Tap(f, s[n + 1]).out = Clamp(SumOf(met, t))
  <2>1. Tap(f, s[n + 1]).out
          = Clamp(SumOf([j \in 1 .. Len(f.delay) |->
                           f.coeffs[j] * w.delay[((f.idx - j + Len(f.delay)) % Len(f.delay)) + 1]], Len(f.delay)))
    BY <1>11 DEF Tap
  <2> QED
    BY <1>7, <1>8, <1>9, <1>12, <2>1, Zenon
<1>16. Tap(f, s[n + 1]).out = Convolve(s, n + 1)
  BY <1>1, <1>14, <1>15, Zenon DEF Convolve
<1> QED
  BY <1>6, <1>13, <1>16, Zenon

\* What holds at the start and passes on holds all the way.
LEMMA Climbs ==
  ASSUME NEW n \in Nat, NEW T, 0 \in T, \A k \in 0 .. n - 1 : k \in T => k + 1 \in T
  PROVE  \A k \in 0 .. n : k \in T
<1> SUFFICES ASSUME NEW k \in 0 .. n, k \notin T PROVE FALSE
  OBVIOUS
<1> DEFINE Missing == {j \in 0 .. n : j \notin T}
<1>1. k \in Nat /\ k \in Missing
  OBVIOUS
<1>2. PICK x \in 0 .. k : x \in Missing /\ \A y \in 0 .. x - 1 : y \notin Missing
  BY <1>1, LeastOne, Zenon
<1>3. x # 0 /\ x - 1 \in 0 .. n - 1 /\ x - 1 \in T
  <2>1. x # 0 /\ x \in 0 .. n
    BY <1>2
  <2>2. x - 1 \in 0 .. x - 1 /\ x - 1 \in 0 .. n - 1
    BY <1>1, <2>1
  <2> QED
    BY <1>2, <2>1, <2>2
<1>4. x - 1 + 1 = x
  BY <1>2, <1>3
<1> QED
  BY <1>2, <1>3, <1>4
-----------------------------------------------------------------------------
(***************************************************************************)

\* What the filter has after each sample of a piece.
FilterStates(f, in) ==
  CHOOSE after : after = [k \in 0 .. Len(in) |->
                            IF k = 0 THEN [next |-> f, out |-> 0] ELSE Tap(after[k - 1].next, in[k])]
Continued(t, n, in) == \A k \in 1 .. Len(in) : t[n + k] = in[k]

\* There is such a function, though only one step of it is written down, and it follows the ring.
LEMMA AfterIs ==
  ASSUME ConversionAssumption, NEW t, NEW n \in Nat, NEW in, IsList(in), Continued(t, n, in),
         NEW h, h = FilterStates(RingAt(t, n), in)
  PROVE  \A k \in 0 .. Len(in) : /\ h[k].next = RingAt(t, n + k)
                                 /\ k # 0 => h[k].out = Convolve(t, n + k)
<1>1. PICK m \in Nat : m = Len(in)
  BY DEF IsList
<1>2. PICK first : first = [next |-> RingAt(t, n), out |-> 0]
  OBVIOUS
<1>3. \A k \in 1 .. m : in[k] = t[n + k]
  BY <1>1 DEF Continued
<1>4. ASSUME NEW k \in 1 .. m
      PROVE  /\ Tap(RingAt(t, n + (k - 1)), in[k]).next = RingAt(t, n + k)
             /\ Tap(RingAt(t, n + (k - 1)), in[k]).out = Convolve(t, n + k)
  <2>1. PICK z \in Nat : z = n + (k - 1) /\ z + 1 = n + k
    OBVIOUS
  <2>2. Tap(RingAt(t, z), t[z + 1]).next = RingAt(t, z + 1) /\ Tap(RingAt(t, z), t[z + 1]).out = Convolve(t, z + 1)
    BY TapIs
  <2> QED
    BY <1>3, <2>1, <2>2, Zenon
<1>5. h = [k \in 0 .. m |-> IF k = 0 THEN first ELSE Tap(h[k - 1].next, in[k])]
  <2> DEFINE g == [k \in 0 .. m |-> IF k = 0 THEN first ELSE Tap(RingAt(t, n + (k - 1)), in[k])]
  <2>1. ASSUME NEW k \in 0 .. m PROVE g[k].next = RingAt(t, n + k)
    <3>1. CASE k = 0
      <4>1. g[k] = first /\ n + k = n
        BY <3>1
      <4> QED
        BY <1>2, <4>1
    <3>2. CASE k # 0
      <4>1. g[k] = Tap(RingAt(t, n + (k - 1)), in[k]) /\ k \in 1 .. m
        BY <3>2
      <4> QED
        BY <1>4, <4>1
    <3> QED
      BY <3>1, <3>2
  <2>2. ASSUME NEW k \in 0 .. m PROVE g[k] = IF k = 0 THEN first ELSE Tap(g[k - 1].next, in[k])
    <3>1. CASE k = 0
      BY <3>1
    <3>2. CASE k # 0
      <4>1. PICK j \in 0 .. m : j = k - 1
        BY <3>2
      <4>2. g[j].next = RingAt(t, n + j)
        BY <2>1
      <4>3. g[k] = Tap(RingAt(t, n + j), in[k])
        BY <3>2, <4>1
      <4> HIDE DEF g
      <4> QED
        BY <3>2, <4>1, <4>2, <4>3, Zenon
    <3> QED
      BY <3>1, <3>2
  <2>3. g = [k \in 0 .. m |-> g[k]]
    OBVIOUS
  <2> HIDE DEF g
  <2>4. g = [k \in 0 .. m |-> IF k = 0 THEN first ELSE Tap(g[k - 1].next, in[k])]
    BY <2>2, <2>3, Zenon
  <2>5. h = CHOOSE x : x = [k \in 0 .. m |-> IF k = 0 THEN first ELSE Tap(x[k - 1].next, in[k])]
    BY <1>1, <1>2, Zenon DEF FilterStates
  <2> QED
    BY <2>4, <2>5, Zenon
<1> DEFINE T == {k \in 0 .. m : h[k].next = RingAt(t, n + k)}
<1>6. 0 \in T
  <2>1. 0 \in 0 .. m /\ n + 0 = n /\ h[0] = first
    BY <1>5
  <2> QED
    BY <1>2, <2>1
<1>7. ASSUME NEW k \in 1 .. m PROVE h[k] = Tap(h[k - 1].next, in[k])
  <2>1. k \in 0 .. m /\ k # 0
    OBVIOUS
  <2> QED
    BY <1>5, <2>1, Zenon
<1>8. ASSUME NEW k \in 0 .. m - 1, k \in T PROVE k + 1 \in T
  <2>1. PICK j \in 1 .. m : j = k + 1 /\ j - 1 = k
    OBVIOUS
  <2>2. h[j] = Tap(RingAt(t, n + (j - 1)), in[j])
    BY <1>7, <1>8, <2>1, Zenon
  <2>3. h[j].next = RingAt(t, n + j) /\ j \in 0 .. m
    BY <1>4, <2>2
  <2> QED
    BY <2>1, <2>3
<1>9. \A k \in 0 .. m : k \in T
  <2> HIDE DEF T
  <2>1. \A k \in 0 .. m - 1 : k \in T => k + 1 \in T
    BY <1>8, Zenon
  <2> QED
    BY <1>6, <2>1, Climbs, Zenon
<1>10. ASSUME NEW k \in 0 .. m PROVE h[k].next = RingAt(t, n + k)
  BY <1>9
<1>11. ASSUME NEW k \in 0 .. m, k # 0 PROVE h[k].out = Convolve(t, n + k)
  <2>1. k \in 1 .. m /\ k - 1 \in 0 .. m
    BY <1>11
  <2>2. h[k] = Tap(RingAt(t, n + (k - 1)), in[k])
    BY <1>7, <1>10, <2>1, Zenon
  <2> QED
    BY <1>4, <2>1, <2>2, Zenon
<1> QED
  BY <1>1, <1>10, <1>11, Zenon

\* A piece through the filter.
LEMMA FilterIs ==
  ASSUME ConversionAssumption, NEW t, NEW n \in Nat, NEW in, IsList(in), Continued(t, n, in)
  PROVE  /\ Filter(RingAt(t, n), in).next = RingAt(t, n + Len(in))
         /\ IsList(Filter(RingAt(t, n), in).out) /\ Len(Filter(RingAt(t, n), in).out) = Len(in)
         /\ \A k \in 1 .. Len(in) : Filter(RingAt(t, n), in).out[k] = Convolve(t, n + k)
<1>1. PICK m \in Nat : m = Len(in) /\ DOMAIN in = 1 .. m
  BY DEF IsList
<1>2. PICK h : h = FilterStates(RingAt(t, n), in)
  OBVIOUS
<1>3. \A k \in 0 .. m : h[k].next = RingAt(t, n + k) /\ (k # 0 => h[k].out = Convolve(t, n + k))
  BY <1>1, <1>2, AfterIs
<1>4. PICK y : y = Filter(RingAt(t, n), in) /\ y = [next |-> h[m].next, out |-> [k \in 1 .. m |-> h[k].out]]
  <2>1. Filter(RingAt(t, n), in)
          = [next |-> FilterStates(RingAt(t, n), in)[Len(in)].next,
             out |-> [k \in DOMAIN in |-> FilterStates(RingAt(t, n), in)[k].out]]
    BY Zenon DEF Filter, FilterStates
  <2> QED
    BY <1>1, <1>2, <2>1, Zenon
<1>5. y.next = h[m].next /\ y.out = [k \in 1 .. m |-> h[k].out]
  BY <1>4
<1>6. y.next = RingAt(t, n + m)
  BY <1>3, <1>5
<1>7. \A k \in 1 .. m : y.out[k] = Convolve(t, n + k)
  BY <1>3, <1>5
<1>8. IsList(y.out) /\ Len(y.out) = m
  <2>1. y.out = [k \in 1 .. m |-> y.out[k]]
    BY <1>5
  <2> QED
    BY <2>1, IsAList, Zenon
<1> QED
  BY <1>1, <1>4, <1>6, <1>7, <1>8, Zenon

\* What went in before stays as it was.
LEMMA RingStays ==
  ASSUME ConversionAssumption, NEW s, NEW t, NEW n \in Nat, \A k \in 1 .. n : t[k] = s[k]
  PROVE  /\ RingAt(t, n) = RingAt(s, n)
         /\ \A k \in 1 .. n : Convolve(t, k) = Convolve(s, k)
<1>1. PICK m \in Nat \ {0} : m = Taps
  BY ManyTaps
<1>2. ASSUME NEW x \in 1 .. m PROVE Past(t, n, (n - x) % m) = Past(s, n, (n - x) % m)
  <2>1. PICK a \in Nat : a = (n - x) % m
    <3>1. n - x \in Int
      OBVIOUS
    <3>2. (n - x) % m \in 0 .. m - 1
      BY <3>1, Dividing, Zenon
    <3> QED
      BY <3>2
  <2>2. a < n => n - a \in 1 .. n
    OBVIOUS
  <2>3. Past(t, n, a) = Past(s, n, a)
    BY <2>2, Zenon DEF Past
  <2> QED
    BY <2>1, <2>3, Zenon
<1>3. Delayed(t, n) = Delayed(s, n)
  BY <1>1, <1>2, Zenon DEF Delayed
<1>4. ASSUME NEW k \in 1 .. n PROVE Convolve(t, k) = Convolve(s, k)
  <2>1. ASSUME NEW j \in 1 .. m, k >= j PROVE t[k - j + 1] = s[k - j + 1]
    <3>1. k - j + 1 \in 1 .. n
      BY <2>1
    <3> QED
      BY <3>1
  <2>2. ASSUME NEW j \in 1 .. m
        PROVE  (IF k >= j THEN Coeffs[j] * t[k - j + 1] ELSE 0) = IF k >= j THEN Coeffs[j] * s[k - j + 1] ELSE 0
    BY <2>1, Zenon
  <2>3. Weighed(t, k) = Weighed(s, k)
    BY <1>1, <2>2, Zenon DEF Weighed, Taps
  <2> QED
    BY <2>3, Zenon DEF Convolve
<1> QED
  BY <1>3, <1>4, Zenon DEF RingAt

-----------------------------------------------------------------------------
(***************************************************************************)
(* A signal in pieces: the inductive invariant.                            *)
(***************************************************************************)
InPieces(r, s, out, i, o) ==
  /\ r.inRate = i /\ r.outRate = o
  /\ IF i = o THEN r = NewResampler(i, o) /\ out = s ELSE Streamed(r, s, out, i, o)
Sieved(f, s, out) ==
  /\ f = RingAt(s, Len(s)) /\ IsList(out) /\ Len(out) = Len(s)
  /\ \A k \in 1 .. Len(s) : out[k] = Convolve(s, k)

ConversionIInv ==
  /\ IsList(signal)
  /\ \E i, o \in Nat \ {0} : InPieces(conv, signal, resampled, i, o)
  /\ Sieved(fir, signal, filtered)
  /\ pieces \in Nat /\ IsList(separate) /\ DriftPerPiece

\* A piece through the converter, whatever the rates.
LEMMA PiecesOn ==
  ASSUME NEW i \in Nat \ {0}, NEW o \in Nat \ {0}, NEW s, IsList(s), NEW in, IsList(in), in # <<>>,
         NEW r, NEW out, InPieces(r, s, out, i, o)
  PROVE  InPieces(Process(r, in).next, s \o in, out \o Process(r, in).out, i, o)
<1>1. CASE i = o
  <2>1. Process(r, in).next = r /\ Process(r, in).out = in
    BY <1>1 DEF Process, InPieces
  <2> QED
    BY <1>1, <2>1, Zenon DEF InPieces
<1>2. CASE i # o
  <2>1. Streamed(Process(r, in).next, s \o in, out \o Process(r, in).out, i, o)
    BY <1>2, StreamsOn DEF InPieces
  <2>2. Process(r, in).next.inRate = i /\ Process(r, in).next.outRate = o
    BY <2>1 DEF Streamed, Left
  <2> QED
    BY <1>2, <2>1, <2>2, Zenon DEF InPieces
<1> QED
  BY <1>1, <1>2

\* A piece through the filter keeps what it is.
LEMMA SievesOn ==
  ASSUME ConversionAssumption, NEW f, NEW s, IsList(s), NEW in, IsList(in), NEW out, Sieved(f, s, out)
  PROVE  Sieved(Filter(f, in).next, s \o in, out \o Filter(f, in).out)
<1>0. PICK n \in Nat, m \in Nat : n = Len(s) /\ m = Len(in)
  BY DEF IsList
<1>0a. PICK t, y, z : t = s \o in /\ y = Filter(f, in) /\ z = out \o y.out
  OBVIOUS
<1>1. n = Len(s) /\ m = Len(in) /\ t = s \o in /\ y = Filter(f, in) /\ z = out \o y.out
  BY <1>0, <1>0a
<1>2. IsJoined(t, s, in)
  BY <1>1, Joined, Zenon
<1>3. /\ Len(t) = n + m /\ Continued(t, n, in)
      /\ \A k \in 1 .. n : t[k] = s[k]
  BY <1>1, <1>2, Zenon DEF IsJoined, Continued
<1>4. f = RingAt(t, n) /\ \A k \in 1 .. n : Convolve(t, k) = Convolve(s, k)
  BY <1>1, <1>3, RingStays, Zenon DEF Sieved
<1>5. /\ y.next = RingAt(t, n + m) /\ IsList(y.out) /\ Len(y.out) = m
      /\ \A k \in 1 .. m : y.out[k] = Convolve(t, n + k)
  <2>1. /\ Filter(RingAt(t, n), in).next = RingAt(t, n + Len(in))
        /\ IsList(Filter(RingAt(t, n), in).out) /\ Len(Filter(RingAt(t, n), in).out) = Len(in)
        /\ \A k \in 1 .. Len(in) : Filter(RingAt(t, n), in).out[k] = Convolve(t, n + k)
    BY <1>3, FilterIs
  <2>2. y = Filter(RingAt(t, n), in)
    BY <1>1, <1>4, Zenon
  <2> QED
    BY <1>1, <2>1, <2>2, Zenon
<1>6. IsList(out) /\ Len(out) = n /\ \A k \in 1 .. n : out[k] = Convolve(t, k)
  BY <1>1, <1>4, Zenon DEF Sieved
<1>7. IsJoined(z, out, y.out)
  BY <1>1, <1>5, <1>6, Joined, Zenon
<1>8. /\ IsList(z) /\ Len(z) = n + m
      /\ \A k \in 1 .. n : z[k] = Convolve(t, k)
      /\ \A k \in 1 .. m : z[n + k] = Convolve(t, n + k)
  BY <1>5, <1>6, <1>7, Zenon DEF IsJoined
<1>9. ASSUME NEW k \in 1 .. n + m PROVE z[k] = Convolve(t, k)
  <2>1. CASE k <= n
    BY <1>8, <2>1
  <2>2. CASE k > n
    <3>1. PICK j \in 1 .. m : k = n + j
      <4>1. k - n \in 1 .. m /\ k = n + (k - n)
        BY <2>2
      <4> QED
        BY <4>1
    <3> QED
      BY <1>8, <3>1, Zenon
  <2> QED
    BY <2>1, <2>2
<1> QED
  BY <1>1, <1>3, <1>5, <1>8, <1>9, Zenon DEF Sieved

LEMMA ConversionInitIInv == ASSUME ConversionAssumption, ConversionInit PROVE ConversionIInv
<1>1. PICK t \in Nat \ {0} : t = Taps
  BY ManyTaps
<1>2. PICK r \in RatePairs : conv = NewResampler(r[1], r[2])
  BY DEF ConversionInit
<1>3. PICK i \in Nat \ {0}, o \in Nat \ {0} : i = r[1] /\ o = r[2]
  BY <1>2 DEF ConversionAssumption
<1>4. InPieces(conv, signal, resampled, i, o)
  <2>1. conv = NewResampler(i, o) /\ conv.inRate = i /\ conv.outRate = o
    BY <1>2, <1>3 DEF NewResampler
  <2>2. Streamed(NewResampler(i, o), <<>>, <<>>, i, o)
    BY StreamStarts
  <2> QED
    BY <2>1, <2>2 DEF InPieces, ConversionInit
<1>5. Sieved(fir, signal, filtered)
  <2>1. Delayed(<<>>, 0) = [x \in 1 .. t |-> 0]
    <3>1. ASSUME NEW x \in 1 .. t PROVE Past(<<>>, 0, (0 - x) % t) = 0
      <4>1. (0 - x) % t \in 0 .. t - 1
        <5>1. (0 - x) \in Int
          OBVIOUS
        <5> QED
          BY <5>1, Dividing, Zenon
      <4>2. ~ ((0 - x) % t < 0)
        BY <4>1
      <4> QED
        BY <4>2, Zenon DEF Past
    <3> QED
      BY <1>1, <3>1, Zenon DEF Delayed
  <2>2. 0 % t = 0 /\ 0 + 1 = 1
    OBVIOUS
  <2>3. DOMAIN Coeffs = 1 .. t
    BY <1>1 DEF ConversionAssumption, Taps
  <2>4. NewFIRFilter(Coeffs) = RingAt(<<>>, 0)
    BY <1>1, <2>1, <2>2, <2>3, Zenon DEF NewFIRFilter, RingAt
  <2>5. \A k \in 1 .. 0 : <<>>[k] = Convolve(<<>>, k)
    OBVIOUS
  <2> QED
    BY <2>4, <2>5, EmptyList DEF Sieved, ConversionInit
<1>6. pieces \in Nat /\ IsList(separate) /\ IsList(signal)
  BY EmptyList DEF ConversionInit
<1>7. DriftPerPiece
  <2>1. Len(separate) = 0 /\ Len(signal) = 0 /\ pieces = 0 /\ conv.inRate = i /\ conv.outRate = o
    BY <1>4, EmptyList DEF ConversionInit, InPieces
  <2> QED
    BY <2>1 DEF DriftPerPiece
<1> QED
  BY <1>4, <1>5, <1>6, <1>7 DEF ConversionIInv

LEMMA ConversionNextIInv ==
  ASSUME ConversionAssumption, ConversionIInv, ConversionNext
  PROVE  ConversionIInv'
<1>1. PICK n \in 1 .. MaxPiece : \E piece \in [1 .. n -> InputSamples] : Feed(piece)
  BY DEF ConversionNext
<1>2. PICK piece \in [1 .. n -> InputSamples] : Feed(piece)
  BY <1>1
<1>3. n \in Nat \ {0}
  BY DEF ConversionAssumption
<1>4. IsList(piece) /\ Len(piece) = n /\ piece # <<>>
  <2>1. piece = [k \in 1 .. n |-> piece[k]]
    OBVIOUS
  <2>2. IsList(piece) /\ Len(piece) = n
    BY <1>3, <2>1, IsAList
  <2> QED
    BY <1>3, <2>2, EmptyList
<1>5. PICK i \in Nat \ {0}, o \in Nat \ {0} : InPieces(conv, signal, resampled, i, o)
  BY DEF ConversionIInv
<1>6. IsList(signal) /\ Sieved(fir, signal, filtered) /\ pieces \in Nat /\ IsList(separate) /\ DriftPerPiece
  BY DEF ConversionIInv
<1>7. /\ signal' = signal \o piece
      /\ conv' = Process(conv, piece).next
      /\ resampled' = resampled \o Process(conv, piece).out
      /\ fir' = Filter(fir, piece).next
      /\ filtered' = filtered \o Filter(fir, piece).out
      /\ pieces' = pieces + 1
      /\ separate' = separate \o ResampleInt16(piece, conv.inRate, conv.outRate)
  BY <1>2, Zenon DEF Feed
<1>8. InPieces(conv', signal', resampled', i, o)
  BY <1>4, <1>5, <1>6, <1>7, PiecesOn, Zenon
<1>9. Sieved(fir', signal', filtered')
  BY <1>4, <1>6, <1>7, SievesOn, Zenon
<1>10. conv.inRate = i /\ conv.outRate = o /\ conv'.inRate = i /\ conv'.outRate = o
  BY <1>5, <1>8, Zenon DEF InPieces
<1>11. PICK made : made = ResampleInt16(piece, i, o)
  OBVIOUS
<1>12. /\ IsList(made)
       /\ -i <= 2 * (Len(made) * i - n * o)
       /\ 2 * (Len(made) * i - n * o) <= MostPerPiece(i, o)
  BY <1>4, <1>11, PieceDrifts
<1>13. IsJoined(signal', signal, piece) /\ IsJoined(separate', separate, made)
  BY <1>4, <1>6, <1>7, <1>10, <1>11, <1>12, Joined, Zenon
<1>14. PICK a \in Nat, b \in Nat, c \in Nat : a = Len(signal) /\ b = Len(separate) /\ c = Len(made)
  BY <1>6, <1>12 DEF IsList
<1>15. /\ IsList(signal') /\ Len(signal') = a + n
       /\ IsList(separate') /\ Len(separate') = b + c
  BY <1>4, <1>13, <1>14, Zenon DEF IsJoined
<1>16. DriftPerPiece'
  <2>1. -(pieces * i) <= 2 * (b * i - a * o) /\ 2 * (b * i - a * o) <= pieces * MostPerPiece(i, o)
    BY <1>6, <1>10, <1>14 DEF DriftPerPiece, MostPerPiece
  <2>2. PICK most \in Nat : most = MostPerPiece(i, o)
    BY DEF MostPerPiece
  <2>3. /\ (b + c) * i = b * i + c * i /\ (a + n) * o = a * o + n * o
        /\ (pieces + 1) * i = pieces * i + i /\ (pieces + 1) * most = pieces * most + most
    BY <1>3, <1>6, <2>2
  <2>4. PICK bi \in Int, ci \in Int, ao \in Int, no \in Int, pi \in Int, pm \in Int :
           bi = b * i /\ ci = c * i /\ ao = a * o /\ no = n * o /\ pi = pieces * i /\ pm = pieces * most
    BY <1>3, <1>6, <2>2
  <2>5. -pi <= 2 * (bi - ao) /\ 2 * (bi - ao) <= pm /\ -i <= 2 * (ci - no) /\ 2 * (ci - no) <= most
    BY <1>12, <1>14, <2>1, <2>2, <2>4, Zenon
  <2>6. -(pi + i) <= 2 * ((bi + ci) - (ao + no)) /\ 2 * ((bi + ci) - (ao + no)) <= pm + most
    BY <2>5
  <2>7. /\ -((pieces + 1) * i) <= 2 * ((b + c) * i - (a + n) * o)
        /\ 2 * ((b + c) * i - (a + n) * o) <= (pieces + 1) * most
    BY <2>3, <2>4, <2>6, Zenon
  <2>8. most = IF i > o THEN 2 * i ELSE i
    BY <2>2 DEF MostPerPiece
  <2> QED
    BY <1>7, <1>10, <1>15, <2>7, <2>8, Zenon DEF DriftPerPiece
<1>17. pieces' \in Nat
  BY <1>6, <1>7
<1> QED
  BY <1>8, <1>9, <1>15, <1>16, <1>17 DEF ConversionIInv

\* What the invariant says of the converter and of the filter.
LEMMA ConvertedLikeTheWhole ==
  ASSUME ConversionIInv
  PROVE  LikeTheWhole /\ KeepsOne
<1>1. PICK i \in Nat \ {0}, o \in Nat \ {0} : InPieces(conv, signal, resampled, i, o)
  BY DEF ConversionIInv
<1>2. IsList(signal) /\ conv.inRate = i /\ conv.outRate = o
  BY <1>1 DEF ConversionIInv, InPieces
<1> DEFINE whole == ResampleInt16(signal, i, o)
<1>3. CASE i = o
  <2>1. conv = NewResampler(i, o) /\ resampled = signal
    BY <1>1, <1>3 DEF InPieces
  <2>2. resampled = Process(NewResampler(i, o), signal).out
    BY <1>3, <2>1 DEF Process, NewResampler
  <2>3. whole = signal
    BY <1>3 DEF ResampleInt16
  <2>4. PICK n \in Nat : n = Len(signal)
    BY <1>2 DEF IsList
  <2>5. -i < n * o - n * i /\ n * o - n * i <= o
    <3>1. n * i \in Int /\ n * o = n * i
      BY <1>3
    <3> QED
      BY <3>1
  <2>6. Len(conv.buf) <= 1
    BY <2>1, EmptyList DEF NewResampler
  <2> HIDE DEF whole
  <2>7. \A k \in DOMAIN resampled \cap DOMAIN whole : resampled[k] = whole[k]
    BY <2>1, <2>3
  <2> QED
    BY <1>2, <2>1, <2>2, <2>4, <2>5, <2>6, <2>7, Zenon DEF LikeTheWhole, KeepsOne, whole
<1>4. CASE i # o
  <2>1. Streamed(conv, signal, resampled, i, o)
    BY <1>1, <1>4 DEF InPieces
  <2>2. resampled = Process(NewResampler(i, o), signal).out
    BY <1>2, <1>4, <2>1, StreamIsWhole
  <2>3. \A k \in DOMAIN resampled \cap DOMAIN whole : resampled[k] = whole[k]
    BY <1>2, <1>4, <2>1, StreamAgrees
  <2>4. PICK n \in Nat, c \in Nat : n = Len(signal) /\ c = Len(resampled)
    BY <1>2, <2>1 DEF IsList, Streamed
  <2>5. -i < n * o - c * i /\ n * o - c * i <= o
    <3>1. ReadSoFar(c, Latest(n), i, o)
      BY <2>1, <2>4, Zenon DEF Streamed
    <3> QED
      BY <3>1, StreamIsLevel
  <2>6. Len(conv.buf) <= 1
    <3>1. conv.buf = IF n = 0 THEN <<>> ELSE <<signal[n]>>
      BY <2>1, <2>4 DEF Streamed, Left
    <3> QED
      BY <3>1, EmptyList
  <2> HIDE DEF whole
  <2> QED
    BY <1>2, <2>2, <2>3, <2>4, <2>5, <2>6, Zenon DEF LikeTheWhole, KeepsOne, whole
<1> QED
  BY <1>3, <1>4

LEMMA FilteredIsConvolved == ASSUME ConversionIInv PROVE Convolved
<1>1. IsList(signal) /\ \A n \in 1 .. Len(signal) : filtered[n] = Convolve(signal, n)
  BY DEF ConversionIInv, Sieved
<1>2. DOMAIN signal = 1 .. Len(signal)
  BY <1>1 DEF IsList
<1> QED
  BY <1>1, <1>2, Zenon DEF Convolved, Convolve, Taps

\* PiecesDontMatter holds whatever the rates, the coefficients, the samples and the lengths
\* of the pieces: the stream converter makes of a signal in pieces what it makes of the
\* whole and keeps one sample, the filter is the convolution of the whole, and the capture
\* pump's converter drifts by half a sample for each piece at most, or one too many where a
\* piece may be too short to make any (Int16StreamResampler, FIRFilter, ResampleInt16).
THEOREM PiecesDontMatterCorrect == ASSUME ConversionAssumption PROVE ConversionSpec => []PiecesDontMatter
<1>1. ConversionInit => ConversionIInv
  BY ConversionInitIInv
<1>2. ConversionIInv /\ [ConversionNext]_conversion => ConversionIInv'
  <2> SUFFICES ASSUME ConversionIInv, [ConversionNext]_conversion PROVE ConversionIInv'
    OBVIOUS
  <2>1. CASE ConversionNext
    BY <2>1, ConversionNextIInv
  <2>2. CASE UNCHANGED conversion
    BY <2>2 DEF conversion, ConversionIInv, DriftPerPiece
  <2> QED
    BY <2>1, <2>2
<1>3. ConversionIInv => PiecesDontMatter
  BY ConvertedLikeTheWhole, FilteredIsConvolved DEF ConversionIInv, PiecesDontMatter
<1> QED
  BY <1>1, <1>2, <1>3, PTL DEF ConversionSpec
=============================================================================
