------------------------------ MODULE HubProofs ------------------------------
(***************************************************************************)
(* Proofs about Hub, for any set of connections and keys and queues of any *)
(* length: what the snapshot stands for with any number of broadcasters,   *)
(* what browsers show with one.                                            *)
(***************************************************************************)
EXTENDS Hub, SequenceTheorems, WellFoundedInduction, TLAPS

\* Bitmaps cover the panel (publishEmulationSnapshot, and emitInfo for a whole panel).
WholeBitmaps == Coverage = {Key}

\* Messages about keys come from the read loop alone.
OneBroadcaster == \E b : Broadcaster = {b}

-----------------------------------------------------------------------------
(***************************************************************************)
(* Messages, and what they do to one key.                                  *)
(***************************************************************************)

LEMMA MessageKinds ==
  ASSUME NEW m \in Message
  PROVE  \/ m.kind = "keys" /\ m.covered \in Coverage /\ m.down \subseteq m.covered
         \/ m.kind = "key_event" /\ m.key \in Key /\ m.pressed \in BOOLEAN
         \/ m.kind = "emulation"
<1>1. CASE \E c \in Coverage, down \in SUBSET m.covered : c = m.covered /\ m = Keys(c, down)
  BY <1>1 DEF Keys
<1>2. CASE \E k \in Key, p \in BOOLEAN : m = KeyEvent(k, p)
  BY <1>2 DEF KeyEvent
<1>3. CASE m = Emulation
  BY <1>3 DEF Emulation
<1>4. ASSUME NEW c \in Coverage, NEW down \in SUBSET c, m = Keys(c, down)
      PROVE  c = m.covered /\ down \in SUBSET m.covered
  BY <1>4 DEF Keys
<1> QED
  BY <1>1, <1>2, <1>3, <1>4 DEF Message

LEMMA KindsDiffer ==
  /\ Keys(Key, {}).kind = "keys" /\ Keys(Key, {}).covered = Key /\ Keys(Key, {}).down = {}
  /\ Emulation \in Message
  /\ Keys(Key, {}) \in Message
BY SizeAssumption DEF Message, Keys, KeyEvent, Emulation

\* A message decides the keys it touches and leaves the others.
LEMMA ApplyOne ==
  ASSUME NEW m \in Message, NEW shown, NEW k
  PROVE  k \in Apply(shown, m) <=> IF Touches(m, k) THEN k \in Apply({}, m) ELSE k \in shown
<1>1. CASE m.kind = "keys" /\ m.down \subseteq m.covered
  BY <1>1 DEF Apply, Touches
<1>2. CASE m.kind = "key_event"
  BY <1>2 DEF Apply, Touches
<1>3. CASE m.kind = "emulation"
  BY <1>3 DEF Apply, Touches
<1> QED
  BY <1>1, <1>2, <1>3, MessageKinds

LEMMA ApplyType ==
  ASSUME NEW m \in Message, NEW shown \in SUBSET Key
  PROVE  Apply(shown, m) \in SUBSET Key
<1>1. CASE m.kind = "keys" /\ m.covered \subseteq Key /\ m.down \subseteq m.covered
  BY <1>1 DEF Apply
<1>2. CASE m.kind = "key_event" /\ m.key \in Key
  BY <1>2 DEF Apply
<1>3. CASE m.kind = "emulation"
  BY <1>3 DEF Apply
<1> QED
  BY <1>1, <1>2, <1>3, MessageKinds, SizeAssumption

-----------------------------------------------------------------------------
(***************************************************************************)
(* What a browser will show once it has read a queue, or a list.           *)
(***************************************************************************)

\* The last message about a key decides, and without one the key stays.
Played(shown, s) ==
  {k \in Key :
     \/ \E i \in 1 .. Len(s) : k \in Apply({}, s[i]) /\ \A j \in i + 1 .. Len(s) : ~Touches(s[j], k)
     \/ k \in shown /\ \A i \in 1 .. Len(s) : ~Touches(s[i], k)}

Replayed(shown, items) ==
  {k \in Key : k \in Shown(items) \/ (k \in shown /\ \A e \in items : ~Touches(e.message, k))}

LEMMA PlayedNothing ==
  ASSUME NEW shown \in SUBSET Key
  PROVE  Played(shown, <<>>) = shown
<1>1. Len(<<>>) = 0 /\ 1 .. 0 = {}
  OBVIOUS
<1> QED
  BY <1>1 DEF Played

\* A message joins the queue.
LEMMA PlayedAppend ==
  ASSUME NEW s \in Seq(Message), NEW m \in Message, NEW shown \in SUBSET Key
  PROVE  Played(shown, Append(s, m)) = Apply(Played(shown, s), m)
<1>1. PICK n \in Nat, t \in Seq(Message) :
        /\ n = Len(s) /\ t = Append(s, m) /\ Len(t) = n + 1 /\ t[n + 1] = m
        /\ \A i \in 1 .. n : t[i] = s[i]
  <2>1. PICK n \in Nat : n = Len(s)
    BY LenProperties
  <2>2. /\ Append(s, m) \in Seq(Message) /\ Len(Append(s, m)) = n + 1 /\ Append(s, m)[n + 1] = m
        /\ \A i \in 1 .. n : Append(s, m)[i] = s[i]
    BY <2>1, AppendProperties
  <2> QED
    BY <2>1, <2>2
<1>2. Played(shown, s) \in SUBSET Key
  BY DEF Played
<1>3. Apply(Played(shown, s), m) \in SUBSET Key
  BY <1>2, ApplyType
<1>4. ASSUME NEW k \in Key
      PROVE  k \in Played(shown, t) <=> k \in Apply(Played(shown, s), m)
  <2>1. k \in Apply(Played(shown, s), m) <=> IF Touches(m, k) THEN k \in Apply({}, m) ELSE k \in Played(shown, s)
    BY ApplyOne
  <2>2. CASE Touches(m, k)
    <3>1. n + 1 \in 1 .. n + 1 /\ Touches(t[n + 1], k)
      BY <1>1, <2>2
    <3>2. ASSUME NEW i \in 1 .. n + 1, \A j \in i + 1 .. n + 1 : ~Touches(t[j], k) PROVE i = n + 1
      BY <3>1, <3>2
    <3>3. k \in Apply({}, m) => \A j \in n + 1 + 1 .. n + 1 : ~Touches(t[j], k)
      OBVIOUS
    <3>4. k \in Played(shown, t) <=> k \in Apply({}, m)
      BY <1>1, <3>1, <3>2, <3>3 DEF Played
    <3> QED
      BY <2>1, <2>2, <3>4
  <2>3. CASE ~Touches(m, k)
    <3>1. k \notin Apply({}, m)
      BY <2>3, ApplyOne
    <3>2. \A i \in 1 .. n : /\ t[i] = s[i]
                            /\ (\A j \in i + 1 .. n + 1 : ~Touches(t[j], k)) <=> (\A j \in i + 1 .. n : ~Touches(s[j], k))
      <4>1. ASSUME NEW i \in 1 .. n
            PROVE (\A j \in i + 1 .. n + 1 : ~Touches(t[j], k)) <=> (\A j \in i + 1 .. n : ~Touches(s[j], k))
        <5>1. i + 1 .. n + 1 = (i + 1 .. n) \union {n + 1}
          OBVIOUS
        <5>2. \A j \in i + 1 .. n : t[j] = s[j]
          BY <1>1
        <5> QED
          BY <1>1, <2>3, <5>1, <5>2
      <4> QED
        BY <1>1, <4>1
    <3>3. (\E i \in 1 .. n + 1 : k \in Apply({}, t[i]) /\ \A j \in i + 1 .. n + 1 : ~Touches(t[j], k))
            <=> (\E i \in 1 .. n : k \in Apply({}, s[i]) /\ \A j \in i + 1 .. n : ~Touches(s[j], k))
      <4>1. 1 .. n + 1 = (1 .. n) \union {n + 1}
        OBVIOUS
      <4> QED
        BY <1>1, <3>1, <3>2, <4>1
    <3>4. (\A i \in 1 .. n + 1 : ~Touches(t[i], k)) <=> (\A i \in 1 .. n : ~Touches(s[i], k))
      <4>1. 1 .. n + 1 = (1 .. n) \union {n + 1}
        OBVIOUS
      <4> QED
        BY <1>1, <2>3, <4>1
    <3>5. k \in Played(shown, t) <=> k \in Played(shown, s)
      BY <1>1, <3>3, <3>4 DEF Played
    <3> QED
      BY <2>1, <2>3, <3>5
  <2> QED
    BY <2>2, <2>3
<1>5. Played(shown, t) \in SUBSET Key
  BY DEF Played
<1> QED
  BY <1>1, <1>3, <1>4, <1>5

\* The browser reads the oldest message.
LEMMA PlayedTail ==
  ASSUME NEW s \in Seq(Message), s # <<>>, NEW shown \in SUBSET Key
  PROVE  Played(Apply(shown, Head(s)), Tail(s)) = Played(shown, s)
<1>1. PICK n \in Nat, t \in Seq(Message), m \in Message :
        /\ n + 1 = Len(s) /\ t = Tail(s) /\ Len(t) = n /\ m = Head(s) /\ m = s[1]
        /\ \A i \in 1 .. n : t[i] = s[i + 1]
  <2>1. /\ Tail(s) \in Seq(Message) /\ Head(s) \in Message /\ Head(s) = s[1]
        /\ Len(Tail(s)) = Len(s) - 1 /\ \A i \in 1 .. Len(s) - 1 : Tail(s)[i] = s[i + 1]
    BY HeadTailProperties
  <2>2. Len(s) \in Nat /\ Len(s) # 0
    BY LenProperties, EmptySeq
  <2>3. PICK n \in Nat : n + 1 = Len(s) /\ n = Len(s) - 1
    BY <2>2
  <2> QED
    BY <2>1, <2>3
<1>2. ASSUME NEW i \in 2 .. n + 1
      PROVE  i - 1 \in 1 .. n /\ s[i] = t[i - 1]
  <2>1. PICK h \in 1 .. n : i = h + 1 /\ h = i - 1
    OBVIOUS
  <2> QED
    BY <1>1, <2>1
<1>3. ASSUME NEW k \in Key
      PROVE  k \in Played(Apply(shown, m), t) <=> k \in Played(shown, s)
  <2>1. \A j \in 1 .. n : s[j + 1] = t[j] /\ j + 1 \in 2 .. n + 1
    BY <1>1
  <2>2. (\A i \in 1 .. n : ~Touches(t[i], k)) <=> (\A i \in 2 .. n + 1 : ~Touches(s[i], k))
    BY <1>2, <2>1
  <2>3. \A i \in 1 .. n : (\A j \in i + 1 .. n : ~Touches(t[j], k)) <=> (\A j \in (i + 1) + 1 .. n + 1 : ~Touches(s[j], k))
    <3>1. ASSUME NEW i \in 1 .. n, \A j \in i + 1 .. n : ~Touches(t[j], k), NEW j \in (i + 1) + 1 .. n + 1
          PROVE  ~Touches(s[j], k)
      <4>1. PICK h \in i + 1 .. n : j = h + 1 /\ h \in 1 .. n
        OBVIOUS
      <4> QED
        BY <1>1, <3>1, <4>1
    <3>2. ASSUME NEW i \in 1 .. n, \A j \in (i + 1) + 1 .. n + 1 : ~Touches(s[j], k), NEW j \in i + 1 .. n
          PROVE  ~Touches(t[j], k)
      <4>1. PICK h \in (i + 1) + 1 .. n + 1 : h = j + 1 /\ j \in 1 .. n
        OBVIOUS
      <4> QED
        BY <1>1, <3>2, <4>1
    <3> QED
      BY <3>1, <3>2
  <2>4. (\E i \in 1 .. n : k \in Apply({}, t[i]) /\ \A j \in i + 1 .. n : ~Touches(t[j], k))
          <=> (\E i \in 2 .. n + 1 : k \in Apply({}, s[i]) /\ \A j \in i + 1 .. n + 1 : ~Touches(s[j], k))
    <3>1. ASSUME NEW i \in 1 .. n, k \in Apply({}, t[i]), \A j \in i + 1 .. n : ~Touches(t[j], k)
          PROVE  \E h \in 2 .. n + 1 : k \in Apply({}, s[h]) /\ \A j \in h + 1 .. n + 1 : ~Touches(s[j], k)
      <4>1. PICK h \in 2 .. n + 1 : h = i + 1
        OBVIOUS
      <4> QED
        BY <1>1, <2>3, <3>1, <4>1
    <3>2. ASSUME NEW i \in 2 .. n + 1, k \in Apply({}, s[i]), \A j \in i + 1 .. n + 1 : ~Touches(s[j], k)
          PROVE  \E h \in 1 .. n : k \in Apply({}, t[h]) /\ \A j \in h + 1 .. n : ~Touches(t[j], k)
      <4>1. PICK h \in 1 .. n : i = h + 1
        OBVIOUS
      <4> QED
        BY <1>1, <2>3, <3>2, <4>1
    <3> QED
      BY <3>1, <3>2
  <2>5. 1 .. n + 1 = {1} \union 2 .. n + 1 /\ 1 + 1 = 2 /\ s[1] = m
    BY <1>1
  <2>6. k \in Apply(shown, m) <=> IF Touches(m, k) THEN k \in Apply({}, m) ELSE k \in shown
    BY ApplyOne
  <2>7. k \in Apply({}, m) => Touches(m, k)
    BY ApplyOne
  <2>8. k \in Played(shown, s) <=>
          \/ \E i \in 2 .. n + 1 : k \in Apply({}, s[i]) /\ \A j \in i + 1 .. n + 1 : ~Touches(s[j], k)
          \/ k \in Apply({}, m) /\ \A j \in 2 .. n + 1 : ~Touches(s[j], k)
          \/ k \in shown /\ ~Touches(m, k) /\ \A j \in 2 .. n + 1 : ~Touches(s[j], k)
    BY <1>1, <2>5 DEF Played
  <2>9. k \in Played(Apply(shown, m), t) <=>
          \/ \E i \in 1 .. n : k \in Apply({}, t[i]) /\ \A j \in i + 1 .. n : ~Touches(t[j], k)
          \/ k \in Apply(shown, m) /\ \A i \in 1 .. n : ~Touches(t[i], k)
    BY <1>1 DEF Played
  <2> QED
    BY <2>2, <2>4, <2>6, <2>7, <2>8, <2>9
<1>4. Played(Apply(shown, m), t) \in SUBSET Key /\ Played(shown, s) \in SUBSET Key
  BY DEF Played
<1> QED
  BY <1>1, <1>3, <1>4

-----------------------------------------------------------------------------
(***************************************************************************)
(* Lists of messages.                                                      *)
(***************************************************************************)

Entry == [message : Message, place : Nat \ {0}]

\* A list of messages at places up to n.
Listed(items, n) ==
  /\ items \subseteq Entry
  /\ \A e \in items : e.place <= n
  /\ \A e, f \in items : e.place = f.place => e = f

\* One entry of each key, and a bitmap before the changes that followed it.
Catalogued(items) ==
  \A e, f \in items :
    /\ SameKey(e.message, f.message) => e = f
    /\ e.message.kind = "keys" /\ f.message.kind = "key_event" => e.place < f.place

LEMMA EntryFields ==
  ASSUME NEW e \in Entry
  PROVE  e.message \in Message /\ e.place \in Nat /\ e.place > 0
BY DEF Entry

\* Every set of numbers has a least one, and if it is bounded a largest.
LEMMA LeastNumber ==
  ASSUME NEW T, T \subseteq Nat, T # {}
  PROVE  \E x \in T : \A y \in T : x <= y
<1> DEFINE Below == {p \in Nat \X Nat : p[1] < p[2]}
<1>1. IsWellFoundedOn(Below, Nat)
  <2>1. OpToRel(<, Nat) = Below
    BY DEF OpToRel
  <2> QED
    BY <2>1, NatLessThanWellFounded
<1>2. PICK x \in T : \A y \in T : ~ (<<y, x>> \in Below)
  BY <1>1, WFMin
<1>3. ASSUME NEW y \in T, y < x PROVE <<y, x>> \in Below
  <2>1. <<y, x>> \in Nat \X Nat /\ <<y, x>>[1] = y /\ <<y, x>>[2] = x
    OBVIOUS
  <2> QED
    BY <1>3, <2>1
<1> HIDE DEF Below
<1>4. \A y \in T : ~(y < x)
  BY <1>2, <1>3, Zenon
<1>5. \A y \in T : y \in Nat /\ x \in Nat
  OBVIOUS
<1> QED
  BY <1>4, <1>5

LEMMA LargestNumber ==
  ASSUME NEW T, T \subseteq Nat, T # {}, NEW n \in Nat, \A x \in T : x <= n
  PROVE  Max(T) \in T /\ \A x \in T : x <= Max(T)
<1> DEFINE gaps == {n - x : x \in T}
<1>1. gaps \subseteq Nat /\ gaps # {}
  <2>1. \A x \in T : n - x \in Nat
    OBVIOUS
  <2> QED
    BY <2>1
<1>2. PICK g \in gaps : \A h \in gaps : g <= h
  BY <1>1, LeastNumber
<1>3. PICK y \in T : g = n - y
  OBVIOUS
<1>4. \A x \in T : x <= y
  <2>1. ASSUME NEW x \in T PROVE x <= y
    <3>1. n - x \in gaps /\ x \in Nat /\ y \in Nat
      OBVIOUS
    <3>2. n - y <= n - x
      BY <1>2, <1>3, <3>1
    <3> QED
      BY <3>1, <3>2
  <2> QED
    BY <2>1
<1> QED
  BY <1>4 DEF Max

\* The next place is behind all others.
LEMMA NextPlaceLast ==
  ASSUME NEW n \in Nat, NEW items, Listed(items, n)
  PROVE  /\ NextPlace(items) \in Nat \ {0} /\ NextPlace(items) <= n + 1
         /\ \A e \in items : e.place < NextPlace(items)
<1> DEFINE places == {0} \union {e.place : e \in items}
<1>1. places \subseteq Nat /\ places # {} /\ \A x \in places : x <= n
  BY EntryFields DEF Listed
<1>2. PICK x \in Nat : x = Max(places) /\ x <= n /\ \A y \in places : y <= x
  BY <1>1, LargestNumber
<1>3. NextPlace(items) = 1 + x
  BY <1>2 DEF NextPlace
<1>4. ASSUME NEW e \in items PROVE e.place < 1 + x
  <2>1. e.place \in places /\ e.place \in Nat
    BY EntryFields DEF Listed
  <2> QED
    BY <1>2, <2>1
<1> QED
  BY <1>2, <1>3, <1>4

\* A list has a front.
LEMMA FirstOne ==
  ASSUME NEW n \in Nat, NEW items, Listed(items, n), items # {}
  PROVE  First(items) \in items /\ \A f \in items : First(items).place <= f.place
<1> DEFINE places == {e.place : e \in items}
<1>1. places \subseteq Nat /\ places # {}
  BY EntryFields DEF Listed
<1>2. PICK x \in places : \A y \in places : x <= y
  BY <1>1, LeastNumber
<1>3. PICK e \in items : x = e.place
  OBVIOUS
<1>4. \A f \in items : e.place <= f.place
  BY <1>2, <1>3
<1> QED
  BY <1>4 DEF First

LEMMA PressTouches ==
  ASSUME NEW m \in Message, NEW k, k \in Apply({}, m)
  PROVE  Touches(m, k)
BY ApplyOne

\* The front of the list is sent.
LEMMA ReplayedFirst ==
  ASSUME NEW n \in Nat, NEW items, Listed(items, n), items # {}, NEW shown \in SUBSET Key,
         NEW e, e = First(items)
  PROVE  Replayed(Apply(shown, e.message), items \ {e}) = Replayed(shown, items)
<1>1. e \in items /\ e \in Entry /\ e.message \in Message
  BY FirstOne, EntryFields DEF Listed
<1>2. ASSUME NEW f \in items \ {e}
      PROVE  f.message \in Message /\ e.place < f.place /\ ~(f.place < e.place)
  <2>1. e.place \in Nat /\ f.place \in Nat /\ e.place # f.place /\ f.message \in Message
    BY <1>1, EntryFields DEF Listed
  <2>2. e.place <= f.place
    BY FirstOne
  <2> QED
    BY <2>1, <2>2
<1>3. ASSUME NEW k \in Key
      PROVE  k \in Replayed(Apply(shown, e.message), items \ {e}) <=> k \in Replayed(shown, items)
  <2>1. k \in Apply(shown, e.message) <=> IF Touches(e.message, k) THEN k \in Apply({}, e.message) ELSE k \in shown
    BY <1>1, ApplyOne
  <2>2. k \in Apply({}, e.message) => Touches(e.message, k)
    BY <1>1, PressTouches
  <2>3. k \in Shown(items) <=>
          \/ k \in Shown(items \ {e})
          \/ k \in Apply({}, e.message) /\ \A f \in items \ {e} : ~Touches(f.message, k)
    <3>1. ~(e.place < e.place)
      BY <1>1, EntryFields
    <3>2. (\A f \in items : e.place < f.place => ~Touches(f.message, k))
            <=> \A f \in items \ {e} : ~Touches(f.message, k)
      BY <1>2, <3>1
    <3>3. ASSUME NEW x \in items \ {e}
          PROVE  (\A f \in items : x.place < f.place => ~Touches(f.message, k))
                   <=> \A f \in items \ {e} : x.place < f.place => ~Touches(f.message, k)
      BY <1>2
    <3>4. items = (items \ {e}) \union {e}
      BY <1>1
    <3>5. (\E x \in items : k \in Apply({}, x.message) /\ \A f \in items : x.place < f.place => ~Touches(f.message, k))
            <=> \/ \E x \in items \ {e} :
                     k \in Apply({}, x.message) /\ \A f \in items \ {e} : x.place < f.place => ~Touches(f.message, k)
                \/ k \in Apply({}, e.message) /\ \A f \in items \ {e} : ~Touches(f.message, k)
      BY <1>1, <3>2, <3>3
    <3> QED
      BY <3>5 DEF Shown
  <2>4. (\A f \in items : ~Touches(f.message, k)) <=>
          ~Touches(e.message, k) /\ \A f \in items \ {e} : ~Touches(f.message, k)
    BY <1>1
  <2>5. k \in Replayed(Apply(shown, e.message), items \ {e}) <=>
          \/ k \in Shown(items \ {e})
          \/ k \in Apply(shown, e.message) /\ \A f \in items \ {e} : ~Touches(f.message, k)
    BY DEF Replayed
  <2>6. k \in Replayed(shown, items) <=>
          k \in Shown(items) \/ (k \in shown /\ \A f \in items : ~Touches(f.message, k))
    BY DEF Replayed
  <2> QED
    BY <2>1, <2>2, <2>3, <2>4, <2>5, <2>6
<1>4. /\ Replayed(Apply(shown, e.message), items \ {e}) \in SUBSET Key
      /\ Replayed(shown, items) \in SUBSET Key
  BY DEF Replayed
<1> QED
  BY <1>3, <1>4

LEMMA ReplayedNothing ==
  /\ \A shown \in SUBSET Key : Replayed(shown, {}) = shown
  /\ \A items : Replayed({}, items) = Shown(items)
BY DEF Replayed, Shown

\* What cacheSnapshotLocked makes of the list: the new message is put where one of its key
\* was, or at the end, and the changes before a bitmap are gone.
CachedAt(items, m, n, rest, r) ==
  /\ Cache(items, m) = rest \union {r} /\ r.message = m /\ r.place <= n + 1
  /\ \A f \in rest :
       /\ f.place # r.place /\ ~SameKey(f.message, m) /\ ~SameKey(m, f.message)
       /\ m.kind = "key_event" /\ f.message.kind = "keys" => f.place < r.place
       /\ m.kind = "keys" => f.message.kind # "key_event"
  /\ \A f \in items \ rest :
       SameKey(f.message, m) \/ (m.kind = "keys" /\ f.message.kind = "key_event")

LEMMA Cached ==
  ASSUME NEW n \in Nat, NEW items, Listed(items, n), Catalogued(items), NEW m \in Message
  PROVE  \E rest \in SUBSET items, r \in Entry : CachedAt(items, m, n, rest, r)
<1> DEFINE kept == ForgetOutdated(items, m)
           same == {e \in kept : SameKey(e.message, m)}
           rest == kept \ same
<1>1. /\ kept \subseteq items
      /\ \A f \in kept : m.kind = "keys" => f.message.kind # "key_event"
      /\ \A f \in items \ kept : m.kind = "keys" /\ f.message.kind = "key_event"
  BY DEF ForgetOutdated
<1>2. Listed(kept, n)
  BY <1>1 DEF Listed
<1>3. \A f \in rest : ~SameKey(f.message, m) /\ ~SameKey(m, f.message)
  BY DEF SameKey
<1>4. \A f \in items \ rest : SameKey(f.message, m) \/ (m.kind = "keys" /\ f.message.kind = "key_event")
  BY <1>1
<1>5. rest \in SUBSET items /\ \A f \in rest : f \in kept /\ f \in Entry
  BY <1>1 DEF Listed
<1>6. CASE same = {}
  <2>1. PICK r \in Entry : r = [message |-> m, place |-> NextPlace(kept)]
    BY <1>2, NextPlaceLast DEF Entry
  <2>2. r.message = m /\ r.place = NextPlace(kept)
    BY <2>1
  <2>3. r.place <= n + 1 /\ \A f \in kept : f.place < r.place
    BY <1>2, <2>2, NextPlaceLast
  <2>4. Cache(items, m) = kept \union {r} /\ rest = kept
    BY <1>6, <2>1 DEF Cache
  <2>5. \A f \in rest : f.place # r.place /\ f.place < r.place
    BY <1>5, <2>3, EntryFields
  <2> QED
    BY <1>1, <1>3, <1>4, <1>5, <2>2, <2>3, <2>4, <2>5 DEF CachedAt
<1>7. CASE same # {}
  <2>1. PICK s \in same : TRUE
    BY <1>7
  <2>2. same = {s} /\ s \in items /\ s \in Entry /\ SameKey(s.message, m)
    <3>1. \A e \in same : SameKey(e.message, s.message) /\ e \in items
      BY <1>1 DEF SameKey
    <3> QED
      BY <2>1, <3>1 DEF Catalogued, Listed
  <2>3. PICK r \in Entry : r = [message |-> m, place |-> s.place]
    BY <2>2 DEF Entry
  <2>4. r.message = m /\ r.place = s.place /\ s.place \in Nat /\ s.place <= n
    BY <2>2, <2>3, EntryFields DEF Listed
  <2>5. {[message |-> m, place |-> e.place] : e \in same} = {r}
    BY <2>2, <2>3
  <2>6. Cache(items, m) = rest \union {r}
    BY <1>7, <2>5 DEF Cache
  <2>7. ASSUME NEW f \in rest
        PROVE  /\ f.place # r.place
               /\ m.kind = "key_event" /\ f.message.kind = "keys" => f.place < r.place
    <3>1. f \in items /\ f # s
      BY <1>1, <2>1
    <3>2. s.message.kind = m.kind
      BY <2>2 DEF SameKey
    <3> QED
      BY <2>2, <2>4, <3>1, <3>2 DEF Listed, Catalogued
  <2>8. r.place <= n + 1
    BY <2>4
  <2> QED
    BY <1>1, <1>3, <1>4, <1>5, <2>4, <2>6, <2>7, <2>8 DEF CachedAt
<1> QED
  BY <1>6, <1>7

LEMMA SameTouch ==
  ASSUME NEW m \in Message, NEW l \in Message, SameKey(l, m), NEW k, m.kind # "keys"
  PROVE  Touches(l, k) <=> Touches(m, k)
BY DEF SameKey, Touches

\* Caching keeps a catalogue.
LEMMA CacheListed ==
  ASSUME NEW n \in Nat, NEW items, Listed(items, n), Catalogued(items), NEW m \in Message
  PROVE  Listed(Cache(items, m), n + 1) /\ Catalogued(Cache(items, m))
<1>1. PICK rest \in SUBSET items, r \in Entry : CachedAt(items, m, n, rest, r)
  BY Cached
<1> DEFINE t == rest \union {r}
<1>2. \A f \in items : f.message \in Message /\ f.place \in Nat /\ f.place <= n /\ f \in Entry
  BY EntryFields DEF Listed
<1>3. r.place \in Nat
  BY EntryFields
<1>4. Listed(t, n + 1)
  BY <1>1, <1>2, <1>3 DEF Listed, CachedAt
<1>5. Catalogued(t)
  <2>1. ASSUME NEW e \in t, NEW f \in t
        PROVE  /\ SameKey(e.message, f.message) => e = f
               /\ e.message.kind = "keys" /\ f.message.kind = "key_event" => e.place < f.place
    <3>1. CASE e \in rest /\ f \in rest
      BY <3>1 DEF Catalogued
    <3>2. CASE e = r /\ f \in rest
      BY <1>1, <3>2 DEF CachedAt
    <3>3. CASE e \in rest /\ f = r
      BY <1>1, <3>3 DEF CachedAt
    <3>4. CASE e = r /\ f = r
      BY <3>4
    <3> QED
      BY <3>1, <3>2, <3>3, <3>4
  <2> QED
    BY <2>1 DEF Catalogued
<1> QED
  BY <1>1, <1>4, <1>5 DEF CachedAt

\* If bitmaps cover the panel, a list to which a message is cached then shows what the
\* message does to what it showed.
LEMMA CacheShows ==
  ASSUME WholeBitmaps, NEW n \in Nat, NEW items, Listed(items, n), Catalogued(items), NEW m \in Message
  PROVE  Shown(Cache(items, m)) = Apply(Shown(items), m)
<1>1. PICK rest \in SUBSET items, r \in Entry : CachedAt(items, m, n, rest, r)
  BY Cached
<1> DEFINE t == rest \union {r}
<1>2. \A f \in items : f.message \in Message /\ f.place \in Nat /\ f.place <= n /\ f \in Entry
  BY EntryFields DEF Listed
<1>3. r.place \in Nat
  BY EntryFields
<1>4. ASSUME NEW k \in Key, Touches(m, k)
      PROVE  k \in Shown(t) <=> k \in Apply({}, m)
  <2>1. ASSUME NEW f \in rest, Touches(f.message, k) PROVE f.place < r.place
    <3>1. CASE m.kind = "keys"
      <4>1. f.message.kind # "key_event" /\ f.message.kind # "keys"
        BY <1>1, <3>1 DEF SameKey, CachedAt
      <4> QED
        BY <2>1, <4>1 DEF Touches
    <3>2. CASE m.kind = "key_event" /\ k = m.key
      <4>1. f.message.kind = "keys"
        BY <1>1, <2>1, <3>2 DEF Touches, SameKey, CachedAt
      <4> QED
        BY <1>1, <3>2, <4>1 DEF CachedAt
    <3> QED
      BY <1>4, <3>1, <3>2 DEF Touches
  <2>2. \A f \in t : r.place < f.place => ~Touches(f.message, k)
    <3>1. ASSUME NEW f \in rest, r.place < f.place PROVE ~Touches(f.message, k)
      BY <1>2, <1>3, <2>1, <3>1
    <3> QED
      BY <1>3, <3>1
  <2>3. ASSUME NEW e \in t, k \in Apply({}, e.message), \A f \in t : e.place < f.place => ~Touches(f.message, k)
        PROVE  e = r
    <3>1. CASE e \in rest
      <4>1. Touches(e.message, k)
        BY <1>2, <2>3, <3>1, PressTouches
      <4>2. e.place < r.place /\ Touches(r.message, k)
        BY <1>1, <1>4, <2>1, <3>1, <4>1 DEF CachedAt
      <4> QED
        BY <2>3, <4>2
    <3> QED
      BY <3>1
  <2> QED
    BY <1>1, <2>2, <2>3 DEF Shown, CachedAt
<1>5. ASSUME NEW k \in Key, ~Touches(m, k)
      PROVE  k \in Shown(t) <=> k \in Shown(items)
  <2>1. m.kind # "keys"
    <3>1. m.kind = "keys" => m.covered = Key
      BY MessageKinds DEF WholeBitmaps
    <3> QED
      BY <1>5, <3>1 DEF Touches
  <2>2. ~Touches(r.message, k) /\ \A f \in items \ rest : ~Touches(f.message, k)
    BY <1>1, <1>2, <1>5, <2>1, SameTouch DEF CachedAt
  <2>3. ~(k \in Apply({}, r.message)) /\ \A f \in items \ rest : ~(k \in Apply({}, f.message))
    BY <1>1, <1>2, <2>2, PressTouches DEF CachedAt
  <2>4. \A e : (\A f \in t : e.place < f.place => ~Touches(f.message, k))
                 <=> (\A f \in items : e.place < f.place => ~Touches(f.message, k))
    BY <2>2
  <2>5. (\E e \in t : k \in Apply({}, e.message) /\ \A f \in t : e.place < f.place => ~Touches(f.message, k))
          <=> (\E e \in items : k \in Apply({}, e.message) /\ \A f \in items : e.place < f.place => ~Touches(f.message, k))
    BY <2>3, <2>4
  <2> QED
    BY <2>5 DEF Shown
<1>6. ASSUME NEW k \in Key PROVE k \in Shown(t) <=> k \in Apply(Shown(items), m)
  BY <1>4, <1>5, ApplyOne
<1>7. Shown(t) \in SUBSET Key /\ Apply(Shown(items), m) \in SUBSET Key
  <2>1. Shown(items) \in SUBSET Key /\ Shown(t) \in SUBSET Key
    BY DEF Shown
  <2> QED
    BY <2>1, ApplyType
<1> QED
  BY <1>1, <1>6, <1>7 DEF CachedAt

-----------------------------------------------------------------------------
(***************************************************************************)
(* Types, and lists.                                                       *)
(***************************************************************************)

\* A copy that is replayed is a list: its front can be taken.
Lists ==
  /\ Listed(snapshot, count) /\ Catalogued(snapshot)
  /\ \A c \in Client : Listed(copied[c], count)

LEMMA ListedLonger ==
  ASSUME NEW n \in Nat, NEW items, Listed(items, n)
  PROVE  Listed(items, n + 1)
<1>1. \A e \in items : e.place \in Nat /\ e.place <= n
  BY EntryFields DEF Listed
<1> QED
  BY <1>1 DEF Listed

LEMMA ListedFewer ==
  ASSUME NEW n, NEW items, Listed(items, n), NEW some \in SUBSET items
  PROVE  Listed(some, n)
BY DEF Listed

\* A write extends the queue of the client it is for, or closes the client.
LEMMA Written ==
  ASSUME TypeOK, NEW c \in Client, NEW m \in Message, WriteText(c, m)
  PROVE  /\ open' \subseteq open /\ queue' \in [Client -> Seq(Message)]
         /\ \A d \in Client : Len(queue'[d]) <= Capacity
         /\ \A d \in Client : d # c => queue'[d] = queue[d]
         /\ c \in open' => queue'[c] = Append(queue[c], m)
<1>1. queue \in [Client -> Seq(Message)] /\ Len(queue[c]) \in Nat /\ Capacity \in Nat
  BY SizeAssumption, LenProperties DEF TypeOK
<1>2. PICK s \in Seq(Message) : s = Append(queue[c], m) /\ Len(s) = Len(queue[c]) + 1
  <2>1. queue[c] \in Seq(Message)
    BY <1>1
  <2>2. Append(queue[c], m) \in Seq(Message) /\ Len(Append(queue[c], m)) = Len(queue[c]) + 1
    BY <2>1, AppendProperties
  <2> QED
    BY <2>2
<1>3. CASE c \in open /\ Len(queue[c]) < Capacity
  <2>1. queue' = [queue EXCEPT ![c] = s] /\ open' = open
    BY <1>2, <1>3 DEF WriteText
  <2>2. Len(s) <= Capacity
    BY <1>1, <1>2, <1>3
  <2> QED
    BY <1>1, <1>2, <2>1, <2>2 DEF TypeOK
<1>4. CASE c \in open /\ ~(Len(queue[c]) < Capacity)
  BY <1>1, <1>4 DEF WriteText, TypeOK
<1>5. CASE c \notin open
  BY <1>1, <1>5 DEF WriteText, TypeOK
<1> QED
  BY <1>3, <1>4, <1>5

\* One lemma per action.
LEMMA TypeInit == Init => TypeOK /\ Lists
<1>1. Emulation \in Message /\ 0 \in 0 .. MaxBroadcasts /\ 0 <= Capacity
  BY KindsDiffer, SizeAssumption
<1>2. Len(<<>>) = 0 /\ <<>> \in Seq(Message)
  OBVIOUS
<1>3. Init => TypeOK
  BY <1>1, <1>2 DEF Init, TypeOK
<1>4. Init => Lists
  BY DEF Init, Lists, Listed, Catalogued
<1> QED
  BY <1>3, <1>4

LEMMA TypeWriteLoop ==
  ASSUME TypeOK, Lists, NEW c \in Client, WriteLoop(c)
  PROVE  TypeOK' /\ Lists'
<1>1. queue[c] \in Seq(Message) /\ queue[c] # <<>> /\ Len(queue[c]) <= Capacity /\ view[c] \in SUBSET Key
  BY DEF TypeOK, WriteLoop
<1>2. PICK s \in Seq(Message), v \in SUBSET Key : s = Tail(queue[c]) /\ v = Apply(view[c], Head(queue[c]))
  BY <1>1, HeadTailProperties, ApplyType
<1>3. Len(s) <= Capacity
  BY <1>1, <1>2, HeadTailProperties, LenProperties, SizeAssumption
<1>4. queue' = [queue EXCEPT ![c] = s] /\ view' = [view EXCEPT ![c] = v]
  BY <1>2 DEF WriteLoop
<1>5. TypeOK'
  BY <1>3, <1>4 DEF TypeOK, WriteLoop, sending
<1>6. Lists'
  BY DEF Lists, WriteLoop, sending
<1> QED
  BY <1>5, <1>6

LEMMA TypeJoining ==
  ASSUME TypeOK, Lists, NEW c \in Client, Close(c) \/ Join(c) \/ Seed(c) \/ CopySnapshot(c) \/ Leave(c)
  PROVE  TypeOK' /\ Lists'
<1>1. CASE Close(c) \/ Join(c) \/ Seed(c) \/ Leave(c)
  <2>1. CASE Close(c)
    BY <2>1 DEF TypeOK, Lists, Close, sending
  <2>2. CASE Join(c)
    BY <2>2 DEF TypeOK, Lists, Join, Goto, sending
  <2>3. CASE Seed(c)
    BY <2>3 DEF TypeOK, Lists, Seed, Goto, sending
  <2>4. CASE Leave(c)
    BY <2>4 DEF TypeOK, Lists, Leave, Goto, sending
  <2> QED
    BY <1>1, <2>1, <2>2, <2>3, <2>4
<1>2. CASE CopySnapshot(c)
  <2>1. TypeOK'
    BY <1>2 DEF TypeOK, CopySnapshot, Goto, sending
  <2>2. Lists'
    BY <1>2 DEF TypeOK, Lists, CopySnapshot, sending
  <2> QED
    BY <2>1, <2>2
<1> QED
  BY <1>1, <1>2

LEMMA TypeBlank ==
  ASSUME TypeOK, Lists, NEW c \in Client, Blank(c)
  PROVE  TypeOK' /\ Lists'
<1>1. /\ open' \subseteq open /\ queue' \in [Client -> Seq(Message)]
      /\ \A d \in Client : Len(queue'[d]) <= Capacity
  BY KindsDiffer, Written DEF Blank
<1>2. TypeOK'
  BY <1>1 DEF TypeOK, Blank, Goto, sending
<1>3. Lists'
  BY DEF Lists, Blank, sending
<1> QED
  BY <1>2, <1>3

\* The front of a copy, and what is left of the copy.
LEMMA Front ==
  ASSUME TypeOK, Lists, NEW c \in Client, copied[c] # {}
  PROVE  /\ First(copied[c]) \in copied[c] /\ First(copied[c]).message \in Message
         /\ Listed(copied[c] \ {First(copied[c])}, count)
<1>1. count \in Nat /\ Listed(copied[c], count)
  BY SizeAssumption DEF TypeOK, Lists
<1>2. First(copied[c]) \in copied[c]
  BY <1>1, FirstOne
<1>3. First(copied[c]).message \in Message
  BY <1>1, <1>2, EntryFields DEF Listed
<1> QED
  BY <1>1, <1>2, <1>3, ListedFewer

LEMMA TypeReplay ==
  ASSUME TypeOK, Lists, NEW c \in Client, Replay(c)
  PROVE  TypeOK' /\ Lists'
<1>1. CASE copied[c] # {}
  <2>1. PICK e : e = First(copied[c]) /\ e.message \in Message /\ Listed(copied[c] \ {e}, count)
    BY <1>1, Front
  <2>2. WriteText(c, e.message) /\ copied' = [copied EXCEPT ![c] = copied[c] \ {e}] /\ pc' = pc
    BY <1>1, <2>1 DEF Replay
  <2>3. /\ open' \subseteq open /\ queue' \in [Client -> Seq(Message)]
        /\ \A d \in Client : Len(queue'[d]) <= Capacity
    BY <2>1, <2>2, Written
  <2>4. TypeOK'
    BY <2>2, <2>3 DEF TypeOK, Replay, sending
  <2>5. Lists'
    BY <2>1, <2>2 DEF TypeOK, Lists, Replay, sending
  <2> QED
    BY <2>4, <2>5
<1>2. CASE copied[c] = {}
  BY <1>2 DEF TypeOK, Lists, Replay, Goto, sending
<1> QED
  BY <1>1, <1>2

LEMMA TypeBroadcast ==
  ASSUME TypeOK, Lists, NEW b \in Broadcaster, NEW m \in Message, Broadcast(b, m)
  PROVE  TypeOK' /\ Lists'
<1>1. count \in Nat /\ count' = count + 1 /\ count' \in 0 .. MaxBroadcasts
  BY SizeAssumption DEF TypeOK, Broadcast
<1>2. Listed(snapshot', count') /\ Catalogued(snapshot')
  BY <1>1, CacheListed DEF Lists, Broadcast
<1>3. \A c \in Client : Listed(copied'[c], count')
  BY <1>1, ListedLonger DEF Lists, Broadcast, connection
<1>4. panel' \subseteq Key
  BY ApplyType DEF TypeOK, Broadcast
<1>5. snapshot' \subseteq [message : Message, place : Nat \ {0}]
  BY <1>2 DEF Listed, Entry
<1>6. disturbed' \subseteq Client /\ targets' \in [Broadcaster -> SUBSET Client] /\ message' \in [Broadcaster -> Message]
  BY DEF TypeOK, Broadcast
<1>7. TypeOK'
  BY <1>1, <1>4, <1>5, <1>6 DEF TypeOK, Broadcast, connection
<1> QED
  BY <1>2, <1>3, <1>7 DEF Lists

LEMMA TypeWriteOne ==
  ASSUME TypeOK, Lists, NEW b \in Broadcaster, NEW c \in Client, WriteOne(b, c)
  PROVE  TypeOK' /\ Lists'
<1>1. message[b] \in Message
  BY DEF TypeOK
<1>2. /\ open' \subseteq open /\ queue' \in [Client -> Seq(Message)]
      /\ \A d \in Client : Len(queue'[d]) <= Capacity
  BY <1>1, Written DEF WriteOne
<1>3. targets' \in [Broadcaster -> SUBSET Client]
  BY DEF TypeOK, WriteOne
<1>4. TypeOK'
  BY <1>2, <1>3 DEF TypeOK, WriteOne
<1>5. Lists'
  BY DEF Lists, WriteOne
<1> QED
  BY <1>4, <1>5

LEMMA TypeStep ==
  ASSUME TypeOK, Lists, [Next]_vars
  PROVE  TypeOK' /\ Lists'
<1>1. CASE UNCHANGED vars
  BY <1>1 DEF TypeOK, Lists, vars, connection, sending
<1>2. ASSUME NEW c \in Client, WriteLoop(c) \/ Close(c) \/ Join(c) \/ Serve(c) PROVE TypeOK' /\ Lists'
  BY <1>2, TypeWriteLoop, TypeJoining, TypeBlank, TypeReplay DEF Serve
<1>3. ASSUME NEW b \in Broadcaster,
             (\E m \in Message : Broadcast(b, m)) \/ (\E c \in Client : WriteOne(b, c))
      PROVE  TypeOK' /\ Lists'
  BY <1>3, TypeBroadcast, TypeWriteOne
<1> QED
  BY <1>1, <1>2, <1>3 DEF Next

\* Messages, places and queues keep their types, and no queue grows past its capacity.
THEOREM TypeCorrect == Spec => []TypeOK
<1>1. Spec => [](TypeOK /\ Lists)
  BY TypeInit, TypeStep, PTL DEF Spec
<1> QED
  BY <1>1, PTL

-----------------------------------------------------------------------------
(***************************************************************************)
(* The snapshot stands for the history.                                    *)
(***************************************************************************)

HistoryInv == TypeOK /\ Lists /\ SnapshotIsHistory

LEMMA HistoryStep ==
  ASSUME WholeBitmaps, HistoryInv, [Next]_vars
  PROVE  HistoryInv'
<1>1. TypeOK' /\ Lists'
  BY TypeStep DEF HistoryInv
<1>2. SnapshotIsHistory'
  <2>1. CASE \E b \in Broadcaster, m \in Message : Broadcast(b, m)
    <3>1. PICK m \in Message : snapshot' = Cache(snapshot, m) /\ panel' = Apply(panel, m)
      BY <2>1 DEF Broadcast
    <3>2. count \in Nat /\ Listed(snapshot, count) /\ Catalogued(snapshot) /\ Shown(snapshot) = panel
      BY SizeAssumption DEF HistoryInv, TypeOK, Lists, SnapshotIsHistory
    <3>3. Shown(snapshot') = panel'
      BY <3>1, <3>2, CacheShows
    <3> QED
      BY <3>3 DEF SnapshotIsHistory
  <2>2. CASE snapshot' = snapshot /\ panel' = panel
    BY <2>2 DEF HistoryInv, SnapshotIsHistory, Shown
  <2>3. ASSUME NEW c \in Client, WriteLoop(c) \/ Close(c) \/ Join(c) \/ Serve(c)
        PROVE  snapshot' = snapshot /\ panel' = panel
    BY <2>3 DEF WriteLoop, Close, Join, Serve, Seed, Blank, CopySnapshot, Replay, Leave
  <2>4. ASSUME NEW b \in Broadcaster, NEW c \in Client, WriteOne(b, c)
        PROVE  snapshot' = snapshot /\ panel' = panel
    BY <2>4 DEF WriteOne
  <2>5. UNCHANGED vars => snapshot' = snapshot /\ panel' = panel
    BY DEF vars
  <2> QED
    BY <2>1, <2>2, <2>3, <2>4, <2>5 DEF Next
<1> QED
  BY <1>1, <1>2 DEF HistoryInv

LEMMA HistoryInit == Init => HistoryInv
<1>1. Init => SnapshotIsHistory
  BY DEF Init, SnapshotIsHistory, Shown
<1> QED
  BY <1>1, TypeInit DEF HistoryInv

\* Replayed to a browser that shows nothing, the snapshot has the effect of every broadcast
\* so far, from any number of goroutines, although it keeps one message of each kind.
\* Bitmaps have to cover the panel: one that does not removes changes it does not repeat.
THEOREM HistoryCorrect ==
  ASSUME WholeBitmaps
  PROVE  Spec => []SnapshotIsHistory
<1>1. Init => HistoryInv
  BY HistoryInit
<1>2. HistoryInv /\ [Next]_vars => HistoryInv'
  BY HistoryStep
<1>3. HistoryInv => SnapshotIsHistory
  BY DEF HistoryInv
<1> QED
  BY <1>1, <1>2, <1>3, PTL DEF Spec

-----------------------------------------------------------------------------
(***************************************************************************)
(* What browsers show.                                                     *)
(***************************************************************************)

\* The keys a browser shows once it has read what is queued for it.
Ahead(c) == Played(view[c], queue[c])

\* No broadcast has client c still to write to.
Bystander(c) == \A b \in Broadcaster : c \notin targets[b]

\* Only clients of the hub are open, and a connection not made yet has nothing.
Connected(c) ==
  /\ pc[c] = "out" => view[c] = {} /\ queue[c] = <<>> /\ c \notin clients /\ Bystander(c)
  /\ c \in open => c \in clients /\ pc[c] \in {"seed", "blank", "copy", "replay", "live"}

\* What is queued for an undisturbed client, with what its goroutine or a broadcast will
\* still write, makes its browser show the panel.
Mirrored(c) ==
  c \in open /\ c \notin disturbed =>
    /\ pc[c] \in {"seed", "blank", "copy"} => Ahead(c) = {} /\ Bystander(c)
    /\ pc[c] = "replay" => Replayed(Ahead(c), copied[c]) = panel /\ Bystander(c)
    /\ pc[c] = "live" =>
         \A b \in Broadcaster :
           (IF c \in targets[b] THEN Apply(Ahead(c), message[b]) ELSE Ahead(c)) = panel

MirrorInv == \A c \in Client : Connected(c) /\ Mirrored(c)

LEMMA MirrorInit == Init => MirrorInv
<1>1. Init => \A c \in Client : Connected(c) /\ c \notin open
  BY DEF Init, Connected, Bystander
<1> QED
  BY <1>1 DEF MirrorInv, Mirrored

\* A step that is not about client d, or only closes it.
LEMMA Unconcerned ==
  ASSUME NEW d \in Client, Connected(d), Mirrored(d),
         view'[d] = view[d], queue'[d] = queue[d], pc'[d] = pc[d], copied'[d] = copied[d],
         d \in open' => d \in open, d \in clients' <=> d \in clients,
         \A b \in Broadcaster : d \in targets'[b] <=> d \in targets[b],
         message' = message, panel' = panel, disturbed' = disturbed
  PROVE  Connected(d)' /\ Mirrored(d)'
<1>1. Bystander(d)' <=> Bystander(d)
  BY DEF Bystander
<1>2. Ahead(d)' = Ahead(d)
  BY DEF Ahead, Played
<1>3. Connected(d)'
  BY <1>1 DEF Connected
<1>4. Replayed(Ahead(d), copied[d])' = Replayed(Ahead(d), copied[d])
  BY <1>2 DEF Replayed, Shown
<1>5. \A b \in Broadcaster : Apply(Ahead(d), message[b])' = Apply(Ahead(d), message[b])
  BY <1>2 DEF Apply
<1>6. Mirrored(d)'
  BY <1>1, <1>2, <1>4, <1>5 DEF Mirrored
<1> QED
  BY <1>3, <1>6

LEMMA AheadType ==
  ASSUME TypeOK, NEW c \in Client
  PROVE  /\ view[c] \in SUBSET Key /\ queue[c] \in Seq(Message)
         /\ Ahead(c) \in SUBSET Key /\ panel \in SUBSET Key
BY DEF TypeOK, Ahead, Played

\* What a write adds.
LEMMA AheadWritten ==
  ASSUME TypeOK, NEW c \in Client, NEW m \in Message, view'[c] = view[c], queue'[c] = Append(queue[c], m)
  PROVE  Ahead(c)' = Apply(Ahead(c), m)
<1>1. Ahead(c)' = Played(view[c], Append(queue[c], m))
  BY DEF Ahead, Played
<1> QED
  BY <1>1, AheadType, PlayedAppend DEF Ahead

LEMMA MirrorWriteLoop ==
  ASSUME TypeOK, MirrorInv, NEW c \in Client, WriteLoop(c)
  PROVE  MirrorInv'
<1>1. view[c] \in SUBSET Key /\ queue[c] \in Seq(Message) /\ queue[c] # <<>>
  BY AheadType DEF WriteLoop
<1>2. /\ queue'[c] = Tail(queue[c]) /\ view'[c] = Apply(view[c], Head(queue[c]))
      /\ \A d \in Client : d # c => queue'[d] = queue[d] /\ view'[d] = view[d]
  BY DEF TypeOK, WriteLoop
<1>3. /\ UNCHANGED <<clients, open, pc, copied, message, targets, panel, disturbed>>
      /\ c \in open
  BY DEF WriteLoop, sending
<1>4. Ahead(c)' = Ahead(c)
  BY <1>1, <1>2, PlayedTail DEF Ahead
<1>5. Connected(c) /\ Mirrored(c)
  BY DEF MirrorInv
<1>6. Connected(c)'
  BY <1>3, <1>5 DEF Connected
<1>7. Mirrored(c)'
  <2>1. Replayed(Ahead(c), copied[c])' = Replayed(Ahead(c), copied[c])
    BY <1>3, <1>4 DEF Replayed, Shown
  <2>2. \A b \in Broadcaster : Apply(Ahead(c), message[b])' = Apply(Ahead(c), message[b])
    BY <1>3, <1>4 DEF Apply
  <2> QED
    BY <1>3, <1>4, <1>5, <2>1, <2>2 DEF Mirrored, Bystander
<1>8. ASSUME NEW d \in Client, d # c PROVE Connected(d)' /\ Mirrored(d)'
  <2>1. Connected(d) /\ Mirrored(d)
    BY DEF MirrorInv
  <2> QED
    BY <1>2, <1>3, <1>8, <2>1, Unconcerned
<1> QED
  BY <1>6, <1>7, <1>8 DEF MirrorInv

LEMMA MirrorClose ==
  ASSUME TypeOK, MirrorInv, NEW c \in Client, Close(c)
  PROVE  MirrorInv'
<1>1. /\ UNCHANGED <<clients, queue, view, pc, copied, message, targets, panel, disturbed>>
      /\ \A d \in Client : d \in open' => d \in open
  BY DEF Close, sending
<1>2. ASSUME NEW d \in Client PROVE Connected(d)' /\ Mirrored(d)'
  <2>1. Connected(d) /\ Mirrored(d)
    BY DEF MirrorInv
  <2> QED
    BY <1>1, <2>1, Unconcerned
<1> QED
  BY <1>2 DEF MirrorInv

LEMMA MirrorJoin ==
  ASSUME TypeOK, MirrorInv, NEW c \in Client, Join(c)
  PROVE  MirrorInv'
<1>1. /\ UNCHANGED <<queue, view, copied, message, targets, panel, disturbed>>
      /\ pc[c] = "out" /\ pc'[c] = "seed" /\ c \in clients' /\ c \in open'
      /\ \A d \in Client : d # c => /\ pc'[d] = pc[d]
                                    /\ d \in open' => d \in open
                                    /\ d \in clients' <=> d \in clients
  BY DEF TypeOK, Join, Goto, sending
<1>2. view[c] = {} /\ queue[c] = <<>> /\ Bystander(c)
  BY <1>1 DEF MirrorInv, Connected
<1>3. Connected(c)'
  BY <1>1 DEF Connected
<1>4. Ahead(c)' = {}
  BY <1>1, <1>2, PlayedNothing DEF Ahead
<1>5. Mirrored(c)'
  BY <1>1, <1>2, <1>4 DEF Mirrored, Bystander
<1>6. ASSUME NEW d \in Client, d # c PROVE Connected(d)' /\ Mirrored(d)'
  <2>1. Connected(d) /\ Mirrored(d)
    BY DEF MirrorInv
  <2> QED
    BY <1>1, <1>6, <2>1, Unconcerned
<1> QED
  BY <1>3, <1>5, <1>6 DEF MirrorInv

\* The rest of what serveWS does is about its own client.
LEMMA OthersServed ==
  ASSUME TypeOK, NEW c \in Client, NEW d \in Client, d # c, MirrorInv, Serve(c),
         queue'[d] = queue[d], open' \subseteq open
  PROVE  Connected(d)' /\ Mirrored(d)'
<1>1. Connected(d) /\ Mirrored(d)
  BY DEF MirrorInv
<1>2. /\ view' = view /\ message' = message /\ targets' = targets /\ panel' = panel /\ disturbed' = disturbed
      /\ pc'[d] = pc[d] /\ copied'[d] = copied[d]
      /\ d \in clients' <=> d \in clients
  <2>1. CASE Seed(c)
    BY <2>1 DEF TypeOK, Seed, Goto, sending
  <2>2. CASE Blank(c)
    BY <2>2 DEF TypeOK, Blank, Goto, sending
  <2>3. CASE CopySnapshot(c)
    BY <2>3 DEF TypeOK, CopySnapshot, Goto, sending
  <2>4. CASE Replay(c)
    BY <2>4 DEF TypeOK, Replay, Goto, sending
  <2>5. CASE Leave(c)
    BY <2>5 DEF TypeOK, Leave, Goto, sending
  <2> QED
    BY <2>1, <2>2, <2>3, <2>4, <2>5 DEF Serve
<1> QED
  BY <1>1, <1>2, Unconcerned

LEMMA MirrorSeed ==
  ASSUME TypeOK, MirrorInv, NEW c \in Client, Seed(c)
  PROVE  MirrorInv'
<1>1. /\ UNCHANGED <<clients, open, queue, view, copied, message, targets, panel, disturbed>>
      /\ pc[c] = "seed" /\ pc'[c] \in {"blank", "copy"}
  BY DEF TypeOK, Seed, Goto, sending
<1>2. Connected(c) /\ Mirrored(c)
  BY DEF MirrorInv
<1>3. Connected(c)'
  BY <1>1, <1>2 DEF Connected
<1>4. Ahead(c)' = Ahead(c)
  BY <1>1 DEF Ahead, Played
<1>5. Mirrored(c)'
  BY <1>1, <1>2, <1>4 DEF Mirrored, Bystander
<1>6. ASSUME NEW d \in Client, d # c PROVE Connected(d)' /\ Mirrored(d)'
  BY <1>1, <1>6, OthersServed DEF Serve
<1> QED
  BY <1>3, <1>5, <1>6 DEF MirrorInv

LEMMA MirrorBlank ==
  ASSUME TypeOK, MirrorInv, NEW c \in Client, Blank(c)
  PROVE  MirrorInv'
<1> DEFINE m == Keys(Key, {})
<1>1. /\ UNCHANGED <<clients, view, copied, message, targets, panel, disturbed>>
      /\ pc[c] = "blank" /\ pc'[c] = "copy" /\ WriteText(c, m)
  BY DEF TypeOK, Blank, Goto, sending
<1>2. m \in Message /\ \A shown \in SUBSET Key : Apply(shown, m) = {}
  BY KindsDiffer DEF Apply
<1>3. /\ open' \subseteq open /\ \A d \in Client : d # c => queue'[d] = queue[d]
      /\ c \in open' => queue'[c] = Append(queue[c], m)
  BY <1>1, <1>2, Written
<1>4. Connected(c) /\ Mirrored(c)
  BY DEF MirrorInv
<1>5. Connected(c)'
  BY <1>1, <1>3, <1>4 DEF Connected
<1>6. c \in open' => Ahead(c)' = {}
  <2>1. c \in open' => Ahead(c)' = Apply(Ahead(c), m)
    BY <1>1, <1>2, <1>3, AheadWritten
  <2> QED
    BY <1>2, <2>1, AheadType
<1>7. Mirrored(c)'
  BY <1>1, <1>3, <1>4, <1>6 DEF Mirrored, Bystander
<1>8. ASSUME NEW d \in Client, d # c PROVE Connected(d)' /\ Mirrored(d)'
  BY <1>3, <1>8, OthersServed DEF Serve
<1> QED
  BY <1>5, <1>7, <1>8 DEF MirrorInv

LEMMA MirrorCopy ==
  ASSUME TypeOK, MirrorInv, SnapshotIsHistory, NEW c \in Client, CopySnapshot(c)
  PROVE  MirrorInv'
<1>1. /\ UNCHANGED <<clients, open, queue, view, message, targets, panel, disturbed>>
      /\ pc[c] = "copy" /\ pc'[c] = "replay" /\ copied'[c] = snapshot
  BY DEF TypeOK, CopySnapshot, Goto, sending
<1>2. Connected(c) /\ Mirrored(c)
  BY DEF MirrorInv
<1>3. Connected(c)'
  BY <1>1, <1>2 DEF Connected
<1>4. Ahead(c)' = Ahead(c)
  BY <1>1 DEF Ahead, Played
<1>5. Replayed({}, snapshot) = panel
  BY ReplayedNothing DEF SnapshotIsHistory
<1>6. Ahead(c) = {} => Replayed(Ahead(c), copied[c])' = panel'
  BY <1>1, <1>4, <1>5 DEF Replayed, Shown
<1>7. Mirrored(c)'
  BY <1>1, <1>2, <1>6 DEF Mirrored, Bystander
<1>8. ASSUME NEW d \in Client, d # c PROVE Connected(d)' /\ Mirrored(d)'
  BY <1>1, <1>8, OthersServed DEF Serve
<1> QED
  BY <1>3, <1>7, <1>8 DEF MirrorInv

LEMMA MirrorReplay ==
  ASSUME TypeOK, Lists, MirrorInv, NEW c \in Client, Replay(c)
  PROVE  MirrorInv'
<1>1. /\ UNCHANGED <<clients, view, message, targets, panel, disturbed>>
      /\ pc[c] = "replay"
  BY DEF Replay, sending
<1>2. Connected(c) /\ Mirrored(c)
  BY DEF MirrorInv
<1>3. CASE copied[c] # {}
  <2>1. PICK e : /\ e = First(copied[c]) /\ e.message \in Message
                 /\ Listed(copied[c], count) /\ count \in Nat
    BY <1>3, Front, SizeAssumption DEF Lists, TypeOK
  <2>2. WriteText(c, e.message) /\ copied'[c] = copied[c] \ {e} /\ pc' = pc
    BY <1>3, <2>1 DEF Replay, TypeOK
  <2>3. /\ open' \subseteq open /\ \A d \in Client : d # c => queue'[d] = queue[d]
        /\ c \in open' => queue'[c] = Append(queue[c], e.message)
    BY <2>1, <2>2, Written
  <2>4. Connected(c)'
    BY <1>1, <1>2, <2>2, <2>3 DEF Connected
  <2>5. c \in open' => Replayed(Ahead(c), copied[c])' = Replayed(Ahead(c), copied[c])
    <3>1. c \in open' => Ahead(c)' = Apply(Ahead(c), e.message)
      BY <1>1, <2>1, <2>3, AheadWritten
    <3>2. Replayed(Apply(Ahead(c), e.message), copied[c] \ {e}) = Replayed(Ahead(c), copied[c])
      BY <1>3, <2>1, AheadType, ReplayedFirst
    <3>3. Replayed(Ahead(c), copied[c])' = Replayed(Ahead(c)', copied'[c])
      BY DEF Replayed, Shown
    <3> QED
      BY <2>2, <3>1, <3>2, <3>3
  <2>6. Mirrored(c)'
    BY <1>1, <1>2, <2>2, <2>3, <2>5 DEF Mirrored, Bystander
  <2>7. ASSUME NEW d \in Client, d # c PROVE Connected(d)' /\ Mirrored(d)'
    BY <2>3, <2>7, OthersServed DEF Serve
  <2> QED
    BY <2>4, <2>6, <2>7 DEF MirrorInv
<1>4. CASE copied[c] = {}
  <2>1. pc'[c] = "live" /\ UNCHANGED <<open, queue, copied>>
    BY <1>4 DEF Replay, Goto, TypeOK
  <2>2. Connected(c)'
    BY <1>1, <1>2, <2>1 DEF Connected
  <2>3. Ahead(c)' = Ahead(c)
    BY <1>1, <2>1 DEF Ahead, Played
  <2>4. Replayed(Ahead(c), copied[c]) = Ahead(c)
    BY <1>4, AheadType, ReplayedNothing
  <2>5. Mirrored(c)'
    BY <1>1, <1>2, <2>1, <2>3, <2>4 DEF Mirrored, Bystander
  <2>6. ASSUME NEW d \in Client, d # c PROVE Connected(d)' /\ Mirrored(d)'
    BY <2>1, <2>6, OthersServed DEF Serve
  <2> QED
    BY <2>2, <2>5, <2>6 DEF MirrorInv
<1> QED
  BY <1>3, <1>4

LEMMA MirrorLeave ==
  ASSUME TypeOK, MirrorInv, NEW c \in Client, Leave(c)
  PROVE  MirrorInv'
<1>1. c \notin open' /\ pc'[c] = "gone" /\ open' = open /\ queue' = queue
  BY DEF TypeOK, Leave, Goto, sending
<1>2. Connected(c)' /\ Mirrored(c)'
  BY <1>1 DEF Connected, Mirrored
<1>3. ASSUME NEW d \in Client, d # c PROVE Connected(d)' /\ Mirrored(d)'
  BY <1>1, <1>3, OthersServed DEF Serve
<1> QED
  BY <1>2, <1>3 DEF MirrorInv

\* A bitmap makes every browser show the same, and any other message disturbs the clients
\* that are joining.
LEMMA MirrorBroadcast ==
  ASSUME WholeBitmaps, OneBroadcaster, TypeOK, MirrorInv,
         NEW b \in Broadcaster, NEW m \in Message, Broadcast(b, m)
  PROVE  MirrorInv'
<1>1. /\ UNCHANGED <<clients, open, queue, view, pc, copied>>
      /\ targets[b] = {} /\ targets'[b] = clients /\ message'[b] = m /\ panel' = Apply(panel, m)
      /\ Broadcaster = {b}
  BY DEF TypeOK, Broadcast, connection, OneBroadcaster
<1>2. ASSUME NEW d \in Client PROVE Connected(d)' /\ Mirrored(d)'
  <2>1. Connected(d) /\ Mirrored(d)
    BY DEF MirrorInv
  <2>2. Connected(d)'
    BY <1>1, <2>1 DEF Connected, Bystander
  <2>3. Ahead(d)' = Ahead(d)
    BY <1>1 DEF Ahead, Played
  <2>4. SUFFICES ASSUME d \in open', d \notin disturbed'
                 PROVE  pc'[d] = "live" /\ Apply(Ahead(d), m) = Apply(panel, m)
    <3>1. d \in open' => d \in targets'[b] /\ Apply(Ahead(d)', message'[b]) = Apply(Ahead(d), m)
      BY <1>1, <2>1, <2>3 DEF Connected
    <3>2. Apply(Ahead(d), message[b])' = Apply(Ahead(d)', message'[b])
      BY DEF Apply
    <3> QED
      BY <1>1, <2>2, <2>4, <3>1, <3>2 DEF Mirrored
  <2>5. pc[d] = "live" /\ pc'[d] = "live"
    BY <1>1, <2>1, <2>4 DEF Broadcast, Connected
  <2>6. CASE m.kind = "keys"
    <3>1. m.covered = Key /\ panel \in SUBSET Key /\ Ahead(d) \in SUBSET Key
      BY <2>6, MessageKinds, AheadType DEF WholeBitmaps
    <3> QED
      BY <2>5, <2>6, <3>1 DEF Apply
  <2>7. CASE m.kind # "keys"
    <3>1. d \notin disturbed
      BY <2>4, <2>7 DEF Broadcast
    <3>2. Ahead(d) = panel
      BY <1>1, <2>1, <2>4, <2>5, <3>1 DEF Mirrored
    <3> QED
      BY <2>5, <3>2
  <2> QED
    BY <2>6, <2>7
<1> QED
  BY <1>2 DEF MirrorInv

LEMMA MirrorWriteOne ==
  ASSUME OneBroadcaster, TypeOK, MirrorInv, NEW b \in Broadcaster, NEW c \in Client, WriteOne(b, c)
  PROVE  MirrorInv'
<1>1. /\ UNCHANGED <<clients, view, pc, copied, message, panel, disturbed>>
      /\ c \in targets[b] /\ WriteText(c, message[b]) /\ targets'[b] = targets[b] \ {c}
      /\ Broadcaster = {b} /\ message[b] \in Message
  BY DEF TypeOK, WriteOne, OneBroadcaster
<1>2. /\ open' \subseteq open /\ \A d \in Client : d # c => queue'[d] = queue[d]
      /\ c \in open' => queue'[c] = Append(queue[c], message[b])
  BY <1>1, Written
<1>3. Connected(c) /\ Mirrored(c) /\ ~Bystander(c)
  BY <1>1 DEF MirrorInv, Bystander
<1>4. Connected(c)'
  BY <1>1, <1>2, <1>3 DEF Connected
<1>5. c \in open' => Ahead(c)' = Apply(Ahead(c), message[b])
  BY <1>1, <1>2, AheadWritten
<1>6. Mirrored(c)'
  <2>1. SUFFICES ASSUME c \in open', c \notin disturbed'
                 PROVE  pc'[c] = "live" /\ Ahead(c)' = panel
    BY <1>1, <2>1 DEF Mirrored
  <2>2. pc[c] = "live"
    BY <1>1, <1>2, <1>3, <2>1 DEF Connected, Mirrored
  <2>3. Apply(Ahead(c), message[b]) = panel
    BY <1>1, <1>2, <1>3, <2>1, <2>2 DEF Mirrored
  <2> QED
    BY <1>1, <1>5, <2>1, <2>2, <2>3
<1>7. ASSUME NEW d \in Client, d # c PROVE Connected(d)' /\ Mirrored(d)'
  <2>1. Connected(d) /\ Mirrored(d)
    BY DEF MirrorInv
  <2>2. \A a \in Broadcaster : d \in targets'[a] <=> d \in targets[a]
    BY <1>1, <1>7
  <2>3. queue'[d] = queue[d] /\ (d \in open' => d \in open)
    BY <1>2, <1>7
  <2> QED
    BY <1>1, <2>1, <2>2, <2>3, Unconcerned
<1> QED
  BY <1>4, <1>6, <1>7 DEF MirrorInv

LEMMA MirrorStep ==
  ASSUME WholeBitmaps, OneBroadcaster, HistoryInv, MirrorInv, [Next]_vars
  PROVE  MirrorInv'
<1>1. TypeOK /\ Lists /\ SnapshotIsHistory
  BY DEF HistoryInv
<1>2. CASE UNCHANGED vars
  <2>1. UNCHANGED <<clients, open, queue, view, pc, copied, message, targets, panel, disturbed>>
    BY <1>2 DEF vars, connection, sending
  <2>2. ASSUME NEW d \in Client PROVE Connected(d)' /\ Mirrored(d)'
    <3>1. Connected(d) /\ Mirrored(d)
      BY DEF MirrorInv
    <3> QED
      BY <2>1, <3>1, Unconcerned
  <2> QED
    BY <2>2 DEF MirrorInv
<1>3. ASSUME NEW c \in Client, WriteLoop(c) \/ Close(c) \/ Join(c) \/ Serve(c) PROVE MirrorInv'
  <2>1. CASE WriteLoop(c) \/ Close(c) \/ Join(c)
    BY <1>1, <2>1, MirrorWriteLoop, MirrorClose, MirrorJoin
  <2>2. CASE Serve(c)
    BY <1>1, <2>2, MirrorSeed, MirrorBlank, MirrorCopy, MirrorReplay, MirrorLeave DEF Serve
  <2> QED
    BY <1>3, <2>1, <2>2
<1>4. ASSUME NEW b \in Broadcaster,
             (\E m \in Message : Broadcast(b, m)) \/ (\E c \in Client : WriteOne(b, c))
      PROVE  MirrorInv'
  BY <1>1, <1>4, MirrorBroadcast, MirrorWriteOne
<1> QED
  BY <1>2, <1>3, <1>4 DEF Next

LEMMA SettledShows ==
  ASSUME OneBroadcaster, TypeOK, MirrorInv
  PROVE  UndisturbedMirrors
<1>1. ASSUME NEW c \in open, Settled(c), c \notin disturbed PROVE view[c] = panel
  <2>1. c \in Client /\ queue[c] = <<>> /\ view[c] \in SUBSET Key
    BY <1>1 DEF TypeOK, Settled
  <2>2. Ahead(c) = panel
    BY <1>1, <2>1 DEF Settled, MirrorInv, Mirrored, OneBroadcaster
  <2> QED
    BY <2>1, <2>2, PlayedNothing DEF Ahead
<1> QED
  BY <1>1 DEF UndisturbedMirrors

\* A browser with nothing on its way shows the panel if nothing was broadcast while it joined
\* or a bitmap was broadcast since, whatever the broadcasts, the clients that come and go and
\* the lengths of their queues.  Bitmaps have to cover the panel, and the messages about keys
\* have to come from one goroutine, as they do from the read loop: two that broadcast at once
\* may write to a client in the other order than they changed the snapshot.
THEOREM MirrorsCorrect ==
  ASSUME WholeBitmaps, OneBroadcaster
  PROVE  Spec => []UndisturbedMirrors
<1>1. Init => HistoryInv /\ MirrorInv
  BY HistoryInit, MirrorInit
<1>2. HistoryInv /\ MirrorInv /\ [Next]_vars => HistoryInv' /\ MirrorInv'
  BY HistoryStep, MirrorStep
<1>3. HistoryInv /\ MirrorInv => UndisturbedMirrors
  BY SettledShows DEF HistoryInv
<1> QED
  BY <1>1, <1>2, <1>3, PTL DEF Spec
=============================================================================
