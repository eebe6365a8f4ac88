---------------------------- MODULE ProfileProofs ----------------------------
(***************************************************************************)
(* Proofs about the settings, the profile made from them and its           *)
(* announcement: Announce for any number of profiles and of fetches,       *)
(* Config for any settings and files, Identity for any names and sections. *)
(***************************************************************************)
EXTENDS Announce, Config, Identity, SequenceTheorems, FiniteSetTheorems, WellFoundedInduction, TLAPS

-----------------------------------------------------------------------------
(***************************************************************************)
(* The inductive invariant.                                                *)
(***************************************************************************)

\* A preset peer is known from the start, and whoever is about to announce knows
\* a peer.
PeerKnown ==
  /\ preset \/ greeted => peer
  /\ pc["rx"] = "load" => peer
  /\ \A p \in Process : pc[p] \in {"announce", "send"} => peer
  /\ sent # <<>> => peer

\* Only one process enqueues the identity frame of a selection, once, after it has
\* set the announced flag.
OneSender ==
  /\ \A i \in DOMAIN sent : sent[i] \in announced
  /\ \A p \in Process : pc[p] = "send" =>
       /\ mine[p][2] \in announced
       /\ \A i \in DOMAIN sent : sent[i] # mine[p][2]
       /\ \A q \in Process : pc[q] = "send" /\ mine[q][2] = mine[p][2] => q = p
  /\ \A i, j \in DOMAIN sent : sent[i] = sent[j] => i = j

\* A selection whose flag is set is announced and published, or about to be.
FlagKept ==
  \A s \in announced :
    /\ \/ \E i \in DOMAIN sent : sent[i] = s
       \/ \E p \in Process : pc[p] = "send" /\ mine[p][2] = s
    /\ \/ s \in published
       \/ \E p \in Process : pc[p] \in {"send", "publish"} /\ mine[p][2] = s

\* A process that will announce the current profile unless it finds it announced.
Responsible(p) ==
  \/ pc[p] = "load"
  \/ pc[p] \in {"peer", "announce"} /\ mine[p] = current

SomeoneAnnounces ==
  emu # None /\ (preset \/ greeted) =>
    selection \in announced \/ \E p \in Process : Responsible(p)

\* A process that will publish the current selection unless another does.
WillPublish(p) ==
  /\ mine[p][2] = selection
  /\ \/ pc[p] \in {"send", "publish"}
     \/ pc[p] = "announce" /\ mine[p][1] # None
     \/ p \in Fetcher /\ pc[p] = "peer" /\ mine[p][1] # None

SomeonePublishes ==
  selection > 0 => selection \in published \/ \E p \in Process : WillPublish(p)

IInv == TypeOK /\ PeerKnown /\ OneSender /\ FlagKept /\ SomeoneAnnounces /\ SomeonePublishes

\* The invariant holds initially.
LEMMA InitCorrect == Init => IInv
<1> SUFFICES ASSUME Init PROVE IInv
  OBVIOUS
<1>1. TypeOK
  <2>1. pc \in [Process -> {"load", "peer", "read", "fetch"} \union Announcing]
    BY Zenon DEF Init
  <2>2. mine \in [Process -> (Profile \union {None}) \X Nat]
    BY DEF Init
  <2>3. emu \in Profile \union {None} /\ (auto => (emu = None <=> selection = 0))
    BY DEF Init
  <2>4. auto \in BOOLEAN /\ preset \in BOOLEAN /\ peer \in BOOLEAN
    BY DEF Init
  <2>5. greeted \in BOOLEAN /\ announced \subseteq Nat /\ published \subseteq Nat
    BY DEF Init
  <2>6. selection \in Nat
    BY DEF Init
  <2>7. sent \in Seq(Nat)
    BY DEF Init
  <2> QED
    BY <2>1, <2>2, <2>3, <2>4, <2>5, <2>6, <2>7 DEF TypeOK
<1>2. PeerKnown /\ OneSender /\ FlagKept /\ SomeonePublishes
  BY DEF Init, PeerKnown, OneSender, FlagKept, SomeonePublishes, Process
<1>3. SomeoneAnnounces
  BY DEF Init, SomeoneAnnounces, Responsible, Process
<1> QED
  BY <1>1, <1>2, <1>3 DEF IInv

-----------------------------------------------------------------------------
(***************************************************************************)
(* Every step preserves it, one part after the other.                      *)
(***************************************************************************)

\* Types.
LEMMA TypeStep ==
  ASSUME IInv, [Next]_vars
  PROVE  TypeOK'
<1> USE NoneAssumption, NameAssumption DEF IInv, TypeOK, Process, Goto, LoadEmulation, Announcing
<1>1. ASSUME MainLoad PROVE TypeOK'
  BY <1>1 DEF MainLoad, origin, current, link
<1>2. ASSUME MainPeer PROVE TypeOK'
  BY <1>2 DEF MainPeer, origin, current, link
<1>3. ASSUME NEW control \in BOOLEAN, LearnPeer(control) PROVE TypeOK'
  BY <1>3 DEF LearnPeer, origin, current, link
<1>4. ASSUME RxLoad PROVE TypeOK'
  BY <1>4 DEF RxLoad, origin, current, link
<1>5. ASSUME NEW f \in Fetcher, Pass(f) PROVE TypeOK'
  BY <1>5 DEF Pass, origin, current, link
<1>6. ASSUME NEW f \in Fetcher, FetchPeer(f) PROVE TypeOK'
  BY <1>6 DEF FetchPeer, origin, current, link
<1>7. ASSUME NEW f \in Fetcher, NEW next \in Profile, Select(f, next) PROVE TypeOK'
  BY <1>7 DEF Select, origin, current, link
<1>8. ASSUME NEW p \in Process, Announce(p) PROVE TypeOK'
  <2>1. mine[p][2] \in Nat
    OBVIOUS
  <2>2. announced' \subseteq Nat
    BY <1>8, <2>1 DEF Announce
  <2>3. pc' \in [Process -> {"load", "peer", "read", "fetch"} \union Announcing]
    BY <1>8 DEF Announce
  <2> QED
    BY <1>8, <2>2, <2>3 DEF Announce, origin, current, link
<1>9. ASSUME NEW p \in Process, SendIdentity(p) PROVE TypeOK'
  BY <1>9 DEF SendIdentity, origin, current, link
<1>10. ASSUME NEW p \in Process, Publish(p) PROVE TypeOK'
  BY <1>10 DEF Publish, origin, current, link
<1>11. CASE UNCHANGED vars
  BY <1>11 DEF vars, origin, current, link
<1> QED
  BY <1>1, <1>2, <1>3, <1>4, <1>5, <1>6, <1>7, <1>8, <1>9, <1>10, <1>11 DEF Next

\* The peer.
LEMMA PeerStep ==
  ASSUME IInv, [Next]_vars
  PROVE  PeerKnown'
<1> USE NoneAssumption, NameAssumption DEF IInv, TypeOK, Process, Goto, LoadEmulation, PeerKnown
<1>1. ASSUME MainLoad PROVE PeerKnown'
  BY <1>1 DEF MainLoad, origin, current, link
<1>2. ASSUME MainPeer PROVE PeerKnown'
  BY <1>2 DEF MainPeer, origin, current, link
<1>3. ASSUME NEW control \in BOOLEAN, LearnPeer(control) PROVE PeerKnown'
  BY <1>3 DEF LearnPeer, origin, current, link
<1>4. ASSUME RxLoad PROVE PeerKnown'
  BY <1>4 DEF RxLoad, origin, current, link
<1>5. ASSUME NEW f \in Fetcher, Pass(f) PROVE PeerKnown'
  BY <1>5 DEF Pass, origin, current, link
<1>6. ASSUME NEW f \in Fetcher, FetchPeer(f) PROVE PeerKnown'
  BY <1>6 DEF FetchPeer, origin, current, link
<1>7. ASSUME NEW f \in Fetcher, NEW next \in Profile, Select(f, next) PROVE PeerKnown'
  BY <1>7 DEF Select, origin, current, link
<1>8. ASSUME NEW p \in Process, Announce(p) PROVE PeerKnown'
  BY <1>8 DEF Announce, origin, current, link
<1>9. ASSUME NEW p \in Process, SendIdentity(p) PROVE PeerKnown'
  BY <1>9 DEF SendIdentity, origin, current, link
<1>10. ASSUME NEW p \in Process, Publish(p) PROVE PeerKnown'
  BY <1>10 DEF Publish, origin, current, link
<1>11. CASE UNCHANGED vars
  BY <1>11 DEF vars, origin, current, link
<1> QED
  BY <1>1, <1>2, <1>3, <1>4, <1>5, <1>6, <1>7, <1>8, <1>9, <1>10, <1>11 DEF Next

\* The sender of a selection.
LEMMA SenderStep ==
  ASSUME IInv, [Next]_vars
  PROVE  OneSender'
<1> USE NoneAssumption, NameAssumption DEF IInv, TypeOK, Process, Goto, LoadEmulation, OneSender
<1>1. ASSUME MainLoad PROVE OneSender'
  BY <1>1 DEF MainLoad, origin, current, link
<1>2. ASSUME MainPeer PROVE OneSender'
  BY <1>2 DEF MainPeer, origin, current, link
<1>3. ASSUME NEW control \in BOOLEAN, LearnPeer(control) PROVE OneSender'
  BY <1>3 DEF LearnPeer, origin, current, link
<1>4. ASSUME RxLoad PROVE OneSender'
  BY <1>4 DEF RxLoad, origin, current, link
<1>5. ASSUME NEW f \in Fetcher, Pass(f) PROVE OneSender'
  BY <1>5 DEF Pass, origin, current, link
<1>6. ASSUME NEW f \in Fetcher, FetchPeer(f) PROVE OneSender'
  BY <1>6 DEF FetchPeer, origin, current, link
<1>7. ASSUME NEW f \in Fetcher, NEW next \in Profile, Select(f, next) PROVE OneSender'
  BY <1>7 DEF Select, origin, current, link
<1>8. ASSUME NEW p \in Process, Announce(p) PROVE OneSender'
  BY <1>8 DEF Announce, origin, current, link
<1>9. ASSUME NEW p \in Process, SendIdentity(p) PROVE OneSender'
  <2> DEFINE own == mine[p][2]
             n == Len(sent)
  <2>1. /\ pc[p] = "send" /\ pc' = [pc EXCEPT ![p] = "publish"] /\ sent' = Append(sent, own)
        /\ mine' = mine /\ announced' = announced
    BY <1>9 DEF SendIdentity
  <2>2. own \in announced /\ \A i \in DOMAIN sent : sent[i] # own
    BY <2>1
  <2>3. own \in Nat /\ sent \in Seq(Nat) /\ n \in Nat /\ DOMAIN sent = 1 .. n
    OBVIOUS
  <2> HIDE DEF own
  <2>4. DOMAIN sent' = 1 .. n + 1 /\ sent'[n + 1] = own /\ \A i \in 1 .. n : sent'[i] = sent[i]
    BY <2>1, <2>3
  <2> HIDE DEF n
  <2>5. \A i \in DOMAIN sent' : sent'[i] \in announced'
    BY <2>1, <2>2, <2>3, <2>4
  <2>6. ASSUME NEW q \in Process, pc'[q] = "send"
        PROVE  /\ mine'[q][2] \in announced' /\ \A i \in DOMAIN sent' : sent'[i] # mine'[q][2]
               /\ \A r \in Process : pc'[r] = "send" /\ mine'[r][2] = mine'[q][2] => r = q
    <3>1. q # p /\ pc[q] = "send"
      BY <2>1, <2>6
    <3>2. own # mine[q][2]
      BY <2>1, <3>1 DEF own
    <3>3. \A r \in Process : pc'[r] = "send" => pc[r] = "send"
      BY <2>1
    <3> QED
      BY <2>1, <2>3, <2>4, <3>1, <3>2, <3>3
  <2>7. \A i, j \in DOMAIN sent' : sent'[i] = sent'[j] => i = j
    BY <2>2, <2>3, <2>4
  <2> QED
    BY <2>5, <2>6, <2>7
<1>10. ASSUME NEW p \in Process, Publish(p) PROVE OneSender'
  BY <1>10 DEF Publish, origin, current, link
<1>11. CASE UNCHANGED vars
  BY <1>11 DEF vars, origin, current, link
<1> QED
  BY <1>1, <1>2, <1>3, <1>4, <1>5, <1>6, <1>7, <1>8, <1>9, <1>10, <1>11 DEF Next

\* The announced flags.
LEMMA FlagStep ==
  ASSUME IInv, [Next]_vars
  PROVE  FlagKept'
<1> USE NoneAssumption, NameAssumption DEF IInv, TypeOK, Process, Goto, LoadEmulation, FlagKept
<1>1. ASSUME MainLoad PROVE FlagKept'
  BY <1>1 DEF MainLoad, origin, current, link
<1>2. ASSUME MainPeer PROVE FlagKept'
  BY <1>2 DEF MainPeer, origin, current, link
<1>3. ASSUME NEW control \in BOOLEAN, LearnPeer(control) PROVE FlagKept'
  BY <1>3 DEF LearnPeer, origin, current, link
<1>4. ASSUME RxLoad PROVE FlagKept'
  BY <1>4 DEF RxLoad, origin, current, link
<1>5. ASSUME NEW f \in Fetcher, Pass(f) PROVE FlagKept'
  BY <1>5 DEF Pass, origin, current, link
<1>6. ASSUME NEW f \in Fetcher, FetchPeer(f) PROVE FlagKept'
  BY <1>6 DEF FetchPeer, origin, current, link
<1>7. ASSUME NEW f \in Fetcher, NEW next \in Profile, Select(f, next) PROVE FlagKept'
  BY <1>7 DEF Select, origin, current, link
<1>8. ASSUME NEW p \in Process, Announce(p) PROVE FlagKept'
  <2> SUFFICES ASSUME NEW s \in announced'
               PROVE  /\ \/ \E i \in DOMAIN sent' : sent'[i] = s
                         \/ \E q \in Process : pc'[q] = "send" /\ mine'[q][2] = s
                      /\ \/ s \in published'
                         \/ \E q \in Process : pc'[q] \in {"send", "publish"} /\ mine'[q][2] = s
    OBVIOUS
  <2>1. mine' = mine /\ sent' = sent /\ published' = published /\ pc[p] = "announce"
    BY <1>8 DEF Announce
  <2>2. \A q \in Process : pc[q] # "announce" => pc'[q] = pc[q]
    BY <1>8 DEF Announce
  <2>3. CASE s \in announced
    <3>1. \A q \in Process : pc[q] \in {"send", "publish"} => pc'[q] = pc[q]
      BY <2>2
    <3>2. \/ \E i \in DOMAIN sent : sent[i] = s
          \/ \E q \in Process : pc[q] = "send" /\ mine[q][2] = s
      BY <2>3
    <3>3. s \in published \/ \E q \in Process : pc[q] \in {"send", "publish"} /\ mine[q][2] = s
      BY <2>3
    <3>4. \/ \E i \in DOMAIN sent' : sent'[i] = s
          \/ \E q \in Process : pc'[q] = "send" /\ mine'[q][2] = s
      BY <2>1, <3>1, <3>2
    <3>5. s \in published' \/ \E q \in Process : pc'[q] \in {"send", "publish"} /\ mine'[q][2] = s
      BY <2>1, <3>1, <3>3
    <3> QED
      BY <3>4, <3>5
  <2>4. CASE s \notin announced
    <3>1. s = mine[p][2] /\ pc'[p] = "send"
      BY <1>8, <2>4 DEF Announce
    <3> QED
      BY <2>1, <3>1
  <2> QED
    BY <2>3, <2>4
<1>9. ASSUME NEW p \in Process, SendIdentity(p) PROVE FlagKept'
  <2> SUFFICES ASSUME NEW s \in announced'
               PROVE  /\ \/ \E i \in DOMAIN sent' : sent'[i] = s
                         \/ \E q \in Process : pc'[q] = "send" /\ mine'[q][2] = s
                      /\ \/ s \in published'
                         \/ \E q \in Process : pc'[q] \in {"send", "publish"} /\ mine'[q][2] = s
    OBVIOUS
  <2>1. /\ mine' = mine /\ published' = published /\ announced' = announced
        /\ pc[p] = "send" /\ pc'[p] = "publish"
        /\ \A q \in Process \ {p} : pc'[q] = pc[q]
    BY <1>9 DEF SendIdentity
  <2>2. /\ sent' = Append(sent, mine[p][2])
        /\ DOMAIN sent' = 1 .. Len(sent) + 1
        /\ sent'[Len(sent) + 1] = mine[p][2]
        /\ \A i \in DOMAIN sent : i \in DOMAIN sent' /\ sent'[i] = sent[i]
    BY <1>9 DEF SendIdentity
  <2>3. \/ \E i \in DOMAIN sent' : sent'[i] = s
        \/ \E q \in Process : pc'[q] = "send" /\ mine'[q][2] = s
    <3>1. CASE \E i \in DOMAIN sent : sent[i] = s
      BY <2>2, <3>1
    <3>2. CASE mine[p][2] = s
      BY <2>2, <3>2
    <3> QED
      BY <2>1, <3>1, <3>2
  <2>4. s \in published' \/ \E q \in Process : pc'[q] \in {"send", "publish"} /\ mine'[q][2] = s
    BY <2>1
  <2> QED
    BY <2>3, <2>4
<1>10. ASSUME NEW p \in Process, Publish(p) PROVE FlagKept'
  BY <1>10 DEF Publish, origin, current, link
<1>11. CASE UNCHANGED vars
  BY <1>11 DEF vars, origin, current, link
<1> QED
  BY <1>1, <1>2, <1>3, <1>4, <1>5, <1>6, <1>7, <1>8, <1>9, <1>10, <1>11 DEF Next

\* The announcement of the current profile.
LEMMA AnnounceStep ==
  ASSUME IInv, [Next]_vars
  PROVE  SomeoneAnnounces'
<1> USE NoneAssumption, NameAssumption DEF IInv, TypeOK, Process, Goto, LoadEmulation, SomeoneAnnounces, Responsible, PeerKnown
<1>1. ASSUME MainLoad PROVE SomeoneAnnounces'
  BY <1>1 DEF MainLoad, origin, current, link
<1>2. ASSUME MainPeer PROVE SomeoneAnnounces'
  BY <1>2 DEF MainPeer, origin, current, link
<1>3. ASSUME NEW control \in BOOLEAN, LearnPeer(control) PROVE SomeoneAnnounces'
  BY <1>3 DEF LearnPeer, origin, current, link
<1>4. ASSUME RxLoad PROVE SomeoneAnnounces'
  BY <1>4 DEF RxLoad, origin, current, link
<1>5. ASSUME NEW f \in Fetcher, Pass(f) PROVE SomeoneAnnounces'
  BY <1>5 DEF Pass, origin, current, link
<1>6. ASSUME NEW f \in Fetcher, FetchPeer(f) PROVE SomeoneAnnounces'
  BY <1>6 DEF FetchPeer, origin, current, link
<1>7. ASSUME NEW f \in Fetcher, NEW next \in Profile, Select(f, next) PROVE SomeoneAnnounces'
  BY <1>7 DEF Select, origin, current, link
<1>8. ASSUME NEW p \in Process, Announce(p) PROVE SomeoneAnnounces'
  BY <1>8 DEF Announce, origin, current, link
<1>9. ASSUME NEW p \in Process, SendIdentity(p) PROVE SomeoneAnnounces'
  BY <1>9 DEF SendIdentity, origin, current, link
<1>10. ASSUME NEW p \in Process, Publish(p) PROVE SomeoneAnnounces'
  BY <1>10 DEF Publish, origin, current, link
<1>11. CASE UNCHANGED vars
  BY <1>11 DEF vars, origin, current, link
<1> QED
  BY <1>1, <1>2, <1>3, <1>4, <1>5, <1>6, <1>7, <1>8, <1>9, <1>10, <1>11 DEF Next

\* The publication of the current selection.
LEMMA PublishStep ==
  ASSUME IInv, [Next]_vars
  PROVE  SomeonePublishes'
<1> USE NoneAssumption, NameAssumption DEF IInv, TypeOK, Process, Goto, LoadEmulation, SomeonePublishes, WillPublish, FlagKept
<1>1. ASSUME MainLoad PROVE SomeonePublishes'
  BY <1>1 DEF MainLoad, origin, current, link
<1>2. ASSUME MainPeer PROVE SomeonePublishes'
  BY <1>2 DEF MainPeer, origin, current, link
<1>3. ASSUME NEW control \in BOOLEAN, LearnPeer(control) PROVE SomeonePublishes'
  BY <1>3 DEF LearnPeer, origin, current, link
<1>4. ASSUME RxLoad PROVE SomeonePublishes'
  BY <1>4 DEF RxLoad, origin, current, link
<1>5. ASSUME NEW f \in Fetcher, Pass(f) PROVE SomeonePublishes'
  BY <1>5 DEF Pass, origin, current, link
<1>6. ASSUME NEW f \in Fetcher, FetchPeer(f) PROVE SomeonePublishes'
  BY <1>6 DEF FetchPeer, origin, current, link
<1>7. ASSUME NEW f \in Fetcher, NEW next \in Profile, Select(f, next) PROVE SomeonePublishes'
  BY <1>7 DEF Select, origin, current, link
<1>8. ASSUME NEW p \in Process, Announce(p) PROVE SomeonePublishes'
  <2> SUFFICES ASSUME selection > 0
               PROVE  selection \in published \/ \E q \in Process : WillPublish(q)'
    BY <1>8 DEF Announce, current
  <2>1. /\ mine' = mine /\ selection' = selection /\ pc[p] = "announce"
        /\ \A q \in Process \ {p} : pc'[q] = pc[q]
    BY <1>8 DEF Announce, current
  <2>2. CASE selection \in announced
    <3>1. CASE \E q \in Process : pc[q] \in {"send", "publish"} /\ mine[q][2] = selection
      BY <2>1, <3>1
    <3> QED
      BY <2>2, <3>1
  <2>3. CASE selection \notin announced /\ WillPublish(p)
    <3>1. pc'[p] = "send"
      BY <1>8, <2>1, <2>3 DEF Announce
    <3> QED
      BY <2>1, <2>3, <3>1
  <2>4. ASSUME NEW q \in Process \ {p}, WillPublish(q)
        PROVE  WillPublish(q)'
    <3>1. pc'[q] = pc[q]
      BY <2>1
    <3> QED
      BY <2>1, <2>4, <3>1
  <2>5. selection \in published \/ \E q \in Process : WillPublish(q)
    BY DEF SomeonePublishes
  <2> QED
    BY <2>2, <2>3, <2>4, <2>5
<1>9. ASSUME NEW p \in Process, SendIdentity(p) PROVE SomeonePublishes'
  BY <1>9 DEF SendIdentity, origin, current, link
<1>10. ASSUME NEW p \in Process, Publish(p) PROVE SomeonePublishes'
  BY <1>10 DEF Publish, origin, current, link
<1>11. CASE UNCHANGED vars
  BY <1>11 DEF vars, origin, current, link
<1> QED
  BY <1>1, <1>2, <1>3, <1>4, <1>5, <1>6, <1>7, <1>8, <1>9, <1>10, <1>11 DEF Next

LEMMA InvariantCorrect == Spec => []IInv
<1>1. IInv /\ [Next]_vars => IInv'
  BY TypeStep, PeerStep, SenderStep, FlagStep, AnnounceStep, PublishStep DEF IInv
<1> QED
  BY <1>1, InitCorrect, PTL DEF Spec

-----------------------------------------------------------------------------
(***************************************************************************)
(* The properties.                                                         *)
(***************************************************************************)

\* The variables keep their types, and a detected profile has a state of its own.
THEOREM TypeCorrect == Spec => []TypeOK
<1>1. IInv => TypeOK
  BY DEF IInv
<1> QED
  BY <1>1, InvariantCorrect, PTL

\* announceEmulationOnce: the compare-and-swap lets one process announce a selection,
\* and only once.
THEOREM AnnouncedOnceCorrect == Spec => []AnnouncedOnce
<1>1. IInv => AnnouncedOnce
  BY DEF IInv, OneSender, AnnouncedOnce
<1> QED
  BY <1>1, InvariantCorrect, PTL

\* No process enqueues an identity frame before a peer is known.
THEOREM PeerFirstCorrect == Spec => []PeerFirst
<1>1. IInv => PeerFirst
  BY DEF IInv, PeerKnown, PeerFirst
<1> QED
  BY <1>1, InvariantCorrect, PTL

\* Whichever comes first, peer or profile, one of the processes announces the
\* current profile.
THEOREM NothingForgottenCorrect == Spec => []NothingForgotten
<1>1. IInv => NothingForgotten
  <2> SUFFICES ASSUME IInv, Settled, emu # None, preset \/ greeted
               PROVE  \E i \in DOMAIN sent : sent[i] = selection
    BY DEF NothingForgotten
  <2>1. \A p \in Process : pc[p] \in {"read", "fetch", "done"}
    BY DEF Settled, Process
  <2>2. selection \in announced
    BY <2>1 DEF IInv, SomeoneAnnounces, Responsible
  <2> QED
    BY <2>1, <2>2 DEF IInv, FlagKept
<1> QED
  BY <1>1, InvariantCorrect, PTL

\* A detected profile reaches the hub's snapshot, whoever wins the announcement.
THEOREM ShownCorrect == Spec => []Shown
<1>1. IInv => Shown
  <2> SUFFICES ASSUME IInv, Settled, selection > 0
               PROVE  selection \in published
    BY DEF Shown
  <2>1. \A p \in Process : pc[p] \in {"read", "fetch", "done"}
    BY DEF Settled, Process
  <2> QED
    BY <2>1 DEF IInv, SomeonePublishes, WillPublish
<1> QED
  BY <1>1, InvariantCorrect, PTL

-----------------------------------------------------------------------------
(***************************************************************************)
(* Config: what a setting becomes.                                         *)
(***************************************************************************)
\* What the sections give a setting: the file, and the instance.
Given(f) ==
  IF IsSet(input.file, f) THEN input.file[f]
  ELSE IF input.file[f] = Absent /\ Default[f] # Zero THEN Default[f]
  ELSE IF IsSet(input.simulation, f) THEN input.simulation[f] ELSE Default[f]
GivenToInstance(f) ==
  IF IsSet(input.instance, f) THEN input.instance[f]
  ELSE IF IsSet(input.instanceSimulation, f) THEN input.instanceSimulation[f] ELSE Zero
Alias(f) == IF IsSet(input.simulation, f) THEN input.simulation[f] ELSE Zero

ConfigShapes ==
  /\ stage \in {"start", "loaded", "resolved", "serving"}
  /\ Sectioned(input)
Read ==
  stage = "loaded" =>
    /\ config = [settings |-> [f \in Fields |-> Given(f)],
                 simulation |-> [f \in DOMAIN input.simulation |-> Alias(f)],
                 instance |-> [f \in Fields |-> GivenToInstance(f)]]
ResolvedRight ==
  Resolved =>
    /\ config.settings = [f \in Fields |-> IF input.chosen /\ GivenToInstance(f) # Zero
                                             THEN GivenToInstance(f) ELSE Given(f)]
    /\ accepted <=> Validate(config.settings)
    /\ stage = "serving" =>
         /\ accepted
         /\ routes = <<"/", Slashed[config.settings["control"]], Slashed[config.settings["audio"]]>>

ConfigIInv == ConfigShapes /\ Read /\ ResolvedRight

LEMMA LoadsRight ==
  ASSUME ConfigAssumption, ConfigIInv, Load
  PROVE  ConfigIInv'
<1> DEFINE x == input
           sim == Decoded(x.simulation)
           read == [f \in Fields |-> IF x.file[f] = Absent THEN Default[f] ELSE x.file[f]]
           inst == Decoded(x.instance)
           isim == Decoded(x.instanceSimulation)
<1>1. stage' = "loaded" /\ input' = x /\ Sectioned(x)
  BY DEF Load, ConfigIInv, ConfigShapes
<1>2. config' = [settings |-> Fill(Fill(read, sim), Default), simulation |-> sim, instance |-> Fill(inst, isim)]
  BY DEF Load, applyDefaults, mergeEmulationAlias
<1>3. /\ DOMAIN x.file = Fields /\ DOMAIN x.instance = Fields /\ DOMAIN Default = Fields
  BY <1>1 DEF Sectioned, ConfigAssumption
<1>4. sim = [f \in DOMAIN x.simulation |-> Alias(f)]
  BY DEF Decoded, Alias, IsSet
<1>5. Fill(Fill(read, sim), Default) = [f \in Fields |-> Given(f)]
  <2>1. Fill(read, sim) = [f \in Fields |-> IF read[f] = Zero /\ f \in DOMAIN x.simulation
                                             THEN Alias(f) ELSE read[f]]
    BY <1>4 DEF Fill
  <2> DEFINE g == Fill(read, sim)
  <2> HIDE DEF g
  <2>2. Fill(g, Default) = [f \in Fields |-> IF g[f] = Zero THEN Default[f] ELSE g[f]]
    BY <1>3, <2>1 DEF Fill, g
  <2>3. ASSUME NEW f \in Fields PROVE (IF g[f] = Zero THEN Default[f] ELSE g[f]) = Given(f)
    <3>1. g[f] = IF read[f] = Zero /\ f \in DOMAIN x.simulation THEN Alias(f) ELSE read[f]
      BY <2>1 DEF g
    <3>2. read[f] = IF x.file[f] = Absent THEN Default[f] ELSE x.file[f]
      OBVIOUS
    <3> QED
      BY <1>3, <3>1, <3>2 DEF Given, Alias, IsSet
  <2> QED
    BY <2>2, <2>3 DEF g
<1>6. Fill(inst, isim) = [f \in Fields |-> GivenToInstance(f)]
  <2>1. DOMAIN inst = Fields /\ DOMAIN isim = DOMAIN x.instanceSimulation
    BY <1>3 DEF Decoded
  <2>2. ASSUME NEW f \in Fields
        PROVE (IF inst[f] = Zero /\ f \in DOMAIN isim THEN isim[f] ELSE inst[f]) = GivenToInstance(f)
    BY <1>3, <2>1 DEF Decoded, GivenToInstance, IsSet
  <2> QED
    BY <2>1, <2>2 DEF Fill
<1>7. Read'
  <2>1. \A f \in Fields : Given(f)' = Given(f) /\ GivenToInstance(f)' = GivenToInstance(f)
    BY <1>1 DEF Given, GivenToInstance, IsSet
  <2>2. \A f \in DOMAIN x.simulation : Alias(f)' = Alias(f)
    BY <1>1 DEF Alias, IsSet
  <2> HIDE DEF sim, inst, isim, read
  <2> QED
    BY <1>1, <1>2, <1>4, <1>5, <1>6, <2>1, <2>2 DEF Read
<1> QED
  BY <1>1, <1>7 DEF ConfigIInv, ConfigShapes, ResolvedRight, Resolved

LEMMA ResolvesRight ==
  ASSUME ConfigAssumption, ConfigIInv, NEW chosen \in BOOLEAN, ResolveInstance(chosen)
  PROVE  ConfigIInv'
<1> DEFINE c == config
           base == IF chosen THEN mergeInstance(c.settings, c.instance) ELSE c.settings
           done == Fill(Fill(base, c.simulation), Default)
<1>1. /\ stage = "loaded" /\ stage' = "resolved" /\ Sectioned(input)
      /\ input' = [input EXCEPT !.chosen = chosen]
      /\ config' = [config EXCEPT !.settings = done] /\ accepted' = Validate(done)
  BY DEF ResolveInstance, ResolveWith, applyDefaults, mergeEmulationAlias, ConfigIInv, ConfigShapes
<1>2. c = [settings |-> [f \in Fields |-> Given(f)],
           simulation |-> [f \in DOMAIN input.simulation |-> Alias(f)],
           instance |-> [f \in Fields |-> GivenToInstance(f)]]
  BY <1>1 DEF ConfigIInv, Read
<1>3. /\ c.settings = [f \in Fields |-> Given(f)] /\ c.instance = [f \in Fields |-> GivenToInstance(f)]
      /\ c.simulation = [f \in DOMAIN input.simulation |-> Alias(f)]
      /\ config'.settings = done
  BY <1>1, <1>2
<1>4. /\ input' = [file |-> input.file, simulation |-> input.simulation, instance |-> input.instance,
                    instanceSimulation |-> input.instanceSimulation, chosen |-> chosen]
      /\ Sectioned(input')
  BY <1>1 DEF Sectioned
<1>5. /\ input'.file = input.file /\ input'.simulation = input.simulation /\ input'.instance = input.instance
      /\ input'.instanceSimulation = input.instanceSimulation /\ input'.chosen = chosen
  BY <1>4
<1>6. \A f : Given(f)' = Given(f) /\ GivenToInstance(f)' = GivenToInstance(f)
  BY <1>5 DEF Given, GivenToInstance, IsSet
<1> DEFINE value(f) == IF chosen /\ GivenToInstance(f) # Zero THEN GivenToInstance(f) ELSE Given(f)
<1>7. base = [f \in Fields |-> value(f)]
  <2>1. CASE chosen
    <3>1. base = [f \in Fields |-> IF c.instance[f] = Zero THEN c.settings[f] ELSE c.instance[f]]
      BY <1>3, <2>1 DEF mergeInstance, Fill
    <3> QED
      BY <1>3, <2>1, <3>1
  <2>2. CASE ~chosen
    BY <1>3, <2>2
  <2> QED
    BY <2>1, <2>2
<1>8. ASSUME NEW f \in Fields, value(f) = Zero
      PROVE  Default[f] = Zero /\ Alias(f) = Zero
  BY <1>8 DEF Given, Alias, IsSet
<1>9. done = [f \in Fields |-> value(f)]
  <2>1. DOMAIN Default = Fields
    BY DEF ConfigAssumption
  <2> HIDE DEF base
  <2> DEFINE g == Fill(base, c.simulation)
  <2>2. g = [f \in Fields |-> IF value(f) = Zero /\ f \in DOMAIN input.simulation THEN Alias(f) ELSE value(f)]
    BY <1>3, <1>7 DEF Fill
  <2>3. g = [f \in Fields |-> value(f)]
    BY <1>8, <2>2
  <2> HIDE DEF g
  <2>4. Fill(g, Default) = [f \in Fields |-> IF value(f) = Zero THEN Default[f] ELSE value(f)]
    BY <2>1, <2>3 DEF Fill
  <2> QED
    BY <1>8, <2>4 DEF g
<1> HIDE DEF done, base
<1>10. ResolvedRight'
  BY <1>1, <1>3, <1>5, <1>6, <1>9 DEF ResolvedRight, Resolved
<1> QED
  BY <1>1, <1>4, <1>10 DEF ConfigIInv, ConfigShapes, Read

LEMMA ConfigInductive ==
  ASSUME ConfigAssumption
  PROVE  ConfigIInv /\ [ConfigNext]_configVars => ConfigIInv'
<1> SUFFICES ASSUME ConfigIInv, [ConfigNext]_configVars PROVE ConfigIInv'
  OBVIOUS
<1>1. ASSUME Serve PROVE ConfigIInv'
  <2>1. /\ stage = "resolved" /\ stage' = "serving" /\ accepted
        /\ routes' = <<"/", Slashed[config.settings["control"]], Slashed[config.settings["audio"]]>>
        /\ input' = input /\ config' = config /\ accepted' = accepted
    BY <1>1 DEF Serve
  <2>2. ConfigShapes'
    BY <2>1 DEF ConfigIInv, ConfigShapes
  <2>3. ResolvedRight'
    BY <2>1 DEF ConfigIInv, ResolvedRight, Resolved, Given, GivenToInstance, IsSet
  <2> QED
    BY <2>1, <2>2, <2>3 DEF ConfigIInv, Read
<1>2. CASE UNCHANGED configVars
  BY <1>2 DEF configVars, ConfigIInv, ConfigShapes, Read, ResolvedRight, Resolved, Given, GivenToInstance, Alias, IsSet
<1> QED
  BY <1>1, <1>2, LoadsRight, ResolvesRight DEF ConfigNext

\* Two behind two are four.
LEMMA TwoAndTwo ==
  ASSUME NEW a, NEW b, NEW c, NEW d
  PROVE  <<a, b>> \o <<c, d>> = <<a, b, c, d>>
<1> DEFINE V == {a, b, c, d}
<1>1. <<a, b>> \in Seq(V) /\ <<c, d>> \in Seq(V) /\ <<a, b, c, d>> \in Seq(V)
  OBVIOUS
<1> DEFINE s == <<a, b>>
           t == <<c, d>>
           r == <<a, b, c, d>>
<1>2. /\ Len(s) = 2 /\ Len(t) = 2 /\ Len(r) = 4
      /\ s[1] = a /\ s[2] = b /\ t[1] = c /\ t[2] = d
      /\ r[1] = a /\ r[2] = b /\ r[3] = c /\ r[4] = d
  OBVIOUS
<1> HIDE DEF s, t, r, V
<1>3. /\ s \o t \in Seq(V) /\ Len(s \o t) = 4
      /\ \A i \in 1 .. 4 : (s \o t)[i] = IF i <= 2 THEN s[i] ELSE t[i - 2]
  BY <1>1, <1>2, ConcatProperties DEF s, t
<1>4. \A i \in 1 .. 4 : (s \o t)[i] = r[i]
  BY <1>2, <1>3
<1> QED
  BY <1>1, <1>2, <1>3, <1>4, SeqEqual DEF s, t, r

\* The strongest of the sections.
LEMMA StrongestIs ==
  ASSUME Sectioned(input), input.chosen \in BOOLEAN, NEW f \in Fields
  PROVE  Strongest(f) =
           IF input.chosen /\ GivenToInstance(f) # Zero THEN GivenToInstance(f)
           ELSE IF IsSet(input.file, f) THEN input.file[f]
           ELSE IF IsSet(input.simulation, f) THEN input.simulation[f] ELSE Default[f]
<1> DEFINE S == Sections
           set == {i \in DOMAIN S : IsSet(S[i], f)}
<1>1. ASSUME NEW i \in set, \A j \in set : i <= j
      PROVE  Strongest(f) = S[i][f]
  <2>1. set \subseteq Int
    BY DEF Sections
  <2> HIDE DEF set
  <2>2. \A k \in set : (\A j \in set : k <= j) => k = i
    BY <1>1, <2>1
  <2>3. (CHOOSE k \in set : \A j \in set : k <= j) = i
    BY <1>1, <2>2
  <2>4. set # {}
    BY <1>1
  <2> QED
    BY <2>3, <2>4 DEF Strongest, set
<1>2. set = {} => Strongest(f) = Default[f]
  BY DEF Strongest
<1>3. CASE input.chosen
  <2>1. S = <<input.instance, input.instanceSimulation, input.file, input.simulation>>
    BY <1>3, TwoAndTwo DEF Sections
  <2>2. DOMAIN S = 1 .. 4 /\ S[1] = input.instance /\ S[2] = input.instanceSimulation
        /\ S[3] = input.file /\ S[4] = input.simulation
    BY <2>1
  <2> HIDE DEF S
  <2>3. \A i : i \in set <=> i \in 1 .. 4 /\ IsSet(S[i], f)
    BY <2>2
  <2> HIDE DEF set
  <2>4. CASE IsSet(S[1], f)
    <3>1. 1 \in set /\ \A j \in set : 1 <= j
      BY <2>3, <2>4
    <3> QED
      BY <1>1, <1>3, <2>2, <2>4, <3>1 DEF GivenToInstance, IsSet
  <2>5. CASE ~IsSet(S[1], f) /\ IsSet(S[2], f)
    <3>1. 2 \in set /\ \A j \in set : 2 <= j
      BY <2>3, <2>5
    <3> QED
      BY <1>1, <1>3, <2>2, <2>5, <3>1 DEF GivenToInstance, IsSet
  <2>6. CASE ~IsSet(S[1], f) /\ ~IsSet(S[2], f) /\ IsSet(S[3], f)
    <3>1. 3 \in set /\ \A j \in set : 3 <= j
      BY <2>3, <2>6
    <3> QED
      BY <1>1, <2>2, <2>6, <3>1 DEF GivenToInstance
  <2>7. CASE ~IsSet(S[1], f) /\ ~IsSet(S[2], f) /\ ~IsSet(S[3], f) /\ IsSet(S[4], f)
    <3>1. 4 \in set /\ \A j \in set : 4 <= j
      BY <2>3, <2>7
    <3> QED
      BY <1>1, <2>2, <2>7, <3>1 DEF GivenToInstance
  <2>8. CASE ~IsSet(S[1], f) /\ ~IsSet(S[2], f) /\ ~IsSet(S[3], f) /\ ~IsSet(S[4], f)
    <3>1. set = {}
      BY <2>3, <2>8
    <3> QED
      BY <1>2, <2>2, <2>8, <3>1 DEF GivenToInstance
  <2> QED
    BY <2>4, <2>5, <2>6, <2>7, <2>8
<1>4. CASE ~input.chosen
  <2>1. S = <<input.file, input.simulation>>
    BY <1>4 DEF Sections
  <2>2. DOMAIN S = 1 .. 2 /\ S[1] = input.file /\ S[2] = input.simulation
    BY <2>1
  <2> HIDE DEF S
  <2>3. \A i : i \in set <=> i \in 1 .. 2 /\ IsSet(S[i], f)
    BY <2>2
  <2> HIDE DEF set
  <2>4. CASE IsSet(S[1], f)
    <3>1. 1 \in set /\ \A j \in set : 1 <= j
      BY <2>3, <2>4
    <3> QED
      BY <1>1, <1>4, <2>2, <2>4, <3>1
  <2>5. CASE ~IsSet(S[1], f) /\ IsSet(S[2], f)
    <3>1. 2 \in set /\ \A j \in set : 2 <= j
      BY <2>3, <2>5
    <3> QED
      BY <1>1, <1>4, <2>2, <2>5, <3>1
  <2>6. CASE ~IsSet(S[1], f) /\ ~IsSet(S[2], f)
    <3>1. set = {}
      BY <2>3, <2>6
    <3> QED
      BY <1>2, <1>4, <2>2, <2>6, <3>1
  <2> QED
    BY <2>4, <2>5, <2>6
<1> QED
  BY <1>3, <1>4

\* Three different routes are three.
LEMMA ThreeRoutes ==
  ASSUME NEW a, NEW b, NEW c, a # b, a # c, b # c
  PROVE  Cardinality({<<a, b, c>>[i] : i \in DOMAIN <<a, b, c>>}) = 3
<1>1. {<<a, b, c>>[i] : i \in DOMAIN <<a, b, c>>} = {a, b, c}
  <2>1. DOMAIN <<a, b, c>> = {1, 2, 3}
    OBVIOUS
  <2> QED
    BY <2>1
<1>2. {a, b} = {a} \cup {b} /\ {a, b, c} = {a, b} \cup {c}
  OBVIOUS
<1>3. IsFiniteSet({a}) /\ Cardinality({a}) = 1
  BY FS_Singleton
<1>4. IsFiniteSet({a, b}) /\ Cardinality({a, b}) = 2
  BY <1>2, <1>3, FS_AddElement
<1>5. Cardinality({a, b, c}) = 3
  BY <1>2, <1>4, FS_AddElement
<1> QED
  BY <1>1, <1>5

\* Whatever sections set which settings and whichever instance is chosen: a setting comes
\* from the strongest section that sets it, none that has a default is empty in the end, and
\* an accepted configuration registers no route twice.
THEOREM SettingsMergeCorrect ==
  ASSUME ConfigAssumption
  PROVE  ConfigSpec => []SettingsMerge
<1>1. ConfigInit => ConfigIInv
  BY DEF ConfigInit, ConfigIInv, ConfigShapes, Read, ResolvedRight, Resolved, ConfigAssumption
<1>2. ConfigIInv => SettingsMerge
  <2> SUFFICES ASSUME ConfigIInv PROVE SettingsMerge
    OBVIOUS
  <2>1. Sectioned(input) /\ input.chosen \in BOOLEAN
    BY DEF ConfigIInv, ConfigShapes, Sectioned
  <2>2. Precedence
    <3> SUFFICES ASSUME Resolved, NEW f \in Fields, ~Shadowed(f) PROVE config.settings[f] = Strongest(f)
      BY DEF Precedence
    <3>1. config.settings[f] = IF input.chosen /\ GivenToInstance(f) # Zero THEN GivenToInstance(f) ELSE Given(f)
      BY DEF ConfigIInv, ResolvedRight
    <3>2. input.chosen /\ (IsSet(input.instance, f) \/ IsSet(input.instanceSimulation, f))
            => GivenToInstance(f) # Zero
      BY DEF GivenToInstance, IsSet
    <3> QED
      BY <2>1, <3>1, <3>2, StrongestIs DEF Given, Shadowed, IsSet
  <2>3. DefaultsHold
    BY DEF DefaultsHold, ConfigIInv, ResolvedRight, Given, GivenToInstance, IsSet
  <2>4. RoutesDistinct
    <3> SUFFICES ASSUME stage = "serving", "/" \notin {routes[2], routes[3]}
                 PROVE  Cardinality({routes[i] : i \in DOMAIN routes}) = 3
      BY DEF RoutesDistinct
    <3> DEFINE b == Slashed[config.settings["control"]]
               c == Slashed[config.settings["audio"]]
    <3>1. routes = <<"/", b, c>> /\ Validate(config.settings)
      BY DEF ConfigIInv, ResolvedRight, Resolved
    <3>2. b # c
      BY <3>1 DEF Validate, NormalizeWSPath
    <3> HIDE DEF b, c
    <3>3. "/" # b /\ "/" # c
      BY <3>1
    <3> QED
      BY <3>1, <3>2, <3>3, ThreeRoutes
  <2> QED
    BY <2>2, <2>3, <2>4 DEF SettingsMerge
<1> QED
  BY <1>1, <1>2, ConfigInductive, PTL DEF ConfigSpec

-----------------------------------------------------------------------------
(***************************************************************************)
(* Identity: names.                                                        *)
(***************************************************************************)
\* A number with a property has a least one at or below it.
LEMMA LeastOne ==
  ASSUME NEW n \in Nat, NEW T, n \in T
  PROVE  \E x \in 0 .. n : x \in T /\ \A y \in 0 .. x - 1 : y \notin T
<1> DEFINE Below == {p \in Nat \X Nat : p[1] < p[2]}
           S == T \cap 0 .. n
<1>1. IsWellFoundedOn(Below, Nat)
  <2>1. OpToRel(<, Nat) = Below
    BY DEF OpToRel
  <2> QED
    BY <2>1, NatLessThanWellFounded
<1>2. S \subseteq Nat /\ S # {}
  OBVIOUS
<1> HIDE DEF S, Below
<1>3. PICK x \in S : \A y \in S : ~ (<<y, x>> \in Below)
  BY <1>1, <1>2, WFMin
<1>4. \A y \in S : ~ (y < x)
  <2> SUFFICES ASSUME NEW y \in S, y < x PROVE FALSE
    OBVIOUS
  <2>1. <<y, x>> \in Nat \X Nat /\ <<y, x>>[1] = y /\ <<y, x>>[2] = x
    BY <1>2
  <2> QED
    BY <1>3, <2>1 DEF Below
<1> QED
  BY <1>3, <1>4 DEF S

\* A name is a sequence of its characters.
LEMMA NameSeq ==
  ASSUME NEW s, IsName(s)
  PROVE  /\ s \in Seq(ToSet(s)) /\ Len(s) \in Nat /\ DOMAIN s = 1 .. Len(s)
         /\ \A i \in 1 .. Len(s) : s[i] \in ToSet(s)
<1>1. Len(s) \in Nat /\ s = [i \in 1 .. Len(s) |-> s[i]]
  BY DEF IsName
<1>2. DOMAIN s = 1 .. Len(s)
  <2> DEFINE n == Len(s)
  <2>1. s = [i \in 1 .. n |-> s[i]]
    BY <1>1
  <2> HIDE DEF n
  <2>2. DOMAIN s = 1 .. n
    BY <2>1
  <2> QED
    BY <2>2 DEF n
<1>3. \A i \in 1 .. Len(s) : s[i] \in ToSet(s)
  BY <1>2 DEF ToSet
<1>4. s \in Seq(ToSet(s))
  <2> DEFINE n == Len(s)
             A == ToSet(s)
  <2>1. n \in Nat /\ s = [i \in 1 .. n |-> s[i]] /\ \A i \in 1 .. n : s[i] \in A
    BY <1>1, <1>3
  <2> HIDE DEF n, A
  <2>2. [i \in 1 .. n |-> s[i]] \in Seq(A)
    BY <2>1, IsASeq
  <2> QED
    BY <2>1, <2>2 DEF A
<1> QED
  BY <1>1, <1>2, <1>3, <1>4

\* What is a sequence is a name.
LEMMA SeqIsName ==
  ASSUME NEW A, NEW s \in Seq(A)
  PROVE  IsName(s)
BY DEF IsName

\* A prefix of a name.
LEMMA PrefixIs ==
  ASSUME NEW s, IsName(s), NEW n \in 0 .. Len(s)
  PROVE  /\ IsName(SubSeq(s, 1, n)) /\ Len(SubSeq(s, 1, n)) = n
         /\ \A i \in 1 .. n : SubSeq(s, 1, n)[i] = s[i]
<1>1. Len(s) \in Nat /\ \A i \in 1 .. n : s[i] \in ToSet(s)
  BY NameSeq
<1>2. n \in Int /\ 1 \in Int
  BY <1>1
<1>3. /\ SubSeq(s, 1, n) \in Seq(ToSet(s)) /\ Len(SubSeq(s, 1, n)) = (IF 1 <= n THEN n - 1 + 1 ELSE 0)
      /\ \A i \in 1 .. n - 1 + 1 : SubSeq(s, 1, n)[i] = s[1 + i - 1]
  <2> HIDE DEF ToSet
  <2> QED
    BY <1>1, <1>2, SubSeqProperties
<1>4. IsName(SubSeq(s, 1, n))
  BY <1>3, SeqIsName
<1>5. Len(SubSeq(s, 1, n)) = n
  BY <1>1, <1>3
<1>6. ASSUME NEW i \in 1 .. n PROVE SubSeq(s, 1, n)[i] = s[i]
  <2>1. i \in 1 .. n - 1 + 1 /\ 1 + i - 1 = i
    BY <1>1
  <2> QED
    BY <1>3, <2>1
<1> QED
  BY <1>4, <1>5, <1>6

\* A name read backwards.
LEMMA ReverseIs ==
  ASSUME NEW s, IsName(s)
  PROVE  /\ IsName(Reverse(s)) /\ Len(Reverse(s)) = Len(s)
         /\ \A i \in 1 .. Len(s) : Reverse(s)[i] = s[(Len(s) - i) + 1]
<1> DEFINE n == Len(s)
           A == ToSet(s)
<1>1. n \in Nat /\ \A i \in 1 .. n : s[i] \in A
  BY NameSeq
<1>2. Reverse(s) = [i \in 1 .. n |-> s[(n - i) + 1]]
  BY DEF Reverse
<1> HIDE DEF n, A
<1>3. \A i \in 1 .. n : s[(n - i) + 1] \in A
  BY <1>1
<1>4. [i \in 1 .. n |-> s[(n - i) + 1]] \in Seq(A)
  BY <1>1, <1>3, IsASeq
<1>5. Len([i \in 1 .. n |-> s[(n - i) + 1]]) = n
  BY <1>1
<1>6. IsName(Reverse(s))
  BY <1>2, <1>4, SeqIsName
<1> QED
  BY <1>2, <1>5, <1>6 DEF n

\* Names with the same characters are the same.
LEMMA SameText ==
  ASSUME NEW s, NEW t, IsName(s), IsName(t), Len(s) = Len(t), \A i \in 1 .. Len(s) : s[i] = t[i]
  PROVE  s = t
<1> DEFINE n == Len(s)
<1>1. n \in Nat /\ s = [i \in 1 .. n |-> s[i]] /\ t = [i \in 1 .. n |-> t[i]] /\ \A i \in 1 .. n : s[i] = t[i]
  BY DEF IsName
<1> HIDE DEF n
<1> QED
  BY <1>1

-----------------------------------------------------------------------------
(***************************************************************************)
(* Blanks at the ends.                                                     *)
(***************************************************************************)
\* A name is trimmed at its last character.
LEMMA TrimRightAt ==
  ASSUME NEW s, IsName(s), NEW n \in 0 .. Len(s), n = 0 \/ s[n] # Blank,
         \A i \in 1 .. Len(s) : s[i] # Blank => i <= n
  PROVE  TrimRight(s) = SubSeq(s, 1, n)
<1> DEFINE last == {i \in DOMAIN s : s[i] # Blank}
           IsEnd(m) == (\A i \in last : i <= m) /\ (m = 0 \/ m \in last)
<1>1. Len(s) \in Nat /\ DOMAIN s = 1 .. Len(s)
  BY NameSeq
<1>2. IsEnd(n)
  BY <1>1
<1>3. ASSUME NEW m \in 0 .. Len(s), IsEnd(m) PROVE m = n
  BY <1>1, <1>2, <1>3
<1>4. TrimRight(s) = SubSeq(s, 1, CHOOSE m \in 0 .. Len(s) : IsEnd(m))
  BY DEF TrimRight
<1> HIDE DEF IsEnd
<1>5. (CHOOSE m \in 0 .. Len(s) : IsEnd(m)) = n
  BY <1>2, <1>3
<1> QED
  BY <1>4, <1>5

\* There is such a place in every name.
LEMMA TrimRightEnds ==
  ASSUME NEW s, IsName(s)
  PROVE  \E n \in 0 .. Len(s) :
           /\ n = 0 \/ s[n] # Blank
           /\ \A i \in 1 .. Len(s) : s[i] # Blank => i <= n
           /\ TrimRight(s) = SubSeq(s, 1, n)
<1> DEFINE T == {m \in 0 .. Len(s) : \A i \in 1 .. Len(s) : s[i] # Blank => i <= m}
<1>1. Len(s) \in Nat /\ Len(s) \in T
  BY NameSeq
<1>2. PICK n \in 0 .. Len(s) : n \in T /\ \A m \in 0 .. n - 1 : m \notin T
  <2> HIDE DEF T
  <2> QED
    BY <1>1, LeastOne
<1>3. n = 0 \/ s[n] # Blank
  <2> SUFFICES ASSUME n # 0, s[n] = Blank PROVE FALSE
    OBVIOUS
  <2>1. n - 1 \in 0 .. n - 1 /\ n - 1 \in 0 .. Len(s)
    BY <1>1, <1>2
  <2>2. \A i \in 1 .. Len(s) : s[i] # Blank => i <= n - 1
    BY <1>1, <1>2
  <2> QED
    BY <1>2, <2>1, <2>2
<1>4. \A i \in 1 .. Len(s) : s[i] # Blank => i <= n
  BY <1>2
<1>5. TrimRight(s) = SubSeq(s, 1, n)
  BY <1>2, <1>3, <1>4, TrimRightAt
<1> QED
  BY <1>2, <1>3, <1>4, <1>5

\* One that ends in a character stays as it is.
LEMMA TrimRightKeeps ==
  ASSUME NEW s, IsName(s), s # <<>>, s[Len(s)] # Blank
  PROVE  TrimRight(s) = s
<1>1. Len(s) \in Nat /\ Len(s) \in 0 .. Len(s)
  BY NameSeq
<1>2. TrimRight(s) = SubSeq(s, 1, Len(s))
  BY <1>1, TrimRightAt
<1>3. SubSeq(s, 1, Len(s)) = s
  <2> DEFINE u == SubSeq(s, 1, Len(s))
  <2>1. IsName(u) /\ Len(u) = Len(s) /\ \A i \in 1 .. Len(s) : u[i] = s[i]
    BY <1>1, PrefixIs
  <2> HIDE DEF u
  <2>2. u = s
    BY <2>1, SameText
  <2> QED
    BY <2>2 DEF u
<1> QED
  BY <1>2, <1>3

\* A trimmed name is empty or has characters at both ends.
LEMMA TrimSpaceNeat ==
  ASSUME NEW s, IsName(s), TrimSpace(s) # <<>>
  PROVE  Neat(TrimSpace(s))
<1>1. PICK n \in 0 .. Len(s) : (n = 0 \/ s[n] # Blank) /\ TrimRight(s) = SubSeq(s, 1, n)
  BY TrimRightEnds
<1> DEFINE t == TrimRight(s)
           r == Reverse(t)
<1>2. IsName(t) /\ Len(t) = n /\ n \in Nat /\ \A i \in 1 .. n : t[i] = s[i]
  BY <1>1, PrefixIs, NameSeq
<1>3. IsName(r) /\ Len(r) = n /\ \A i \in 1 .. n : r[i] = t[(n - i) + 1]
  BY <1>2, ReverseIs
<1> HIDE DEF r
<1>4. PICK m \in 0 .. n : (m = 0 \/ r[m] # Blank) /\ TrimRight(r) = SubSeq(r, 1, m)
  BY <1>3, TrimRightEnds
<1> DEFINE u == TrimRight(r)
<1>5. IsName(u) /\ Len(u) = m /\ m \in Nat /\ \A i \in 1 .. m : u[i] = r[i]
  BY <1>2, <1>3, <1>4, PrefixIs
<1> HIDE DEF u, t
<1>6. TrimSpace(s) = Reverse(u)
  BY DEF TrimSpace, u, r, t
<1>7. IsName(Reverse(u)) /\ Len(Reverse(u)) = m /\ \A i \in 1 .. m : Reverse(u)[i] = u[(m - i) + 1]
  BY <1>5, ReverseIs
<1>8. m # 0
  <2> SUFFICES ASSUME m = 0 PROVE FALSE
    OBVIOUS
  <2>1. IsName(<<>>) /\ Len(<<>>) = 0
    BY DEF IsName
  <2>2. Reverse(u) = <<>>
    BY <1>7, <2>1, SameText
  <2> QED
    BY <1>6, <2>2
<1>9. m \in 1 .. n /\ n \in 1 .. n /\ 1 \in 1 .. n /\ 1 \in 1 .. m /\ m \in 1 .. m
  BY <1>2, <1>4, <1>5, <1>8
<1>10. /\ Reverse(u)[1] = u[(m - 1) + 1] /\ Reverse(u)[m] = u[(m - m) + 1] /\ r[1] = t[(n - 1) + 1]
  BY <1>3, <1>7, <1>9
<1>11. (m - 1) + 1 = m /\ (m - m) + 1 = 1 /\ (n - 1) + 1 = n
  BY <1>2, <1>5
<1>12. Reverse(u)[1] # Blank
  BY <1>4, <1>5, <1>8, <1>9, <1>10, <1>11
<1>13. Reverse(u)[m] # Blank
  <2>1. Reverse(u)[m] = r[1] /\ r[1] = s[n]
    BY <1>2, <1>5, <1>9, <1>10, <1>11
  <2> QED
    BY <1>1, <1>9, <1>2, <2>1
<1> QED
  BY <1>6, <1>7, <1>12, <1>13 DEF Neat

\* Such a name stays as it is.
LEMMA TrimSpaceKeeps ==
  ASSUME NEW s, Neat(s)
  PROVE  TrimSpace(s) = s /\ TrimRight(s) = s /\ Len(s) \in Nat \ {0}
<1>1. IsName(s) /\ s # <<>> /\ s[1] # Blank /\ s[Len(s)] # Blank
  BY DEF Neat
<1>2. Len(s) \in Nat /\ Len(s) # 0
  <2>1. IsName(<<>>) /\ Len(<<>>) = 0
    BY DEF IsName
  <2>2. Len(s) = 0 => s = <<>>
    BY <1>1, <2>1, SameText
  <2> QED
    BY <1>1, <2>2, NameSeq
<1>3. TrimRight(s) = s
  BY <1>1, TrimRightKeeps
<1> DEFINE r == Reverse(s)
           n == Len(s)
<1>4. IsName(r) /\ Len(r) = n /\ \A i \in 1 .. n : r[i] = s[(n - i) + 1]
  BY <1>1, ReverseIs
<1>5. n \in 1 .. n /\ (n - n) + 1 = 1
  BY <1>2
<1> HIDE DEF r
<1>6. r[n] # Blank /\ r # <<>>
  BY <1>1, <1>2, <1>4, <1>5
<1>7. TrimRight(r) = r
  BY <1>4, <1>6, TrimRightKeeps
<1>8. IsName(Reverse(r)) /\ Len(Reverse(r)) = n /\ \A i \in 1 .. n : Reverse(r)[i] = r[(n - i) + 1]
  BY <1>4, ReverseIs
<1>9. ASSUME NEW i \in 1 .. n PROVE Reverse(r)[i] = s[i]
  <2>1. (n - i) + 1 \in 1 .. n /\ (n - ((n - i) + 1)) + 1 = i
    BY <1>2
  <2> HIDE DEF n
  <2> QED
    BY <1>4, <1>8, <2>1
<1>10. Reverse(r) = s
  BY <1>1, <1>8, <1>9, SameText
<1> QED
  BY <1>2, <1>3, <1>7, <1>10 DEF TrimSpace, r

-----------------------------------------------------------------------------
(***************************************************************************)
(* The profiles that can be made.                                          *)
(***************************************************************************)
MadeFor(p, c) ==
  \E panel \in Panels, n \in 1 .. 120 :
    /\ Neat(p.Name) /\ UserVersionFits(c.user) /\ FPGAVersionFits(c.fpga)
    /\ p = [Model |-> panel.model, TypeCode |-> panel.type, KeyCount |-> n, Name |-> p.Name,
            Labels |-> DefaultEmulationLabels(panel.model, n),
            UserVersion |-> ParseUserVersion(c.user), FPGAVersion |-> ParseFPGAVersion(c.fpga)]

\* The selected profile is the one in force and was made from the section.
ProfileIInv ==
  /\ cfg \in Configs
  /\ profile = asked
  /\ profile # Nil => MadeFor(profile, cfg)

\* A profile made from a model and a name.
LEMMA MakesRight ==
  ASSUME ProfileAssumption, NEW c \in Configs, NEW name, IsName(name), NEW model,
         ApplyEmulationVersions(NewEmulationProfile(model, name, c.keys), c.user, c.fpga) # Nil
  PROVE  MadeFor(ApplyEmulationVersions(NewEmulationProfile(model, name, c.keys), c.user, c.fpga), c)
<1> DEFINE made == NewEmulationProfile(model, name, c.keys)
           p == ApplyEmulationVersions(made, c.user, c.fpga)
           panel == CHOOSE x \in Panels : x.model = model
           n == IF c.keys > 0 THEN c.keys ELSE panel.keys
           text == IF TrimSpace(name) = <<>> THEN NameOf(model, Nil) ELSE TrimSpace(name)
           labels == DefaultEmulationLabels(model, n)
           user == ParseUserVersion(c.user)
           fpga == ParseFPGAVersion(c.fpga)
<1>1. /\ made # Nil /\ UserVersionFits(c.user) /\ FPGAVersionFits(c.fpga)
      /\ p = [made EXCEPT !.UserVersion = user, !.FPGAVersion = fpga]
  <2>1. p # Nil
    OBVIOUS
  <2> HIDE DEF made
  <2> QED
    BY <2>1, Zenon DEF ApplyEmulationVersions
<1> HIDE DEF made
<1>2. KeysAllowed(c.keys) /\ \E x \in Panels : x.model = model
  BY <1>1 DEF NewEmulationProfile, made
<1>3. made = [Model |-> model, TypeCode |-> panel.type, KeyCount |-> n, Name |-> text, Labels |-> labels,
              UserVersion |-> <<1, 3, 0, 0>>, FPGAVersion |-> 0]
  BY <1>1 DEF NewEmulationProfile, made
<1>4. panel \in Panels /\ panel.model = model
  BY <1>2
<1> HIDE DEF panel
<1>5. n \in 1 .. 120
  <2>1. c.keys \in Int
    BY DEF ProfileAssumption
  <2>2. panel.keys \in 4 .. 24
    BY <1>4 DEF Panels
  <2> QED
    BY <1>2, <2>1, <2>2 DEF KeysAllowed
<1>6. Neat(text)
  <2>1. CASE TrimSpace(name) = <<>>
    BY <1>4, <2>1 DEF ProfileAssumption
  <2>2. CASE TrimSpace(name) # <<>>
    BY <2>2, TrimSpaceNeat
  <2> QED
    BY <2>1, <2>2
<1> HIDE DEF n, text, labels, user, fpga, p
<1>7. p = [Model |-> model, TypeCode |-> panel.type, KeyCount |-> n, Name |-> text, Labels |-> labels,
           UserVersion |-> user, FPGAVersion |-> fpga]
  BY <1>1, <1>3
<1>8. p.Name = text
  BY <1>7
<1> QED
  BY <1>1, <1>4, <1>5, <1>6, <1>7, <1>8 DEF MadeFor, p, made, labels, user, fpga

\* A profile made from the type of a port.
LEMMA TargetRight ==
  ASSUME ProfileAssumption, NEW c \in Configs, NEW code, FromTarget(code, c) # Nil
  PROVE  MadeFor(FromTarget(code, c), c)
<1> DEFINE model == {p.model : p \in {q \in Panels : q.type = code % 256}}
           m == CHOOSE x \in model : TRUE
           name == IF TrimSpace(c.name) = <<>> THEN NameOf(m, Port) ELSE TrimSpace(c.name)
<1>1. /\ model # {}
      /\ FromTarget(code, c) = ApplyEmulationVersions(NewEmulationProfile(m, name, c.keys), c.user, c.fpga)
  BY DEF FromTarget
<1>2. m \in model
  BY <1>1
<1> HIDE DEF m
<1>3. PICK panel \in Panels : panel.model = m
  BY <1>2
<1>4. IsName(name)
  <2>1. Neat(NameOf(m, Port))
    BY <1>3 DEF ProfileAssumption
  <2>2. IsName(c.name)
    BY DEF ProfileAssumption
  <2>3. TrimSpace(c.name) # <<>> => Neat(TrimSpace(c.name))
    BY <2>2, TrimSpaceNeat
  <2> QED
    BY <2>1, <2>3 DEF Neat
<1> HIDE DEF name
<1> QED
  BY <1>1, <1>4, MakesRight

\* Of two profiles made from a section, those that setEmulation takes for the same are.
LEMMA SameIsEqual ==
  ASSUME NEW p, NEW q, NEW c, MadeFor(p, c), MadeFor(q, c), Same(p, q)
  PROVE  p = q
<1> DEFINE user == ParseUserVersion(c.user)
           fpga == ParseFPGAVersion(c.fpga)
<1>1. PICK a \in Panels, n \in 1 .. 120 :
        p = [Model |-> a.model, TypeCode |-> a.type, KeyCount |-> n, Name |-> p.Name,
             Labels |-> DefaultEmulationLabels(a.model, n), UserVersion |-> user, FPGAVersion |-> fpga]
  BY DEF MadeFor
<1>2. PICK b \in Panels, k \in 1 .. 120 :
        q = [Model |-> b.model, TypeCode |-> b.type, KeyCount |-> k, Name |-> q.Name,
             Labels |-> DefaultEmulationLabels(b.model, k), UserVersion |-> user, FPGAVersion |-> fpga]
  BY DEF MadeFor
<1> HIDE DEF user, fpga
<1>3. /\ p.Model = a.model /\ q.Model = b.model /\ p.KeyCount = n /\ q.KeyCount = k
      /\ p.TypeCode = a.type /\ q.TypeCode = b.type
  BY <1>1, <1>2
<1>4. a.model = b.model /\ a.type = b.type /\ n = k /\ p.Name = q.Name
  BY <1>3 DEF Same
<1> QED
  BY <1>1, <1>2, <1>4

\* Every profile that is made or found keeps to it.
LEMMA ProfileInductive ==
  ASSUME ProfileAssumption
  PROVE  /\ ProfileInit => ProfileIInv
         /\ ProfileIInv /\ [ProfileNext]_profileVars => ProfileIInv'
<1>1. ASSUME ProfileInit PROVE ProfileIInv
  <2>1. IsName(cfg.name) /\ cfg \in Configs
    BY <1>1 DEF ProfileInit, ProfileAssumption
  <2>2. profile # Nil => MadeFor(profile, cfg)
    <3> SUFFICES ASSUME profile # Nil PROVE MadeFor(profile, cfg)
      OBVIOUS
    <3>1. profile = ApplyEmulationVersions(NewEmulationProfile(cfg.device, cfg.name, cfg.keys), cfg.user, cfg.fpga)
      BY <1>1 DEF ProfileInit
    <3> QED
      BY <2>1, <3>1, MakesRight
  <2> QED
    BY <1>1, <2>1, <2>2 DEF ProfileInit, ProfileIInv
<1>2. ASSUME ProfileIInv, NEW code \in Codes, Detect(code) PROVE ProfileIInv'
  <2> DEFINE next == FromTarget(code, cfg)
  <2>1. /\ cfg \in Configs /\ next # Nil /\ cfg' = cfg /\ asked' = next
        /\ profile' = IF profile # Nil /\ Same(profile, next) THEN profile ELSE next
    BY <1>2 DEF Detect, ProfileIInv
  <2>2. MadeFor(next, cfg)
    BY <2>1, TargetRight
  <2> HIDE DEF next
  <2>3. profile' = next
    <3>1. profile # Nil /\ Same(profile, next) => profile = next
      BY <1>2, <2>2, SameIsEqual DEF ProfileIInv
    <3> QED
      BY <2>1, <3>1
  <2> QED
    BY <2>1, <2>2, <2>3 DEF ProfileIInv
<1>3. ASSUME ProfileIInv, UNCHANGED profileVars PROVE ProfileIInv'
  BY <1>3 DEF ProfileIInv, profileVars
<1> QED
  BY <1>1, <1>2, <1>3 DEF ProfileNext

-----------------------------------------------------------------------------
(***************************************************************************)
(* What a profile shows and sends.                                         *)
(***************************************************************************)
LEMMA KeysFit ==
  ASSUME ProfileIInv
  PROVE  PanelFits
<1> SUFFICES ASSUME profile # Nil
             PROVE  LET groups == BitmapGroupCount(profile.KeyCount) IN
                      /\ groups \in 1 .. 15
                      /\ profile.KeyCount <= 8 * groups /\ 8 * groups < profile.KeyCount + 8
                      /\ Len(profile.Labels) = profile.KeyCount
  BY DEF PanelFits
<1>1. PICK panel \in Panels, n \in 1 .. 120 :
        profile.KeyCount = n /\ profile.Labels = DefaultEmulationLabels(panel.model, n)
  BY DEF ProfileIInv, MadeFor
<1>2. Len(profile.Labels) = n
  <2> DEFINE label(k) == IF panel.model = "BP7100" /\ k <= 4 THEN <<"named", k>> ELSE <<"K", k>>
  <2>1. profile.Labels = [k \in 1 .. n |-> label(k)]
    BY <1>1 DEF DefaultEmulationLabels
  <2> DEFINE A == {label(k) : k \in 1 .. n}
             labels == [k \in 1 .. n |-> label(k)]
  <2> HIDE DEF label
  <2>2. \A k \in 1 .. n : label(k) \in A
    OBVIOUS
  <2> HIDE DEF A
  <2>3. labels \in Seq(A)
    BY <2>2, IsASeq
  <2>4. DOMAIN labels = 1 .. n
    OBVIOUS
  <2> HIDE DEF labels
  <2>5. Len(labels) \in Nat /\ DOMAIN labels = 1 .. Len(labels)
    BY <2>3, LenProperties
  <2>6. Len(labels) = n
    BY <2>4, <2>5
  <2> QED
    BY <2>1, <2>6 DEF labels
<1> QED
  BY <1>1, <1>2 DEF BitmapGroupCount

\* The code of a printable name: as much of it as there is room for, and blanks.
LEMMA CodeIs ==
  ASSUME ProfileAssumption, NEW p, Neat(p.Name), Printable(p.Name),
         NEW m \in Nat, m = IF Len(p.Name) < Width THEN Len(p.Name) ELSE Width
  PROVE  /\ EmulationIdentityCode(p) \in Seq(ToSet(p.Name) \union {Blank})
         /\ Len(EmulationIdentityCode(p)) = Width
         /\ \A i \in 1 .. Width : EmulationIdentityCode(p)[i] = IF i <= m THEN p.Name[i] ELSE Blank
<1> DEFINE name == p.Name
           S == ToSet(name) \union {Blank}
           text == [i \in 1 .. m |-> name[i]]
           pad == [i \in 1 .. Width - m |-> Blank]
<1>1. IsName(name) /\ TrimSpace(name) = name /\ name # <<>> /\ Width \in Nat \ {0}
  BY TrimSpaceKeeps DEF Neat, ProfileAssumption
<1>2. Len(name) \in Nat /\ \A i \in 1 .. Len(name) : name[i] \in S /\ name[i] # Odd
  BY <1>1, NameSeq DEF Printable
<1>3. m <= Len(name) /\ m <= Width
  BY <1>1, <1>2
<1>4. Written(name) = text
  <2>1. (IF Len(name) >= Width /\ name[Width] # Odd THEN Width ELSE Len(name)) = m
    BY <1>1, <1>2
  <2>2. Written(name) = [i \in 1 .. m |-> IF name[i] = Odd THEN Underscore ELSE name[i]]
    BY <2>1 DEF Written
  <2> QED
    BY <1>2, <1>3, <2>2
<1> HIDE DEF name, S
<1>5. text \in Seq(S) /\ Len(text) = m
  BY <1>2, <1>3, IsASeq
<1>6. Width - m \in Nat
  BY <1>1, <1>3
<1>7. pad \in Seq(S) /\ Len(pad) = Width - m
  <2> DEFINE k == Width - m
  <2> HIDE DEF k
  <2>1. Blank \in S
    BY DEF S
  <2>2. [i \in 1 .. k |-> Blank] \in Seq(S)
    BY <1>6, <2>1, IsASeq DEF k
  <2>3. k \in Nat => Len([i \in 1 .. k |-> Blank]) = k
    OBVIOUS
  <2> QED
    BY <1>6, <2>2, <2>3 DEF k
<1>8. EmulationIdentityCode(p) = text \o pad
  BY <1>1, <1>4, <1>5 DEF EmulationIdentityCode, name
<1>9. \A i \in 1 .. m : text[i] = name[i]
  OBVIOUS
<1>10. \A i \in 1 .. Width - m : pad[i] = Blank
  OBVIOUS
<1> HIDE DEF text, pad
<1> DEFINE both == text \o pad
<1>11. /\ both \in Seq(S) /\ Len(both) = m + (Width - m)
       /\ \A i \in 1 .. m + (Width - m) : both[i] = IF i <= m THEN text[i] ELSE pad[i - m]
  <2> HIDE DEF both
  <2>1. /\ text \o pad \in Seq(S) /\ Len(text \o pad) = Len(text) + Len(pad)
        /\ \A i \in 1 .. Len(text) + Len(pad) :
             (text \o pad)[i] = IF i <= Len(text) THEN text[i] ELSE pad[i - Len(text)]
    BY <1>5, <1>7, ConcatProperties, Zenon
  <2> QED
    BY <1>5, <1>7, <2>1, Zenon DEF both
<1> HIDE DEF both
<1>12. m + (Width - m) = Width
  BY <1>1
<1>13. ASSUME NEW i \in 1 .. Width PROVE both[i] = IF i <= m THEN name[i] ELSE Blank
  <2>1. i <= m => both[i] = name[i]
    BY <1>9, <1>11, <1>12
  <2>2. ~(i <= m) => both[i] = Blank
    BY <1>1, <1>10, <1>11, <1>12
  <2> QED
    BY <2>1, <2>2
<1> QED
  BY <1>8, <1>11, <1>12, <1>13 DEF both, name, S

\* The name that is read from the code is what fits of the name.
LEMMA NameRead ==
  ASSUME ProfileAssumption, NEW p, Neat(p.Name), Printable(p.Name)
  PROVE  TrimRight(EmulationIdentityCode(p)) =
           TrimRight(SubSeq(p.Name, 1, IF Len(p.Name) < Width THEN Len(p.Name) ELSE Width))
<1> DEFINE name == p.Name
           m == IF Len(name) < Width THEN Len(name) ELSE Width
           code == EmulationIdentityCode(p)
           cut == SubSeq(name, 1, m)
<1>1. IsName(name) /\ Len(name) \in Nat /\ Width \in Nat \ {0}
  BY NameSeq DEF Neat, ProfileAssumption
<1>2. m \in Nat /\ m \in 0 .. Len(name) /\ m <= Width
  BY <1>1
<1>3. /\ code \in Seq(ToSet(name) \union {Blank}) /\ Len(code) = Width
      /\ \A i \in 1 .. Width : code[i] = IF i <= m THEN name[i] ELSE Blank
  BY <1>2, CodeIs
<1>4. IsName(code)
  BY <1>3, SeqIsName, Zenon
<1> HIDE DEF code, name, m
<1>5. IsName(cut) /\ Len(cut) = m /\ \A i \in 1 .. m : cut[i] = name[i]
  BY <1>1, <1>2, PrefixIs
<1> HIDE DEF cut
<1>6. PICK n \in 0 .. m :
        /\ n = 0 \/ cut[n] # Blank
        /\ \A i \in 1 .. m : cut[i] # Blank => i <= n
        /\ TrimRight(cut) = SubSeq(cut, 1, n)
  BY <1>5, TrimRightEnds
<1>7. n \in 0 .. Len(code) /\ \A i \in 1 .. n : code[i] = cut[i] /\ i \in 1 .. m
  BY <1>1, <1>2, <1>3, <1>5
<1>8. n = 0 \/ code[n] # Blank
  BY <1>6, <1>7
<1>9. \A i \in 1 .. Len(code) : code[i] # Blank => i <= n
  BY <1>1, <1>2, <1>3, <1>5, <1>6
<1>10. TrimRight(code) = SubSeq(code, 1, n)
  BY <1>4, <1>7, <1>8, <1>9, TrimRightAt
<1>11. /\ IsName(SubSeq(code, 1, n)) /\ Len(SubSeq(code, 1, n)) = n
       /\ \A i \in 1 .. n : SubSeq(code, 1, n)[i] = code[i]
  BY <1>4, <1>7, PrefixIs
<1>12. /\ IsName(SubSeq(cut, 1, n)) /\ Len(SubSeq(cut, 1, n)) = n
       /\ \A i \in 1 .. n : SubSeq(cut, 1, n)[i] = cut[i]
  BY <1>5, <1>6, PrefixIs
<1> DEFINE a == SubSeq(code, 1, n)
           b == SubSeq(cut, 1, n)
<1>13. IsName(a) /\ IsName(b) /\ Len(a) = Len(b) /\ \A i \in 1 .. Len(a) : a[i] = b[i]
  BY <1>7, <1>11, <1>12
<1> HIDE DEF a, b
<1>14. a = b
  BY <1>13, SameText
<1> QED
  BY <1>6, <1>10, <1>14 DEF a, b, cut, code, m, name

Placed(payload, w, head, code, user, tail) ==
  /\ Len(payload) = w + 8
  /\ payload[3] = head[3]
  /\ \A i \in 1 .. w : payload[3 + i] = code[i]
  /\ \A i \in 1 .. 4 : payload[(w + 3) + i] = user[i]
  /\ payload[w + 8] = tail[1]

\* A payload: three bytes, the code, the four bytes of one version and the byte of the other.
LEMMA PayloadIs ==
  ASSUME NEW S, NEW head \in Seq(S), NEW code \in Seq(S), NEW user \in Seq(S), NEW tail \in Seq(S),
         NEW w \in Nat, Len(head) = 3, Len(code) = w, Len(user) = 4, Len(tail) = 1,
         NEW payload, payload = head \o code \o user \o tail
  PROVE  payload \in Seq(S) /\ Placed(payload, w, head, code, user, tail)
<1> DEFINE one == head \o code
           two == one \o user
           all == two \o tail
<1>1. /\ one \in Seq(S) /\ Len(one) = 3 + w
      /\ \A i \in 1 .. 3 + w : one[i] = IF i <= 3 THEN head[i] ELSE code[i - 3]
  <2> HIDE DEF one
  <2>1. /\ head \o code \in Seq(S) /\ Len(head \o code) = Len(head) + Len(code)
        /\ \A i \in 1 .. Len(head) + Len(code) :
             (head \o code)[i] = IF i <= Len(head) THEN head[i] ELSE code[i - Len(head)]
    BY ConcatProperties, Zenon
  <2> QED
    BY <2>1, Zenon DEF one
<1> HIDE DEF one
<1>2. /\ two \in Seq(S) /\ Len(two) = (3 + w) + 4
      /\ \A i \in 1 .. (3 + w) + 4 : two[i] = IF i <= 3 + w THEN one[i] ELSE user[i - (3 + w)]
  <2> HIDE DEF two
  <2>1. /\ one \o user \in Seq(S) /\ Len(one \o user) = Len(one) + Len(user)
        /\ \A i \in 1 .. Len(one) + Len(user) :
             (one \o user)[i] = IF i <= Len(one) THEN one[i] ELSE user[i - Len(one)]
    BY <1>1, ConcatProperties, Zenon
  <2> QED
    BY <1>1, <2>1, Zenon DEF two
<1> HIDE DEF two
<1>3. /\ all \in Seq(S) /\ Len(all) = ((3 + w) + 4) + 1
      /\ \A i \in 1 .. ((3 + w) + 4) + 1 : all[i] = IF i <= (3 + w) + 4 THEN two[i] ELSE tail[i - ((3 + w) + 4)]
  <2> HIDE DEF all
  <2>1. /\ two \o tail \in Seq(S) /\ Len(two \o tail) = Len(two) + Len(tail)
        /\ \A i \in 1 .. Len(two) + Len(tail) :
             (two \o tail)[i] = IF i <= Len(two) THEN two[i] ELSE tail[i - Len(two)]
    BY <1>2, ConcatProperties, Zenon
  <2> QED
    BY <1>2, <2>1, Zenon DEF all
<1> HIDE DEF all
<1>4. Len(all) = w + 8
  BY <1>3
<1> DEFINE a(i) == 3 + i
           c(i) == (w + 3) + i
           z == w + 8
<1>5. all[3] = head[3]
  <2>1. 3 \in 1 .. 3 + w /\ 3 \in 1 .. (3 + w) + 4 /\ 3 \in 1 .. ((3 + w) + 4) + 1
        /\ 3 <= 3 /\ 3 <= 3 + w /\ 3 <= (3 + w) + 4
    OBVIOUS
  <2>2. all[3] = two[3]
    BY <1>3, <2>1, Zenon
  <2>3. two[3] = one[3]
    BY <1>2, <2>1, Zenon
  <2>4. one[3] = head[3]
    BY <1>1, <2>1, Zenon
  <2> QED
    BY <2>2, <2>3, <2>4, Zenon
<1>6. ASSUME NEW i \in 1 .. w PROVE all[a(i)] = code[i]
  <2>1. /\ a(i) \in 1 .. 3 + w /\ a(i) \in 1 .. (3 + w) + 4 /\ a(i) \in 1 .. ((3 + w) + 4) + 1
        /\ ~(a(i) <= 3) /\ a(i) <= 3 + w /\ a(i) <= (3 + w) + 4 /\ a(i) - 3 = i
    OBVIOUS
  <2> HIDE DEF a
  <2>2. all[a(i)] = two[a(i)] /\ two[a(i)] = one[a(i)] /\ one[a(i)] = code[a(i) - 3]
    BY <1>1, <1>2, <1>3, <2>1, Zenon
  <2> QED
    BY <2>1, <2>2, Zenon
<1>7. ASSUME NEW i \in 1 .. 4 PROVE all[c(i)] = user[i]
  <2>1. /\ c(i) \in 1 .. (3 + w) + 4 /\ c(i) \in 1 .. ((3 + w) + 4) + 1
        /\ ~(c(i) <= 3 + w) /\ c(i) <= (3 + w) + 4 /\ c(i) - (3 + w) = i
    OBVIOUS
  <2> HIDE DEF c
  <2>2. all[c(i)] = two[c(i)] /\ two[c(i)] = user[c(i) - (3 + w)]
    BY <1>2, <1>3, <2>1, Zenon
  <2> QED
    BY <2>1, <2>2, Zenon
<1>8. all[z] = tail[1]
  <2>1. z \in 1 .. ((3 + w) + 4) + 1 /\ ~(z <= (3 + w) + 4) /\ z - ((3 + w) + 4) = 1
    OBVIOUS
  <2> HIDE DEF z
  <2>2. all[z] = tail[z - ((3 + w) + 4)]
    BY <1>3, <2>1, Zenon
  <2> QED
    BY <2>1, <2>2, Zenon
<1>9. payload = all
  BY DEF all, two, one
<1> QED
  BY <1>3, <1>4, <1>5, <1>6, <1>7, <1>8, <1>9, Zenon DEF Placed

\* Versions come back from their bytes.
LEMMA UserVersionRead ==
  ASSUME NEW x \in Int, NEW y \in Int, NEW z \in Int, UserVersionFits(<<x, y, z>>)
  PROVE  /\ ParseUserVersion(<<x, y, z>>) \in Seq(Int) /\ Len(ParseUserVersion(<<x, y, z>>)) = 4
         /\ \A i \in 1 .. 4 : ParseUserVersion(<<x, y, z>>)[i] \in 0 .. 255
         /\ \A b : (\A i \in 1 .. 4 : b[i] = ParseUserVersion(<<x, y, z>>)[i]) => FormatUserVersion(b) = <<x, y, z>>
<1> DEFINE h == z \div 256
           l == z % 256
<1>2. h \in Int /\ l \in Int /\ h * 256 + l = z
  OBVIOUS
<1>6. x \in 0 .. 255 /\ y \in 0 .. 255 /\ h \in 0 .. 255 /\ l \in 0 .. 255
  <2>1. x \in 0 .. 255 /\ y \in 0 .. 255
    BY DEF UserVersionFits
  <2>2. 0 <= z /\ z < 256 * 256
    BY DEF UserVersionFits
  <2>3. h \in 0 .. 255 /\ l \in 0 .. 255
    BY <2>2
  <2> QED
    BY <2>1, <2>3
<1>3. ParseUserVersion(<<x, y, z>>) = <<x, y, h, l>>
  BY DEF ParseUserVersion
<1> HIDE DEF h, l
<1>4. <<x, y, h, l>> \in Seq(Int) /\ Len(<<x, y, h, l>>) = 4
  BY <1>2
<1>5. ASSUME NEW b, \A i \in 1 .. 4 : b[i] = <<x, y, h, l>>[i] PROVE FormatUserVersion(b) = <<x, y, z>>
  <2>1. b[1] = x /\ b[2] = y /\ b[3] = h /\ b[4] = l
    BY <1>5
  <2> QED
    BY <1>2, <2>1 DEF FormatUserVersion
<1> QED
  <2>1. ASSUME NEW i \in 1 .. 4 PROVE <<x, y, h, l>>[i] \in 0 .. 255
    BY <1>6
  <2> QED
    BY <1>3, <1>4, <1>5, <2>1

LEMMA FPGAVersionRead ==
  ASSUME NEW v \in Int \X Int, FPGAVersionFits(v)
  PROVE  ParseFPGAVersion(v) \in 0 .. 255 /\ FormatFPGAVersion(ParseFPGAVersion(v)) = v
<1>1. PICK x \in Int, y \in Int : v = <<x, y>>
  OBVIOUS
<1>2. x \in 0 .. 15 /\ y \in 0 .. 15
  BY <1>1 DEF FPGAVersionFits
<1>3. ParseFPGAVersion(v) = x * 16 + y
  BY <1>1 DEF ParseFPGAVersion
<1>4. (x * 16 + y) \div 16 = x /\ (x * 16 + y) % 16 = y
  BY <1>2
<1>5. x * 16 + y \in 0 .. 255
  BY <1>2
<1> QED
  BY <1>1, <1>3, <1>4, <1>5 DEF FormatFPGAVersion

\* The identity of a profile made from the section.
LEMMA IdentityReads ==
  ASSUME ProfileAssumption, ProfileIInv
  PROVE  IdentityRead
<1> DEFINE name == profile.Name
           payload == IdentityPayload(profile)
           m == IF Len(name) < Width THEN Len(name) ELSE Width
<1> SUFFICES ASSUME profile # Nil, Printable(name)
             PROVE  /\ Len(payload) = Width + 8
                    /\ payload[3] \in {x.type : x \in Panels}
                    /\ ParseIdentityText(payload) = TrimRight(SubSeq(name, 1, m))
                    /\ \A i \in Width + 4 .. Width + 8 : payload[i] \in 0 .. 255
                    /\ FormatUserVersion(SubSeq(payload, Width + 4, Width + 7)) = cfg.user
                    /\ FormatFPGAVersion(payload[Width + 8]) = cfg.fpga
  BY DEF IdentityRead
<1>1. PICK panel \in Panels, n \in 1 .. 120 :
        /\ Neat(name) /\ UserVersionFits(cfg.user) /\ FPGAVersionFits(cfg.fpga)
        /\ profile = [Model |-> panel.model, TypeCode |-> panel.type, KeyCount |-> n, Name |-> name,
                      Labels |-> DefaultEmulationLabels(panel.model, n),
                      UserVersion |-> ParseUserVersion(cfg.user), FPGAVersion |-> ParseFPGAVersion(cfg.fpga)]
  BY DEF ProfileIInv, MadeFor
<1>2. /\ profile.TypeCode = panel.type /\ profile.UserVersion = ParseUserVersion(cfg.user)
      /\ profile.FPGAVersion = ParseFPGAVersion(cfg.fpga)
  <2> HIDE DEF name
  <2> QED
    BY <1>1
<1>3. panel.type \in Int /\ panel.type # 0 /\ panel.type \in {x.type : x \in Panels}
  BY DEF Panels
<1>4. cfg.user \in Int \X Int \X Int /\ cfg.fpga \in Int \X Int /\ Width \in Nat \ {0}
  BY DEF ProfileIInv, ProfileAssumption
<1> DEFINE S == Int \union (ToSet(name) \union {Blank})
           head == <<73, 208, panel.type>>
           code == EmulationIdentityCode(profile)
           user == ParseUserVersion(cfg.user)
           fpga == ParseFPGAVersion(cfg.fpga)
           tail == <<fpga>>
<1>5. IdentityTypeCode(profile) = panel.type
  BY <1>2, <1>3 DEF IdentityTypeCode
<1>6. payload = head \o code \o user \o tail
  BY <1>2, <1>5, Zenon DEF IdentityPayload
<1>7. m \in Nat /\ Len(name) \in Nat
  BY <1>1, <1>4, NameSeq DEF Neat
<1>8. code \in Seq(ToSet(name) \union {Blank}) /\ Len(code) = Width
  <2> HIDE DEF m
  <2>1. m = IF Len(profile.Name) < Width THEN Len(profile.Name) ELSE Width
    BY DEF m
  <2> QED
    BY <1>1, <1>7, <2>1, CodeIs, Zenon
<1>9. /\ user \in Seq(Int) /\ Len(user) = 4
      /\ \A b : (\A i \in 1 .. 4 : b[i] = user[i]) => FormatUserVersion(b) = cfg.user
      /\ \A i \in 1 .. 4 : user[i] \in 0 .. 255
      /\ fpga \in 0 .. 255 /\ FormatFPGAVersion(fpga) = cfg.fpga
  <2>1. PICK x \in Int, y \in Int, z \in Int : cfg.user = <<x, y, z>>
    BY <1>4
  <2>2. /\ ParseUserVersion(<<x, y, z>>) \in Seq(Int) /\ Len(ParseUserVersion(<<x, y, z>>)) = 4
        /\ \A b : (\A i \in 1 .. 4 : b[i] = ParseUserVersion(<<x, y, z>>)[i]) => FormatUserVersion(b) = <<x, y, z>>
        /\ \A i \in 1 .. 4 : ParseUserVersion(<<x, y, z>>)[i] \in 0 .. 255
    BY <1>1, <2>1, UserVersionRead
  <2>3. fpga \in 0 .. 255 /\ FormatFPGAVersion(fpga) = cfg.fpga
    BY <1>1, <1>4, FPGAVersionRead
  <2> QED
    BY <2>1, <2>2, <2>3, Zenon
<1>10. TrimRight(code) = TrimRight(SubSeq(name, 1, m))
  BY <1>1, NameRead, Zenon
<1> HIDE DEF code, user, fpga, payload, name, m
<1>11. /\ head \in Seq(Int) /\ Len(head) = 3 /\ head[3] = panel.type
       /\ tail \in Seq(Int) /\ Len(tail) = 1 /\ tail[1] = fpga
  <2>1. fpga \in 0 .. 255
    BY <1>9, Zenon
  <2>2. fpga \in Int
    BY <2>1
  <2>3. panel.type \in Int /\ fpga \in Int
    BY <1>3, <2>2, Zenon
  <2> QED
    BY <2>3
<1>12. head \in Seq(S) /\ code \in Seq(S) /\ user \in Seq(S) /\ tail \in Seq(S)
  <2> DEFINE A == ToSet(name) \union {Blank}
  <2> HIDE DEF A, head, tail
  <2>1. \A q : (q \in Seq(Int) => q \in Seq(Int \union A)) /\ (q \in Seq(A) => q \in Seq(Int \union A))
    OBVIOUS
  <2> QED
    BY <1>8, <1>9, <1>11, <2>1, Zenon DEF A
<1> HIDE DEF S, head, tail
<1>13. /\ payload \in Seq(S) /\ Len(payload) = Width + 8
       /\ payload[3] = head[3]
       /\ \A i \in 1 .. Width : payload[3 + i] = code[i]
       /\ \A i \in 1 .. 4 : payload[(Width + 3) + i] = user[i]
       /\ payload[Width + 8] = tail[1]
  <2>1. Width \in Nat
    BY <1>4
  <2>2. /\ Len(head) = 3 /\ Len(code) = Width /\ Len(user) = 4 /\ Len(tail) = 1
        /\ payload = head \o code \o user \o tail
    BY <1>6, <1>8, <1>9, <1>11
  <2> QED
    <3>1. payload \in Seq(S) /\ Placed(payload, Width, head, code, user, tail)
      BY <1>12, <2>1, <2>2, PayloadIs, Zenon
    <3> QED
      BY <3>1, Zenon DEF Placed
<1>14. \A i \in 1 .. Width + 8 : payload[i] \in S
  BY <1>13, LenProperties
<1>15. ParseIdentityText(payload) = TrimRight(code)
  <2> DEFINE k == 3 + Width
             part == SubSeq(payload, 4, k)
  <2>1. k \in Int /\ 4 \in Int /\ (\A i \in 4 .. k : payload[i] \in S) /\ k - 4 + 1 = Width /\ 4 <= k
    BY <1>4, <1>14
  <2>2. /\ part \in Seq(S) /\ Len(part) = (IF 4 <= k THEN k - 4 + 1 ELSE 0)
        /\ \A i \in 1 .. k - 4 + 1 : part[i] = payload[4 + i - 1]
    <3> HIDE DEF k
    <3> QED
      BY <2>1, SubSeqProperties
  <2> HIDE DEF part
  <2>3. Len(part) = Width /\ \A i \in 1 .. Width : part[i] = payload[4 + i - 1]
    BY <2>1, <2>2
  <2>4. ASSUME NEW i \in 1 .. Width PROVE part[i] = code[i]
    <3>1. 4 + i - 1 = 3 + i
      BY <1>4
    <3> QED
      BY <1>13, <2>3, <3>1
  <2>5. part = code
    BY <1>8, <1>12, <2>2, <2>3, <2>4, SeqEqual
  <2> QED
    BY <2>5 DEF ParseIdentityText, part
<1>16. FormatUserVersion(SubSeq(payload, Width + 4, Width + 7)) = cfg.user
  <2> DEFINE f == Width + 4
             k == Width + 7
             part == SubSeq(payload, f, k)
  <2>1. k \in Int /\ f \in Int /\ (\A i \in f .. k : payload[i] \in S) /\ k - f + 1 = 4
    BY <1>4, <1>14
  <2>2. \A i \in 1 .. k - f + 1 : part[i] = payload[f + i - 1]
    <3> HIDE DEF k, f
    <3> QED
      BY <2>1, SubSeqProperties
  <2> HIDE DEF part
  <2>3. ASSUME NEW i \in 1 .. 4 PROVE part[i] = user[i]
    <3>1. f + i - 1 = (Width + 3) + i /\ i \in 1 .. k - f + 1
      BY <1>4, <2>1
    <3> QED
      BY <1>13, <2>2, <3>1
  <2> QED
    BY <1>9, <2>3, Zenon DEF part
<1>17. ASSUME NEW i \in Width + 4 .. Width + 8 PROVE payload[i] \in 0 .. 255
  <2>1. CASE i = Width + 8
    BY <1>9, <1>11, <1>13, <2>1
  <2>2. CASE i # Width + 8
    <3>1. i - Width - 3 \in 1 .. 4 /\ (Width + 3) + (i - Width - 3) = i
      BY <1>4, <2>2
    <3>2. payload[(Width + 3) + (i - Width - 3)] = user[i - Width - 3]
      BY <1>13, <3>1, Zenon
    <3>3. user[i - Width - 3] \in 0 .. 255
      BY <1>9, <3>1, Zenon
    <3> QED
      BY <3>1, <3>2, <3>3, Zenon
  <2> QED
    BY <2>1, <2>2
<1> QED
  BY <1>3, <1>9, <1>10, <1>11, <1>13, <1>15, <1>16, <1>17

\* The profile in force is the one selected last, with its labels, its keys fit in its
\* bitmaps, and what the matrix reads from its identity is what was configured
\* (EmulationState, IdentityPayload).
THEOREM ProfileReadCorrect ==
  ASSUME ProfileAssumption
  PROVE  ProfileSpec => []ProfileRead
<1>1. ProfileInit => ProfileIInv
  BY ProfileInductive
<1>2. ProfileIInv /\ [ProfileNext]_profileVars => ProfileIInv'
  BY ProfileInductive
<1>3. ProfileIInv => ProfileRead
  BY KeysFit, IdentityReads DEF ProfileRead, ProfileIInv, InForce
<1> QED
  BY <1>1, <1>2, <1>3, PTL DEF ProfileSpec
=============================================================================
