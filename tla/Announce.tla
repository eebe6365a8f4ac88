------------------------------ MODULE Announce ------------------------------
(***************************************************************************)
(* How the gateway introduces the emulated panel to the matrix.            *)
(*                                                                         *)
(* The profile is configured, or selected from the port types that a       *)
(* matrix-names fetch returns; the peer is configured, or learned from the *)
(* first packet.  Either may come first, in goroutines of their own, and   *)
(* whoever completes the pair announces the profile: main at the start,    *)
(* the read loop when it learns the peer, a fetch when it selects a        *)
(* profile.  Each selection has an EmulationState, whose compare-and-swap  *)
(* is to let one of them through.                                          *)
(***************************************************************************)
EXTENDS Integers, Sequences, FiniteSets

CONSTANTS
  Profile,    \* emulation profiles
  None,       \* no profile: nil
  Fetcher     \* goroutines that fetch names, at startup or for a browser

ASSUME NoneAssumption == None \notin Profile
ASSUME NameAssumption == Fetcher \intersect {"main", "rx"} = {}

Process == {"main", "rx"} \union Fetcher

VARIABLES
  auto,       \* emulationAuto
  preset,     \* the configuration has a peer
  emu,        \* the profile selected
  selection,  \* which emuState: the number of selections made
  peer,       \* a peer address is known
  greeted,    \* the peer was learned from a packet without control bytes
  pc,         \* where each process is
  mine,       \* its copy of emu and emuState
  announced,  \* the states whose announced flag is set
  sent,       \* history: the selections whose identity frame was enqueued
  published   \* history: the selections published to the browsers

origin == <<auto, preset>>
current == <<emu, selection>>
link == <<peer, greeted>>
vars == <<origin, current, link, pc, mine, announced, sent, published>>

Goto(p, l) == pc' = [pc EXCEPT ![p] = l]
LoadEmulation(p) == mine' = [mine EXCEPT ![p] = current]    \* getEmulation

Init ==
  /\ auto \in BOOLEAN /\ preset \in BOOLEAN
  /\ emu \in IF auto THEN {None} ELSE Profile \union {None}
  /\ selection = 0
  /\ peer = preset
  /\ greeted = FALSE
  /\ pc = [p \in Process |-> CASE p = "main" -> "load" [] p = "rx" -> "read" [] OTHER -> "fetch"]
  /\ mine = [p \in Process |-> <<None, 0>>]
  /\ announced = {}
  /\ sent = <<>>
  /\ published = {}

-----------------------------------------------------------------------------
(***************************************************************************)
(* announceEmulationOnce, called by any process.                           *)
(***************************************************************************)

\* Mutant: the flag is not looked at.
AnnounceAgain(p) ==
  /\ pc[p] = "announce"
  /\ announced' = announced \union {mine[p][2]}
  /\ Goto(p, IF mine[p][1] = None THEN "done" ELSE "send")
  /\ UNCHANGED <<origin, current, link, mine, sent, published>>

\* Nothing without a profile, and the compare-and-swap of AnnounceOnce.
Announce(p) ==
  /\ pc[p] = "announce"
  /\ IF mine[p][1] = None \/ mine[p][2] \in announced
       THEN Goto(p, "done") /\ UNCHANGED announced
       ELSE Goto(p, "send") /\ announced' = announced \union {mine[p][2]}
  /\ UNCHANGED <<origin, current, link, mine, sent, published>>

\* sendPRTPFrameNormal of the identity frame.
SendIdentity(p) ==
  /\ pc[p] = "send"
  /\ sent' = Append(sent, mine[p][2])
  /\ Goto(p, "publish")
  /\ UNCHANGED <<origin, current, link, mine, announced, published>>

\* publishEmulationSnapshot to the hub.
Publish(p) ==
  /\ pc[p] = "publish"
  /\ published' = published \union {mine[p][2]}
  /\ Goto(p, "done")
  /\ UNCHANGED <<origin, current, link, mine, announced, sent>>

-----------------------------------------------------------------------------
(***************************************************************************)
(* Serve, before it starts the read loop.                                  *)
(***************************************************************************)

MainLoad ==
  /\ pc["main"] = "load"
  /\ LoadEmulation("main")
  /\ Goto("main", "peer")
  /\ UNCHANGED <<origin, current, link, announced, sent, published>>

MainPeer ==
  /\ pc["main"] = "peer"
  /\ Goto("main", IF mine["main"][1] # None /\ peer THEN "announce" ELSE "done")
  /\ UNCHANGED <<origin, current, link, mine, announced, sent, published>>

-----------------------------------------------------------------------------
(***************************************************************************)
(* The read loop, processPacket.                                           *)
(***************************************************************************)

\* setPeer, for the packet that makes a peer known.  With control bytes in the packet
\* the matrix is left to ask for the identity.
LearnPeer(control) ==
  /\ pc["main"] = "done" /\ pc["rx"] = "read"
  /\ ~preset /\ ~peer
  /\ peer' = TRUE
  /\ greeted' = ~control
  /\ Goto("rx", IF control THEN "done" ELSE "load")
  /\ UNCHANGED <<origin, current, mine, announced, sent, published>>

\* Mutant of RxLoad: the profile is the one known when the loop started.
RxLoadStale ==
  /\ pc["rx"] = "load"
  /\ Goto("rx", "announce")
  /\ UNCHANGED <<origin, current, link, mine, announced, sent, published>>
RxLoad ==
  /\ pc["rx"] = "load"
  /\ LoadEmulation("rx")
  /\ Goto("rx", "announce")
  /\ UNCHANGED <<origin, current, link, announced, sent, published>>

-----------------------------------------------------------------------------
(***************************************************************************)
(* applyAutoEmulation, when the names have come.                           *)
(***************************************************************************)

\* setEmulation.
Select(f, next) ==
  /\ pc[f] = "fetch" /\ auto /\ next # emu
  /\ emu' = next /\ selection' = selection + 1
  /\ mine' = [mine EXCEPT ![f] = <<next, selection'>>]
  /\ Goto(f, "peer")
  /\ UNCHANGED <<origin, link, announced, sent, published>>

\* The fetch fails, the target is no panel, the profile is the current one, or none is
\* wanted.
Pass(f) ==
  /\ pc[f] = "fetch"
  /\ Goto(f, "done")
  /\ UNCHANGED <<origin, current, link, mine, announced, sent, published>>

\* Without a peer the profile is only published.  Mutant: nothing is published.
FetchPeerOnly(f) ==
  /\ pc[f] = "peer"
  /\ Goto(f, IF peer THEN "announce" ELSE "done")
  /\ UNCHANGED <<origin, current, link, mine, announced, sent, published>>
FetchPeer(f) ==
  /\ pc[f] = "peer"
  /\ Goto(f, IF peer THEN "announce" ELSE "publish")
  /\ UNCHANGED <<origin, current, link, mine, announced, sent, published>>

Next ==
  \/ MainLoad \/ MainPeer
  \/ \E control \in BOOLEAN : LearnPeer(control)
  \/ RxLoad
  \/ \E f \in Fetcher : Pass(f) \/ FetchPeer(f) \/ \E next \in Profile : Select(f, next)
  \/ \E p \in Process : Announce(p) \/ SendIdentity(p) \/ Publish(p)

Spec == Init /\ [][Next]_vars

-----------------------------------------------------------------------------
(***************************************************************************)
(* Properties.                                                             *)
(***************************************************************************)

Announcing == {"announce", "send", "publish", "done"}

\* The variables keep their types, and a detected profile has a state of its own.
TypeOK ==
  /\ auto \in BOOLEAN /\ preset \in BOOLEAN
  /\ emu \in Profile \union {None} /\ selection \in Nat
  /\ auto => (emu = None <=> selection = 0)
  /\ peer \in BOOLEAN /\ greeted \in BOOLEAN
  /\ pc \in [Process -> {"load", "peer", "read", "fetch"} \union Announcing]
  /\ mine \in [Process -> (Profile \union {None}) \X Nat]
  /\ announced \subseteq Nat
  /\ sent \in Seq(Nat)
  /\ published \subseteq Nat

\* A selection is announced to the matrix at most once, although main, the read loop
\* and the fetch that made it may all try.
AnnouncedOnce == \A i, j \in DOMAIN sent : sent[i] = sent[j] => i = j

\* Identity frames are enqueued only once there is a peer to carry them to.
PeerFirst == sent # <<>> => peer

\* Nobody is on the way to announcing something.
Settled ==
  /\ pc["main"] = "done"
  /\ pc["rx"] \in {"read", "done"}
  /\ \A f \in Fetcher : pc[f] \in {"fetch", "done"}

\* The current profile has been announced to a peer that is configured or did not
\* speak first, whichever of the two the gateway learned first: setting the one
\* before reading the other, on both sides, leaves no gap.
NothingForgotten ==
  Settled /\ emu # None /\ (preset \/ greeted) => \E i \in DOMAIN sent : sent[i] = selection

\* A detected profile has been published to the browsers, with or without a peer, and
\* whoever announced it.
Shown == Settled /\ selection > 0 => selection \in published
=============================================================================
