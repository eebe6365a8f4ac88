----------------------------- MODULE MCIncoming -----------------------------
(***************************************************************************)
(* What comes in from the peer for TLC, one part at a time: audio packets  *)
(* in pieces, and a conversation with a panel or with a BP7100.            *)
(*                                                                         *)
(* Of two senders the first splits packets as the peer in the tests does,  *)
(* all but the last byte and then the last byte, and sends a whole packet  *)
(* too; the second also sends a datagram that is too long.  The matrix     *)
(* pings twice, asks for the identity, sends the bitmaps of keys and lamps *)
(* with bytes that need stuffing, a key, an acknowledgement and a label,   *)
(* in packets of one or four control bytes any two of which are lost.      *)
(***************************************************************************)
EXTENDS RxControl, RxFragments

VARIABLE part      \* which of them runs, the other stays as it starts

Piece(s, p, first, size) == [from |-> s, packet |-> p, first |-> first, size |-> size]
Split(s, p) == <<Piece(s, p, 1, 2), Piece(s, p, 3, 1)>>
Pieces ==
  [peer |-> Split("peer", 1) \o Split("peer", 2) \o <<Piece("peer", 3, 1, 3)>> \o Split("peer", 4),
   stranger |-> Split("stranger", 5) \o <<Piece("stranger", 6, 0, 4)>>]

Headers == (1 .. 6) \X {1}

Conversation ==
  << <<105, 80>>, <<105, 73, 208>>, <<105, 73, 66, 254, 255>>, <<105, 80>>,
     <<105, 73, 0, 129>>, <<105, 65>>, <<105, 73, 83, 255>>, <<105, 73, 147, 2, 84, 80>> >>
OurIdentity == <<73, 208, 30, 84, 80>>

\* What the matrix means by the frames above.
Meaning ==
  << [kind |-> "ping"], [kind |-> "none"], [kind |-> "keys", groups |-> <<254, 255>>],
     [kind |-> "ping"], [kind |-> "key_event", index |-> 1, pressed |-> TRUE],
     [kind |-> "ack"], [kind |-> "leds", mode |-> "g_fix", groups |-> <<255>>],
     [kind |-> "label", index |-> 2, text |-> <<84, 80>>] >>

ASSUME ControlAssumption /\ FragmentAssumption /\ PeerAssumption

InitIncoming ==
  /\ part \in {"fragments", "control"} /\ FragmentsInit /\ Init
  /\ part = "fragments" => emulation = "panel"

NextIncoming ==
  \/ part = "fragments" /\ FragmentsNext /\ UNCHANGED <<part, vars>>
  \/ part = "control" /\ Next /\ UNCHANGED <<part, fragments>>

SpecIncoming == InitIncoming /\ [][NextIncoming]_<<part, fragments, vars>>

-----------------------------------------------------------------------------
\* The browsers are shown what the matrix meant by a frame, without losses everything in
\* its order (emitInfo).
Understood ==
  /\ \A i \in DOMAIN rx.events, k \in DOMAIN Conversation :
       rx.handled[i] = [at |-> End[k], payload |-> NormalizePayload(Conversation[k])] =>
         rx.events[i] = Meaning[k]
  /\ losses = 0 => IsPrefix(rx.events, Meaning)
=============================================================================
