----------------------------- MODULE RxControl -----------------------------
(***************************************************************************)
(* Control frames of the matrix on their way in: up to four bytes in each  *)
(* audio packet, packets that get lost, the bytes put together again over  *)
(* packet borders, checked, shown to the browsers and answered.            *)
(*                                                                         *)
(* The code reads the profile anew for every frame, and a names fetch may  *)
(* replace it; here it stays what it is for the whole conversation.        *)
(***************************************************************************)
EXTENDS Framing, TLC

CONSTANTS
  Script,      \* the payloads the matrix sends
  Chunks,      \* how many control bytes the peer puts in a packet
  MaxLost,     \* bound: packets lost
  Emulations,  \* of "none", "panel" and "BP7100", those it is run with
  Identity     \* IdentityPayload of an emulation

ControlAssumption ==
  /\ Chunks \subseteq 1 .. MaxCtrl /\ MaxLost \in Nat
  /\ Emulations \subseteq {"none", "panel", "BP7100"}
  /\ Script \in Seq(Seq(Byte))
  /\ \A k \in DOMAIN Script : Script[k] # <<>> /\ Script[k][1] \notin {Escape, Terminator}
  /\ CheckByteCancels

VARIABLES
  pos,        \* how many bytes of the stream the peer has put into packets
  lost,       \* positions of the bytes that were lost
  losses,     \* packets lost
  rx,         \* the read loop's control state and what came of it
  emulation   \* what the bridge pretends to be, from its configuration

vars == <<pos, lost, losses, rx, emulation>>

Frames == [k \in DOMAIN Script |-> BuildFrame(Script[k])]
Stream == FlattenSeq(Frames)
End == [k \in 0 .. Len(Script) |-> Len(FlattenSeq(SubSeq(Frames, 1, k)))]

\* sendPRTPFrame and sendPRTPFrameNormal.
High(payload) == [class |-> "high", payload |-> payload]
Normal(payload) == [class |-> "normal", payload |-> payload]
Ack == High(<<65>>)
Nack == High(<<78>>)
Sync == High(<<83>>)

-----------------------------------------------------------------------------
TakeShort(payload, from, count) ==
  SubSeq(payload, from, IF from + count > Len(payload) THEN Len(payload) - 1 ELSE from + count - 1)

\* The event the browsers are sent for a payload.  A group list and a text end where
\* the payload ends, whatever their count says.
Take(payload, from, count) ==
  SubSeq(payload, from, IF from + count - 1 > Len(payload) THEN Len(payload) ELSE from + count - 1)

Modes == (80 :> "g_fix" @@ 96 :> "r_fix" @@ 112 :> "g_blink" @@ 128 :> "r_blink")

\* ParseIdentityText, trailing blanks left on: a full identity has its name in ten
\* places, a short one ends with five bytes of versions.
Blank == {0, 32}
IdentityText(payload) ==
  LET tail == payload[3] % 16
      last == IF 3 + tail > Len(payload) THEN Len(payload) ELSE 3 + tail
  IN IF Len(payload) >= 18 THEN SubSeq(payload, 4, 13)
     ELSE IF Len(payload) >= 3 /\ payload[3] \div 16 = 2
       THEN SubSeq(payload, 4, IF tail >= 5 THEN last - 5 ELSE last)
     ELSE SubSeq(payload, 3, Len(payload))

InfoEvent(payload) ==
  LET sub == 16 * (payload[2] \div 16)
      count == payload[2] % 16
  IN CASE Len(payload) >= 3 /\ payload[2] = 0 ->
            [kind |-> "key_event", index |-> payload[3] % 128, pressed |-> payload[3] >= 128]
       [] sub = 64 -> [kind |-> "keys", groups |-> Take(payload, 3, count)]
       [] sub \in DOMAIN Modes ->
            [kind |-> "leds", mode |-> Modes[sub], groups |-> Take(payload, 3, count)]
       [] sub = 144 ->
            IF Len(payload) < 3 THEN [kind |-> "none"]
            ELSE [kind |-> "label", index |-> payload[3],
                  text |-> Take(payload, 4, IF count = 0 THEN 0 ELSE count - 1)]
       [] sub = 208 ->
            IF ToSet(IdentityText(payload)) \subseteq Blank THEN [kind |-> "none"]
            ELSE [kind |-> "ident", text |-> IdentityText(payload)]
       [] OTHER -> [kind |-> "i_unknown", sub |-> sub]

IsInfo(payload) == payload[1] = 73 /\ Len(payload) >= 2

Event(payload) ==
  CASE payload[1] = 80 -> [kind |-> "ping"]
    [] payload[1] = 65 -> [kind |-> "ack"]
    [] payload[1] = 78 -> [kind |-> "nack"]
    [] payload[1] = 82 -> [kind |-> "r", state |-> IF Len(payload) >= 2 THEN payload[2] ELSE 0]
    [] payload[1] = 67 -> [kind |-> "cmd"]
    [] IsInfo(payload) -> InfoEvent(payload)
    [] OTHER -> [kind |-> "unknown", t0 |-> payload[1]]

AsksForSyncAlways(payload, synced) == payload[1] = 80 /\ ~synced

\* The replies: an acknowledgement of everything but acknowledgements, the state
\* synchronisation after the first ping, the identity when it is asked for.
AsksForSync(payload, synced) == payload[1] = 80 /\ ~synced /\ emulation # "BP7100"
AsksForIdentity(payload) ==
  /\ IsInfo(payload) /\ payload[2] \div 16 = 13
  /\ emulation # "none"

Replies(payload, synced) ==
  (IF payload[1] \in {80, 82, 67} \/ IsInfo(payload) THEN <<Ack>> ELSE <<>>)
  \o (IF AsksForSync(payload, synced) THEN <<Sync>> ELSE <<>>)
  \o (IF AsksForIdentity(payload) THEN <<Normal(Identity)>> ELSE <<>>)

EmitInfoUnanswered(st, payload, at) ==
  [st EXCEPT !.handled = Append(@, [at |-> at, payload |-> payload]),
             !.events = Append(@, Event(payload)),
             !.replies = @ \o SelectSeq(Replies(payload, st.sentSync), LAMBDA r : payload[1] # 73 \/ r # Ack),
             !.sentSync = @ \/ AsksForSync(payload, @)]

EmitInfoForgetsSync(st, payload, at) ==
  [st EXCEPT !.handled = Append(@, [at |-> at, payload |-> payload]),
             !.events = Append(@, Event(payload)),
             !.replies = @ \o Replies(payload, st.sentSync)]

EmitInfo(st, payload, at) ==
  [st EXCEPT !.handled = Append(@, [at |-> at, payload |-> payload]),
             !.events = Append(@, Event(payload)),
             !.replies = @ \o Replies(payload, st.sentSync),
             !.sentSync = @ \/ AsksForSync(payload, @)]

\* A frame that fails its check is dropped; only a BP7100 asks for it again.
BadFrame(st) ==
  [st EXCEPT !.crcErrors = @ + 1,
             !.replies = IF emulation = "BP7100" THEN Append(@, Nack) ELSE @]

TakeControlByteKeepsBad(st, k) ==
  LET parser == TakeByte(st.parser, Stream[k]) IN
    IF parser.frames = <<>> THEN [st EXCEPT !.parser = parser]
    ELSE LET frame == parser.frames[1]
             next(acc) == [st EXCEPT !.parser = [parser EXCEPT !.frames = <<>>, !.acc = acc]]
         IN IF Valid(frame) THEN EmitInfo(next(<<>>), DecodeFrame(frame), k) ELSE BadFrame(next(frame))

\* The byte at position k of the stream; the parser's state outlives the packet.
TakeControlByte(st, k) ==
  LET parser == TakeByte(st.parser, Stream[k]) IN
    IF parser.frames = <<>> THEN [st EXCEPT !.parser = parser]
    ELSE LET frame == parser.frames[1]
             next == [st EXCEPT !.parser = [parser EXCEPT !.frames = <<>>]]
         IN IF Valid(frame) THEN EmitInfo(next, DecodeFrame(frame), k) ELSE BadFrame(next)

-----------------------------------------------------------------------------
Init ==
  /\ pos = 0 /\ lost = {} /\ losses = 0 /\ emulation \in Emulations
  /\ rx = [parser |-> Empty, sentSync |-> FALSE, crcErrors |-> 0,
           handled |-> <<>>, events |-> <<>>, replies |-> <<>>]

CarriedBy(n) == pos + 1 .. pos + n

\* The control state after the next n bytes.
Read(n) ==
  LET read[i \in 0 .. n] == IF i = 0 THEN rx ELSE TakeControlByte(read[i - 1], pos + i)
  IN read[n]

PacketArrives(n) ==
  /\ pos + n <= Len(Stream)
  /\ pos' = pos + n
  /\ rx' = Read(n)
  /\ UNCHANGED <<lost, losses, emulation>>

PacketLost(n) ==
  /\ pos + n <= Len(Stream) /\ losses < MaxLost
  /\ pos' = pos + n
  /\ lost' = lost \cup CarriedBy(n)
  /\ losses' = losses + 1
  /\ UNCHANGED <<rx, emulation>>

Next == \E n \in Chunks : PacketArrives(n) \/ PacketLost(n)

Spec == Init /\ [][Next]_vars

-----------------------------------------------------------------------------
BytesOf(k) == End[k - 1] + 1 .. End[k]
Arrived(k) == End[k] <= pos /\ BytesOf(k) \cap lost = {}

\* A lost packet spoils the frames it carried and at most the one after them: a frame
\* that arrives whole right after another that did is handled, whatever the escape
\* flag and the accumulated bytes were before.
LossIsLocal ==
  \A k \in DOMAIN Script :
    Arrived(k) /\ (k = 1 \/ Arrived(k - 1)) =>
      \E i \in DOMAIN rx.handled :
        rx.handled[i] = [at |-> End[k], payload |-> NormalizePayload(Script[k])]

\* The state is synchronised once, right after the acknowledgement of the first ping,
\* however many pings come or are lost; a BP7100 never asks for it.
SyncOnce ==
  LET syncs == {i \in DOMAIN rx.replies : rx.replies[i] = Sync} IN
    /\ Cardinality(syncs) <= 1
    /\ \A i \in syncs : i > 1 /\ rx.replies[i - 1] = Ack
    /\ syncs = {} <=> \/ emulation = "BP7100"
                      \/ \A i \in DOMAIN rx.handled : rx.handled[i].payload[1] # 80

\* Every frame is accounted for in the replies: one acknowledgement for each handled
\* frame that is none itself and is understood, and as many requests to repeat as spoilt frames where
\* they are asked for, none elsewhere.
Answered ==
  LET count(reply) == Cardinality({i \in DOMAIN rx.replies : rx.replies[i] = reply}) IN
    /\ count(Ack) = Cardinality({i \in DOMAIN rx.events : rx.events[i].kind \notin {"ack", "nack", "unknown"}})
    /\ count(Nack) = (IF emulation = "BP7100" THEN rx.crcErrors ELSE 0)
    /\ losses = 0 => rx.crcErrors = 0

\* However packets are lost, the conversation goes on as with a device: a loss stays where
\* it is, the rest is handled, and the replies are those to it (processPacket, emitInfo).
Converses == LossIsLocal /\ SyncOnce /\ Answered
=============================================================================
