----------------------------- MODULE MCFraming -----------------------------
(***************************************************************************)
(* The framing checked on every payload over an alphabet of interesting    *)
(* bytes: a state is a payload, a step lengthens it.                       *)
(***************************************************************************)
EXTENDS Framing

CONSTANTS
  Alphabet,   \* bytes the payloads are made of
  MaxLen      \* bound on a payload

VARIABLE payload

InitWire == payload = <<>>
NextWire == Len(payload) < MaxLen /\ \E b \in Alphabet : payload' = Append(payload, b)
SpecWire == InitWire /\ [][NextWire]_payload

-----------------------------------------------------------------------------
FramesOf(bytes) == TakeBytes(Empty, bytes).frames

\* A frame survives its stuffing: the reader cuts exactly one frame, after the last
\* byte and not before, and what it decodes is the payload less its prefix; one frame
\* after another is read as two.
ControlRoundTrip ==
  payload # <<>> =>
    LET wire == BuildFrame(payload) IN
      /\ FramesOf(Front(wire)) = <<>>
      /\ FramesOf(wire \o wire) = <<Append(payload, CRC(payload)), Append(payload, CRC(payload))>>
      /\ Valid(FramesOf(wire)[1])
      /\ DecodeFrame(FramesOf(wire)[1]) = NormalizePayload(payload)

\* On the TCP connection the same holds of every payload whose first byte needs no
\* stuffing, as the client's own (they start with 0x00).
WireRoundTrip ==
  payload # <<>> /\ Head(payload) \notin {Escape, Terminator} =>
    ReadWirePayloads(BuildWireFrame(payload) \o BuildWireFrame(payload)) = <<payload, payload>>

\* A payload has one check byte: the residue is zero for that byte and no other
\* (payloads of up to three bytes).  The vectors of the repository's test come out.
OneCheckByte ==
  /\ Len(payload) \in 1 .. 3 => \A c \in Byte : Valid(Append(payload, c)) <=> c = CRC(payload)
  /\ payload = <<>> =>
       /\ CRC(<<65>>) = 75 /\ CRC(<<78>>) = 221 /\ CRC(<<83>>) = 197
       /\ CRC(<<105, 80>>) = 51 /\ CRC(<<105, 82, 1>>) = 209 /\ CRC(<<105, 73, 208>>) = 187
       /\ CRC(<<105, 73, 132, 0, 0, 0, 0>>) = 11 /\ CRC(<<73, 0, 128>>) = 99

\* The bits of a frame, and the frame with some of them flipped.
Flip(frame, bits) ==
  [k \in DOMAIN frame |->
     LET weight(j) == IF 8 * (k - 1) + j \in bits
                        THEN 1 - BitsOf[frame[k]][j] ELSE BitsOf[frame[k]][j]
     IN FoldLeft(LAMBDA acc, j : 2 * acc + weight(j), 0, [j \in 1 .. 8 |-> j])]

\* One or two flipped bits never pass for a frame: the order of the polynomial is longer
\* than these frames.
TwoFlipsDetected ==
  Len(payload) \in 1 .. 2 =>
    LET frame == Append(payload, CRC(payload))
        bits == 1 .. 8 * Len(frame)
    IN \A i, j \in bits : i <= j => ~Valid(Flip(frame, {i, j}))

\* The check starts from zero and a frame leaves zero behind, so frames glued together
\* by a lost terminator pass it as one frame: the second is lost without an error.
GluedFramesPass ==
  \A n \in 1 .. Len(payload) - 1 :
    LET one == SubSeq(payload, 1, n)
        two == SubSeq(payload, n + 1, Len(payload))
    IN Valid(Append(one, CRC(one)) \o Append(two, CRC(two)))

\* What a packet carries is what was put in, cut or padded to the packet's room.
PacketRoundTrip ==
  LET ctrl == payload \o payload
      packet == BuildAudioPacket(7, payload, ctrl)
      n == IF Len(ctrl) > MaxCtrl THEN MaxCtrl ELSE Len(ctrl)
  IN /\ IsAudioPacket(packet)
     /\ ControlOf(packet) = SubSeq(ctrl, 1, n)
     /\ \A k \in 1 .. PayloadSize :
          AudioOf(packet)[k] = IF k <= Len(payload) THEN payload[k] ELSE 0

=============================================================================
