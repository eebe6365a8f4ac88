------------------------------ MODULE Framing ------------------------------
(***************************************************************************)
(* The bytes of PRTP control frames and of the matrix's TCP frames: the    *)
(* check byte, the stuffing, the reader, and the audio packet that carries *)
(* up to four control bytes.  Pure operators on sequences of bytes.        *)
(***************************************************************************)
EXTENDS Integers, SequencesExt

Byte == 0 .. 255
Escape == 254
Terminator == 255

Xor80(r) == IF r < 128 THEN r + 128 ELSE r - 128

\* r ^ 0x8D: the bits 7, 3, 2 and 0 change.
Xor8D(r) ==
  LET flip(bit) == IF (r \div bit) % 2 = 0 THEN bit ELSE -bit
  IN r + flip(128) + flip(8) + flip(4) + flip(1)

\* One bit enters the residue: a set top bit is taken away first, and the code takes
\* the polynomial away once more after the shift.
ShiftIn == [r \in Byte, bit \in {0, 1} |->
              Xor8D(2 * (IF r >= 128 THEN Xor8D(r) ELSE r) + bit)]

BitsOf == [b \in Byte |-> [k \in 1 .. 8 |-> (b \div 2 ^ (8 - k)) % 2]]
ShiftByte(r, b) == FoldLeft(LAMBDA acc, bit : ShiftIn[acc, bit], r, BitsOf[b])

CRCResidue(frame) ==
  LET residue[k \in 1 .. Len(frame)] ==
        IF k = 1 THEN frame[1] ELSE ShiftByte(residue[k - 1], frame[k])
  IN IF frame = <<>> THEN 0 ELSE residue[Len(frame)]
CRCUnpadded(payload) == CRCResidue(payload)
CRC(payload) == IF payload = <<>> THEN 0 ELSE CRCResidue(Append(payload, 0))

MessageTypes == {65, 67, 73, 78, 80, 82, 83}   \* A C I N P R S

\* The matrix may put a byte of its own in front of the type.
NormalizePayload(raw) ==
  IF Len(raw) >= 2 /\ raw[1] \notin MessageTypes /\ raw[2] \in MessageTypes
    THEN Tail(raw) ELSE raw

\* Stuffing without the escape of the escape byte itself.
StuffTerminatorOnly(bytes) ==
  FlattenSeq([k \in DOMAIN bytes |->
                IF bytes[k] = Terminator THEN <<Escape, bytes[k]>> ELSE <<bytes[k]>>])

Stuff(bytes) ==
  FlattenSeq([k \in DOMAIN bytes |->
                IF bytes[k] \in {Escape, Terminator} THEN <<Escape, bytes[k]>> ELSE <<bytes[k]>>])

\* The check byte is computed before and stuffed with the payload.
BuildFrame(payload) == Append(Stuff(Append(payload, CRC(payload))), Terminator)

\* On the TCP connection the first byte is never stuffed.
BuildWireFrame(payload) ==
  IF payload = <<>> THEN <<>>
  ELSE <<Head(payload)>> \o Stuff(Append(Tail(payload), CRC(payload))) \o <<Terminator>>

-----------------------------------------------------------------------------
\* The reader of both byte streams: escape flag, accumulated bytes, and the frames
\* of at least two bytes it has cut, each with its check byte.
Empty == [esc |-> FALSE, acc |-> <<>>, frames |-> <<>>]

TakeByteKeepsEscape(r, b) ==
  IF r.esc THEN [r EXCEPT !.acc = Append(@, b)]
  ELSE IF b = Escape THEN [r EXCEPT !.esc = TRUE]
  ELSE IF b = Terminator
    THEN [r EXCEPT !.acc = <<>>, !.frames = IF Len(r.acc) < 2 THEN @ ELSE Append(@, r.acc)]
  ELSE [r EXCEPT !.acc = Append(@, b)]

TakeByte(r, b) ==
  IF r.esc THEN [r EXCEPT !.esc = FALSE, !.acc = Append(@, b)]
  ELSE IF b = Escape THEN [r EXCEPT !.esc = TRUE]
  ELSE IF b = Terminator
    THEN [r EXCEPT !.acc = <<>>, !.frames = IF Len(r.acc) < 2 THEN @ ELSE Append(@, r.acc)]
  ELSE [r EXCEPT !.acc = Append(@, b)]

TakeBytes(r, bytes) == FoldLeft(TakeByte, r, bytes)

\* The byte that is computed for a residue brings it to zero.
CheckByteCancels ==
  \A r \in Byte : /\ \A b \in Byte : ShiftByte(r, b) \in Byte
                  /\ ShiftByte(r, ShiftByte(r, 0)) = 0

Valid(frame) == Len(frame) >= 2 /\ CRCResidue(frame) = 0
DecodeFrame(frame) == NormalizePayload(Front(frame))   \* of a valid frame

\* The payloads the matrix client reads before a bad frame ends the connection.
ReadWirePayloads(bytes) ==
  LET frames == TakeBytes(Empty, bytes).frames
      bad == SelectInSeq(frames, LAMBDA f : ~Valid(f))
      good == IF bad = 0 THEN frames ELSE SubSeq(frames, 1, bad - 1)
  IN [k \in DOMAIN good |-> Front(good[k])]

-----------------------------------------------------------------------------
CONSTANT PayloadSize   \* AudioPayloadSize, 256 in the code

MaxCtrl == 4

\* Header, four places for control bytes, and the audio padded with zeros.
BuildAudioPacketOverflow(seq, audio, ctrl) ==
  <<170, seq, 1, 12, 0, IF ctrl = <<>> THEN 35 ELSE 39, 3, Len(ctrl)>>
  \o [k \in 1 .. MaxCtrl |-> IF k <= Len(ctrl) THEN ctrl[k] ELSE 0]
  \o [k \in 1 .. PayloadSize |-> IF k <= Len(audio) THEN audio[k] ELSE 0]

BuildAudioPacket(seq, audio, ctrl) ==
  LET n == IF Len(ctrl) > MaxCtrl THEN MaxCtrl ELSE Len(ctrl) IN
    <<170, seq, 1, 12, 0, IF ctrl = <<>> THEN 35 ELSE 39, 3, n>>
    \o [k \in 1 .. MaxCtrl |-> IF k <= n THEN ctrl[k] ELSE 0]
    \o [k \in 1 .. PayloadSize |-> IF k <= Len(audio) THEN audio[k] ELSE 0]

IsAudioPacket(packet) ==
  Len(packet) = 8 + MaxCtrl + PayloadSize /\ packet[1] = 170 /\ packet[4] = 12

\* What processPacket takes out of it: bit 0x04 of the flags announces control bytes.
AudioOf(packet) == SubSeq(packet, 9 + MaxCtrl, 8 + MaxCtrl + PayloadSize)
ControlOf(packet) ==
  IF (packet[6] \div 4) % 2 = 1 /\ packet[8] \in 1 .. MaxCtrl
    THEN SubSeq(packet, 9, 8 + packet[8]) ELSE <<>>
=============================================================================
