-------------------------------- MODULE G711 --------------------------------
(***************************************************************************)
(* The codec between 16-bit samples and the bytes of the audio packets:    *)
(* the custom mode with its table, its search for the nearest code and the *)
(* map of outgoing codes, and the mode called A-law.                       *)
(***************************************************************************)
EXTENDS Integers, Sequences

CodeByte == 0 .. 255
Sample == -32768 .. 32767

\* code ^ 0x55 and back.
Xor55(b) ==
  LET flip(bit) == IF (b \div bit) % 2 = 0 THEN bit ELSE -bit
  IN b + flip(64) + flip(16) + flip(4) + flip(1)

\* The table of the repository by its segments: 16 steps each, the size of a step doubling
\* from the third on; the first half is the complement of the second.
DefaultDecodeTable ==
  LET upper(j) == (33 + 2 * (j % 16)) * 2 ^ ((j \div 16) - 1)
      positive(j) == IF j < 16 THEN 2 * j + 1 ELSE upper(j)
  IN [i \in CodeByte |-> IF i < 128 THEN 4096 - positive(i) ELSE positive(i - 128)]

\* What the custom mode decodes a byte to: the sign bit comes from the byte itself.
DecodeCustom ==
  [b \in CodeByte |->
     LET output == 8 * DefaultDecodeTable[Xor55(b)] + 3 + (IF b < 128 THEN 32768 ELSE 0)
     IN IF output >= 32768 THEN output - 65536 ELSE output]

Distance(x, y) == IF x > y THEN x - y ELSE y - x

\* The code for each sixteen samples: the first of those that come nearest to a target.
NearestTo(target) ==
  LET far(raw) == Distance(DecodeCustom[Xor55(raw)], target)
      all == {far(raw) : raw \in CodeByte}
      least == CHOOSE d \in all : \A e \in all : d <= e
  IN CHOOSE raw \in CodeByte : far(raw) = least /\ \A c \in 0 .. raw - 1 : far(c) # least

\* Its target: the middle of the sixteen, as a signed number.  Mutants: the lower end;
\* a number without sign.
TargetLower(p) == IF p >= 2048 THEN 16 * p - 65536 ELSE 16 * p
TargetUnsigned(p) == 16 * p + 8
Target(p) == IF p >= 2048 THEN 16 * p + 8 - 65536 ELSE 16 * p + 8

Compressor == [p \in 0 .. 4095 |-> NearestTo(Target(p))]

\* The table by sample of MakeEncodeLUT.  Mutant: by the position in the range.
EncodeLUTByPosition(s) == Xor55(Compressor[(s + 32768) \div 16])
EncodeLUT(s) == Xor55(Compressor[(IF s < 0 THEN s + 65536 ELSE s) \div 16])

-----------------------------------------------------------------------------
\* The other mode.
AlawDecode(code) ==
  LET a == Xor55(code)
      low == 16 * (a % 16)
      seg == (a \div 16) % 8
      t == IF seg = 0 THEN low + 8 ELSE IF seg = 1 THEN low + 264 ELSE (low + 264) * 2 ^ (seg - 1)
  IN IF a >= 128 THEN t ELSE -t

Clip(v) == IF v > 32767 THEN 32767 ELSE IF v < -32768 THEN -32768 ELSE v
DecodeAlaw(code) == Clip(8 * AlawDecode(code))

\* The magnitude is at most 0x7FF; the negative of -32768 is itself.
AlawEncode(sample) ==
  LET magnitude == IF sample < 0 /\ sample > -32768 THEN -sample ELSE sample
      m == IF magnitude > 2047 THEN 2047 ELSE magnitude
      seg == IF m <= 31 THEN 0 ELSE CHOOSE k \in 1 .. 6 : m \div 2 ^ k <= 31 /\ m \div 2 ^ (k - 1) > 31
      aval == IF seg = 0 THEN (m \div 2) % 16 ELSE 16 * seg + ((m \div 2 ^ (seg + 2)) % 16)
  IN Xor55(IF sample < 0 THEN aval + 128 ELSE aval)

-----------------------------------------------------------------------------
\* A map of outgoing codes has 256 bytes; any other is refused.
NoTXMap == <<>>
ParseTXMapInts(values) ==
  [ok |-> Len(values) = 256 /\ \A k \in DOMAIN values : values[k] \in CodeByte, map |-> values]

\* The codes that go out for samples, with the map of a codec that has one.
EncodeSampleCode(mode, s) == IF mode = "alaw" THEN AlawEncode(s) ELSE EncodeLUT(s)

EncodeInto(mode, txMap, pcm) ==
  [k \in DOMAIN pcm |->
     LET code == EncodeSampleCode(mode, pcm[k]) IN IF txMap = NoTXMap THEN code ELSE txMap[code + 1]]

DecodeInto(mode, bytes) ==
  [k \in DOMAIN bytes |-> IF mode = "alaw" THEN DecodeAlaw(bytes[k]) ELSE DecodeCustom[bytes[k]]]
=============================================================================
