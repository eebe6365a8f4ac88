------------------------------- MODULE MCG711 -------------------------------
(***************************************************************************)
(* The codec on every sample at an edge of the sixteen that share a code:  *)
(* between them nothing changes.  A state is the lower of two edges.       *)
(***************************************************************************)
EXTENDS G711

CONSTANTS
  Edges    \* bound: how many groups of sixteen one step passes

VARIABLE low

InitCodec == low = -32768
NextCodec == low + 16 * Edges <= 32752 /\ low' = low + 16 * Edges
SpecCodec == InitCodec /\ [][NextCodec]_low

Through(mode, s) == DecodeInto(mode, EncodeInto(mode, NoTXMap, <<s>>))[1]

-----------------------------------------------------------------------------
\* What a sample becomes is as near to it as any code comes, but for the half of sixteen
\* that the table does not tell apart on either side (MakeEncodeLUT).
Nearest ==
  \A s \in {low, low + 15}, c \in CodeByte :
    Distance(Through("custom", s), s) <= Distance(DecodeCustom[c], s) + 16

\* Louder stays louder: the order of samples survives, at both ends of the range and
\* across zero.
Monotone ==
  /\ Through("custom", low) <= Through("custom", low + 15)
  /\ low + 16 \in Sample => Through("custom", low + 15) <= Through("custom", low + 16)

\* Audio that was decoded once is not changed by being encoded and decoded again: every
\* code comes back, and a map of outgoing codes undone by its inverse costs nothing.
Relay ==
  LET pcm == DecodeInto("custom", [k \in 1 .. 256 |-> k - 1])
      reversed == [k \in 1 .. 256 |-> 256 - k]
      sent == EncodeInto("custom", ParseTXMapInts(reversed).map, pcm)
  IN low = -32768 =>
       /\ EncodeInto("custom", NoTXMap, pcm) = [k \in 1 .. 256 |-> k - 1]
       /\ ParseTXMapInts(reversed).ok /\ [k \in 1 .. 256 |-> 255 - sent[k]] = [k \in 1 .. 256 |-> k - 1]

\* The program calls the mode alaw standard A-law, in which a loud sample keeps its sign.
StandardALaw ==
  low > -32768 /\ Distance(low, 0) > 64 => (Through("alaw", low) > 0 <=> low > 0)
=============================================================================
