---------------------------- MODULE JitterBuffer ----------------------------
(***************************************************************************)
(* The browser's jitter samples, an AudioWorklet: a ring of samples that    *)
(* the page fills by messages and the audio thread empties block by block  *)
(* at a rate that follows the fill level, starting at a target, dropping   *)
(* silence above it and cross-fading past a backlog above a ceiling.       *)
(*                                                                         *)
(* Positions and fill levels count parts of one over Unit of a sample, as  *)
(* the playback rate does, so that the fractions the code has are integers *)
(* here.  A sample is its number in the stream and whether it is loud.     *)
(***************************************************************************)
EXTENDS Integers, Sequences

CONSTANTS
  Unit,              \* parts of a sample
  Capacity,          \* samples in the ring: three seconds
  Block,             \* samples of a call of process: 128
  Targets,           \* targetFrames the page asks for: two to eight packets
  HardMax,           \* hardMaxFrames: 350 ms
  PacketFrames,
  MinSilenceFrames,  \* 20 ms
  CrossfadeFrames,   \* 4 ms
  MinRate, MaxRate,  \* playback rates, in parts: 0.995 and 1.03
  MessageSizes,             \* samples of a message
  MaxReceived         \* bound: samples sent

\* A fade is over before what the ceiling leaves is played, and so is a block; at the
\* ceiling so much is dropped that what fades in stays ahead of what fades out, though
\* that is played more slowly than it was recorded.
BufferAssumption ==
  /\ Unit \in Nat \ {0} /\ Capacity \in Nat \ {0} /\ Block \in Nat \ {0}
  /\ HardMax \in 0 .. Capacity /\ Targets \subseteq 0 .. HardMax
  /\ {PacketFrames, MinSilenceFrames, CrossfadeFrames, MaxReceived} \subseteq Nat
  /\ MinRate \in 1 .. Unit /\ MaxRate \in Unit .. 2 * Unit
  /\ MessageSizes \subseteq Nat \ {0}
  /\ \A t \in Targets :
       /\ t * Unit >= CrossfadeFrames * MaxRate + Unit /\ t * Unit >= Block * MaxRate + Unit
       /\ (HardMax - t - 1) * Unit >= CrossfadeFrames * (Unit - MinRate)

VARIABLES
  samples, read, write, count,   \* the ring
  targetFrames,
  started, playbackRate,
  crossfade,   \* the samples faded out: those still to come; none is <<>>
  received,    \* history: number of the newest sample
  rendered,    \* history: what the last call of process played
  dropped, underrun   \* history: the last call dropped samples, ran out of them

worklet == <<samples, read, write, count, targetFrames, started, playbackRate, crossfade,
          received, rendered, dropped, underrun>>

None == [n |-> 0, loud |-> FALSE]
Smaller(a, b) == IF a < b THEN a ELSE b
Larger(a, b) == IF a > b THEN a ELSE b

BufferInit ==
  /\ samples = [i \in 0 .. Capacity - 1 |-> None]
  /\ read = 0 /\ write = 0 /\ count = 0
  /\ targetFrames \in Targets
  /\ started = FALSE /\ playbackRate = Unit
  /\ crossfade = <<>>
  /\ received = 0 /\ rendered = <<>>
  /\ dropped = FALSE /\ underrun = FALSE

\* The two samples that sampleAt interpolates, offset samples ahead.
SampleAt(r, offset) ==
  LET base == r \div Unit + offset IN [a |-> samples[base % Capacity], b |-> samples[(base + 1) % Capacity]]

\* What advance takes of the ring [read, count].
Advance(ring, n) ==
  LET taken == Larger(0, Smaller(ring.count, n))
  IN [ring EXCEPT !.read = (@ + taken) % (Capacity * Unit), !.count = @ - taken]

-----------------------------------------------------------------------------
(***************************************************************************)
(* handleMessage.                                                          *)
(***************************************************************************)

PlaysNothing == rendered' = <<>> /\ dropped' = FALSE /\ underrun' = FALSE

\* The page always sends all limits; only the target is another.
ConfigMessage ==
  /\ targetFrames' \in Targets \ {targetFrames}
  /\ PlaysNothing
  /\ UNCHANGED <<samples, read, write, count, started, playbackRate, crossfade, received>>

\* The samples a full ring lets go of.  Mutant: none.
OverflowNone(n) == 0
Overflow(n) == Larger(0, count + (n - Capacity) * Unit)

Enqueue(size, loud) ==
  LET n == Smaller(size, Capacity)
      ring == Advance([read |-> read, count |-> count], Overflow(n))
  IN /\ received + size <= MaxReceived
     /\ received' = received + size
     /\ samples' = [i \in 0 .. Capacity - 1 |->
                     LET k == (i - write + Capacity) % Capacity
                     IN IF k < n THEN [n |-> received' - n + k + 1, loud |-> loud] ELSE samples[i]]
     /\ read' = ring.read
     /\ count' = ring.count + n * Unit
     /\ write' = (write + n) % Capacity
     /\ PlaysNothing
     /\ UNCHANGED <<targetFrames, started, playbackRate, crossfade>>

\* Mutant: a fade goes on.
ResetMessageKeepsFade ==
  /\ read' = 0 /\ write' = 0 /\ count' = 0
  /\ started' = FALSE /\ playbackRate' = Unit
  /\ PlaysNothing
  /\ UNCHANGED <<samples, targetFrames, received, crossfade>>
ResetMessage ==
  /\ read' = 0 /\ write' = 0 /\ count' = 0
  /\ started' = FALSE /\ playbackRate' = Unit
  /\ crossfade' = <<>>
  /\ PlaysNothing
  /\ UNCHANGED <<samples, targetFrames, received>>

-----------------------------------------------------------------------------
(***************************************************************************)
(* process.                                                                *)
(***************************************************************************)

\* Of the ring [read, count, fade].
BeginCrossfadedDrop(ring, frames) ==
  LET n == Larger(0, Smaller(ring.count - 2 * Unit, frames * Unit))
  IN IF n = 0 THEN ring
     ELSE [Advance(ring, n) EXCEPT !.fade = [i \in 1 .. CrossfadeFrames |-> SampleAt(ring.read, i - 1).a]]

\* Mutants: one packet goes; all but two samples go.
EnforceHardCeilingPacket(ring) ==
  IF ring.count <= HardMax * Unit THEN ring ELSE BeginCrossfadedDrop(ring, PacketFrames)
EnforceHardCeilingAll(ring) ==
  IF ring.count <= HardMax * Unit THEN ring ELSE BeginCrossfadedDrop(ring, ring.count \div Unit)
EnforceHardCeiling(ring) ==
  IF ring.count <= HardMax * Unit THEN ring
  ELSE BeginCrossfadedDrop(ring, (ring.count - targetFrames * Unit) \div Unit)

\* What lies between two samples is taken to be silent when both are.
Silent(ring, offset) == ~SampleAt(ring.read, offset).a.loud /\ (ring.read % Unit # 0 => ~SampleAt(ring.read, offset).b.loud)

TrimLeadingSilence(ring) ==
  LET excess == (ring.count - targetFrames * Unit) \div Unit
      scan == Smaller(excess, 4 * PacketFrames)
      silent == CHOOSE s \in 0 .. scan : /\ \A i \in 0 .. s - 1 : Silent(ring, i)
                                         /\ s = scan \/ ~Silent(ring, s)
  IN IF excess < MinSilenceFrames \/ silent < MinSilenceFrames THEN ring
     ELSE Advance(ring, (silent - Smaller(CrossfadeFrames, silent)) * Unit)

\* desiredPlaybackRate, and the rates the smoothing may reach on the way to it.
WantedRates(c) ==
  LET err == 2 * (c - targetFrames * Unit)
      packet == PacketFrames * Unit
  IN IF err < -packet THEN MinRate .. Unit
     ELSE IF err <= packet THEN {Unit}
     ELSE IF err < 2 * packet THEN Unit .. MaxRate ELSE {MaxRate}
SmoothedRates(c) ==
  UNION {Smaller(playbackRate, w) .. Larger(playbackRate, w) : w \in WantedRates(c)}

\* Mutant: the second sample of the pair is not waited for.
EnoughForOne(c, rate) == c >= rate
Enough(c, rate) == c >= rate + Unit

\* The samples of a block, as many as there are, and what is left after them.
Rendered(ring, rate) ==
  LET after(k) == Advance(ring, k * rate)
      fade == ring.fade
      produced == CHOOSE n \in 0 .. Block : /\ \A k \in 0 .. n - 1 : Enough(after(k).count, rate)
                                            /\ n = Block \/ ~Enough(after(n).count, rate)
  IN [ring |-> [after(produced) EXCEPT !.fade = SubSeq(fade, produced + 1, Len(fade))],
      out |-> [k \in 1 .. produced |->
                LET pair == SampleAt(after(k - 1).read, 0)
                IN [a |-> pair.a, b |-> pair.b, old |-> IF k <= Len(fade) THEN fade[k] ELSE None]]]

Prefill ==
  /\ ~started /\ count < targetFrames * Unit
  /\ PlaysNothing
  /\ UNCHANGED <<samples, read, write, count, targetFrames, started, playbackRate, crossfade, received>>

PlayBlock ==
  /\ started \/ count >= targetFrames * Unit
  /\ LET ring == [read |-> read, count |-> count, fade |-> crossfade]
         trimmed == TrimLeadingSilence(EnforceHardCeiling(ring))
     IN \E rate \in SmoothedRates(trimmed.count) :
          LET done == Rendered(trimmed, rate)
              short == Len(done.out) < Block
          IN /\ rendered' = done.out
             /\ crossfade' = done.ring.fade
             /\ dropped' = (trimmed.count < count)
             /\ underrun' = short
             /\ started' = ~short
             /\ playbackRate' = IF short THEN Unit ELSE rate
             /\ read' = IF short THEN write * Unit ELSE done.ring.read
             /\ count' = IF short THEN 0 ELSE done.ring.count
  /\ UNCHANGED <<samples, write, targetFrames, received>>

ProcessBlock == Prefill \/ PlayBlock

BufferNext ==
  \/ ConfigMessage \/ ResetMessage \/ ProcessBlock
  \/ \E size \in MessageSizes, loud \in BOOLEAN : Enqueue(size, loud)

BufferSpec == BufferInit /\ [][BufferNext]_worklet

-----------------------------------------------------------------------------
\* The fill level is the way from the reading to the writing position and no more than
\* the ring, the rate is between its limits.
BufferTypeOK ==
  /\ count \in 0 .. Capacity * Unit
  /\ (read + count - write * Unit) % (Capacity * Unit) = 0
  /\ playbackRate \in MinRate .. MaxRate
  /\ Len(crossfade) <= CrossfadeFrames

\* The ring holds the newest samples without a gap, whatever was let go: a ring that is
\* written past its reading position would play the new before the old (enqueue).
HoldsNewest ==
  \A i \in 0 .. (count \div Unit) - 1 : samples[(write - 1 - i + Capacity) % Capacity].n = received - i

\* What a call of process plays moves forward in the stream, never by more than two
\* samples at a time, and lies between two samples that follow each other: never half in
\* what was played long ago, where the ring ends.  Samples faded out follow each other
\* and are older than those faded in.
Forward ==
  \A k \in DOMAIN rendered :
    LET s == rendered[k] IN
      /\ s.a.n > 0 /\ s.b.n = s.a.n + 1
      /\ k > 1 => s.a.n - rendered[k - 1].a.n \in 0 .. 2
      /\ s.old # None => /\ s.old.n < s.a.n
                         /\ k > 1 => s.old.n = rendered[k - 1].old.n + 1

\* A call that drops samples, for a backlog or for silence, does not run out of them: it
\* leaves the target (enforceHardCeiling, trimLeadingSilence).
NoSelfUnderrun == dropped => ~underrun

\* Where playing starts anew, after a reset or having run out, no fade is left over from
\* before that would mix in what was played long ago.
NoStaleFade == ~started => crossfade = <<>>

\* Nothing waits longer than the ceiling: after a block that was played in full, the fill
\* level is below it.
LatencyBounded == rendered # <<>> /\ ~underrun => count <= HardMax * Unit

\* The jitter buffer holds the newest samples without a gap and plays forward; it never
\* runs dry by its own dropping, starts anew without the end of an old fade, and keeps
\* nothing longer than the ceiling (rx-worklet.js).
PlaysForward ==
  /\ BufferTypeOK /\ HoldsNewest /\ Forward
  /\ NoSelfUnderrun /\ NoStaleFade /\ LatencyBounded
=============================================================================
