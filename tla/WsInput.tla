------------------------------ MODULE WsInput ------------------------------
(***************************************************************************)
(* Audio from browsers: each audio connection converts what it receives    *)
(* from the announced rate to the rate of the line and cuts blocks for the *)
(* matrix, while control connections change the one rate they all use and  *)
(* the source of the outgoing audio.                                       *)
(*                                                                         *)
(* The samples of a connection are a ramp whose slope is the rate of the   *)
(* line, so that a converted sample tells the place it was taken from; as  *)
(* marks of places they may exceed 16 bits.  The filter ahead of the       *)
(* converter is left out: it makes one sample of one, is made anew with    *)
(* the converter, and is in Resampling by itself.                          *)
(***************************************************************************)
EXTENDS Resampling

CONSTANTS
  Client,        \* audio connections
  Rates,         \* rates the browsers announce
  LineRate,      \* cfg.UDP.Rate
  FrameSamples,  \* serverFrameSamples, 256 in the code
  Sizes,         \* samples of a message
  MaxSamples,    \* bound: samples of each connection
  MaxConfigs     \* bound: messages of the control connections

InputAssumption ==
  /\ LineRate \in Nat \ {0} /\ Rates \subseteq Nat \ {0} /\ FrameSamples \in Nat \ {0}
  /\ Sizes \subseteq Nat /\ MaxSamples \in Nat /\ MaxConfigs \in Nat

VARIABLES
  wsInputRate,   \* of all connections
  txSource,      \* "ws" or another
  state,         \* of each connection: rate, resampler and the samples short of a block
  place,         \* samples each has sent
  blocks,        \* those its last message completed, in order
  before,        \* history: the last sample of the block before, 0 for none
  missed,        \* history: a message was ignored since the converter was made
  configs

input == <<wsInputRate, txSource, state, place, blocks, before, missed, configs>>

NoInput == [rate |-> 0, resampler |-> NewResampler(1, 1), pcmBuf |-> <<>>]

InputInit ==
  /\ wsInputRate = LineRate
  /\ txSource \in {"ws", "other"}
  /\ state = [c \in Client |-> NoInput]
  /\ place = [c \in Client |-> 0]
  /\ blocks = [c \in Client |-> <<>>]
  /\ before = [c \in Client |-> 0]
  /\ missed = [c \in Client |-> FALSE]
  /\ configs = 0

\* A config message with a rate, with a source.
ChooseRate(r) == wsInputRate' = r /\ UNCHANGED txSource
ChooseSource(s) == txSource' = s /\ UNCHANGED wsInputRate

Configure ==
  /\ configs < MaxConfigs
  /\ configs' = configs + 1
  /\ \/ \E r \in Rates \ {wsInputRate} : ChooseRate(r)
     \/ ChooseSource(IF txSource = "ws" THEN "other" ELSE "ws")
  /\ UNCHANGED <<state, place, blocks, before, missed>>

\* The converter is made anew when the rate is another, and what was short of a block is
\* let go.  Mutant: it is not.
CurrentKeepsBuffer(s) ==
  IF s.rate = wsInputRate THEN s
  ELSE [s EXCEPT !.rate = wsInputRate, !.resampler = NewResampler(wsInputRate, LineRate)]
Current(s) ==
  IF s.rate = wsInputRate THEN s
  ELSE [rate |-> wsInputRate, resampler |-> NewResampler(wsInputRate, LineRate), pcmBuf |-> <<>>]

CutBlocks(pcm) ==
  [k \in 1 .. Len(pcm) \div FrameSamples |-> SubSeq(pcm, (k - 1) * FrameSamples + 1, k * FrameSamples)]

Ramp(c, n) == [k \in 1 .. n |-> (place[c] + k) * LineRate]

LastSaid(c) ==
  IF blocks[c] = <<>> THEN before[c] ELSE blocks[c][Len(blocks[c])][FrameSamples]

Binary(c) ==
  \E n \in Sizes :
    /\ place[c] + n <= MaxSamples
    /\ place' = [place EXCEPT ![c] = @ + n]
    /\ IF txSource # "ws"
         THEN /\ missed' = [missed EXCEPT ![c] = TRUE]
              /\ blocks' = [blocks EXCEPT ![c] = <<>>]
              /\ before' = [before EXCEPT ![c] = LastSaid(c)]
              /\ UNCHANGED state
         ELSE LET s == Current(state[c])
                  made == Process(s.resampler, Ramp(c, n))
                  pcm == s.pcmBuf \o made.out
                  cut == CutBlocks(pcm)
                  anew == s.rate # state[c].rate
              IN /\ state' = [state EXCEPT ![c] =
                                [s EXCEPT !.resampler = made.next,
                                          !.pcmBuf = SubSeq(pcm, Len(cut) * FrameSamples + 1, Len(pcm))]]
                 /\ blocks' = [blocks EXCEPT ![c] = cut]
                 /\ before' = [before EXCEPT ![c] = IF anew THEN 0 ELSE LastSaid(c)]
                 /\ missed' = [missed EXCEPT ![c] = IF anew THEN FALSE ELSE @]
    /\ UNCHANGED <<wsInputRate, txSource, configs>>

InputNext == Configure \/ \E c \in Client : Binary(c)
InputSpec == InputInit /\ [][InputNext]_input

-----------------------------------------------------------------------------
\* No connection keeps a whole block back.
InputTypeOK ==
  /\ wsInputRate \in Rates \cup {LineRate}
  /\ \A c \in Client : Len(state[c].pcmBuf) < FrameSamples /\ Len(state[c].resampler.buf) <= 1

\* What goes to the matrix is the audio of a connection without a seam: from sample to
\* sample, within a block and from one block to the next, it advances by its rate, never
\* by that of another browser's message in between; unless messages were ignored while
\* another source was on, after which what was left over is played first.
Seamless ==
  \A c \in Client :
    LET said == (IF before[c] = 0 THEN <<>> ELSE <<before[c]>>) \o
                 [k \in 1 .. Len(blocks[c]) * FrameSamples |->
                    blocks[c][((k - 1) \div FrameSamples) + 1][((k - 1) % FrameSamples) + 1]]
    IN /\ \A k \in 2 .. Len(said) : said[k] > said[k - 1]
       /\ ~missed[c] => \A k \in 2 .. Len(said) : said[k] - said[k - 1] = state[c].rate

\* The audio of a browser goes to the matrix without a seam (handleAudioBinary).
NoSeam == InputTypeOK /\ Seamless
=============================================================================
