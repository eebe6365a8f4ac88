------------------------------- MODULE TxPath -------------------------------
(***************************************************************************)
(* The transmit path of the gateway: PRTP control frames and audio blocks  *)
(* from many goroutines share one UDP packet stream, written by a single   *)
(* ticker goroutine.                                                       *)
(*                                                                         *)
(* Control frames go to prtpControlQueue, two lists and the frame being    *)
(* sent, under a mutex; each audio packet carries up to Chunk bytes of it. *)
(* Audio blocks go to txAudioQueue, a channel of Capacity blocks.  A       *)
(* goroutine that finds the channel full empties it, receive by receive,   *)
(* and tries once more, while the others and the ticker go on.             *)
(*                                                                         *)
(* A control frame is a name with a length; its bytes are numbered, so     *)
(* that the model can tell whole frames from mixed ones.                   *)
(***************************************************************************)
EXTENDS Integers, SequencesExt

CONSTANTS
  Frame,      \* control frames, each sent once
  High,       \* those sent with prtpControlHigh; the others are prtpControlNormal
  Length,     \* number of bytes of a frame
  Chunk,      \* control bytes per packet: 4
  Capacity,   \* txQueueFrames: 4
  Sender,     \* goroutines that send control frames
  Speaker,    \* goroutines that send real audio
  MaxBlocks   \* bound: blocks of real audio per speaker

ASSUME FrameAssumption ==
  /\ IsFiniteSet(Frame)
  /\ High \subseteq Frame
  /\ Length \in [Frame -> Nat \ {0}]
ASSUME SizeAssumption ==
  /\ Chunk \in Nat \ {0} /\ Capacity \in Nat \ {0}
  /\ MaxBlocks \in Nat
ASSUME ProcessAssumption ==
  /\ Sender \intersect Speaker = {}
  /\ "silence" \notin Speaker     \* it marks the blocks that nobody spoke

Producer == Sender \union Speaker
Silence == <<"silence", 0>>

VARIABLES
  active,     \* bytes of the started frame that are still to be sent
  high,       \* waiting frames, by priority
  normal,
  audio,      \* txAudioQueue
  peer,       \* a peer address is known
  quiet,      \* the transmit source is silence or tone
  recent,     \* real audio was queued within the last two frame durations
  pc,         \* where each producer is: ready, drain, offer, flush, again
  block,      \* the audio block a producer is queueing
  spoken,     \* real blocks each speaker has produced
  tick,       \* where the ticker goroutine is: idle, check, pop, write
  taken,      \* the audio block of the packet being built
  accepted,   \* history: the frames enqueued so far, in order
  popped,     \* history: the control bytes put into packets so far, in order
  aired       \* history: the last block of each speaker put into a packet

queue == <<active, high, normal>>
ticker == <<tick, taken>>
history == <<accepted, popped, aired>>
settings == <<peer, quiet, recent>>
producers == <<pc, block, spoken>>
vars == <<queue, audio, settings, producers, ticker, history>>

Bytes(f) == [k \in 1 .. Length[f] |-> <<f, k>>]

HasControl == active # <<>> \/ high # <<>> \/ normal # <<>>    \* prtpPending() > 0

Init ==
  /\ active = <<>> /\ high = <<>> /\ normal = <<>>
  /\ audio = <<>>
  /\ peer \in BOOLEAN         \* preset in the configuration, or to be learned
  /\ quiet \in BOOLEAN
  /\ recent = FALSE
  /\ pc = [g \in Producer |-> "ready"]
  /\ block = [g \in Producer |-> Silence]
  /\ spoken = [g \in Speaker |-> 0]
  /\ tick = "idle"
  /\ taken = Silence
  /\ accepted = <<>>
  /\ popped = <<>>
  /\ aired = [g \in Speaker |-> 0]

-----------------------------------------------------------------------------
(***************************************************************************)
(* What the other goroutines change.                                       *)
(***************************************************************************)

\* setPeer: the first packet makes its sender the peer; the address may change
\* later but is never forgotten.
LearnPeer ==
  /\ ~peer
  /\ peer' = TRUE
  /\ UNCHANGED <<queue, audio, quiet, recent, producers, ticker, history>>

\* setTXSource, on behalf of a browser.
SetSource ==
  /\ quiet' = ~quiet
  /\ UNCHANGED <<queue, audio, peer, recent, producers, ticker, history>>

\* Two frame durations pass without real audio.
AudioAges ==
  /\ recent
  /\ recent' = FALSE
  /\ UNCHANGED <<queue, audio, peer, quiet, producers, ticker, history>>

-----------------------------------------------------------------------------
(***************************************************************************)
(* Producers.                                                              *)
(***************************************************************************)

Goto(g, l) == pc' = [pc EXCEPT ![g] = l]

\* A frame joins those of its priority.  Mutant: it replaces them.
ReplaceHigh(f) == high' = <<f>> /\ UNCHANGED normal
AppendHigh(f) == high' = Append(high, f) /\ UNCHANGED normal
AppendNormal(f) == normal' = Append(normal, f) /\ UNCHANGED high

\* prtpEnqueue, under ctrlMu.
Enqueue(g, f) ==
  /\ pc[g] = "ready"
  /\ \A i \in DOMAIN accepted : accepted[i] # f
  /\ IF f \in High THEN AppendHigh(f) ELSE AppendNormal(f)
  /\ accepted' = Append(accepted, f)
  /\ Goto(g, "drain")
  /\ UNCHANGED <<active, audio, settings, block, spoken, ticker, popped, aired>>

\* queueControlDrain: a silent block to carry the frame, unless there is no peer
\* to send it to, the source produces blocks by itself or audio is flowing.
ControlDrain(g) ==
  /\ pc[g] = "drain"
  /\ IF peer /\ ~quiet /\ ~recent
       THEN Goto(g, "offer") /\ block' = [block EXCEPT ![g] = Silence]
       ELSE Goto(g, "ready") /\ UNCHANGED block
  /\ UNCHANGED <<queue, audio, settings, spoken, ticker, history>>

\* sendAudioBlock: without a peer the block is dropped at once.
Speak(g) ==
  /\ pc[g] = "ready"
  /\ spoken[g] < MaxBlocks
  /\ spoken' = [spoken EXCEPT ![g] = @ + 1]
  /\ IF peer
       THEN /\ recent' = TRUE
            /\ block' = [block EXCEPT ![g] = <<g, spoken'[g]>>]
            /\ Goto(g, "offer")
       ELSE UNCHANGED <<recent, block, pc>>
  /\ UNCHANGED <<queue, audio, peer, quiet, ticker, history>>

\* Mutant of Put: the block goes to the front.
PutFirst(g) == audio' = <<block[g]>> \o audio

Put(g) == audio' = Append(audio, block[g])
Return(g) == Goto(g, "ready") /\ block' = [block EXCEPT ![g] = Silence]

\* queueAudioBlock: the first, non-blocking send.
Offer(g) ==
  /\ pc[g] = "offer"
  /\ IF Len(audio) < Capacity
       THEN Put(g) /\ Return(g)
       ELSE Goto(g, "flush") /\ UNCHANGED <<audio, block>>
  /\ UNCHANGED <<queue, settings, spoken, ticker, history>>

\* One turn of the loop that empties the channel.
Flush(g) ==
  /\ pc[g] = "flush"
  /\ IF audio # <<>>
       THEN audio' = Tail(audio) /\ UNCHANGED pc
       ELSE Goto(g, "again") /\ UNCHANGED audio
  /\ UNCHANGED <<queue, settings, block, spoken, ticker, history>>

\* The second send; a channel filled again by others drops the block.
Again(g) ==
  /\ pc[g] = "again"
  /\ IF Len(audio) < Capacity THEN Put(g) ELSE UNCHANGED audio
  /\ Return(g)
  /\ UNCHANGED <<queue, settings, spoken, ticker, history>>

-----------------------------------------------------------------------------
(***************************************************************************)
(* The ticker goroutine.                                                   *)
(***************************************************************************)

\* A tick takes the oldest block, if there is one.
Tick ==
  /\ tick = "idle"
  /\ IF audio # <<>>
       THEN taken' = Head(audio) /\ audio' = Tail(audio) /\ tick' = "pop"
       ELSE tick' = "check" /\ UNCHANGED <<taken, audio>>
  /\ UNCHANGED <<queue, settings, producers, history>>

\* Mutants of Check: the peer is not asked for, and no silent packet is built.
CheckNoPeer ==
  /\ tick = "check"
  /\ IF HasControl
       THEN tick' = "pop" /\ taken' = Silence
       ELSE tick' = "idle" /\ UNCHANGED taken
  /\ UNCHANGED <<queue, audio, settings, producers, history>>

CheckNever ==
  /\ tick = "check"
  /\ tick' = "idle"
  /\ UNCHANGED <<queue, audio, settings, producers, taken, history>>

\* Without one, control bytes get a silent packet of their own.
Check ==
  /\ tick = "check"
  /\ IF HasControl /\ peer
       THEN tick' = "pop" /\ taken' = Silence
       ELSE tick' = "idle" /\ UNCHANGED taken
  /\ UNCHANGED <<queue, audio, settings, producers, history>>

\* Send the first bytes of `left' and keep the rest for the next packet.
Send(left) ==
  LET n == IF Len(left) < Chunk THEN Len(left) ELSE Chunk
  IN  /\ popped' = popped \o SubSeq(left, 1, n)
      /\ active' = SubSeq(left, n + 1, Len(left))

\* A started frame is finished first, then the waiting ones by priority.
Continue == active # <<>> /\ Send(active) /\ UNCHANGED <<high, normal>>

\* Mutants: the high-priority frame does not wait for the started one; the newest
\* goes first.
StartHighAtOnce == high # <<>> /\ Send(Bytes(Head(high))) /\ high' = Tail(high) /\ UNCHANGED normal
StartHighNewest ==
  /\ active = <<>> /\ high # <<>>
  /\ Send(Bytes(Last(high))) /\ high' = Front(high) /\ UNCHANGED normal
StartHigh ==
  /\ active = <<>> /\ high # <<>>
  /\ Send(Bytes(Head(high))) /\ high' = Tail(high) /\ UNCHANGED normal

\* Mutant: the high-priority frames are not looked at.
StartNormalAnyway ==
  /\ active = <<>> /\ normal # <<>>
  /\ Send(Bytes(Head(normal))) /\ normal' = Tail(normal) /\ UNCHANGED high
StartNormal ==
  /\ active = <<>> /\ high = <<>> /\ normal # <<>>
  /\ Send(Bytes(Head(normal))) /\ normal' = Tail(normal) /\ UNCHANGED high

\* prtpPop, under ctrlMu.
Pop ==
  /\ tick = "pop"
  /\ tick' = "write"
  /\ \/ Continue \/ StartHigh \/ StartNormal
     \/ ~HasControl /\ UNCHANGED <<queue, popped>>
  /\ UNCHANGED <<audio, settings, producers, taken, accepted, aired>>

\* BuildAudioPacket and WriteTo.  Whether the write fails makes no difference
\* here: the packet is not repeated.
Write ==
  /\ tick = "write"
  /\ tick' = "idle"
  /\ taken' = Silence
  /\ aired' = IF taken = Silence \/ ~peer THEN aired ELSE [aired EXCEPT ![taken[1]] = taken[2]]
  /\ UNCHANGED <<queue, audio, settings, producers, accepted, popped>>

Produce(g) == ControlDrain(g) \/ Offer(g) \/ Flush(g) \/ Again(g)
Transmit == Tick \/ Check \/ Pop \/ Write

Next ==
  \/ LearnPeer
  \/ SetSource
  \/ AudioAges
  \/ \E g \in Sender, f \in Frame : Enqueue(g, f)
  \/ \E g \in Speaker : Speak(g)
  \/ \E g \in Producer : Produce(g)
  \/ Transmit

Spec == Init /\ [][Next]_vars

\* The ticker keeps ticking and a started call goes on; nobody has to send, and
\* the peer need not show up.
Fairness == WF_vars(Transmit) /\ \A g \in Producer : WF_vars(Produce(g))
FairSpec == Spec /\ Fairness

-----------------------------------------------------------------------------
(***************************************************************************)
(* Properties.                                                             *)
(***************************************************************************)

Block == {Silence} \union (Speaker \X (1 .. MaxBlocks))
Byte == {b \in Frame \X Nat : b[2] \in 1 .. Length[b[1]]}

\* The variables keep their types, and the channel its capacity.
TypeOK ==
  /\ active \in Seq(Byte)
  /\ high \in Seq(High)
  /\ normal \in Seq(Frame \ High)
  /\ audio \in Seq(Block) /\ Len(audio) <= Capacity
  /\ peer \in BOOLEAN /\ quiet \in BOOLEAN /\ recent \in BOOLEAN
  /\ pc \in [Producer -> {"ready", "drain", "offer", "flush", "again"}]
  /\ block \in [Producer -> Block]
  /\ spoken \in [Speaker -> 0 .. MaxBlocks]
  /\ tick \in {"idle", "check", "pop", "write"}
  /\ taken \in Block
  /\ accepted \in Seq(Frame)
  /\ popped \in Seq(Byte)
  /\ aired \in [Speaker -> 0 .. MaxBlocks]

\* A goroutine is inside queueAudioBlock.
Queueing(g) == pc[g] \in {"offer", "flush", "again"}

\* A packet is under construction, a block is queued or being queued, only once
\* the peer is known: no control byte is ever taken from the queue for a packet
\* that has nowhere to go.
PeerBeforeBytes ==
  /\ tick \in {"pop", "write"} => peer
  /\ audio # <<>> => peer
  /\ \A g \in Producer : Queueing(g) => peer
  /\ active # <<>> => peer

\* The bytes of the frames that have been started.
Started == popped \o active

\* Control bytes leave as whole frames: each byte is preceded and followed by its
\* neighbours of the same frame, and none leaves twice, whatever is enqueued meanwhile.
\* No enqueued frame is lost: it is waiting or has been started (prtpControlQueue).
FramesIntact ==
  /\ \A i \in DOMAIN Started :
       LET f == Started[i][1]
           k == Started[i][2]
       IN  /\ k > 1 => i > 1 /\ Started[i - 1] = <<f, k - 1>>
           /\ k < Length[f] => i < Len(Started) /\ Started[i + 1] = <<f, k + 1>>
           /\ \A j \in DOMAIN Started : Started[j] = Started[i] => j = i
  /\ \A i \in DOMAIN accepted :
       \/ Contains(high, accepted[i])
       \/ Contains(normal, accepted[i])
       \/ Contains(Started, <<accepted[i], 1>>)

\* Within one priority, frames are started in the order they were enqueued.
ClassInOrder ==
  \A i, j \in DOMAIN accepted :
    /\ i < j
    /\ accepted[i] \in High <=> accepted[j] \in High
    /\ Contains(Started, <<accepted[j], 1>>)
    => \E m, n \in DOMAIN Started :
         m < n /\ Started[m] = <<accepted[i], 1>> /\ Started[n] = <<accepted[j], 1>>

\* The blocks on their way to a packet, the one the goroutine is queueing last.
Way(g) == <<taken>> \o audio \o (IF Queueing(g) THEN <<block[g]>> ELSE <<>>)

\* The real audio of one speaker reaches the packets in the order it was spoken,
\* although blocks are dropped and others interfere: a block still on its way is
\* newer than the last one aired, and than those of the speaker ahead of it.
AudioInOrder ==
  \A g \in Speaker : \A i \in DOMAIN Way(g) :
    Way(g)[i][1] = g =>
      /\ Way(g)[i][2] > aired[g]
      /\ \A j \in 1 .. i - 1 : Way(g)[j][1] = g => Way(g)[j][2] < Way(g)[i][2]

\* A high-priority frame is overtaken by no normal frame that was not already on
\* its way when it was enqueued.
HighFirst ==
  [][\A f \in Frame \ High, h \in High :
       /\ Contains(Started', <<f, 1>>) /\ ~Contains(Started, <<f, 1>>)
       /\ Contains(accepted, h)
       => Contains(Started, <<h, 1>>)]_vars

\* What goes to the matrix keeps its order, frames of a priority, those before the frames
\* of another, and audio of a speaker, however producers and the ticker interleave
\* (prtpPop, queueAudioBlock).
InOrder == [](ClassInOrder /\ AudioInOrder) /\ HighFirst

\* Once the peer is known, every enqueued frame leaves in full, with or without
\* audio flowing: the ticker carries it when nothing else does.
ControlLeaves ==
  \A f \in Frame :
    (peer /\ Contains(accepted, f)) ~> Contains(popped, <<f, Length[f]>>)
=============================================================================
