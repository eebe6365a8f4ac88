----------------------------- MODULE MCProgress -----------------------------
(***************************************************************************)
(* What must happen in the end, for TLC, one part at a time: control       *)
(* frames leave, a connection ends, pumps follow devices, the newest frame *)
(* is played, a device closes.                                             *)
(***************************************************************************)
EXTENDS ClientQueues

VARIABLES
  part,      \* which of them runs, the others stay as they start
  active, high, normal, audio, peer, quiet, recent, goroutine, block, spoken, tick, taken,
  accepted, popped, aired,                                             \* TxPath
  supported, selected, enabled, generation, local, source, pumps, step, ask, want, opened, note,
  untold, told, overtaken, confused, asks, failures,                   \* ServerAudio
  device, plays, rate, pending, latest, offer, got, seen, resampler, sounded,  \* ServerPlayback
  wanted, duplex, control, context, devices, closed, playQueue, chunk, playing, buffer, need, last,
  capQueue, capClosed, capture, capturing, pumped, pump                \* LocalAudio

transmit == <<active, high, normal, audio, peer, quiet, recent, goroutine, block, spoken, tick, taken,
              accepted, popped, aired>>
connection == vars   \* of ClientQueues
selection == <<supported, selected, enabled, generation, local, source, pumps, step, ask, want,
               opened, note, untold, told, overtaken, confused, asks, failures>>
player == <<device, plays, rate, pending, latest, offer, got, seen, resampler, sounded>>
sound == <<wanted, duplex, control, context, devices, closed, playQueue, chunk, playing, buffer,
           need, last, capQueue, capClosed, capture, capturing, pumped, pump>>

\* One goroutine that sends frames, a normal one for two packets, one that speaks.
Frames == {"ident", "key"}
FrameLength == [f \in Frames |-> IF f = "ident" THEN 3 ELSE 2]
Tx == INSTANCE TxPath
  WITH Frame <- Frames, High <- {"key"}, Length <- FrameLength, Chunk <- 2, Capacity <- 1,
       Sender <- {"rx"}, Speaker <- {"mic"}, MaxBlocks <- 1, pc <- goroutine

\* Two panels with two requests, to capture or to stop, one of which may fail.
Request(capturePlays, src) ==
  [devices |-> TRUE, source |-> src,
   enable |-> [d \in {"capture", "playback"} |-> IF d = "capture" THEN capturePlays ELSE "keep"],
   id |-> [d \in {"capture", "playback"} |-> "same"]]
SomeRequests == {Request("on", "same"), Request("off", "ws")}
Selection == INSTANCE ServerAudio
  WITH Panels <- {"p1", "p2"}, Ids <- {"a"}, Keep <- "same", Requests <- SomeRequests,
       MaxRequests <- 2, MaxFailures <- 1

\* A queue of two, four frames, two devices.
Player == INSTANCE ServerPlayback
  WITH QueueFrames <- 2, Rates <- {16, 48}, MaxFrames <- 3, MaxOpens <- 2,
       generation <- device, playing <- plays, queue <- pending, frame <- latest, taken <- got,
       played <- sounded

\* Queues of one, chunks of two samples.
Sound == INSTANCE LocalAudio
  WITH QueueFrames <- 1, Period <- 2, BufferedFrames <- 2, Needs <- {3}, MaxChunks <- 2,
       MaxCaptures <- 2

ASSUME
  /\ Tx!FrameAssumption /\ Tx!SizeAssumption /\ Tx!ProcessAssumption
  /\ CapAssumption /\ Selection!ServerAudioAssumption /\ Player!PlaybackAssumption
  /\ Sound!LocalAudioAssumption

\* Where a goroutine would run by itself, a part that does not run has it switched off.
TxOff ==
  /\ tick = "off"
  /\ active = <<>> /\ high = <<>> /\ normal = <<>> /\ audio = <<>>
  /\ peer = FALSE /\ quiet = FALSE /\ recent = FALSE
  /\ goroutine = [g \in {"rx", "mic"} |-> "ready"] /\ block = [g \in {"rx", "mic"} |-> Tx!Silence]
  /\ spoken = [mic |-> 0] /\ taken = Tx!Silence
  /\ accepted = <<>> /\ popped = <<>> /\ aired = [mic |-> 0]

\* A connection that was closed before anything was written to it.
QueuesOff ==
  /\ kind = "audio" /\ done = TRUE /\ conn = FALSE /\ loop = "exit" /\ sending = Nothing
  /\ textSend = <<>> /\ audioSend = <<>>
  /\ pc = [w \in Writer |-> "idle"] /\ text = [w \in Writer |-> 0]
  /\ camera = "idle" /\ frame = 0 /\ heard = text /\ played = 0

SoundOff ==
  /\ control = "off" /\ wanted = {} /\ duplex = FALSE
  /\ context = FALSE /\ devices = {} /\ closed = FALSE
  /\ playQueue = <<>> /\ chunk = 0 /\ playing = "idle" /\ buffer = <<>> /\ need = 0 /\ last = 0
  /\ capQueue = <<>> /\ capClosed = FALSE /\ capture = 0 /\ capturing = "idle"
  /\ pumped = 0 /\ pump = "none"

MCInit ==
  /\ part \in {"tx", "queues", "selection", "player", "sound"}
  /\ Selection!SelectionInit /\ Player!Init
  /\ supported   \* otherwise no device opens
  /\ IF part = "tx" THEN Tx!Init ELSE TxOff
  /\ IF part = "queues" THEN Init ELSE QueuesOff
  /\ IF part = "sound" THEN Sound!Init ELSE SoundOff

MCNext ==
  \/ part = "tx" /\ Tx!Next /\ UNCHANGED <<part, connection, selection, player, sound>>
  \/ part = "queues" /\ Next /\ UNCHANGED <<part, transmit, selection, player, sound>>
  \/ part = "selection" /\ Selection!SelectionNext /\ UNCHANGED <<part, transmit, connection, player, sound>>
  \/ part = "player" /\ Player!Next /\ UNCHANGED <<part, transmit, connection, selection, sound>>
  \/ part = "sound" /\ Sound!Next /\ UNCHANGED <<part, transmit, connection, selection, player>>

MCSpec ==
  /\ MCInit /\ [][MCNext]_<<part, transmit, connection, selection, player, sound>>
  /\ Tx!Fairness /\ Fairness
  /\ Selection!SelectionFairness /\ Player!Fairness /\ Sound!Fairness

-----------------------------------------------------------------------------
\* Once the peer is known, every enqueued frame leaves in full, with or without audio
\* (queueControlDrain, the ticker of Serve).
ControlLeaves == part = "tx" => Tx!ControlLeaves

\* A capture device is pumped by one pump of its own; the newest frame received is queued
\* and played, in order, through a resampler of the device (queueServerPlayback).
SoundFlows ==
  /\ Selection!PumpFollowsDevice /\ Player!NewestPlayed
  /\ [](part = "player" => Player!TypeOK /\ Player!OwnResampler)
  /\ Player!InOrder /\ Player!NewestQueued

\* A device that is closed under its users closes, and its pump ends (malgoLocal.Close).
\* A connection closed for any reason comes to its end, and nobody waits for a browser that
\* does not read (client).
Closes == Sound!Closes /\ ClosedEnds /\ [](part = "queues" => WritesGoOn)
=============================================================================
