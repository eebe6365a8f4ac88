----------------------------- MODULE LocalAudio -----------------------------
(***************************************************************************)
(* One local audio device from NewLocalWithOptions to Close: opening in    *)
(* steps that may fail, the callbacks of the audio thread, Play from the   *)
(* playback goroutine, the capture pump, and closing under all of them.    *)
(***************************************************************************)
EXTENDS Naturals, Sequences, SequencesExt, FiniteSetsExt

CONSTANTS
  QueueFrames,      \* LocalAudioQueueFrames
  Period,           \* frameSamples: samples of a chunk
  BufferedFrames,   \* LocalAudioBufferedFrames
  Needs,            \* samples a playback callback may ask for
  MaxChunks, MaxCaptures  \* bounds

LocalAudioAssumption ==
  /\ QueueFrames \in Nat \ {0} /\ Period \in Nat \ {0} /\ BufferedFrames \in Nat \ {0}
  /\ Needs \subseteq Nat \ {0} /\ MaxChunks \in Nat /\ MaxCaptures \in Nat

VARIABLES
  wanted, duplex,    \* the options: directions, one device for both
  control,           \* where NewLocalWithOptions or Close is
  context, devices,  \* what is allocated: the context, devices that run
  closed,            \* the flag Close sets first
  playQueue, chunk, playing,   \* playbackQueue; chunks offered so far; Play: "idle", "full", "drained"
  buffer, need,      \* playbackBuf; samples the callback under way wants, 0 without one
  last,              \* the last sample that was heard
  capQueue, capClosed,         \* captureChan
  capture, capturing,          \* frames captured; the callback: "idle", "send", "full", "drained"
  pumped, pump       \* the last frame the pump read, its state: "none", "running", "ended"

opening == <<wanted, duplex>>
handle == <<control, context, devices, closed>>
playback == <<playQueue, chunk, playing, buffer, need, last>>
captureSide == <<capQueue, capture, capturing, pumped>>
vars == <<opening, handle, playback, captureSide, capClosed, pump>>

Kinds == IF duplex THEN {"duplex"} ELSE wanted
Running(direction) == "duplex" \in devices \/ direction \in devices

Init ==
  /\ wanted \in (SUBSET {"playback", "capture"}) \ {{}} /\ duplex \in BOOLEAN
  /\ control = "context" /\ context = FALSE /\ devices = {} /\ closed = FALSE
  /\ playQueue = <<>> /\ chunk = 0 /\ playing = "idle"
  /\ buffer = <<>> /\ need = 0 /\ last = 0
  /\ capQueue = <<>> /\ capClosed = FALSE /\ capture = 0 /\ capturing = "idle"
  /\ pumped = 0 /\ pump = "none"

-----------------------------------------------------------------------------
\* NewLocalWithOptions
InitContext ==
  /\ control = "context"
  /\ \/ control' = "devices" /\ context' = TRUE
     \/ control' = "failed" /\ UNCHANGED context
  /\ UNCHANGED <<opening, devices, closed, playback, captureSide, capClosed, pump>>

\* A device that does not start is uninitialised on the spot; Close then takes care of the
\* others and of the context.
FailedWithout == "failed"
FailedTo == "close"

\* The playback device is opened first.  Its callbacks may begin before this returns.
StartDevice(kind) ==
  /\ control = "devices" /\ kind \in Kinds \ devices
  /\ kind = "capture" => Kinds \ devices = {"capture"}
  /\ \/ devices' = devices \cup {kind} /\ UNCHANGED control
     \/ control' = FailedTo /\ UNCHANGED devices
  /\ UNCHANGED <<opening, context, closed, playback, captureSide, capClosed, pump>>

\* The handle goes to the gateway, which starts the pump if it captures.
Opened ==
  /\ control = "devices" /\ devices = Kinds
  /\ control' = "open"
  /\ pump' = IF "capture" \in wanted THEN "running" ELSE pump
  /\ UNCHANGED <<opening, context, devices, closed, playback, captureSide, capClosed>>

-----------------------------------------------------------------------------
\* Play
Play ==
  /\ control \notin {"context", "devices", "failed"}  \* also after Close: the caller has looked it up before
  /\ playing = "idle" /\ chunk < MaxChunks
  /\ IF "playback" \notin wanted \/ closed
       THEN UNCHANGED <<playQueue, chunk, playing>>
       ELSE /\ chunk' = chunk + 1
            /\ IF Len(playQueue) < QueueFrames
                 THEN playQueue' = Append(playQueue, chunk') /\ UNCHANGED playing
                 ELSE playing' = "full" /\ UNCHANGED playQueue
  /\ UNCHANGED <<opening, handle, buffer, need, last, captureSide, capClosed, pump>>

\* The whole queue is thrown away, one chunk after the other.
PlayDrain ==
  /\ playing = "full"
  /\ IF playQueue = <<>> THEN playing' = "drained" /\ UNCHANGED playQueue
                         ELSE playQueue' = Tail(playQueue) /\ UNCHANGED playing
  /\ UNCHANGED <<opening, handle, chunk, buffer, need, last, captureSide, capClosed, pump>>

PlayAgain ==
  /\ playing = "drained" /\ playing' = "idle"
  /\ playQueue' = IF Len(playQueue) < QueueFrames THEN Append(playQueue, chunk) ELSE playQueue
  /\ UNCHANGED <<opening, handle, chunk, buffer, need, last, captureSide, capClosed, pump>>

\* playbackCallback: chunks are pulled until there are enough samples, then played.
CallPlayback(n) ==
  /\ Running("playback") /\ need = 0 /\ ~closed
  /\ duplex => capturing = "idle"
  /\ need' = n
  /\ UNCHANGED <<opening, handle, playQueue, chunk, playing, buffer, last, captureSide, capClosed, pump>>

\* Play gets frames as the resampler makes them; here each is as long as a period.
Samples(c) == [i \in 1 .. Period |-> (c - 1) * Period + i]
AllOf(s) == s
Newest(s) == SubSeq(s, Max({1, Len(s) - Period * BufferedFrames + 1}), Len(s))

Pull ==
  /\ need > Len(buffer) /\ playQueue # <<>>
  /\ buffer' = Newest(buffer \o Samples(Head(playQueue)))
  /\ playQueue' = Tail(playQueue)
  /\ UNCHANGED <<opening, handle, chunk, playing, need, last, captureSide, capClosed, pump>>

\* What is missing is silence.
Heard == SubSeq(buffer, 1, Min({need, Len(buffer)}))
EmitKeeps ==
  /\ need > 0 /\ (need <= Len(buffer) \/ playQueue = <<>>)
  /\ last' = IF Heard = <<>> THEN last ELSE Last(Heard)
  /\ need' = 0
  /\ UNCHANGED <<opening, handle, playQueue, chunk, playing, buffer, captureSide, capClosed, pump>>

Emit ==
  /\ need > 0 /\ (need <= Len(buffer) \/ playQueue = <<>>)
  /\ last' = IF Heard = <<>> THEN last ELSE Last(Heard)
  /\ buffer' = SubSeq(buffer, Len(Heard) + 1, Len(buffer))
  /\ need' = 0
  /\ UNCHANGED <<opening, handle, playQueue, chunk, playing, captureSide, capClosed, pump>>

-----------------------------------------------------------------------------
\* captureCallback
CallCapture ==
  /\ Running("capture") /\ "capture" \in wanted /\ ~closed
  /\ capturing = "idle" /\ (duplex => need = 0) /\ capture < MaxCaptures
  /\ capture' = capture + 1 /\ capturing' = "send"
  /\ UNCHANGED <<opening, handle, playback, capQueue, capClosed, pumped, pump>>

SendCapture ==
  /\ capturing = "send"
  /\ IF Len(capQueue) < QueueFrames
       THEN capQueue' = Append(capQueue, capture) /\ capturing' = "idle"
       ELSE capturing' = "full" /\ UNCHANGED capQueue
  /\ UNCHANGED <<opening, handle, playback, capture, capClosed, pumped, pump>>

DrainCaptureByOne ==
  /\ capturing = "full" /\ capQueue # <<>>
  /\ capQueue' = Tail(capQueue) /\ capturing' = "idle"
  /\ UNCHANGED <<opening, handle, playback, capture, capClosed, pumped, pump>>

DrainCapture ==
  /\ capturing = "full"
  /\ IF capQueue = <<>> THEN capturing' = "drained" /\ UNCHANGED capQueue
                        ELSE capQueue' = Tail(capQueue) /\ UNCHANGED capturing
  /\ UNCHANGED <<opening, handle, playback, capture, capClosed, pumped, pump>>

SendCaptureAgain ==
  /\ capturing = "drained" /\ capturing' = "idle"
  /\ capQueue' = IF Len(capQueue) < QueueFrames THEN Append(capQueue, capture) ELSE capQueue
  /\ UNCHANGED <<opening, handle, playback, capture, capClosed, pumped, pump>>

\* The pump, on the other side of the channel, until it is closed and empty.
PumpRead ==
  /\ pump = "running" /\ capQueue # <<>>
  /\ pumped' = Head(capQueue) /\ capQueue' = Tail(capQueue)
  /\ UNCHANGED <<opening, handle, playback, capture, capturing, capClosed, pump>>

PumpEnd ==
  /\ pump = "running" /\ capQueue = <<>> /\ capClosed
  /\ pump' = "ended"
  /\ UNCHANGED <<opening, handle, playback, captureSide, capClosed>>

-----------------------------------------------------------------------------
\* Close, once, by the gateway or after a failure to open.
CloseFlag ==
  /\ control \in {"open", "close"}
  /\ closed' = TRUE /\ control' = "stop"
  /\ UNCHANGED <<opening, context, devices, playback, captureSide, capClosed, pump>>

\* Stopping a device waits for its callback.
Quiet(kind) ==
  /\ kind \in {"playback", "duplex"} => need = 0
  /\ kind \in {"capture", "duplex"} => capturing = "idle"

StopDevice(kind) ==
  /\ control = "stop" /\ kind \in devices /\ Quiet(kind)
  /\ kind = "capture" => devices = {"capture"}
  /\ devices' = devices \ {kind}
  /\ UNCHANGED <<opening, control, context, closed, playback, captureSide, capClosed, pump>>

CloseChannelFirst ==
  /\ control = "stop"
  /\ capClosed' = ("capture" \in wanted)
  /\ IF devices = {} THEN control' = "closed" /\ context' = FALSE ELSE UNCHANGED <<control, context>>
  /\ UNCHANGED <<opening, devices, closed, playback, captureSide, pump>>

CloseRestOpen ==
  /\ control = "stop" /\ devices = {}
  /\ context' = FALSE /\ control' = "closed"
  /\ UNCHANGED <<opening, devices, closed, playback, captureSide, capClosed, pump>>

\* Then the context goes, and the channel, if there is one.
CloseRest ==
  /\ control = "stop" /\ devices = {}
  /\ context' = FALSE /\ capClosed' = ("capture" \in wanted) /\ control' = "closed"
  /\ UNCHANGED <<opening, devices, closed, playback, captureSide, pump>>

Control ==
  \/ InitContext \/ Opened \/ CloseFlag \/ CloseRest
  \/ \E kind \in Kinds : StartDevice(kind) \/ StopDevice(kind)
Player == Play \/ PlayDrain \/ PlayAgain
PlaybackThread == (\E n \in Needs : CallPlayback(n)) \/ Pull \/ Emit
CaptureThread == CallCapture \/ SendCapture \/ DrainCapture \/ SendCaptureAgain
Pump == PumpRead \/ PumpEnd
Next == Control \/ Player \/ PlaybackThread \/ CaptureThread \/ Pump

\* Close goes on once called, callbacks return and the pump runs.  Nobody has to close.
Fairness ==
  /\ WF_vars(InitContext \/ Opened \/ CloseRest \/ (control = "close" /\ CloseFlag)
               \/ \E kind \in Kinds : StartDevice(kind) \/ StopDevice(kind))
  /\ WF_vars(Pull \/ Emit) /\ WF_vars(SendCapture \/ DrainCapture \/ SendCaptureAgain)
  /\ WF_vars(PlayDrain \/ PlayAgain) /\ WF_vars(Pump)
Spec == Init /\ [][Next]_vars /\ Fairness

-----------------------------------------------------------------------------
TypeOK ==
  /\ control \in {"context", "devices", "open", "failed", "close", "stop", "closed"}
  /\ devices \subseteq Kinds /\ Len(playQueue) <= QueueFrames /\ Len(capQueue) <= QueueFrames
  /\ Len(buffer) <= Period * BufferedFrames

\* Whatever fails while the devices are opened, and however they are closed, nothing stays
\* allocated, and devices never outlive their context.
NoLeak ==
  /\ control \in {"failed", "closed"} => ~context /\ devices = {}
  /\ devices # {} => context

\* The audio thread never meets the closed channel, on which a send would be a panic and
\* the drain loop endless.
NoUseOfClosed == capClosed => capturing = "idle"

\* Samples are heard in order, each at most once, through queue, buffer and overflow: the
\* last one that was heard is before those in the buffer, they are before those in the queue.
Queued(i) == Samples(playQueue[i])
BufferInOrder == \A j \in 1 .. Len(buffer) : last < buffer[j] /\ \A k \in 1 .. j - 1 : buffer[k] < buffer[j]
QueueInOrder ==
  \A i \in 1 .. Len(playQueue), k \in 1 .. Period :
    /\ last < Queued(i)[k]
    /\ \A j \in 1 .. Len(buffer) : buffer[j] < Queued(i)[k]
    /\ \A h \in 1 .. i - 1, l \in 1 .. Period : Queued(h)[l] < Queued(i)[k]
HeardInOrder == BufferInOrder /\ QueueInOrder

\* What overflows, in either direction, is never the newest: a chunk just played or a frame
\* just captured is in its queue when the call returns.
NewestKept ==
  [][/\ playing = "drained" /\ playing' = "idle" => Last(playQueue') = chunk
     /\ capturing # "idle" /\ capturing' = "idle" => capQueue' # <<>> /\ Last(capQueue') = capture]_vars

\* A device, from its opening to its end: whatever fails while it is opened and whenever it
\* is closed, nothing stays allocated or is sent on the closed channel, samples are heard in
\* order and at most once, and overflow never costs the newest (malgoLocal).
DeviceHolds == [](TypeOK /\ NoLeak /\ NoUseOfClosed /\ HeardInOrder) /\ NewestKept

\* A Close ends, and with it the pump.
Closes == closed ~> (control = "closed" /\ pump # "running")
=============================================================================
