--------------------------- MODULE ServerPlayback ---------------------------
(***************************************************************************)
(* From the read loop to the speaker: the read loop queues the newest      *)
(* frame, a goroutine takes frames, resamples and plays them, and panels   *)
(* close and open the device in between.                                   *)
(***************************************************************************)
EXTENDS Naturals, Sequences

CONSTANTS
  QueueFrames,         \* rxPlaybackFrames
  Rates,               \* sample rates of devices
  MaxFrames, MaxOpens  \* bounds

PlaybackAssumption ==
  /\ QueueFrames \in Nat \ {0} /\ Rates \subseteq Nat \ {0} /\ Rates # {}
  /\ MaxFrames \in Nat /\ MaxOpens \in Nat

VARIABLES
  generation, playing, rate,   \* localGeneration, local.PlaybackEnabled(), its rate
  queue,                       \* serverPlaybackQueue
  frame, offer,                \* last frame received; the read loop between two frames: "idle", "full", "room"
  taken, seen,                 \* the frame taken, 0 without one, and the device it is for
  resampler,                   \* the device it was made for
  played                       \* the last frame played, its device and the resampler's

dev == <<generation, playing, rate>>
producer == <<frame, offer>>
consumer == <<taken, seen, resampler, played>>
vars == <<dev, queue, producer, consumer>>

NotSeen == [generation |-> 0, playing |-> FALSE, rate |-> 0]
Device == [generation |-> generation, playing |-> playing, rate |-> rate]
Nothing == [frame |-> 0, device |-> 0, resampler |-> 0]

Init ==
  /\ generation = 0 /\ playing = FALSE /\ rate = 0
  /\ queue = <<>> /\ frame = 0 /\ offer = "idle"
  /\ taken = 0 /\ seen = NotSeen
  /\ resampler = NotSeen /\ played = Nothing

-----------------------------------------------------------------------------
\* applyServerAudio, seen from here
Open ==
  /\ generation < MaxOpens
  /\ generation' = generation + 1 /\ playing' \in BOOLEAN /\ rate' \in Rates
  /\ UNCHANGED <<queue, producer, consumer>>

\* A frame counts when a device plays at that moment, and is queued if there is room.
Receive ==
  /\ offer = "idle" /\ frame < MaxFrames
  /\ frame' = frame + 1
  /\ IF ~playing THEN UNCHANGED <<queue, offer>>
     ELSE IF Len(queue) < QueueFrames
       THEN queue' = Append(queue, frame') /\ UNCHANGED offer
       ELSE offer' = "full" /\ UNCHANGED queue
  /\ UNCHANGED <<dev, consumer>>

\* The oldest frame makes room, if the consumer has not made it meanwhile.
EvictNothing ==
  /\ offer = "full" /\ offer' = "room"
  /\ UNCHANGED <<dev, queue, frame, consumer>>

Evict ==
  /\ offer = "full" /\ offer' = "room"
  /\ queue' = IF queue = <<>> THEN queue ELSE Tail(queue)
  /\ UNCHANGED <<dev, frame, consumer>>

Requeue ==
  /\ offer = "room" /\ offer' = "idle"
  /\ queue' = IF Len(queue) < QueueFrames THEN Append(queue, frame) ELSE queue
  /\ UNCHANGED <<dev, frame, consumer>>

TakeKeeps ==
  /\ taken = 0 /\ queue # <<>> /\ taken' = Head(queue)
  /\ UNCHANGED <<dev, queue, producer, seen, resampler, played>>

Take ==
  /\ taken = 0 /\ queue # <<>>
  /\ taken' = Head(queue) /\ queue' = Tail(queue)
  /\ UNCHANGED <<dev, producer, seen, resampler, played>>

\* The device is looked up under the lock, with its generation.
LookUp ==
  /\ taken # 0 /\ seen = NotSeen /\ generation > 0
  /\ seen' = Device
  /\ UNCHANGED <<dev, queue, producer, taken, resampler, played>>

StaleByRate == resampler.rate # seen.rate
Stale == resampler.generation # seen.generation \/ resampler.rate # seen.rate

PlayOnlyFresh ==
  /\ taken # 0 /\ seen # NotSeen
  /\ taken' = 0 /\ seen' = NotSeen
  /\ resampler' = IF seen.playing THEN seen ELSE NotSeen
  /\ played' = IF seen.generation = generation /\ seen.playing /\ ~Stale
       THEN [frame |-> taken, device |-> generation, resampler |-> generation] ELSE played
  /\ UNCHANGED <<dev, queue, producer>>

\* Without a device the frame is dropped and so is the resampler, else a resampler made
\* for that device turns it into what is played.  Play drops it if the device is closed.
Play ==
  /\ taken # 0 /\ seen # NotSeen
  /\ taken' = 0 /\ seen' = NotSeen
  /\ resampler' = IF ~seen.playing THEN NotSeen ELSE IF Stale THEN seen ELSE resampler
  /\ played' = IF seen.playing /\ seen.generation = generation
       THEN [frame |-> taken, device |-> generation, resampler |-> resampler'.generation]
       ELSE played
  /\ UNCHANGED <<dev, queue, producer>>

Next == Open \/ Receive \/ Evict \/ Requeue \/ Take \/ LookUp \/ Play

\* The two goroutines run.
Fairness ==
  WF_vars(Evict) /\ WF_vars(Requeue) /\ WF_vars(Take) /\ WF_vars(LookUp) /\ WF_vars(Play)
Spec == Init /\ [][Next]_vars /\ Fairness

-----------------------------------------------------------------------------
TypeOK ==
  /\ Len(queue) <= QueueFrames /\ frame \in 0 .. MaxFrames
  /\ offer \in {"idle", "full", "room"} /\ taken \in 0 .. frame

\* A frame is never played through a resampler that holds the samples of another device.
OwnResampler == played.device = played.resampler

\* What is played is newer than what was played before: overflow, eviction and a change of
\* device drop frames and neither repeat nor reorder one.
InOrder == [][played' # played => played'.frame > played.frame]_played

\* The read loop always gets the newest frame in: however the consumer takes between its
\* steps, it is an older one that overflow costs.
NewestQueued == [][offer = "room" /\ offer' = "idle" =>
                     queue' # <<>> /\ queue'[Len(queue')] = frame]_vars

\* The newest frame is played once it is queued, unless a newer one comes or the device
\* is replaced.
NewestPlayed ==
  \A n \in 1 .. MaxFrames, g \in 1 .. MaxOpens :
    (frame = n /\ playing /\ generation = g /\ \E i \in DOMAIN queue : queue[i] = n)
      ~> (played.frame = n \/ frame # n \/ generation # g)
=============================================================================
