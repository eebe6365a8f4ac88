------------------------------ MODULE MCSound ------------------------------
(***************************************************************************)
(* Sound for TLC, one part at a time: panels that select the server's      *)
(* devices, a device that is opened, used and closed, browsers that talk,  *)
(* and the browser's jitter buffer.                                        *)
(***************************************************************************)
EXTENDS LocalAudio, ServerAudio, WsInput, JitterBuffer

VARIABLE part      \* which of them runs, the others stay as they start

audioDevice == vars   \* of LocalAudio

Ask(onDevices, capturePlays, playbackPlays, id, src) ==
  [devices |-> onDevices, source |-> src,
   enable |-> [d \in {"capture", "playback"} |-> IF d = "capture" THEN capturePlays ELSE playbackPlays],
   id |-> [d \in {"capture", "playback"} |-> IF d = "playback" THEN id ELSE "same"]]

\* A device switched on or off, another one chosen, the source alone, an invalid source.
SomeRequests ==
  {Ask(TRUE, "on", "keep", "same", "same"), Ask(TRUE, "off", "keep", "same", "ws"),
   Ask(FALSE, "keep", "keep", "same", "ws"), Ask(TRUE, "keep", "keep", "same", "bad")}
    \cup {Ask(TRUE, "keep", "on", i, "same") : i \in Ids}

ASSUME
  /\ ServerAudioAssumption /\ LocalAudioAssumption
  /\ InputAssumption /\ BufferAssumption

MCInit ==
  /\ part \in {"selection", "device", "input", "worklet"}
  /\ SelectionInit /\ Init /\ InputInit /\ BufferInit
  /\ selected = [d \in {"capture", "playback"} |-> "a"]  \* the devices are alike
  /\ part # "selection" => supported
  /\ part # "device" => wanted = {"playback"} /\ ~duplex
  /\ part # "input" => txSource = "ws"
  /\ part # "worklet" => targetFrames = 6

MCNext ==
  \/ part = "selection" /\ SelectionNext /\ UNCHANGED <<part, audioDevice, input, worklet>>
  \/ part = "device" /\ Next /\ UNCHANGED <<part, selection, input, worklet>>
  \/ part = "input" /\ InputNext /\ UNCHANGED <<part, selection, audioDevice, worklet>>
  \/ part = "worklet" /\ BufferNext /\ UNCHANGED <<part, selection, audioDevice, input>>

\* Panels are alike, and so are browsers that talk.
Alike == Permutations(Panels) \cup Permutations(Client)

MCSpec == MCInit /\ [][MCNext]_<<part, selection, audioDevice, input, worklet>>

=============================================================================
