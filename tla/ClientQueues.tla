---------------------------- MODULE ClientQueues ----------------------------
(***************************************************************************)
(* One browser connection: its two queues, the goroutines that write to    *)
(* them, the one that sends, and closing, step by step as the selects and  *)
(* the channel operations interleave.  A control connection is written     *)
(* texts by any goroutine, an audio connection is written frames by the    *)
(* read loop alone.                                                        *)
(***************************************************************************)
EXTENDS Naturals, Sequences

CONSTANTS
  Writer,       \* goroutines that write texts
  TextCap,      \* wsTextQueueMessages, 512 in the code
  AudioCap,     \* wsAudioQueueFrames
  MaxTexts,     \* bound: texts of each writer
  MaxFrames     \* bound: audio frames

CapAssumption ==
  /\ TextCap \in Nat \ {0} /\ AudioCap \in Nat \ {0}
  /\ MaxTexts \in Nat /\ MaxFrames \in Nat

VARIABLES
  kind,        \* "control" or "audio", fixed by the path
  textSend, audioSend,
  done,        \* the channel that tells everyone the connection is closed
  conn,        \* the socket is open
  pc,          \* of each text writer
  text,        \* the number of its text
  camera,      \* pc of the audio writer
  frame,       \* the number of its frame
  loop,        \* pc of writeLoop
  sending,     \* the message writeLoop is writing to the socket
  heard, played   \* history: what the socket has taken

writers == <<pc, text, camera, frame>>
sender == <<loop, sending, heard, played>>
vars == <<kind, textSend, audioSend, done, conn, writers, sender>>

Text(w, n) == [type |-> "text", from |-> w, nr |-> n]
AudioFrame(n) == [type |-> "frame", nr |-> n]
Nothing == [type |-> "none"]

Init ==
  /\ kind \in {"control", "audio"}
  /\ textSend = <<>> /\ audioSend = <<>>
  /\ done = FALSE /\ conn = TRUE
  /\ pc = [w \in Writer |-> "idle"] /\ text = [w \in Writer |-> 0]
  /\ camera = "idle" /\ frame = 0
  /\ loop = "top" /\ sending = Nothing
  /\ heard = [w \in Writer |-> 0] /\ played = 0

-----------------------------------------------------------------------------
(***************************************************************************)
(* writeText, by any goroutine: a queue without room closes the client.    *)
(***************************************************************************)
CallText(w) ==
  /\ kind = "control" /\ pc[w] = "idle" /\ text[w] < MaxTexts
  /\ text' = [text EXCEPT ![w] = @ + 1]
  /\ pc' = [pc EXCEPT ![w] = "check"]
  /\ UNCHANGED <<kind, textSend, audioSend, done, conn, camera, frame, sender>>

CheckText(w) ==
  /\ pc[w] = "check"
  /\ pc' = [pc EXCEPT ![w] = IF done THEN "idle" ELSE "offer"]
  /\ UNCHANGED <<kind, textSend, audioSend, done, conn, text, camera, frame, sender>>

\* Mutants: a message without room is dropped; the write waits.
OfferTextDropping(w) ==
  /\ pc[w] = "offer" /\ pc' = [pc EXCEPT ![w] = "idle"]
  /\ textSend' = IF Len(textSend) < TextCap THEN Append(textSend, Text(w, text[w])) ELSE textSend
  /\ UNCHANGED <<kind, audioSend, done, conn, text, camera, frame, sender>>
OfferTextWaiting(w) ==
  /\ pc[w] = "offer" /\ pc' = [pc EXCEPT ![w] = "idle"]
  /\ IF done THEN UNCHANGED textSend
     ELSE Len(textSend) < TextCap /\ textSend' = Append(textSend, Text(w, text[w]))
  /\ UNCHANGED <<kind, audioSend, done, conn, text, camera, frame, sender>>

\* A select with several ready cases takes any of them, the default none being ready.
OfferText(w) ==
  /\ pc[w] = "offer"
  /\ pc' = [pc EXCEPT ![w] = "idle"]
  /\ \/ /\ Len(textSend) < TextCap
        /\ textSend' = Append(textSend, Text(w, text[w]))
        /\ UNCHANGED done
     \/ done /\ UNCHANGED <<textSend, done>>
     \/ Len(textSend) = TextCap /\ ~done /\ done' = TRUE /\ UNCHANGED textSend
  /\ UNCHANGED <<kind, audioSend, conn, text, camera, frame, sender>>

-----------------------------------------------------------------------------
(***************************************************************************)
(* writeBinary, by the read loop: a queue without room loses its oldest.   *)
(***************************************************************************)
CallBinary ==
  /\ kind = "audio" /\ camera = "idle" /\ frame < MaxFrames
  /\ frame' = frame + 1
  /\ camera' = IF done THEN "idle" ELSE "offer"
  /\ UNCHANGED <<kind, textSend, audioSend, done, conn, pc, text, sender>>

OfferBinary ==
  /\ camera = "offer"
  /\ \/ /\ Len(audioSend) < AudioCap
        /\ audioSend' = Append(audioSend, AudioFrame(frame))
        /\ camera' = "idle"
     \/ done /\ camera' = "idle" /\ UNCHANGED audioSend
     \/ Len(audioSend) = AudioCap /\ ~done /\ camera' = "evict" /\ UNCHANGED audioSend
  /\ UNCHANGED <<kind, textSend, done, conn, pc, text, frame, sender>>

\* Mutant: nothing goes.
EvictNone ==
  /\ camera = "evict" /\ camera' = "again"
  /\ UNCHANGED <<kind, textSend, audioSend, done, conn, pc, text, frame, sender>>

Evict ==
  /\ camera = "evict" /\ camera' = "again"
  /\ audioSend' = IF audioSend = <<>> THEN <<>> ELSE Tail(audioSend)
  /\ UNCHANGED <<kind, textSend, done, conn, pc, text, frame, sender>>

OfferAgain ==
  /\ camera = "again" /\ camera' = "idle"
  /\ \/ Len(audioSend) < AudioCap /\ audioSend' = Append(audioSend, AudioFrame(frame))
     \/ (done \/ Len(audioSend) = AudioCap) /\ UNCHANGED audioSend
  /\ UNCHANGED <<kind, textSend, done, conn, pc, text, frame, sender>>

-----------------------------------------------------------------------------
(***************************************************************************)
(* writeLoop.                                                              *)
(***************************************************************************)
LoopTop ==
  /\ loop = "top"
  /\ loop' = IF done THEN "exit" ELSE "text"
  /\ UNCHANGED <<kind, textSend, audioSend, done, conn, writers, sending, heard, played>>

TakeText ==
  /\ loop \in {"text", "either"} /\ textSend # <<>>
  /\ sending' = Head(textSend) /\ textSend' = Tail(textSend)
  /\ loop' = "send"
  /\ UNCHANGED <<kind, audioSend, done, conn, writers, heard, played>>

NoText ==
  /\ loop = "text" /\ textSend = <<>>
  /\ loop' = "either"
  /\ UNCHANGED <<kind, textSend, audioSend, done, conn, writers, sending, heard, played>>

TakeFrame ==
  /\ loop = "either" /\ audioSend # <<>>
  /\ sending' = Head(audioSend) /\ audioSend' = Tail(audioSend)
  /\ loop' = "send"
  /\ UNCHANGED <<kind, textSend, done, conn, writers, heard, played>>

\* Mutant: the select that waits for a message does not wait for the end.
SeeDoneNever == FALSE /\ UNCHANGED vars

SeeDone ==
  /\ loop = "either" /\ done
  /\ loop' = "exit"
  /\ UNCHANGED <<kind, textSend, audioSend, done, conn, writers, sending, heard, played>>

\* writeRaw: the socket takes the message, or it fails, at the latest at its deadline.
Sent ==
  /\ loop = "send" /\ conn
  /\ IF sending.type = "text" THEN heard' = [heard EXCEPT ![sending.from] = sending.nr] /\ UNCHANGED played
     ELSE played' = sending.nr /\ UNCHANGED heard
  /\ sending' = Nothing /\ loop' = "top"
  /\ UNCHANGED <<kind, textSend, audioSend, done, conn, writers>>

SendFails ==
  /\ loop = "send"
  /\ done' = TRUE
  /\ sending' = Nothing /\ loop' = "exit"
  /\ UNCHANGED <<kind, textSend, audioSend, conn, writers, heard, played>>

-----------------------------------------------------------------------------
\* close: once, the channel first and then the socket.
CloseConn ==
  /\ done /\ conn
  /\ conn' = FALSE
  /\ UNCHANGED <<kind, textSend, audioSend, done, writers, sender>>

\* The goroutine of the connection: the read fails, the client is removed and closed.
ReadFails ==
  /\ ~done
  /\ done' = TRUE
  /\ UNCHANGED <<kind, textSend, audioSend, conn, writers, sender>>

WriteText(w) == CheckText(w) \/ OfferText(w)
WriteBinary == OfferBinary \/ Evict \/ OfferAgain
WriteLoop == LoopTop \/ TakeText \/ NoText \/ TakeFrame \/ SeeDone \/ Sent \/ SendFails

Next ==
  \/ \E w \in Writer : CallText(w) \/ WriteText(w)
  \/ CallBinary \/ WriteBinary
  \/ WriteLoop
  \/ CloseConn \/ ReadFails

Spec == Init /\ [][Next]_vars

\* Goroutines run; nothing is said of browsers, which may leave a message lying until
\* the deadline of the write.
Fairness ==
  /\ \A w \in Writer : WF_vars(WriteText(w))
  /\ WF_vars(WriteBinary) /\ WF_vars(WriteLoop) /\ WF_vars(CloseConn)
FairSpec == Spec /\ Fairness

-----------------------------------------------------------------------------
TypeOK ==
  /\ kind \in {"control", "audio"}
  /\ Len(textSend) <= TextCap /\ Len(audioSend) <= AudioCap
  /\ done \in BOOLEAN /\ conn \in BOOLEAN
  /\ pc \in [Writer -> {"idle", "check", "offer"}]
  /\ camera \in {"idle", "offer", "evict", "again"}
  /\ loop \in {"top", "text", "either", "send", "exit"}
  /\ (loop = "send") <=> (sending # Nothing)
  /\ text \in [Writer -> 0 .. MaxTexts] /\ heard \in [Writer -> 0 .. MaxTexts]
  /\ frame \in 0 .. MaxFrames /\ played \in 0 .. frame

Within(n, s) == \E k \in DOMAIN s : s[k].nr = n

\* Whatever the loop takes out meanwhile, the newest frame gets in: between two frames
\* the last one written is on its way unless the connection is closed (writeBinary).
NewestFrameKept ==
  camera = "idle" /\ ~done =>
    \/ Within(frame, audioSend) \/ played = frame
    \/ loop = "send" /\ sending.nr = frame

\* The queues, the two selects and the closing keep the promise of the connection: a
\* text lost is the last of its writer, audio never goes back and the newest frame gets in
\* (writeText, writeBinary).
Promise == INSTANCE ClientPromise WITH written <- text, recorded <- frame
KeepsPromise == Promise!Spec /\ [](TypeOK /\ NewestFrameKept)

\* Nobody waits for a browser: whatever it does, a write goes on (writeText, writeBinary).
WritesGoOn ==
  /\ \A w \in Writer : pc[w] # "idle" => ENABLED WriteText(w)
  /\ camera # "idle" => ENABLED WriteBinary

\* A connection that anyone closed comes to its end: the socket is closed and writeLoop
\* returns, wherever it was.
ClosedEnds == done ~> (loop = "exit" /\ ~conn)
=============================================================================
