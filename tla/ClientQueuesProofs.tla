------------------------- MODULE ClientQueuesProofs -------------------------
(***************************************************************************)
(* Proofs about ClientQueues, for any number of writers, any capacity of   *)
(* the queues and any number of messages.                                  *)
(***************************************************************************)
EXTENDS ClientQueues, Integers, SequenceTheorems, TLAPS

-----------------------------------------------------------------------------
(***************************************************************************)
(* The inductive invariant.                                                *)
(***************************************************************************)

TextMessage == [type : {"text"}, from : Writer, nr : Nat]
FrameMessage == [type : {"frame"}, nr : Nat]

Shapes ==
  /\ kind \in {"control", "audio"}
  /\ textSend \in Seq(TextMessage) /\ Len(textSend) <= TextCap
  /\ audioSend \in Seq(FrameMessage) /\ Len(audioSend) <= AudioCap
  /\ done \in BOOLEAN /\ conn \in BOOLEAN
  /\ pc \in [Writer -> {"idle", "check", "offer"}]
  /\ text \in [Writer -> 0 .. MaxTexts]
  /\ camera \in {"idle", "offer", "evict", "again"}
  /\ frame \in 0 .. MaxFrames
  /\ loop \in {"top", "text", "either", "send", "exit"}
  /\ sending \in TextMessage \union FrameMessage \union {Nothing}
  /\ (loop = "send") <=> (sending # Nothing)
  /\ heard \in [Writer -> Nat] /\ played \in Nat

\* A control connection carries no frames and an audio connection no texts.
OneKind ==
  /\ kind = "control" => audioSend = <<>> /\ camera = "idle" /\ frame = 0 /\ sending.type # "frame"
  /\ kind = "audio" => /\ textSend = <<>> /\ sending.type # "text"
                       /\ \A w \in Writer : pc[w] = "idle"

\* writeLoop returns from a connection that has been closed only.
ExitIsDone == loop = "exit" => done

\* The last text of a writer whose fate is known: the one being written is not.
Latest(w) == IF pc[w] = "idle" THEN text[w] ELSE text[w] - 1

\* Text n of a writer has been sent, is being sent or waits among the first k.
Reached(w, n, k) ==
  \/ n = heard[w]
  \/ sending.type = "text" /\ sending.from = w /\ sending.nr = n
  \/ \E j \in 1 .. k : textSend[j].from = w /\ textSend[j].nr = n

\* The numbers of a writer's texts go up along its way, from the one last heard on.
SentInOrder(w) ==
  /\ heard[w] <= Latest(w)
  /\ sending.type = "text" /\ sending.from = w =>
       sending.nr = heard[w] + 1 /\ sending.nr <= Latest(w)
QueuedInOrder(i) ==
  LET m == textSend[i] IN
    /\ heard[m.from] < m.nr /\ m.nr <= Latest(m.from)
    /\ sending.type = "text" /\ sending.from = m.from => sending.nr < m.nr
    /\ \A j \in 1 .. i - 1 : textSend[j].from = m.from => textSend[j].nr < m.nr
TextsAscend ==
  /\ \A w \in Writer : SentInOrder(w)
  /\ \A i \in 1 .. Len(textSend) : QueuedInOrder(i)

\* As long as writeLoop runs no text is missing before a queued one, nor before one that
\* may still be queued.
NoGapBefore(i) == Reached(textSend[i].from, textSend[i].nr - 1, i - 1)
NoGapAtEnd(w) == pc[w] = "offer" \/ ~done => Reached(w, Latest(w), Len(textSend))
NoGap ==
  loop # "exit" =>
    /\ \A i \in 1 .. Len(textSend) : NoGapBefore(i)
    /\ \A w \in Writer : NoGapAtEnd(w)

LatestFrame == IF camera = "idle" THEN frame ELSE frame - 1

\* The numbers of frames go up along their way.
PlayedInOrder ==
  /\ played <= LatestFrame
  /\ sending.type = "frame" => played < sending.nr /\ sending.nr <= LatestFrame
FrameInOrder(i) ==
  /\ played < audioSend[i].nr /\ audioSend[i].nr <= LatestFrame
  /\ sending.type = "frame" => sending.nr < audioSend[i].nr
  /\ \A j \in 1 .. i - 1 : audioSend[j].nr < audioSend[i].nr
FramesAscend == PlayedInOrder /\ \A i \in 1 .. Len(audioSend) : FrameInOrder(i)

\* Between the eviction and the second offer nobody but writeLoop touches the queue.
RoomMade == camera = "again" => Len(audioSend) < AudioCap

IInv ==
  /\ Shapes /\ OneKind /\ ExitIsDone
  /\ TextsAscend /\ NoGap
  /\ FramesAscend /\ RoomMade /\ NewestFrameKept

-----------------------------------------------------------------------------
(***************************************************************************)
(* Messages, and what the operations do to the queues position by position. *)
(***************************************************************************)

LEMMA MessageFields ==
  /\ \A w \in Writer, n \in Nat :
       /\ Text(w, n) \in TextMessage
       /\ Text(w, n).type = "text" /\ Text(w, n).from = w /\ Text(w, n).nr = n
  /\ \A n \in Nat : AudioFrame(n) \in FrameMessage /\ AudioFrame(n).type = "frame" /\ AudioFrame(n).nr = n
  /\ \A m \in TextMessage : m.type = "text" /\ m.from \in Writer /\ m.nr \in Nat /\ m # Nothing
  /\ \A m \in FrameMessage : m.type = "frame" /\ m.nr \in Nat /\ m # Nothing
  /\ Nothing.type = "none"
BY DEF Text, AudioFrame, Nothing, TextMessage, FrameMessage

\* The queue `after' is `before' with m at the end.
Appended(before, after, m) ==
  /\ Len(after) = Len(before) + 1
  /\ \A i \in 1 .. Len(before) : after[i] = before[i]
  /\ after[Len(before) + 1] = m

\* The queue `after' is `before' without its first message.
Shifted(before, after) ==
  /\ Len(after) = Len(before) - 1
  /\ \A i \in 1 .. Len(after) : after[i] = before[i + 1]

\* A text joins the queue or, on a closed connection, is lost.
LEMMA OfferTextEffect ==
  ASSUME CapAssumption, Shapes, NEW w \in Writer, OfferText(w)
  PROVE  /\ textSend' \in Seq(TextMessage) /\ Len(textSend') <= TextCap
         /\ \/ Appended(textSend, textSend', Text(w, text[w])) /\ UNCHANGED done
            \/ UNCHANGED textSend /\ done'
<1>1. text[w] \in Nat
  BY DEF Shapes, CapAssumption
<1>2. Text(w, text[w]) \in TextMessage
  BY <1>1, MessageFields
<1>3. CASE textSend' = Append(textSend, Text(w, text[w])) /\ Len(textSend) < TextCap /\ UNCHANGED done
  <2>1. textSend' \in Seq(TextMessage) /\ Appended(textSend, textSend', Text(w, text[w]))
    BY <1>2, <1>3, AppendProperties DEF Shapes, Appended
  <2> QED
    BY <1>3, <2>1 DEF Shapes, CapAssumption, Appended
<1>4. CASE UNCHANGED textSend /\ done'
  BY <1>4 DEF Shapes
<1> QED
  BY <1>3, <1>4 DEF OfferText

\* A frame joins the queue or stays out.
LEMMA OfferFrameEffect ==
  ASSUME CapAssumption, Shapes, OfferBinary \/ OfferAgain
  PROVE  /\ audioSend' \in Seq(FrameMessage) /\ Len(audioSend') <= AudioCap
         /\ Appended(audioSend, audioSend', AudioFrame(frame)) \/ UNCHANGED audioSend
<1>1. AudioFrame(frame) \in FrameMessage
  BY MessageFields DEF Shapes, CapAssumption
<1>2. CASE audioSend' = Append(audioSend, AudioFrame(frame)) /\ Len(audioSend) < AudioCap
  <2>1. audioSend' \in Seq(FrameMessage) /\ Appended(audioSend, audioSend', AudioFrame(frame))
    BY <1>1, <1>2, AppendProperties DEF Shapes, Appended
  <2> QED
    BY <1>2, <2>1 DEF Shapes, CapAssumption, Appended
<1>3. CASE UNCHANGED audioSend
  BY <1>3 DEF Shapes
<1> QED
  BY <1>2, <1>3 DEF OfferBinary, OfferAgain

\* The first text of the queue becomes the one being sent.
LEMMA TakeTextEffect ==
  ASSUME CapAssumption, Shapes, TakeText
  PROVE  /\ textSend' \in Seq(TextMessage) /\ Len(textSend') <= TextCap
         /\ Shifted(textSend, textSend') /\ Len(textSend) >= 1
         /\ sending' = textSend[1] /\ sending' \in TextMessage
<1>1. textSend \in Seq(TextMessage) /\ textSend # <<>>
  BY DEF Shapes, TakeText
<1>2. Len(textSend) >= 1 /\ Head(textSend) = textSend[1]
  BY <1>1
<1> QED
  BY <1>1, <1>2, HeadTailProperties DEF Shapes, TakeText, Shifted, CapAssumption

\* The first frame of the queue does.
LEMMA TakeFrameEffect ==
  ASSUME CapAssumption, Shapes, TakeFrame
  PROVE  /\ audioSend' \in Seq(FrameMessage) /\ Len(audioSend') <= AudioCap
         /\ Shifted(audioSend, audioSend') /\ Len(audioSend) >= 1
         /\ sending' = audioSend[1] /\ sending' \in FrameMessage
<1>1. audioSend \in Seq(FrameMessage) /\ audioSend # <<>>
  BY DEF Shapes, TakeFrame
<1>2. Len(audioSend) >= 1 /\ Head(audioSend) = audioSend[1]
  BY <1>1
<1> QED
  BY <1>1, <1>2, HeadTailProperties DEF Shapes, TakeFrame, Shifted, CapAssumption

\* The first frame is thrown away, if writeLoop has left one.
LEMMA EvictEffect ==
  ASSUME CapAssumption, Shapes, Evict
  PROVE  /\ audioSend' \in Seq(FrameMessage) /\ Len(audioSend') < AudioCap
         /\ Shifted(audioSend, audioSend') \/ UNCHANGED audioSend
<1>1. CASE audioSend = <<>>
  BY <1>1 DEF Shapes, Evict, CapAssumption
<1>2. CASE audioSend # <<>>
  BY <1>2, HeadTailProperties DEF Shapes, Evict, Shifted, CapAssumption
<1> QED
  BY <1>1, <1>2

-----------------------------------------------------------------------------
(***************************************************************************)
(* The initial states, and every step.                                     *)
(***************************************************************************)

LEMMA InitCorrect ==
  ASSUME CapAssumption, Init
  PROVE  IInv
<1> USE MessageFields DEF CapAssumption, Init
<1>1. Shapes
  <2>1. textSend \in Seq(TextMessage) /\ Len(textSend) <= TextCap
    OBVIOUS
  <2>2. audioSend \in Seq(FrameMessage) /\ Len(audioSend) <= AudioCap
    OBVIOUS
  <2>3. pc \in [Writer -> {"idle", "check", "offer"}]
    BY Zenon
  <2>4. text \in [Writer -> 0 .. MaxTexts] /\ heard \in [Writer -> Nat]
    OBVIOUS
  <2>5. /\ kind \in {"control", "audio"} /\ camera = "idle" /\ frame = 0 /\ played = 0
        /\ loop = "top" /\ sending = Nothing
    OBVIOUS
  <2>6. done \in BOOLEAN /\ conn \in BOOLEAN
    OBVIOUS
  <2> QED
    BY ONLY CapAssumption, <2>1, <2>2, <2>3, <2>4, <2>5, <2>6 DEF Shapes, CapAssumption
<1>2. OneKind /\ ExitIsDone /\ RoomMade
  BY DEF OneKind, ExitIsDone, RoomMade
<1>3. TextsAscend /\ NoGap
  BY DEF TextsAscend, SentInOrder, QueuedInOrder, NoGap, NoGapBefore, NoGapAtEnd, Latest, Reached
<1>4. FramesAscend /\ NewestFrameKept
  BY DEF FramesAscend, PlayedInOrder, FrameInOrder, LatestFrame, NewestFrameKept
<1> QED
  BY <1>1, <1>2, <1>3, <1>4 DEF IInv

\* Types.
LEMMA ShapesStep ==
  ASSUME CapAssumption, IInv, [Next]_vars
  PROVE  Shapes'
<1>1. Shapes
  BY DEF IInv
<1>2. ASSUME NEW w \in Writer, CallText(w) \/ CheckText(w) PROVE Shapes'
  <2>1. CASE CallText(w)
    BY <1>1, <2>1 DEF Shapes, CallText, CapAssumption, sender
  <2>2. CASE CheckText(w)
    BY <1>1, <2>2 DEF Shapes, CheckText, CapAssumption, sender
  <2> QED
    BY <1>2, <2>1, <2>2
<1>3. ASSUME NEW w \in Writer, OfferText(w) PROVE Shapes'
  <2>1. textSend' \in Seq(TextMessage) /\ Len(textSend') <= TextCap
    BY <1>1, <1>3, OfferTextEffect
  <2> QED
    BY <1>1, <1>3, <2>1 DEF Shapes, OfferText, sender
<1>4. CASE CallBinary
  BY <1>1, <1>4 DEF Shapes, CallBinary, sender, CapAssumption
<1>5. CASE OfferBinary \/ OfferAgain
  <2>1. audioSend' \in Seq(FrameMessage) /\ Len(audioSend') <= AudioCap
    BY <1>1, <1>5, OfferFrameEffect
  <2> QED
    BY <1>1, <1>5, <2>1 DEF Shapes, OfferBinary, OfferAgain, sender
<1>6. CASE Evict
  <2>1. audioSend' \in Seq(FrameMessage) /\ Len(audioSend') <= AudioCap
    BY <1>1, <1>6, EvictEffect DEF CapAssumption
  <2> QED
    BY <1>1, <1>6, <2>1 DEF Shapes, Evict, sender
<1>7. CASE TakeText
  <2>1. /\ textSend' \in Seq(TextMessage) /\ Len(textSend') <= TextCap
        /\ sending' \in TextMessage /\ sending' # Nothing
    BY <1>1, <1>7, TakeTextEffect, MessageFields
  <2>2. loop' = "send" /\ UNCHANGED <<kind, audioSend, done, conn, writers, heard, played>>
    BY <1>7 DEF TakeText
  <2> QED
    BY <1>1, <2>1, <2>2 DEF Shapes, writers
<1>8. CASE TakeFrame
  <2>1. /\ audioSend' \in Seq(FrameMessage) /\ Len(audioSend') <= AudioCap
        /\ sending' \in FrameMessage /\ sending' # Nothing
    BY <1>1, <1>8, TakeFrameEffect, MessageFields
  <2>2. loop' = "send" /\ UNCHANGED <<kind, textSend, done, conn, writers, heard, played>>
    BY <1>8 DEF TakeFrame
  <2> QED
    BY <1>1, <2>1, <2>2 DEF Shapes, writers
<1>9. CASE Sent \/ SendFails
  <2>1. heard' \in [Writer -> Nat] /\ played' \in Nat
    BY <1>1, <1>9, MessageFields DEF Sent, SendFails, Shapes
  <2> QED
    BY <1>1, <1>9, <2>1 DEF Shapes, Sent, SendFails, writers
<1>10. CASE LoopTop
  BY <1>1, <1>10 DEF Shapes, LoopTop, writers
<1>11. CASE NoText
  BY <1>1, <1>11 DEF Shapes, NoText, writers
<1>12. CASE SeeDone
  BY <1>1, <1>12 DEF Shapes, SeeDone, writers
<1>13. CASE CloseConn
  BY <1>1, <1>13 DEF Shapes, CloseConn, writers, sender
<1>14. CASE ReadFails
  BY <1>1, <1>14 DEF Shapes, ReadFails, writers, sender
<1>15. CASE UNCHANGED vars
  BY <1>1, <1>15 DEF Shapes, vars, writers, sender
<1> QED
  BY <1>2, <1>3, <1>4, <1>5, <1>6, <1>7, <1>8, <1>9, <1>10, <1>11, <1>12, <1>13, <1>14, <1>15
     DEF Next, WriteText, WriteBinary, WriteLoop

\* What a connection carries.
LEMMA KindStep ==
  ASSUME CapAssumption, IInv, [Next]_vars
  PROVE  OneKind'
<1>1. Shapes /\ OneKind
  BY DEF IInv
<1>2. ASSUME NEW w \in Writer, CallText(w) \/ CheckText(w) PROVE OneKind'
  BY <1>1, <1>2 DEF Shapes, OneKind, CallText, CheckText, sender
<1>3. ASSUME NEW w \in Writer, OfferText(w) PROVE OneKind'
  BY <1>1, <1>3 DEF Shapes, OneKind, OfferText, sender
<1>4. CASE CallBinary \/ OfferBinary \/ Evict \/ OfferAgain
  BY <1>1, <1>4 DEF Shapes, OneKind, CallBinary, OfferBinary, Evict, OfferAgain, sender
<1>5. CASE TakeText
  <2>1. sending'.type = "text" /\ textSend # <<>> /\ UNCHANGED <<kind, audioSend, writers>>
    BY <1>1, <1>5, TakeTextEffect, MessageFields DEF TakeText
  <2> QED
    BY <1>1, <2>1 DEF OneKind, writers
<1>6. CASE TakeFrame
  <2>1. sending'.type = "frame" /\ audioSend # <<>> /\ UNCHANGED <<kind, textSend, writers>>
    BY <1>1, <1>6, TakeFrameEffect, MessageFields DEF TakeFrame
  <2> QED
    BY <1>1, <2>1 DEF OneKind, writers
<1>7. CASE Sent \/ SendFails
  BY <1>1, <1>7, MessageFields DEF OneKind, Sent, SendFails, writers
<1>8. CASE UNCHANGED <<kind, textSend, audioSend, writers, sending>>
  BY <1>1, <1>8 DEF OneKind, writers
<1> QED
  BY <1>2, <1>3, <1>4, <1>5, <1>6, <1>7, <1>8
     DEF Next, WriteText, WriteBinary, WriteLoop, LoopTop, NoText, SeeDone, CloseConn, ReadFails,
         vars, sender

\* The end of writeLoop, and the room an eviction makes.
LEMMA ExitAndRoomStep ==
  ASSUME CapAssumption, IInv, [Next]_vars
  PROVE  ExitIsDone' /\ RoomMade'
<1>1. Shapes /\ ExitIsDone /\ RoomMade
  BY DEF IInv
<1>2. ExitIsDone'
  BY <1>1 DEF ExitIsDone, Next, CallText, CheckText, OfferText, CallBinary, OfferBinary, Evict,
              OfferAgain, LoopTop, TakeText, NoText, TakeFrame, SeeDone, Sent, SendFails, CloseConn,
              ReadFails, WriteText, WriteBinary, WriteLoop, vars, sender
<1>3. RoomMade'
  <2>1. CASE Evict
    BY <1>1, <2>1, EvictEffect DEF RoomMade
  <2>2. CASE TakeFrame
    <3>1. Len(audioSend') = Len(audioSend) - 1 /\ Len(audioSend) \in Nat
      BY <1>1, <2>2, TakeFrameEffect DEF Shapes, Shifted
    <3> QED
      BY <1>1, <2>2, <3>1, CapAssumption DEF RoomMade, TakeFrame, writers, CapAssumption
  <2>3. CASE camera' # "again" \/ UNCHANGED <<camera, audioSend>>
    BY <1>1, <2>3 DEF RoomMade
  <2> QED
    BY <2>1, <2>2, <2>3
       DEF Next, CallText, CheckText, OfferText, CallBinary, OfferBinary, OfferAgain, LoopTop,
           TakeText, NoText, SeeDone, Sent, SendFails, CloseConn, ReadFails, WriteText,
           WriteBinary, WriteLoop, vars, writers
<1> QED
  BY <1>2, <1>3

\* The order of texts.
LEMMA TextsStep ==
  ASSUME CapAssumption, IInv, [Next]_vars
  PROVE  TextsAscend'
<1>1. Shapes /\ TextsAscend
  BY DEF IInv
<1>2. \A i \in 1 .. Len(textSend) :
        /\ textSend[i].type = "text" /\ textSend[i].from \in Writer /\ textSend[i].nr \in Nat
        /\ QueuedInOrder(i)
  BY <1>1, ElementOfSeq, MessageFields DEF Shapes, TextsAscend
<1>3. \A w \in Writer : heard[w] \in Nat /\ text[w] \in Nat /\ Latest(w) \in Int /\ SentInOrder(w)
  BY <1>1, CapAssumption DEF Shapes, TextsAscend, Latest, CapAssumption
<1>0. sending.type = "text" => sending.from \in Writer /\ sending.nr \in Nat
  BY <1>1, MessageFields DEF Shapes
<1>4. ASSUME UNCHANGED <<heard, sending, textSend>>, \A w \in Writer : Latest(w)' >= Latest(w),
             \A w \in Writer : Latest(w)' \in Int
      PROVE  TextsAscend'
  <2>1. ASSUME NEW w \in Writer PROVE SentInOrder(w)'
    BY <1>0, <1>3, <1>4, <2>1 DEF SentInOrder
  <2>2. ASSUME NEW i \in 1 .. Len(textSend) PROVE QueuedInOrder(i)'
    BY <1>2, <1>3, <1>4, <2>2 DEF QueuedInOrder
  <2> QED
    BY <1>4, <2>1, <2>2 DEF TextsAscend
<1>5. ASSUME NEW w \in Writer, CallText(w) PROVE TextsAscend'
  <2>1. \A v \in Writer : Latest(v)' = Latest(v)
    BY <1>1, <1>3, <1>5 DEF CallText, Latest, Shapes
  <2> QED
    BY <1>3, <1>4, <1>5, <2>1 DEF CallText, sender
<1>6. ASSUME NEW w \in Writer, CheckText(w) PROVE TextsAscend'
  <2>1. \A v \in Writer : Latest(v)' \in {Latest(v), Latest(v) + 1}
    BY <1>1, <1>3, <1>6 DEF CheckText, Latest, Shapes
  <2> QED
    BY <1>3, <1>4, <1>6, <2>1 DEF CheckText, sender
<1>7. ASSUME NEW w \in Writer, OfferText(w) PROVE TextsAscend'
  <2>1. \A v \in Writer : Latest(v)' = IF v = w THEN text[w] ELSE Latest(v)
    BY <1>1, <1>3, <1>7 DEF OfferText, Latest, Shapes
  <2>2. Latest(w) = text[w] - 1 /\ UNCHANGED <<heard, sending>>
    BY <1>7 DEF OfferText, Latest, sender
  <2>3. CASE UNCHANGED textSend
    BY <1>3, <1>4, <2>1, <2>2, <2>3
  <2>4. CASE Appended(textSend, textSend', Text(w, text[w]))
    <3>0. PICK n \in Nat : n = Len(textSend)
      BY <1>1 DEF Shapes
    <3>1. /\ Len(textSend') = n + 1
          /\ \A i \in 1 .. n : textSend'[i] = textSend[i]
          /\ textSend'[n + 1].from = w /\ textSend'[n + 1].nr = text[w]
      BY <1>1, <1>3, <2>4, <3>0, MessageFields DEF Appended, Shapes
    <3>2. ASSUME NEW v \in Writer PROVE SentInOrder(v)'
      <4>1. heard'[v] = heard[v] /\ sending' = sending
        BY <2>2
      <4>2. Latest(v)' \in Int /\ Latest(v)' >= Latest(v)
        BY <1>3, <2>1, <2>2
      <4>3. SentInOrder(v) /\ heard[v] \in Nat /\ Latest(v) \in Int
        BY <1>3
      <4> QED
        BY <1>0, <4>1, <4>2, <4>3 DEF SentInOrder
    <3>3. ASSUME NEW i \in 1 .. n PROVE QueuedInOrder(i)'
      <4>1. /\ textSend'[i] = textSend[i] /\ heard' = heard /\ sending' = sending
            /\ \A j \in 1 .. i - 1 : textSend'[j] = textSend[j]
        BY <2>2, <3>1, <3>3
      <4>2. PICK v \in Writer : v = textSend[i].from
        BY <1>2, <3>0, <3>3
      <4>3. textSend[i].nr \in Nat /\ QueuedInOrder(i)
        BY <1>2, <3>0, <3>3
      <4>4. Latest(v) \in Int /\ Latest(v)' \in Int /\ Latest(v)' >= Latest(v)
        BY <1>3, <2>1, <2>2
      <4> QED
        BY <4>1, <4>2, <4>3, <4>4 DEF QueuedInOrder
    <3>4. QueuedInOrder(n + 1)'
      <4>1. heard[w] < text[w]
        BY <1>3, <2>2 DEF SentInOrder
      <4>2. sending.type = "text" /\ sending.from = w => sending.nr < text[w]
        BY <1>1, <1>3, <2>2, MessageFields DEF SentInOrder, Shapes
      <4>3. \A j \in 1 .. n : textSend[j].from = w => textSend[j].nr < text[w]
        BY <1>2, <1>3, <2>2, <3>0 DEF QueuedInOrder
      <4> QED
        <5>1. Latest(w)' = text[w] /\ heard' = heard /\ sending' = sending
          BY <2>1, <2>2
        <5>2. \A j \in 1 .. n + 1 - 1 : textSend'[j].from = w => textSend'[j].nr < text[w]
          BY <3>1, <4>3
        <5> QED
          BY <1>3, <3>1, <4>1, <4>2, <5>1, <5>2 DEF QueuedInOrder
    <3>5. \A i \in 1 .. n + 1 : i \in 1 .. n \/ i = n + 1
      BY <3>1
    <3>6. \A i \in 1 .. n + 1 : QueuedInOrder(i)'
      BY <3>3, <3>4, <3>5
    <3> QED
      BY <3>1, <3>2, <3>6 DEF TextsAscend
  <2> QED
    BY <1>1, <1>7, <2>3, <2>4, OfferTextEffect
<1>8. CASE TakeText
  <2>1. /\ Len(textSend) \in Nat /\ Len(textSend) >= 1 /\ Len(textSend') = Len(textSend) - 1
        /\ \A i \in 1 .. Len(textSend') : textSend'[i] = textSend[i + 1]
        /\ sending' = textSend[1]
    BY <1>1, <1>8, TakeTextEffect DEF Shifted, Shapes
  <2>2. UNCHANGED <<heard, pc, text>> /\ \A v \in Writer : Latest(v)' = Latest(v)
    BY <1>8 DEF TakeText, writers, Latest
  <2>3. sending = Nothing
    BY <1>1, <1>8 DEF TakeText, Shapes
  <2>4. ASSUME NEW v \in Writer PROVE SentInOrder(v)'
    <3>1. CASE textSend[1].from # v
      BY <1>3, <2>1, <2>2, <3>1 DEF SentInOrder
    <3>2. CASE textSend[1].from = v
      <4>1. textSend[1].nr - 1 = heard[v]
        BY <1>8, <2>1, <2>3, <3>2, MessageFields DEF TakeText, IInv, NoGap, NoGapBefore, Reached
      <4> QED
        BY <1>2, <1>3, <2>1, <2>2, <3>2, <4>1 DEF SentInOrder, QueuedInOrder
    <3> QED
      BY <3>1, <3>2
  <2>5. ASSUME NEW i \in 1 .. Len(textSend') PROVE QueuedInOrder(i)'
    <3>1. i + 1 \in 1 .. Len(textSend)
      BY <2>1
    <3>2. QueuedInOrder(i + 1) /\ textSend'[i] = textSend[i + 1]
      BY <1>2, <2>1, <3>1
    <3>3. \A j \in 1 .. i - 1 : j + 1 \in 1 .. i /\ textSend'[j] = textSend[j + 1]
      BY <2>1
    <3>4. 1 \in 1 .. i
      OBVIOUS
    <3>5. textSend[i + 1].from \in Writer /\ textSend[i + 1].nr \in Nat
      BY <1>2, <3>1
    <3>6. \A j \in 1 .. i : textSend[j].from = textSend[i + 1].from => textSend[j].nr < textSend[i + 1].nr
      BY <2>1, <3>1, <3>2 DEF QueuedInOrder
    <3>7. \A j \in 1 .. i - 1 : textSend'[j].from = textSend'[i].from => textSend'[j].nr < textSend'[i].nr
      BY <3>2, <3>3, <3>6
    <3> QED
      BY <2>1, <2>2, <3>2, <3>4, <3>5, <3>6, <3>7 DEF QueuedInOrder
  <2> QED
    BY <2>4, <2>5 DEF TextsAscend
<1>9. CASE TakeFrame \/ SendFails
  <2>1. sending'.type # "text" /\ UNCHANGED <<heard, textSend, pc, text>>
    BY <1>1, <1>9, TakeFrameEffect, MessageFields DEF TakeFrame, SendFails, writers
  <2>2. \A v \in Writer : Latest(v)' = Latest(v)
    BY <2>1 DEF Latest
  <2>3. ASSUME NEW v \in Writer PROVE SentInOrder(v)'
    BY <1>3, <2>1, <2>2 DEF SentInOrder
  <2>4. ASSUME NEW i \in 1 .. Len(textSend) PROVE QueuedInOrder(i)'
    BY <1>2, <2>1, <2>2 DEF QueuedInOrder
  <2> QED
    BY <2>1, <2>3, <2>4 DEF TextsAscend
<1>10. CASE Sent
  <2>1. sending'.type = "none" /\ UNCHANGED <<textSend, pc, text>>
    BY <1>10, MessageFields DEF Sent, writers
  <2>2. \A v \in Writer : Latest(v)' = Latest(v)
    BY <2>1 DEF Latest
  <2>3. ASSUME NEW v \in Writer
        PROVE  heard'[v] = IF sending.type = "text" /\ sending.from = v THEN sending.nr ELSE heard[v]
    BY <1>1, <1>10, MessageFields DEF Sent, Shapes
  <2>4. ASSUME NEW v \in Writer PROVE SentInOrder(v)'
    BY <1>3, <2>1, <2>2, <2>3 DEF SentInOrder
  <2>5. ASSUME NEW i \in 1 .. Len(textSend) PROVE QueuedInOrder(i)'
    BY <1>2, <2>1, <2>2, <2>3 DEF QueuedInOrder
  <2> QED
    BY <2>1, <2>4, <2>5 DEF TextsAscend
<1>11. CASE UNCHANGED <<heard, sending, textSend, pc, text>>
  <2>1. \A v \in Writer : Latest(v)' = Latest(v)
    BY <1>11 DEF Latest
  <2> QED
    BY <1>3, <1>4, <1>11, <2>1
<1> QED
  BY <1>5, <1>6, <1>7, <1>8, <1>9, <1>10, <1>11
     DEF Next, CallBinary, OfferBinary, Evict, OfferAgain, LoopTop, NoText, SeeDone, CloseConn,
         ReadFails, WriteText, WriteBinary, WriteLoop, vars, writers, sender

\* No text goes missing.
LEMMA GapStep ==
  ASSUME CapAssumption, IInv, [Next]_vars
  PROVE  NoGap'
<1>1. Shapes /\ TextsAscend /\ NoGap
  BY DEF IInv
<1> DEFINE Closed == loop' = "exit"
<1>2. loop = "exit" => Closed
  BY DEF Next, CallText, CheckText, OfferText, CallBinary, OfferBinary, Evict, OfferAgain, LoopTop,
         TakeText, NoText, TakeFrame, SeeDone, Sent, SendFails, CloseConn, ReadFails, WriteText,
         WriteBinary, WriteLoop, vars, sender
<1>3. ~Closed => /\ \A i \in 1 .. Len(textSend) : NoGapBefore(i)
                 /\ \A w \in Writer : NoGapAtEnd(w)
  BY <1>1, <1>2 DEF NoGap
<1>4. Len(textSend) \in Nat
  BY <1>1 DEF Shapes
<1>5. ASSUME NEW w \in Writer, CallText(w) \/ CheckText(w) PROVE NoGap'
  <2>1. UNCHANGED <<heard, sending, textSend, loop, done>>
    BY <1>5 DEF CallText, CheckText, sender
  <2>2. ASSUME ~Closed, NEW i \in 1 .. Len(textSend) PROVE NoGapBefore(i)'
    BY <1>3, <2>1, <2>2 DEF NoGapBefore, Reached
  <2>3. ASSUME ~Closed, NEW v \in Writer PROVE NoGapAtEnd(v)'
    <3>1. pc'[v] = "offer" \/ ~done' => /\ pc[v] = "offer" \/ ~done
                                        /\ Latest(v)' = Latest(v)
      BY <1>1, <1>5, <2>1 DEF CallText, CheckText, Shapes, Latest
    <3> QED
      BY <1>3, <2>1, <2>3, <3>1 DEF NoGapAtEnd, Reached
  <2> QED
    BY <2>1, <2>2, <2>3 DEF NoGap
<1>6. ASSUME NEW w \in Writer, OfferText(w) PROVE NoGap'
  <2>1. UNCHANGED <<heard, sending, loop, text>> /\ pc[w] = "offer" /\ pc' = [pc EXCEPT ![w] = "idle"]
    BY <1>6 DEF OfferText, sender
  <2>2. Latest(w) = text[w] - 1 /\ \A v \in Writer : Latest(v)' = IF v = w THEN text[w] ELSE Latest(v)
    BY <1>1, <2>1 DEF Latest, Shapes
  <2>3. CASE UNCHANGED textSend /\ done'
    <3>1. ASSUME ~Closed, NEW i \in 1 .. Len(textSend) PROVE NoGapBefore(i)'
      BY <1>3, <2>1, <2>3, <3>1 DEF NoGapBefore, Reached
    <3>2. ASSUME ~Closed, NEW v \in Writer PROVE NoGapAtEnd(v)'
      <4>1. pc'[v] = "offer" => v # w /\ pc[v] = "offer"
        BY <1>1, <2>1 DEF Shapes
      <4> QED
        BY <1>3, <2>1, <2>2, <2>3, <3>2, <4>1 DEF NoGapAtEnd, Reached
    <3> QED
      BY <2>3, <3>1, <3>2 DEF NoGap
  <2>4. CASE Appended(textSend, textSend', Text(w, text[w])) /\ UNCHANGED done
    <3>1. PICK n \in Nat : n = Len(textSend)
      BY <1>4
    <3>2. /\ Len(textSend') = n + 1
          /\ \A i \in 1 .. n : textSend'[i] = textSend[i]
          /\ textSend'[n + 1].from = w /\ textSend'[n + 1].nr = text[w]
      BY <1>1, <2>4, <3>1, MessageFields, CapAssumption DEF Appended, Shapes, CapAssumption
    <3>3. ASSUME NEW v, NEW number, NEW k \in 0 .. n, Reached(v, number, k)
          PROVE  Reached(v, number, k)' /\ Reached(v, number, n + 1)'
      BY <2>1, <3>2, <3>3 DEF Reached
    <3>4. ASSUME ~Closed, NEW i \in 1 .. n PROVE NoGapBefore(i)'
      <4>1. Reached(textSend[i].from, textSend[i].nr - 1, i - 1)
        BY <1>3, <3>1, <3>4 DEF NoGapBefore
      <4>2. PICK v, number : v = textSend[i].from /\ number = textSend[i].nr - 1
        OBVIOUS
      <4>3. Reached(v, number, i - 1)'
        BY <3>3, <4>1, <4>2
      <4> QED
        BY <3>2, <4>2, <4>3 DEF NoGapBefore
    <3>5. ASSUME ~Closed PROVE NoGapBefore(n + 1)'
      <4>1. Reached(w, text[w] - 1, n)
        BY <1>3, <2>1, <2>2, <3>1, <3>5 DEF NoGapAtEnd
      <4>2. Reached(w, text[w] - 1, n)'
        BY <2>1, <3>2, <4>1 DEF Reached
      <4> QED
        BY <2>1, <3>2, <4>2 DEF NoGapBefore
    <3>6. ASSUME ~Closed, NEW v \in Writer PROVE NoGapAtEnd(v)'
      <4>1. CASE v = w
        BY <2>2, <3>2, <4>1 DEF NoGapAtEnd, Reached
      <4>2. CASE v # w
        <5>1. pc'[v] = pc[v] /\ Latest(v)' = Latest(v)
          BY <1>1, <2>1, <2>2, <4>2 DEF Shapes
        <5>2. ASSUME pc[v] = "offer" \/ ~done PROVE Reached(v, Latest(v), n + 1)'
          <6>1. Reached(v, Latest(v), n)
            BY <1>3, <3>1, <3>6, <5>2 DEF NoGapAtEnd
          <6> QED
            BY <2>1, <3>2, <5>1, <6>1 DEF Reached
        <5> QED
          BY <2>4, <3>2, <5>1, <5>2 DEF NoGapAtEnd
      <4> QED
        BY <4>1, <4>2
    <3>7. \A i \in 1 .. n + 1 : i \in 1 .. n \/ i = n + 1
      BY <3>1
    <3> QED
      BY <3>2, <3>4, <3>5, <3>6, <3>7 DEF NoGap
  <2> QED
    BY <1>1, <1>6, <2>3, <2>4, OfferTextEffect
<1>7. CASE TakeText
  <2>1. /\ Len(textSend) >= 1 /\ Len(textSend') = Len(textSend) - 1
        /\ \A i \in 1 .. Len(textSend') : textSend'[i] = textSend[i + 1]
        /\ sending' = textSend[1] /\ sending'.type = "text"
    BY <1>1, <1>7, TakeTextEffect, MessageFields DEF Shifted
  <2>2. UNCHANGED <<heard, pc, text, done>> /\ sending.type = "none"
    BY <1>1, <1>7, MessageFields DEF TakeText, writers, Shapes
  <2>3. ASSUME NEW v, NEW number, NEW k \in 1 .. Len(textSend), Reached(v, number, k)
        PROVE  Reached(v, number, k - 1)'
    <3>1. CASE number = heard[v]
      BY <2>2, <3>1 DEF Reached
    <3>2. ASSUME NEW j \in 1 .. k, textSend[j].from = v, textSend[j].nr = number
          PROVE  Reached(v, number, k - 1)'
      <4>1. CASE j = 1
        BY <2>1, <3>2, <4>1 DEF Reached
      <4>2. CASE j # 1
        <5>1. j - 1 \in 1 .. k - 1 /\ j - 1 \in 1 .. Len(textSend')
          BY <1>4, <2>1, <4>2
        <5>2. textSend'[j - 1] = textSend[j]
          BY <2>1, <5>1
        <5> QED
          BY <3>2, <5>1, <5>2 DEF Reached
      <4> QED
        BY <4>1, <4>2
    <3> QED
      BY <2>2, <2>3, <3>1, <3>2 DEF Reached
  <2>4. ASSUME ~Closed, NEW i \in 1 .. Len(textSend') PROVE NoGapBefore(i)'
    <3>1. i + 1 \in 1 .. Len(textSend) /\ i \in 1 .. Len(textSend)
      BY <1>4, <2>1
    <3>2. PICK v, number : v = textSend[i + 1].from /\ number = textSend[i + 1].nr - 1
      OBVIOUS
    <3>3. Reached(v, number, i)
      BY <1>3, <2>4, <3>1, <3>2 DEF NoGapBefore
    <3>4. Reached(v, number, i - 1)'
      BY <2>3, <3>1, <3>3
    <3> QED
      BY <2>1, <3>2, <3>4 DEF NoGapBefore
  <2>5. ASSUME ~Closed, NEW v \in Writer PROVE NoGapAtEnd(v)'
    <3>1. PICK number : number = Latest(v)
      OBVIOUS
    <3>2. Latest(v)' = number
      BY <2>2, <3>1 DEF Latest
    <3>3. ASSUME pc[v] = "offer" \/ ~done PROVE Reached(v, number, Len(textSend))
      BY <1>3, <2>5, <3>1, <3>3 DEF NoGapAtEnd
    <3>4. PICK n \in Nat : n = Len(textSend) /\ n \in 1 .. Len(textSend)
      BY <1>4, <2>1
    <3>5. ASSUME pc[v] = "offer" \/ ~done PROVE Reached(v, number, n - 1)'
      BY <2>3, <3>3, <3>4, <3>5
    <3> QED
      BY <2>1, <2>2, <3>2, <3>4, <3>5 DEF NoGapAtEnd
  <2> QED
    BY <2>4, <2>5 DEF NoGap
<1>8. CASE TakeFrame
  <2>1. UNCHANGED <<heard, pc, text, done, textSend>> /\ sending.type # "text" /\ sending'.type # "text"
    BY <1>1, <1>8, TakeFrameEffect, MessageFields DEF TakeFrame, writers, Shapes
  <2>2. ASSUME ~Closed, NEW i \in 1 .. Len(textSend) PROVE NoGapBefore(i)'
    BY <1>3, <2>1, <2>2 DEF NoGapBefore, Reached
  <2>3. ASSUME ~Closed, NEW v \in Writer PROVE NoGapAtEnd(v)'
    BY <1>3, <2>1, <2>3 DEF NoGapAtEnd, Reached, Latest
  <2> QED
    BY <2>1, <2>2, <2>3 DEF NoGap
<1>9. CASE Sent
  <2>1. UNCHANGED <<textSend, pc, text, done>> /\ sending'.type = "none"
    BY <1>9, MessageFields DEF Sent, writers
  <2>2. ASSUME NEW v \in Writer
        PROVE  heard'[v] = IF sending.type = "text" /\ sending.from = v THEN sending.nr ELSE heard[v]
    BY <1>1, <1>9, MessageFields DEF Sent, Shapes
  <2>3. ASSUME NEW v \in Writer, NEW number \in Int, NEW k, Reached(v, number, k),
               sending.type = "text" /\ sending.from = v => number # heard[v]
        PROVE  Reached(v, number, k)'
    BY <2>1, <2>2, <2>3 DEF Reached
  <2>4. ASSUME ~Closed, NEW i \in 1 .. Len(textSend) PROVE NoGapBefore(i)'
    <3>1. PICK v \in Writer : v = textSend[i].from
      BY <1>1, ElementOfSeq, MessageFields DEF Shapes
    <3>2. PICK number \in Int : number = textSend[i].nr - 1
      BY <1>1, ElementOfSeq, MessageFields DEF Shapes
    <3>3. sending.type = "text" /\ sending.from = v => number # heard[v]
      <4>1. sending.type = "text" /\ sending.from = v => sending.nr < textSend[i].nr
        BY <1>1, <3>1 DEF TextsAscend, QueuedInOrder
      <4>2. sending.type = "text" /\ sending.from = v => sending.nr = heard[v] + 1
        BY <1>1 DEF TextsAscend, SentInOrder
      <4>3. heard[v] \in Nat /\ textSend[i].nr \in Nat
        BY <1>1, ElementOfSeq, MessageFields DEF Shapes
      <4> QED
        BY <3>2, <4>1, <4>2, <4>3
    <3>4. Reached(v, number, i - 1)
      BY <1>3, <2>4, <3>1, <3>2 DEF NoGapBefore
    <3> QED
      BY <2>1, <2>3, <3>1, <3>2, <3>3, <3>4 DEF NoGapBefore
  <2>5. ASSUME ~Closed, NEW v \in Writer PROVE NoGapAtEnd(v)'
    <3>1. PICK number \in Int : number = Latest(v)
      BY <1>1 DEF Latest, Shapes
    <3>2. sending.type = "text" /\ sending.from = v => number # heard[v]
      BY <1>1, <3>1 DEF TextsAscend, SentInOrder, Shapes
    <3>3. PICK n : n = Len(textSend)
      OBVIOUS
    <3>4. ASSUME pc[v] = "offer" \/ ~done PROVE Reached(v, number, n)'
      <4>1. Reached(v, number, n)
        BY <1>3, <2>5, <3>1, <3>3, <3>4 DEF NoGapAtEnd
      <4> QED
        BY <2>3, <3>2, <4>1
    <3>5. Latest(v)' = number
      BY <2>1, <3>1 DEF Latest
    <3> QED
      BY <2>1, <3>3, <3>4, <3>5 DEF NoGapAtEnd
  <2> QED
    BY <2>1, <2>4, <2>5 DEF NoGap
<1>10. CASE Closed
  BY <1>10 DEF NoGap
<1>11. CASE UNCHANGED <<heard, pc, text, sending, textSend>> /\ (done => done')
  <2>1. ASSUME ~Closed, NEW i \in 1 .. Len(textSend) PROVE NoGapBefore(i)'
    BY <1>3, <1>11, <2>1 DEF NoGapBefore, Reached
  <2>2. ASSUME ~Closed, NEW v \in Writer PROVE NoGapAtEnd(v)'
    BY <1>3, <1>11, <2>2 DEF NoGapAtEnd, Reached, Latest
  <2> QED
    BY <1>11, <2>1, <2>2 DEF NoGap
<1> QED
  BY <1>5, <1>6, <1>7, <1>8, <1>9, <1>10, <1>11
     DEF Next, CallBinary, OfferBinary, Evict, OfferAgain, LoopTop, NoText, SeeDone, SendFails,
         CloseConn, ReadFails, WriteText, WriteBinary, WriteLoop, vars, writers, sender

\* The order of frames.
LEMMA FramesStep ==
  ASSUME CapAssumption, IInv, [Next]_vars
  PROVE  FramesAscend'
<1>1. Shapes /\ FramesAscend
  BY DEF IInv
<1>2. /\ Len(audioSend) \in Nat /\ played \in Nat /\ frame \in Nat /\ LatestFrame \in Int
      /\ sending.type = "frame" => sending.nr \in Nat
      /\ \A i \in 1 .. Len(audioSend) : audioSend[i].nr \in Nat /\ FrameInOrder(i)
  <2>1. Len(audioSend) \in Nat /\ played \in Nat /\ frame \in Nat /\ LatestFrame \in Int
    BY <1>1, CapAssumption DEF Shapes, LatestFrame, CapAssumption
  <2>2. sending.type = "frame" => sending.nr \in Nat
    BY <1>1, MessageFields DEF Shapes
  <2>3. ASSUME NEW i \in 1 .. Len(audioSend) PROVE audioSend[i].nr \in Nat
    <3>1. audioSend[i] \in FrameMessage
      BY <1>1, ElementOfSeq DEF Shapes
    <3> QED
      BY <3>1, MessageFields
  <2> QED
    BY <1>1, <2>1, <2>2, <2>3 DEF FramesAscend
<1>3. PICK latest \in Int, n \in Nat : latest = LatestFrame /\ n = Len(audioSend)
  BY <1>2
<1>4. ASSUME UNCHANGED <<played, sending, audioSend>>, LatestFrame' \in Int, LatestFrame' >= latest
      PROVE  FramesAscend'
  <2>1. PlayedInOrder'
    BY <1>1, <1>2, <1>3, <1>4 DEF FramesAscend, PlayedInOrder
  <2>2. ASSUME NEW i \in 1 .. n PROVE FrameInOrder(i)'
    BY <1>2, <1>3, <1>4, <2>2 DEF FrameInOrder
  <2> QED
    BY <1>3, <1>4, <2>1, <2>2 DEF FramesAscend
<1>5. CASE CallBinary
  <2>1. LatestFrame' \in {latest, latest + 1} /\ UNCHANGED <<played, sending, audioSend>>
    BY <1>2, <1>3, <1>5 DEF CallBinary, LatestFrame, sender
  <2> QED
    BY <1>3, <1>4, <2>1
<1>6. CASE OfferBinary \/ OfferAgain
  <2>1. UNCHANGED <<played, sending, frame>>
    BY <1>6 DEF OfferBinary, OfferAgain, sender
  <2>2. CASE UNCHANGED audioSend
    <3>1. LatestFrame' \in {latest, latest + 1}
      BY <1>2, <1>3, <1>6 DEF OfferBinary, OfferAgain, LatestFrame
    <3> QED
      BY <1>3, <1>4, <2>1, <2>2, <3>1
  <2>3. CASE Appended(audioSend, audioSend', AudioFrame(frame)) /\ ~UNCHANGED audioSend
    <3>1. latest = frame - 1 /\ LatestFrame' = frame
      BY <1>2, <1>3, <1>6, <2>3 DEF OfferBinary, OfferAgain, LatestFrame
    <3>2. /\ Len(audioSend') = n + 1
          /\ \A i \in 1 .. n : audioSend'[i] = audioSend[i]
          /\ audioSend'[n + 1].nr = frame
      BY <1>2, <1>3, <2>3, MessageFields DEF Appended
    <3>3. PlayedInOrder'
      BY <1>1, <1>2, <1>3, <2>1, <3>1 DEF FramesAscend, PlayedInOrder
    <3>4. ASSUME NEW i \in 1 .. n PROVE FrameInOrder(i)'
      BY <1>2, <1>3, <2>1, <3>1, <3>2, <3>4 DEF FrameInOrder
    <3>5. FrameInOrder(n + 1)'
      <4>1. \A i \in 1 .. n : audioSend[i].nr < frame
        BY <1>2, <1>3, <3>1 DEF FrameInOrder
      <4> QED
        BY <1>1, <1>2, <1>3, <2>1, <3>1, <3>2, <4>1 DEF FrameInOrder, FramesAscend, PlayedInOrder
    <3>6. \A i \in 1 .. n + 1 : i \in 1 .. n \/ i = n + 1
      BY <1>3
    <3> QED
      BY <3>2, <3>3, <3>4, <3>5, <3>6 DEF FramesAscend
  <2> QED
    BY <1>1, <1>6, <2>2, <2>3, OfferFrameEffect
\* What has moved up in a queue without its first frame.
<1>7. ASSUME Shifted(audioSend, audioSend'), UNCHANGED <<camera, frame, played>>,
             \/ sending'.type # "frame"
             \/ sending' = audioSend[1] /\ sending'.type = "frame" /\ n >= 1
      PROVE  FramesAscend'
  <2>1. LatestFrame' = latest
    BY <1>3, <1>7 DEF LatestFrame
  <2>2. PlayedInOrder'
    BY <1>1, <1>2, <1>3, <1>7, <2>1 DEF FramesAscend, PlayedInOrder, FrameInOrder
  <2>3. ASSUME NEW i \in 1 .. Len(audioSend') PROVE FrameInOrder(i)'
    <3>1. i + 1 \in 1 .. n /\ audioSend'[i] = audioSend[i + 1]
      BY <1>3, <1>7, <2>3 DEF Shifted
    <3>2. \A j \in 1 .. i : audioSend[j].nr < audioSend[i + 1].nr
      BY <1>2, <1>3, <3>1 DEF FrameInOrder
    <3>3. \A j \in 1 .. i - 1 : j + 1 \in 1 .. i /\ audioSend'[j] = audioSend[j + 1]
      BY <1>3, <1>7, <2>3 DEF Shifted
    <3>4. \A j \in 1 .. i - 1 : audioSend'[j].nr < audioSend'[i].nr
      BY <3>1, <3>2, <3>3
    <3>5. 1 \in 1 .. i
      OBVIOUS
    <3> QED
      BY <1>2, <1>3, <1>7, <2>1, <3>1, <3>2, <3>4, <3>5 DEF FrameInOrder
  <2> QED
    BY <2>2, <2>3 DEF FramesAscend
<1>8. CASE Evict
  <2>1. CASE UNCHANGED audioSend
    BY <1>2, <1>3, <1>4, <1>8, <2>1 DEF Evict, sender, LatestFrame
  <2>2. CASE Shifted(audioSend, audioSend')
    <3>1. LatestFrame' = latest /\ UNCHANGED <<played, sending>>
      BY <1>3, <1>8 DEF Evict, LatestFrame, sender
    <3>2. PlayedInOrder'
      BY <1>1, <1>2, <1>3, <3>1 DEF FramesAscend, PlayedInOrder
    <3>3. ASSUME NEW i \in 1 .. Len(audioSend') PROVE FrameInOrder(i)'
      <4>1. i + 1 \in 1 .. n /\ audioSend'[i] = audioSend[i + 1]
        BY <1>3, <2>2, <3>3 DEF Shifted
      <4>2. \A j \in 1 .. i - 1 : j + 1 \in 1 .. i /\ audioSend'[j] = audioSend[j + 1]
        BY <1>3, <2>2, <3>3 DEF Shifted
      <4> QED
        BY <1>2, <1>3, <3>1, <4>1, <4>2 DEF FrameInOrder
    <3> QED
      BY <3>2, <3>3 DEF FramesAscend
  <2> QED
    BY <1>1, <1>8, <2>1, <2>2, EvictEffect
<1>9. CASE TakeFrame
  <2>1. Shifted(audioSend, audioSend') /\ sending' = audioSend[1] /\ sending'.type = "frame" /\ n >= 1
    BY <1>1, <1>3, <1>9, TakeFrameEffect, MessageFields
  <2> QED
    BY <1>7, <1>9, <2>1 DEF TakeFrame, writers
<1>10. CASE TakeText \/ SendFails
  <2>1. sending'.type # "frame" /\ UNCHANGED <<camera, frame, played, audioSend>>
    BY <1>1, <1>10, TakeTextEffect, MessageFields DEF TakeText, SendFails, writers
  <2>2. LatestFrame' = latest
    BY <1>3, <2>1 DEF LatestFrame
  <2>3. ASSUME NEW i \in 1 .. n PROVE FrameInOrder(i)'
    BY <1>2, <1>3, <2>1, <2>2 DEF FrameInOrder
  <2> QED
    BY <1>1, <1>3, <2>1, <2>2, <2>3 DEF FramesAscend, PlayedInOrder
<1>11. CASE Sent
  <2>1. /\ sending'.type # "frame" /\ UNCHANGED <<camera, frame, audioSend>>
        /\ played' = played \/ (played' = sending.nr /\ sending.type = "frame")
    BY <1>1, <1>11, MessageFields DEF Sent, writers, Shapes
  <2>2. LatestFrame' = latest
    BY <1>3, <2>1 DEF LatestFrame
  <2>3. ASSUME NEW i \in 1 .. n PROVE FrameInOrder(i)'
    BY <1>2, <1>3, <2>1, <2>2 DEF FrameInOrder
  <2> QED
    BY <1>1, <1>2, <1>3, <2>1, <2>2, <2>3 DEF FramesAscend, PlayedInOrder
<1>12. CASE UNCHANGED <<played, sending, audioSend, camera, frame>>
  BY <1>2, <1>3, <1>4, <1>12 DEF LatestFrame
<1> QED
  BY <1>5, <1>6, <1>8, <1>9, <1>10, <1>11, <1>12
     DEF Next, CallText, CheckText, OfferText, LoopTop, NoText, SeeDone, CloseConn, ReadFails,
         WriteText, WriteBinary, WriteLoop, vars, writers, sender

\* The newest frame.
LEMMA NewestStep ==
  ASSUME CapAssumption, IInv, [Next]_vars
  PROVE  NewestFrameKept'
<1>1. Shapes /\ NewestFrameKept
  BY DEF IInv
<1>2. Len(audioSend) \in Nat /\ DOMAIN audioSend = 1 .. Len(audioSend)
  BY <1>1 DEF Shapes
<1>3. SUFFICES ASSUME camera' = "idle", ~done'
               PROVE  \/ Within(frame, audioSend)'
                      \/ played' = frame'
                      \/ loop' = "send" /\ sending'.nr = frame'
  BY DEF NewestFrameKept
<1>4. CASE OfferBinary \/ OfferAgain
  <2>1. Len(audioSend) < AudioCap \/ camera # "again"
    BY DEF IInv, RoomMade
  <2>2. audioSend' = Append(audioSend, AudioFrame(frame)) /\ UNCHANGED frame
    BY <1>1, <1>3, <1>4, <2>1, CapAssumption DEF OfferBinary, OfferAgain, Shapes, CapAssumption
  <2>3. Len(audioSend') = Len(audioSend) + 1 /\ audioSend'[Len(audioSend) + 1].nr = frame
    <3>1. AudioFrame(frame) \in FrameMessage /\ AudioFrame(frame).nr = frame
      BY <1>1, MessageFields, CapAssumption DEF Shapes, CapAssumption
    <3> QED
      BY <1>1, <2>2, <3>1, AppendProperties DEF Shapes
  <2>4. audioSend' \in Seq(FrameMessage)
    BY <1>1, <1>4, OfferFrameEffect
  <2> QED
    BY <1>2, <2>2, <2>3, <2>4 DEF Within
<1>5. ASSUME UNCHANGED <<camera, frame>>, done => done'
      PROVE  \/ Within(frame, audioSend)
             \/ played = frame
             \/ loop = "send" /\ sending.nr = frame
  <2>1. camera = "idle" /\ ~done
    BY <1>3, <1>5
  <2> QED
    BY <1>1, <2>1 DEF NewestFrameKept
<1>6. CASE TakeFrame
  <2>1. /\ Shifted(audioSend, audioSend') /\ sending' = audioSend[1]
        /\ audioSend' \in Seq(FrameMessage) /\ loop # "send" /\ loop' = "send"
        /\ UNCHANGED <<camera, frame, done, played>>
    BY <1>1, <1>6, TakeFrameEffect DEF TakeFrame, writers
  <2>2. ASSUME NEW k \in 1 .. Len(audioSend), audioSend[k].nr = frame
        PROVE  Within(frame, audioSend)' \/ sending'.nr = frame
    <3>1. CASE k = 1
      BY <2>1, <2>2, <3>1
    <3>2. CASE k # 1
      <4>1. k - 1 \in 1 .. Len(audioSend') /\ audioSend'[k - 1] = audioSend[k]
        BY <1>2, <2>1, <3>2 DEF Shifted
      <4>2. k - 1 \in DOMAIN audioSend'
        BY <2>1, <4>1
      <4> QED
        BY <2>1, <2>2, <4>1, <4>2 DEF Within
    <3> QED
      BY <3>1, <3>2
  <2> QED
    BY <1>2, <1>5, <2>1, <2>2 DEF Within
<1>7. CASE Sent
  <2>1. UNCHANGED <<camera, frame, done, audioSend>>
    BY <1>7 DEF Sent, writers
  <2>2. CASE sending.type = "text"
    <3>1. frame = 0 /\ played' = played
      BY <1>1, <1>7, <2>2 DEF IInv, OneKind, Sent, Shapes
    <3>2. played = 0
      BY <1>1, <1>3, <2>1, <3>1 DEF IInv, FramesAscend, PlayedInOrder, LatestFrame, Shapes
    <3> QED
      BY <2>1, <3>1, <3>2
  <2>3. CASE sending.type # "text"
    <3>1. played' = sending.nr
      BY <1>7, <2>3 DEF Sent
    <3>2. CASE played = frame
      BY <1>1, <1>3, <2>1, <2>3, <3>1, <3>2, <1>7, MessageFields
         DEF IInv, FramesAscend, PlayedInOrder, LatestFrame, Shapes, Sent
    <3> QED
      BY <1>5, <2>1, <3>1, <3>2 DEF Within
  <2> QED
    BY <2>2, <2>3
<1>8. CASE CallBinary \/ Evict \/ SendFails
  BY <1>3, <1>8 DEF CallBinary, Evict, SendFails, writers
<1>9. CASE UNCHANGED <<camera, frame, audioSend, played>> /\ loop # "send" /\ (done => done')
  BY <1>5, <1>9 DEF Within
<1>10. CASE UNCHANGED <<camera, frame, audioSend, played, loop, sending>> /\ (done => done')
  BY <1>5, <1>10 DEF Within
<1> QED
  BY <1>4, <1>6, <1>7, <1>8, <1>9, <1>10
     DEF Next, CallText, CheckText, OfferText, LoopTop, TakeText, NoText, SeeDone, CloseConn,
         ReadFails, WriteText, WriteBinary, WriteLoop, vars, writers, sender

\* The inductive invariant is one.
LEMMA Invariance ==
  ASSUME CapAssumption
  PROVE  Spec => []IInv
<1>1. Init => IInv
  BY InitCorrect
<1>2. IInv /\ [Next]_vars => IInv'
  BY ShapesStep, KindStep, ExitAndRoomStep, TextsStep, GapStep, FramesStep, NewestStep DEF IInv
<1> QED
  BY <1>1, <1>2, PTL DEF Spec

-----------------------------------------------------------------------------
(***************************************************************************)
(* The theorems.                                                           *)
(***************************************************************************)

\* The variables keep their types, the queues their capacity, and what has been heard and
\* played has been written (writeText, writeBinary).
THEOREM TypeCorrect ==
  ASSUME CapAssumption
  PROVE  Spec => []TypeOK
<1>1. IInv => TypeOK
  <2> SUFFICES ASSUME IInv PROVE TypeOK
    OBVIOUS
  <2>1. ASSUME NEW w \in Writer PROVE heard[w] \in 0 .. MaxTexts
    BY CapAssumption DEF CapAssumption, IInv, Shapes, TextsAscend, SentInOrder, Latest
  <2>2. heard \in [Writer -> 0 .. MaxTexts]
    BY <2>1 DEF IInv, Shapes
  <2>3. played \in 0 .. frame
    BY CapAssumption DEF CapAssumption, IInv, Shapes, FramesAscend, PlayedInOrder, LatestFrame
  <2> QED
    BY <2>2, <2>3 DEF IInv, Shapes, TypeOK
<1> QED
  BY <1>1, Invariance, PTL

\* Whatever the loop takes out meanwhile, the newest frame gets in: between two frames the
\* last one written is on its way unless the connection is closed (writeBinary).
THEOREM NewestFrameCorrect ==
  ASSUME CapAssumption
  PROVE  Spec => []NewestFrameKept
<1>1. IInv => NewestFrameKept
  BY DEF IInv
<1> QED
  BY <1>1, Invariance, PTL

\* The initial states of the connection are those of its promise.
LEMMA PromiseInit == Init => Promise!Init
BY DEF Init, Promise!Init

\* Every step of the connection is one of the promise, or changes nothing it talks about.
LEMMA PromiseStep ==
  ASSUME CapAssumption, IInv, [Next]_vars
  PROVE  [Promise!Next]_<<text, heard, frame, played>>
<1>1. Shapes /\ TextsAscend /\ FramesAscend
  BY DEF IInv
<1>2. ASSUME NEW w \in Writer, CallText(w) PROVE Promise!Write(w)
  BY <1>2 DEF CallText, Promise!Write, sender
<1>3. ASSUME CallBinary PROVE Promise!Record
  BY <1>3 DEF CallBinary, Promise!Record, sender
<1>4. CASE Sent /\ sending.type = "text"
  <2>1. PICK w \in Writer : w = sending.from
    BY <1>1, <1>4, MessageFields DEF Shapes
  <2>2. heard[w] \in Nat /\ text[w] \in Nat /\ Latest(w) <= text[w]
    BY <1>1, CapAssumption DEF Latest, Shapes, CapAssumption
  <2>3. sending.nr = heard[w] + 1 /\ sending.nr <= Latest(w)
    BY <1>1, <1>4, <2>1 DEF TextsAscend, SentInOrder
  <2>4. heard[w] < text[w]
    BY <2>2, <2>3 DEF Latest
  <2>5. Promise!Hear(w)
    BY <1>4, <2>1, <2>3, <2>4 DEF Sent, Promise!Hear, writers
  <2> QED
    BY <2>5 DEF Promise!Next
<1>5. CASE Sent /\ sending.type # "text"
  <2>1. sending.type = "frame"
    BY <1>1, <1>5, MessageFields DEF Shapes, Sent
  <2>2. played < sending.nr /\ sending.nr <= frame /\ sending.nr \in Nat
    BY <1>1, <2>1, MessageFields, CapAssumption
       DEF FramesAscend, PlayedInOrder, LatestFrame, Shapes, CapAssumption
  <2>3. Promise!Play
    BY <1>1, <1>5, <2>2, CapAssumption DEF Sent, Promise!Play, writers, Shapes, CapAssumption
  <2> QED
    BY <2>3 DEF Promise!Next
<1>6. CASE UNCHANGED <<text, heard, frame, played>>
  BY <1>6
<1> QED
  BY <1>2, <1>3, <1>4, <1>5, <1>6
     DEF Next, CheckText, OfferText, OfferBinary, Evict, OfferAgain, LoopTop, TakeText, NoText,
         TakeFrame, SeeDone, SendFails, CloseConn, ReadFails, WriteText, WriteBinary, WriteLoop,
         vars, writers, sender, Promise!Next

\* A connection keeps its promise: of each writer the browser is sent all texts in order and
\* without a gap up to some point, of the audio frames in order, and the newest frame gets in
\* (client in gateway.go).
THEOREM KeepsPromiseCorrect ==
  ASSUME CapAssumption
  PROVE  Spec => KeepsPromise
<1>1. Init => Promise!Init
  BY PromiseInit
<1>2. IInv /\ [Next]_vars => [Promise!Next]_<<text, heard, frame, played>>
  BY PromiseStep
<1>3. Spec => Promise!Spec
  BY <1>1, <1>2, Invariance, PTL DEF Spec, Promise!Spec
<1>4. Spec => []TypeOK
  BY TypeCorrect
<1>5. Spec => []NewestFrameKept
  BY NewestFrameCorrect
<1> QED
  BY <1>3, <1>4, <1>5, PTL DEF KeepsPromise
=============================================================================
