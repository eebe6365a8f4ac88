--------------------------- MODULE MatrixSession ---------------------------
(***************************************************************************)
(* One names fetch over TCP/2222: the identity exchange, the bank table    *)
(* and the download of the current map, against a matrix that may still be *)
(* sending an old transfer, repeat frames, send others nobody asked for,   *)
(* split frames over two segments, fall silent, garble a frame or close.   *)
(***************************************************************************)
EXTENDS Naturals, Sequences

CONSTANTS
  Chunks,     \* number of chunks of the map
  SeqSpace,   \* values of the sequence byte, 256 in the code
  OldFrom,    \* the old transfer continues from this chunk on
  MaxComing, MaxFaults   \* bounds: what is under way at a time, faults

SessionAssumption ==
  /\ Chunks \in Nat \ {0} /\ SeqSpace \in Nat /\ SeqSpace > 2
  /\ OldFrom \in 1 .. Chunks + 1
  /\ MaxComing \in Nat /\ MaxFaults \in Nat

VARIABLES
  phase, sawSize, wantSeq, data,  \* the client: FetchNames and FetchCurrentMap
  half,       \* the first bytes of a frame have been read, not yet the rest
  outcome,    \* "none", "map" or "error" (NameSnapshot.MapError)
  awaited,    \* frames sent and not acknowledged
  net,        \* segments on their way to the client
  asked,      \* requests on their way to the matrix
  transfer,   \* next frame of the transfer the matrix sends, 0 without one
  old,        \* next chunk of the old transfer
  faults, gone,
  onTime      \* the matrix answers within the deadlines unless it is gone, fixed

client == <<phase, sawSize, wantSeq, data, half, outcome>>
matrix == <<transfer, old, faults, gone, onTime>>
vars == <<client, awaited, net, asked, matrix>>

Frame(kind, seq, chunk) == [kind |-> kind, seq |-> seq, chunk |-> chunk]
Simple(kind) == Frame(kind, 0, 0)
OldChunk == Chunks + 1   \* marks what belongs to the old map: its bytes, its end

Whole(f) == [piece |-> "whole", frame |-> f]
Head1(f) == [piece |-> "head", frame |-> f]
Tail1(f) == [piece |-> "tail", frame |-> f]
Bad == [piece |-> "bad", frame |-> Simple("other")]

Init ==
  /\ phase = "identity" /\ sawSize = FALSE /\ wantSeq = 0 /\ data = <<>>
  /\ half = FALSE /\ outcome = "none"
  /\ awaited = 0 /\ net = <<>> /\ asked = <<"identity">>
  /\ transfer = 0 /\ old = OldFrom
  /\ faults = 0 /\ gone = FALSE /\ onTime \in BOOLEAN

-----------------------------------------------------------------------------
\* The client.  A finished fetch has closed its connection.
Finish(what) == phase' = "done" /\ outcome' = what

\* The bank table is asked for whether or not the identity came.
AskBank == phase' = "bank" /\ asked' = Append(asked, "bank") /\ UNCHANGED outcome
AskMap == phase' = "map" /\ asked' = Append(asked, "map") /\ UNCHANGED outcome

FailedPatient ==
  /\ half' = FALSE
  /\ \/ phase = "identity" /\ AskBank
     \/ phase = "bank" /\ Finish("error") /\ UNCHANGED asked
     \/ phase = "map" /\ UNCHANGED <<phase, outcome, asked>>
  /\ UNCHANGED <<sawSize, wantSeq, data>>

\* A read that fails ends the fetch, but for the identity's.
Failed ==
  /\ half' = FALSE
  /\ \/ phase = "identity" /\ AskBank
     \/ phase \in {"bank", "map"} /\ Finish("error") /\ UNCHANGED asked
  /\ UNCHANGED <<sawSize, wantSeq, data>>

TakeSize ==
  /\ sawSize' = TRUE /\ wantSeq' = 0 /\ data' = <<>>
  /\ UNCHANGED <<phase, outcome>>

TakeChunkAlways(f) ==
  /\ IF sawSize THEN data' = Append(data, f.chunk) /\ wantSeq' = (f.seq + 1) % SeqSpace
                ELSE UNCHANGED <<data, wantSeq>>
  /\ UNCHANGED <<phase, outcome, sawSize>>

\* A chunk counts once a size has announced the transfer: the one wanted is kept, a
\* repetition of the last one ignored, any other ends the fetch.
TakeChunk(f) ==
  /\ IF ~sawSize \/ f.seq = (wantSeq + SeqSpace - 1) % SeqSpace
       THEN UNCHANGED <<data, wantSeq, phase, outcome>>
       ELSE IF f.seq = wantSeq
         THEN /\ data' = Append(data, f.chunk)
              /\ wantSeq' = (wantSeq + 1) % SeqSpace
              /\ UNCHANGED <<phase, outcome>>
         ELSE Finish("error") /\ UNCHANGED <<data, wantSeq>>
  /\ UNCHANGED sawSize

TakeEndUnsized == Finish("map") /\ UNCHANGED <<sawSize, wantSeq, data>>

TakeEnd ==
  /\ IF sawSize THEN Finish("map") ELSE UNCHANGED <<phase, outcome>>
  /\ UNCHANGED <<sawSize, wantSeq, data>>

\* A valid frame is acknowledged, whatever it is, before it is looked at.
AckUnlessRepeated(f) ==
  IF f.kind = "other" \/ (phase = "map" /\ f.kind = "chunk" /\ f.seq # wantSeq) THEN 0 ELSE 1
AckOf(f) == IF f.kind = "other" THEN 0 ELSE 1

Process(f) ==
  /\ awaited' = awaited - AckOf(f)
  /\ half' = FALSE
  /\ \/ /\ phase = "identity"
        /\ IF f.kind = "identity" THEN AskBank ELSE UNCHANGED <<phase, outcome, asked>>
        /\ UNCHANGED <<sawSize, wantSeq, data>>
     \/ /\ phase = "bank"
        /\ \/ f.kind = "bank" /\ AskMap
           \/ f.kind = "no_bank" /\ Finish("error") /\ UNCHANGED asked
           \/ f.kind \notin {"bank", "no_bank"} /\ UNCHANGED <<phase, outcome, asked>>
        /\ UNCHANGED <<sawSize, wantSeq, data>>
     \/ /\ phase = "map" /\ UNCHANGED asked
        /\ \/ f.kind = "size" /\ TakeSize
           \/ f.kind = "chunk" /\ TakeChunk(f)
           \/ f.kind = "end" /\ TakeEnd
           \/ /\ f.kind \notin {"size", "chunk", "end"}
              /\ UNCHANGED <<phase, outcome, sawSize, wantSeq, data>>

\* ReadWirePayload: it starts from nothing on every call, so the rest of a frame whose
\* start was read by a call that timed out is garbage, or too short to be noticed.
Read ==
  /\ phase # "done" /\ net # <<>>
  /\ net' = Tail(net)
  /\ LET piece == Head(net).piece IN
       \/ /\ piece = "whole" \/ (piece = "tail" /\ half)
          /\ Process(Head(net).frame)
       \/ /\ piece = "head" /\ half' = TRUE
          /\ UNCHANGED <<phase, sawSize, wantSeq, data, outcome, awaited, asked>>
       \/ /\ piece = "bad" \/ (piece = "tail" /\ ~half)
          /\ Failed /\ UNCHANGED awaited
       \/ /\ piece = "tail" /\ ~half
          /\ UNCHANGED <<client, awaited, asked>>
  /\ UNCHANGED matrix

\* The connection is gone and everything that came before has been read.
ReadEOF ==
  /\ phase # "done" /\ net = <<>> /\ gone
  /\ Failed
  /\ UNCHANGED <<awaited, net, matrix>>

\* The deadline of the exchange or of the frame passes.
Expire ==
  /\ phase # "done"
  /\ onTime => gone /\ net = <<>>
  /\ Failed
  /\ UNCHANGED <<awaited, net, matrix>>

-----------------------------------------------------------------------------
\* The matrix, as the documents and the client's comments describe it.
Send(f) ==
  /\ awaited' = awaited + 1
  /\ \/ net' = Append(net, Whole(f))
     \/ net' = net \o <<Head1(f), Tail1(f)>>

\* It sends the next frame of a transfer when the last frame is acknowledged.
Acknowledged == awaited = 0

Current(k) ==
  IF k = 1 THEN Simple("size")
  ELSE IF k = Chunks + 2 THEN Simple("end") ELSE Frame("chunk", (k - 2) % SeqSpace, k - 2)

Reply ==
  /\ asked # <<>> /\ ~gone
  /\ asked' = Tail(asked)
  /\ \/ /\ Head(asked) = "map"
        /\ Send(Current(1)) /\ transfer' = 2 /\ old' = Chunks + 2
        /\ UNCHANGED faults
     \/ /\ Head(asked) # "map"
        /\ \/ Send(Simple(Head(asked))) /\ UNCHANGED faults
           \/ /\ Head(asked) = "bank" /\ faults < MaxFaults
              /\ Send(Simple("no_bank")) /\ faults' = faults + 1
        /\ UNCHANGED <<transfer, old>>
  /\ UNCHANGED <<client, gone, onTime>>

Continue ==
  /\ transfer \in 2 .. Chunks + 2 /\ Acknowledged /\ ~gone
  /\ Send(Current(transfer))
  /\ transfer' = transfer + 1
  /\ UNCHANGED <<client, asked, old, faults, gone, onTime>>

ContinueOld ==
  /\ old <= Chunks + 1 /\ Acknowledged /\ ~gone
  /\ Send(IF old = Chunks + 1 THEN Frame("end", 0, OldChunk) ELSE Frame("chunk", old % SeqSpace, OldChunk))
  /\ old' = old + 1
  /\ UNCHANGED <<client, asked, transfer, faults, gone, onTime>>

\* Its acknowledgement late, a frame is sent again, as often as it is late.
Repeat ==
  /\ transfer > 1 /\ ~gone /\ ~Acknowledged /\ awaited < MaxComing
  /\ Send(Current(transfer - 1))
  /\ UNCHANGED <<client, asked, transfer, old, faults, gone, onTime>>

\* Frames nobody asked for, which the client does not acknowledge and skips, come at any
\* time and without end.
Chatter ==
  /\ ~gone /\ Len(net) < MaxComing
  /\ net' = Append(net, Whole(Simple("other")))
  /\ UNCHANGED <<client, awaited, asked, matrix>>

Garble ==
  /\ faults < MaxFaults /\ ~gone
  /\ faults' = faults + 1 /\ net' = Append(net, Bad)
  /\ UNCHANGED <<client, awaited, asked, transfer, old, gone, onTime>>

Vanish ==
  /\ faults < MaxFaults /\ ~gone
  /\ faults' = faults + 1 /\ gone' = TRUE
  /\ UNCHANGED <<client, awaited, net, asked, transfer, old, onTime>>

ClientNext == Read \/ ReadEOF \/ Expire
MatrixNext == Reply \/ Continue \/ ContinueOld \/ Repeat \/ Chatter \/ Garble \/ Vanish
Next == ClientNext \/ MatrixNext

\* The client's goroutine runs.  The deadline of an exchange passes, whatever comes
\* meanwhile; a frame of the map has a deadline of its own, which passes only when nothing
\* comes.  A matrix that has not vanished answers.
Fairness ==
  /\ WF_vars(Read) /\ WF_vars(ReadEOF)
  /\ WF_vars(phase \in {"identity", "bank"} /\ Expire) /\ WF_vars(net = <<>> /\ Expire)
  /\ WF_vars(Reply) /\ WF_vars(Continue)
Spec == Init /\ [][Next]_vars /\ Fairness

-----------------------------------------------------------------------------
TypeOK ==
  /\ phase \in {"identity", "bank", "map", "done"}
  /\ outcome \in {"none", "map", "error"} /\ (outcome = "none" <=> phase # "done")
  /\ sawSize \in BOOLEAN /\ wantSeq \in 0 .. SeqSpace - 1 /\ half \in BOOLEAN
  /\ Len(data) <= Chunks
  /\ awaited \in Nat

\* The fetch gives the caller the map, all of it and nothing else, or an error: chunks of
\* an old transfer, repeated chunks, frames cut by a deadline and garbled ones never get
\* into it, also when the sequence byte wraps.
CurrentMap == [k \in 1 .. Chunks |-> k - 1]
MapOrError == INSTANCE MapFetch
  WITH WholeMap <- <<"map", CurrentMap>>, Nothing <- <<"none">>, Error <- <<"error">>,
       result <- IF outcome = "map" THEN <<"map", data>> ELSE <<outcome>>
ImplementsFetch == MapOrError!Spec

\* The fetch ends, whatever the matrix does, unless it goes on downloading because frames
\* that bring nothing keep coming: each of them arms a new deadline, and there is none for
\* the download.
Ends ==
  \/ <>(phase = "done")
  \/ <>[](phase = "map") /\ []<><<Chatter \/ Repeat>>_vars

\* A matrix that stays, garbles nothing, answers in time and does not repeat a frame for
\* ever is read: no repetition, old frame, frame nobody asked for or split segment makes
\* the two wait for each other or the fetch fail.
Succeeds ==
  \/ [](onTime /\ faults = 0) ~> outcome = "map"
  \/ []<><<Repeat>>_vars
=============================================================================
