--------------------------- MODULE ClientPromise ---------------------------
(***************************************************************************)
(* What a browser connection promises: of every goroutine that writes      *)
(* texts to it, all of them in order and without a gap, up to some point   *)
(* where the connection ends; of the audio, frames in order, some missing. *)
(***************************************************************************)
EXTENDS Naturals

CONSTANT Writer

VARIABLES
  written,    \* texts each writer has begun to write
  heard,      \* texts of each that the browser has been sent
  recorded,   \* audio frames begun
  played      \* the last that the browser has been sent

Init ==
  /\ written = [w \in Writer |-> 0] /\ heard = [w \in Writer |-> 0]
  /\ recorded = 0 /\ played = 0

Write(w) == written' = [written EXCEPT ![w] = @ + 1] /\ UNCHANGED <<heard, recorded, played>>

Hear(w) ==
  /\ heard[w] < written[w]
  /\ heard' = [heard EXCEPT ![w] = @ + 1]
  /\ UNCHANGED <<written, recorded, played>>

Record == recorded' = recorded + 1 /\ UNCHANGED <<written, heard, played>>

Play ==
  /\ played' \in played + 1 .. recorded
  /\ UNCHANGED <<written, heard, recorded>>

Next == (\E w \in Writer : Write(w) \/ Hear(w)) \/ Record \/ Play
Spec == Init /\ [][Next]_<<written, heard, recorded, played>>
=============================================================================
