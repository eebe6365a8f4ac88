------------------------------ MODULE MCMatrix ------------------------------
(***************************************************************************)
(* The way to the matrix over TCP for TLC, one part at a time: a names     *)
(* fetch, or the helper with its requests.                                 *)
(***************************************************************************)
EXTENDS MatrixSession, MatrixHelper

VARIABLE part      \* which of them runs, the other stays as it starts

ASSUME SessionAssumption /\ HelperAssumption

MCInit ==
  /\ part \in {"fetch", "helper"} /\ Init /\ HelperInit
  /\ part # "fetch" => onTime

MCNext ==
  \/ part = "fetch" /\ Next /\ UNCHANGED <<part, helper>>
  \/ part = "helper" /\ HelperNext /\ UNCHANGED <<part, vars>>

\* A helper that has not been asked has nothing to be fair about, a fetch has.
MCSpec ==
  /\ MCInit /\ [][MCNext]_<<part, vars, helper>>
  /\ HelperFairness
  /\ part = "fetch" => Fairness

-----------------------------------------------------------------------------
\* A fetch ends whatever the matrix does unless its frames never do, and with the map if
\* nothing goes wrong (FetchNames, FetchCurrentMap).
FetchSettles == []TypeOK /\ (part = "fetch" => Ends /\ Succeeds)

\* A request to the helper is settled unless a fetch never ends, and a helper that is
\* started serves (handleNames, prepareSocket).
HelperSettles == []HelperTypeOK /\ Settles /\ Starts
=============================================================================
