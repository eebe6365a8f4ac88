------------------------------ MODULE MapFetch ------------------------------
(***************************************************************************)
(* What a names fetch promises its caller: the whole current map of the    *)
(* matrix or an error, once.                                               *)
(***************************************************************************)
CONSTANTS WholeMap, Nothing, Error

VARIABLE result

Init == result = Nothing
Answer == result = Nothing /\ result' \in {WholeMap, Error}
Next == Answer
Spec == Init /\ [][Next]_result
=============================================================================
