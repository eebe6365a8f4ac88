------------------------------- MODULE MCHub -------------------------------
(***************************************************************************)
(* An instance of Hub for TLC.                                             *)
(***************************************************************************)
EXTENDS Hub

\* Bitmaps cover the whole panel, as those of publishEmulationSnapshot do.
WholePanel == {Key}
=============================================================================
