----------------------------- MODULE MCAnnounce -----------------------------
(***************************************************************************)
(* An instance of Announce for TLC.  Profiles and fetches are              *)
(* interchangeable.                                                        *)
(***************************************************************************)
EXTENDS Announce, TLC

Interchangeable == Permutations(Profile) \union Permutations(Fetcher)
=============================================================================
