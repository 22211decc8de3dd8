---------------------------- MODULE MCLiveClient ----------------------------
(* Model-checking instances of LiveClient. *)
EXTENDS LiveClient, TLC

Symmetry == Permutations(Objects)
=============================================================================
