---------------------------- MODULE MCDataDevices ----------------------------
(* Model-checking instances of DataDevices. *)
EXTENDS DataDevices, TLC

Symmetry == Permutations(Frames) \cup Permutations(Fixes)
=============================================================================
