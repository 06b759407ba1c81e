-------------------------- MODULE MCLogDevicesData --------------------------
(* Model-checking instances of LogDevicesData. *)
EXTENDS LogDevicesData, TLC

\* LogData objects and clients are interchangeable (safety runs only).
Symmetry == Permutations(LogDatas) \cup Permutations(Clients)
=============================================================================
