--------------------------- MODULE MCSensorGlobals ---------------------------
(* Model-checking instances of SensorGlobals. *)
EXTENDS SensorGlobals
=============================================================================
