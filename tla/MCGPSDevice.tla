---------------------------- MODULE MCGPSDevice ----------------------------
(* Model-checking instances of GPSDevice.  The states do not depend on how  *)
(* many sentences are still to come, so that a small bound is enough.       *)
EXTENDS GPSDevice

CONSTANTS f1, f2, g

\* Two fixes and a sentence without one.
MCFixes == {f1, f2}
MCSentences == MCFixes \cup {g}
=============================================================================
