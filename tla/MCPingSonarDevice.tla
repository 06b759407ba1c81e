------------------------- MODULE MCPingSonarDevice -------------------------
(* Model-checking instances of PingSonarDevice. *)
EXTENDS PingSonarDevice

\* A shallow and a deep measurement: one byte and two bytes of distance.  The
\* second one's distance has the start bytes in it.
MCMeasurements == {<<300, 100>>, <<66 + 256 * 82, 50>>}

\* The first start byte and the size that the code expects.
MCNoise == {22, 66}

\* The start of a message, its second byte, the one before the distance, and around the
\* checksum.  A byte that is lost then moves the reads on to the next one, and a longer
\* message moves them from read to read, to all of its bytes.
MCOpenings == {1, 2, 8, 30, 32}
=============================================================================
