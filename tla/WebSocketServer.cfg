\* Two clients that speak WebSocket and one that does not; one accept fails.
CONSTANTS
  Sessions = {s1, s2, s3}
  Strangers = {s3}
  MaxErrors = 1
  None = None
SPECIFICATION FairSpec
INVARIANTS TypeOK OneOperation
PROPERTIES GoneClientIsFreed ClientsAreServed
\* The io_context can stop.
CHECK_DEADLOCK FALSE
