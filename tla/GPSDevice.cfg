\* Two sentences, after one under way, in chunks of up to five characters.
CONSTANTS
  f1 = f1  f2 = f2  g = g
  Sentences <- MCSentences
  Fixes <- MCFixes
  NoFix = NoFix
  EOL = EOL
  MaxSentences = 2
  SERIAL_PORT_READ_BUF_SIZE = 5
SPECIFICATION FairSpec
INVARIANTS TypeOK PortInv PublishedIsLastFix
PROPERTIES QuietAfterStop StopReturns
\* Stop ends everything.
CHECK_DEADLOCK FALSE
