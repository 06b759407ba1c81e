\* Nothing fails, and one SIGINT comes.  The process ends: a deadlock is its end.
CONSTANTS
  Failures = {}
  MaxSignals = 1
SPECIFICATION Spec
INVARIANT GracefulTermination
CHECK_DEADLOCK FALSE
