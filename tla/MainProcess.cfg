\* Everything can fail.  The process ends: a deadlock is its end.
CONSTANTS
  Failures = {"config", "sonarPort", "sonarOptions", "gpsPort", "bind", "clientGone", "logsDir"}
  MaxSignals = 2
SPECIFICATION FairSpec
INVARIANTS TypeOK ThreadsEndBeforeObjects ExitSavesLog StoppedLoggerIsSafe
PROPERTY StopLeadsToExit
CHECK_DEADLOCK FALSE
