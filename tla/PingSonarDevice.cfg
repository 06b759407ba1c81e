\* The port opened at five bytes of a message, and one byte lost or changed anywhere.
CONSTANTS
  Measurements <- MCMeasurements
  Noise <- MCNoise
  MaxFaults = 1
  NoMeasurement = NoMeasurement
  Openings <- MCOpenings
SPECIFICATION FairSpec
INVARIANTS PublishedWasMeasured CleanLineAccepted
PROPERTY StopReturns
\* Stop ends everything.
CHECK_DEADLOCK FALSE
