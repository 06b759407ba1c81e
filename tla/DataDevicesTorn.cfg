\* No logger: SensorGlobals.cfg covers them, and they write no global.
CONSTANTS
  Frames = {f1, f2}
  Fixes = {x1}
  Loggers = {}
  NoReading = NoReading
  Free = Free
SPECIFICATION HttpSpec
SYMMETRY Symmetry
INVARIANT BodyIsOneReading
