\* One frame and one sentence: with the values the globals start with, enough for a
\* mix.  Two loggers: one can hold a mutex another is waiting for.
CONSTANTS
  Frames = {f1}
  Fixes = {x1}
  Loggers = {l1, l2}
  NoReading = NoReading
  Free = Free
SPECIFICATION FairSpec
INVARIANTS TypeOK LockingInv RowIsOneReading
PROPERTIES ImplementsAtomicReadings NobodyStarves
