\* The initial position and two fixes, three polls, the page left once.
CONSTANTS
  MaxReading = 2
  MaxPolls = 3
  MaxLeaves = 1
  Default = Default
  Unread = Unread
  Done = Done
SPECIFICATION MapSpec
INVARIANTS PathHasFixes PollsWhileTracking
\* The polls and the readings are bounded.
CHECK_DEADLOCK FALSE
