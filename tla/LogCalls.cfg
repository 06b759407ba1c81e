\* Two clients that may be logging at once, one of which may start twice.
CONSTANTS
  Clients = {c1, c2}
  LogDatas = {d1, d2}
  MaxTime = 2
  BufRows = 2
  MaxCrashes = 1
  None = None
  Header = Header
SPECIFICATION FairSpec
PROPERTY CallsReturn
