\* Two clients; three sessions, so that one client can start twice beside another.
CONSTANTS
  Clients = {c1, c2}
  LogDatas = {d1, d2, d3}
  MaxTime = 2
  BufRows = 2
  MaxCrashes = 1
  None = None
  Header = Header
SPECIFICATION Spec
SYMMETRY Symmetry
INVARIANTS TypeOK LoggersInv NoOrphanLogger NamesAreFree DownloadIsComplete HeadersFirst
           RowsIncrease
PROPERTIES DiskOnlyGrows ImplementsLogService
