CONSTANTS
  j1 = j1
  j2 = j2
  r1 = r1
  r2 = r2
  w1 = w1
  csvA = csvA
  NoFile = NoFile
  NoJob = NoJob
  Job = {j1, j2}
  Request = {r1, r2}
  Worker = {}
  ExportType = {csvA}
  TypeOf <- OneType
  MaxRetries = 1
  Retention = 1
  MaxTicks = 1
  MaxThrows = 1
  MaxAbandons = 0
  MaxAborts = 1
  MaxStalls = 0
SPECIFICATION FairSpec
INVARIANTS
  SweepReadsHold
  CompletedHasFile
PROPERTIES
  DownloadServesOwnRows
  EventuallyExpires
CHECK_DEADLOCK FALSE
