CONSTANTS
  j1 = j1
  j2 = j2
  r1 = r1
  r2 = r2
  w1 = w1
  csvA = csvA
  NoFile = NoFile
  NoJob = NoJob
  Job = {j1}
  Request = {r1, r2}
  Worker = {w1}
  ExportType = {csvA}
  TypeOf <- OneType
  MaxRetries = 1
  Retention = 1
  MaxTicks = 0
  MaxThrows = 2
  MaxAbandons = 1
  MaxAborts = 0
  MaxStalls = 1
SPECIFICATION FairSpec
INVARIANTS
  ClaimExclusion
  SomeoneResponsible
PROPERTIES
  EventuallySettles
  ImplementsLifecycle
CHECK_DEADLOCK FALSE
