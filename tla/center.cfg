CONSTANTS
  j1 = j1
  j2 = j2
  j3 = j3
  Job = {j1, j2, j3}
  Mine = {j1, j2}
  Initial <- AskedBefore
  InitialPhase <- BeforePhase
  Date <- Dates
  PickedDate <- Picked
  PickedType = {"AUDIT_EVENTS", "TRACKED_EVENTS"}
  Row <- Rows
  DefaultFrom <- LeapDay
  DefaultTo <- AtLimit
  TicksPerDay = 2
  MaxSyncRows = 1
  MaxRows = 2
  MaxRangeDays = 365
  MaxRetries = 1
  MaxActions = 2
  MaxFailures = 1
  Blank = Blank
  Refused = Refused
  None = None
SPECIFICATION FairSpec
INVARIANTS
  EstimateOfForm
  NoKeyRefused
  OnlyNamedDays
  LimitIsExact
  ShownIsNews
PROPERTIES
  ShownSettles
CHECK_DEADLOCK FALSE
