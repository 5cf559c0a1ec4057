SPECIFICATION FairSpec
CONSTANTS
  c1 = c1
  c2 = c2
  c3 = c3
  s1 = s1
  s2 = s2
  None = None
  Unborn = Unborn
  Deleted = Deleted
  Config = {c1, c2, c3}
  Slot = {s1, s2}
  Role = {"OPS_MANAGER", "ENGINEERING_ADMIN"}
  Palette <- MCPalette
  Added = {"queue-depth"}
  MaxWidgets = 5
  Initial <- MCInitial
  MaxRequests = 2
  MaxEdits = 1
  MaxFailures = 1
INVARIANTS
  OneDefaultPerRole
  ShownIsServed
PROPERTIES
  DefaultNotLost
  EveryRequestAnswered
CHECK_DEADLOCK FALSE
