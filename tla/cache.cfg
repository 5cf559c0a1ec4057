CONSTANTS
  admin = admin
  r1 = r1
  r2 = r2
  w1 = w1
  Empty = Empty
  Role = {admin}
  Reader = {r1, r2}
  Writer = {w1}
  TimeToLive = 1
  MaxVersion = 2
  MaxTicks = 1
  MaxFailures = 1
  MaxRollups = 1
CHECK_DEADLOCK FALSE
SYMMETRY Symmetric
SPECIFICATION Spec
INVARIANTS
  RepliesFit
  StaleOnlyForTimeToLive
  FreshUnlessOvertaken
