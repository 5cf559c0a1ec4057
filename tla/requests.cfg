CONSTANTS
  q1 = q1
  q2 = q2
  alice = alice
  Request = {q1, q2}
  Identifier = {alice}
  KeyedBy <- OneCaller
  Tiers <- Routes
  Bucket = {"global", "exports"}
  Points <- OnePoint
  WindowTicks <- OneTick
  FlushAt = 2
  MaxBuffer = 3
  MaxTicks = 2
  MaxOutages = 1
  MaxCrashes = 1
  NoKey = NoKey
SPECIFICATION FairSpec
INVARIANTS
  SampledOnce
  BatchesAddUp
  RefusedOnlyWhenSpent
  WithinBudget
PROPERTIES
  EveryRequestSettles
CHECK_DEADLOCK FALSE
