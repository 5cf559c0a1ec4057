CONSTANTS
  ra = ra
  rb = rb
  e1 = e1
  e2 = e2
  e3 = e3
  e4 = e4
  eval = eval
  k1 = k1
  k2 = k2
  NoSamples = NoSamples
  NoRule = NoRule
  NoEvent = NoEvent
  Comparator <- Comparators
  Evaluator = {eval}
  Rule = {ra, rb}
  Event = {e1, e2, e3}
  Acker = {k1}
  Value = {1, 2}
  MaxChanges = 4
  MaxAborts = 1
CHECK_DEADLOCK FALSE
SPECIFICATION FairSpec
INVARIANTS
  OneOpenUnlessReopened
PROPERTIES
  RecoveryResolvesEnabled
  BreachFires
