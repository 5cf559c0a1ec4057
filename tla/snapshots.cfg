CONSTANTS
  nightly = nightly
  cli = cli
  Missing = Missing
  NoDay = NoDay
  KeyOrder <- Metrics
  Nightly = {nightly}
  Script = {cli}
  MaxDay = 2
  MinDays = 2
  MaxEvents = 1
  MaxAborts = 1
CHECK_DEADLOCK FALSE
SPECIFICATION Spec
INVARIANTS
  AnswersExact
  NeverOvercounts
PROPERTIES
  RerunsKeepRows
