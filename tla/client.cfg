CONSTANTS
  u1 = u1
  t1 = t1
  t2 = t2
  c1 = c1
  p1 = p1
  p2 = p2
  q1 = q1
  q2 = q2
  q3 = q3
  NoUser = NoUser
  NoToken = NoToken
  NoCall = NoCall
  User = {u1}
  Founder = {u1}
  Token = {t1, t2}
  Request = {c1}
  Updater = {}
  Patch = {}
  MaxAbandons = 1
  MaxUpdates = 0
  Page = {p1, p2}
  Caller = {q1, q2}
  PageOf <- Pages
  MaxLosses = 1
  MaxSignOuts = 1
CHECK_DEADLOCK FALSE
SPECIFICATION ClientFairSpec
INVARIANTS
  AlarmHasCause
  SignOutSticks
PROPERTIES
  CallersSettle
