CONSTANTS
  u1 = u1
  t1 = t1
  t2 = t2
  c1 = c1
  p1 = p1
  p2 = p2
  q1 = q1
  q2 = q2
  q3 = q3
  NoUser = NoUser
  NoToken = NoToken
  NoCall = NoCall
  User = {u1}
  Founder = {u1}
  Token = {t1, t2}
  Request = {c1}
  Updater = {}
  Patch = {}
  MaxAbandons = 0
  MaxUpdates = 0
  Page = {p1, p2}
  Caller = {q1, q3}
  PageOf <- Pages
  MaxLosses = 0
  MaxSignOuts = 0
CHECK_DEADLOCK FALSE
SPECIFICATION ClientSpec
INVARIANT
  NeverPresentsExchanged
