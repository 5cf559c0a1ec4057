CONSTANTS
  u1 = u1
  u2 = u2
  t1 = t1
  t2 = t2
  c1 = c1
  c2 = c2
  a1 = a1
  a2 = a2
  NoUser = NoUser
  NoToken = NoToken
  User = {u1, u2}
  Founder = {u1, u2}
  Token = {t1, t2}
  Request = {c1}
  Updater = {a1}
  Patch <- MCPatch
  MaxAbandons = 0
  MaxUpdates = 1
SYMMETRY Symmetric
CHECK_DEADLOCK FALSE
SPECIFICATION Spec
INVARIANTS
  InactiveHasNoRefreshedSession
