CONSTANTS
  u1 = u1
  u2 = u2
  t1 = t1
  t2 = t2
  c1 = c1
  c2 = c2
  a1 = a1
  a2 = a2
  NoUser = NoUser
  NoToken = NoToken
  User = {u1, u2}
  Founder = {u1}
  Token = {t1, t2}
  Request = {c1, c2}
  Updater = {a1, a2}
  Patch <- MCPatch
  MaxAbandons = 1
  MaxUpdates = 2
SYMMETRY Symmetric
CHECK_DEADLOCK FALSE
SPECIFICATION Spec
INVARIANTS
  DeactivationEndsSessions
  OneExchange
  ExchangedIsRevoked
  AdminRemains
PROPERTIES
  ImplementsChain
