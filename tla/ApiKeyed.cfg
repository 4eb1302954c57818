SPECIFICATION ApiSpec
CONSTANTS
  k1 = k1
  k2 = k2
  s1 = s1
  y1 = y1
  d1 = d1
  e1 = e1
  n1 = n1
  ann = ann
  bob = bob
  sue = sue
  qa = qa
  qb = qb
  c1 = c1
  c2 = c2
  c3 = c3
  NoUser = NoUser
  Rows = {k1}
  Users = {ann, bob, sue}
  Roles = {qa, qb}
  Calls = {c1, c3}
  Verbs = {"resolve", "byKey", "metadata", "claim", "allOrNone", "cancel", "release", "escalate", "bulkAssign", "bulkEscalate", "bulkCancel", "bulkTriage", "reassign", "sweep", "crash", "byIds"}
  Terms = {1}
  MetaTerm = 1
  Horizon = 3
  Shape <- MCShape
  Flow <- MCFlow
  Caller <- MCCaller
  Global <- MCGlobal
  AdminOf <- MCAdminOf
  ReadScope <- MCScopeAll
  WriteScope <- MCScopeAll
  Chain <- MCChain
INVARIANTS ApiTypeOK
PROPERTIES LockedRowSettledByHolder LockHolds ImplementsStore
CHECK_DEADLOCK FALSE
