SPECIFICATION ApiSpec
CONSTANTS
  k1 = k1
  k2 = k2
  s1 = s1
  y1 = y1
  d1 = d1
  e1 = e1
  n1 = n1
  ann = ann
  bob = bob
  sue = sue
  qa = qa
  qb = qb
  c1 = c1
  c2 = c2
  c3 = c3
  NoUser = NoUser
  Rows = {s1, d1}
  Users = {ann, bob}
  Roles = {qa}
  Calls = {c1, c2}
  Verbs = {"resolve", "metadata", "allOrNone", "byIds", "terminate", "crash"}
  Terms = {2}
  MetaTerm = 2
  Horizon = 3
  Shape <- MCShape
  Flow <- MCFlow
  Caller <- MCCaller
  Global <- MCGlobal
  AdminOf <- MCAdminOf
  ReadScope <- MCScope
  WriteScope <- MCScope
  Chain <- MCChain
INVARIANTS OneMetadataSignaller
PROPERTIES OnlyAcksStrand
CHECK_DEADLOCK FALSE
