SPECIFICATION FairApiSpec
CONSTANTS
  k1 = k1
  k2 = k2
  s1 = s1
  y1 = y1
  d1 = d1
  e1 = e1
  n1 = n1
  ann = ann
  bob = bob
  sue = sue
  qa = qa
  qb = qb
  c1 = c1
  c2 = c2
  c3 = c3
  NoUser = NoUser
  Rows = {s1, e1}
  Users = {ann, bob}
  Roles = {qa}
  Calls = {c1, c2}
  Verbs = {"resolve", "metadata", "bulkTriage", "terminate"}
  Terms = {1}
  MetaTerm = 1
  Horizon = 2
  Shape <- MCShape
  Flow <- MCFlow
  Caller <- MCCaller
  Global <- MCGlobal
  AdminOf <- MCAdminOf
  ReadScope <- MCScope
  WriteScope <- MCScope
  Chain <- MCChain
PROPERTIES SignallerClosesRow
CHECK_DEADLOCK FALSE
