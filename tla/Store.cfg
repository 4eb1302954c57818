SPECIFICATION StoreSpec
CONSTANTS
  k1 = k1
  k2 = k2
  s1 = s1
  ann = ann
  bob = bob
  qa = qa
  qb = qb
  NoUser = NoUser
  Rows = {k1, k2, s1}
  Users = {ann, bob}
  Roles = {qa}
  Shape <- MCShape
  Flow <- MCFlow
  Terms = {1}
  MetaTerm = 1
  Horizon = 2
INVARIANTS KeyedWaitInStep
PROPERTIES ImplementsDurableWait TerminalFrozen
CHECK_DEADLOCK FALSE
