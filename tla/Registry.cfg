SPECIFICATION FairRegistrySpec
CONSTANTS
  r1 = r1
  r2 = r2
  h1 = h1
  h2 = h2
  ed = ed
  d1 = d1
  d2 = d2
  NoDef = NoDef
  Nobody = Nobody
  Replicas = {r1, r2}
  Handlers = {h1}
  Editors = {ed}
  Defs = {d1, d2}
  RunIds = {1, 2}
  CodeLine <- MCCodeLine
  CodeOwned = TRUE
  MaxWrites = 3
  MaxFaults = 1
INVARIANTS  EveryReplicaTold 
PROPERTIES VersionNamesOneWrite 
CHECK_DEADLOCK FALSE
