SPECIFICATION FairSpec
CONSTANTS
  Settings <- MCSettings
  MaxRows = 3
INVARIANTS TasksTypeOK HearsItsChild ResolvedIsActedOn  OneOpenRow
 
CHECK_DEADLOCK FALSE
