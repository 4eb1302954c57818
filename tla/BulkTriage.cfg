SPECIFICATION Spec
CONSTANTS
  Settings <- MCBulkSettings
  MaxRows = 2
INVARIANTS HearsItsChild
CHECK_DEADLOCK FALSE
