SPECIFICATION FairHandoffSpec
CONSTANTS
  Rows = {1, 2}
  Settings <- MCSettings
INVARIANTS HandoffTypeOK NoStrayJob NoneForgotten OpenDepthKept AcceptedIsThere
PROPERTIES EveryHandoffEnds
CHECK_DEADLOCK FALSE
