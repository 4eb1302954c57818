SPECIFICATION FairSpec
CONSTANT Settings <- MCSettings
INVARIANTS AlarmTypeOK AcksArePeoples OneRowPerRaise
PROPERTIES TroubleIsShown NothingLeftOver
CHECK_DEADLOCK FALSE
