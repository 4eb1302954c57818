SPECIFICATION FairLineSpec
CONSTANTS
  r1 = r1
  r2 = r2
  r3 = r3
  Nobody = Nobody
  Runs = {r1, r2, r3}
  MaxFaults = 2
INVARIANTS OneGatewayPerSession
PROPERTIES StopIsFinal SomebodyLeads StopEnds
CHECK_DEADLOCK FALSE
