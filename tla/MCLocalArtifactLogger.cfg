SPECIFICATION FairSpec
CONSTANTS
  Calls = {c1, c2, c3}
  PastRun = PastRun
  PastNumbers <- MCPastNumbers
INVARIANTS
  TypeOK
  ExclusiveReservations
  LaterRunsLargerNumbers
  LeftoversAreExplained
PROPERTIES
  EveryCallEnds
