SPECIFICATION FairSpec
CONSTANTS
  Calls = {c1, c2}
  PastRun = PastRun
  MaxReserveAttempts = 3
  InitialValues <- MCInitialValues
INVARIANTS
  TypeOK
  UniqueRunNumbers
  LaterRunsLargerNumbers
  ReportedIsStored
  ContentionIsReal
PROPERTIES
  CorruptCounterKept
  EveryCallEnds
  RunNumbersSpec
