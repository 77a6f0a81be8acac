SPECIFICATION FairSpec
CONSTANTS
  Callers <- MCCallers
  Clients <- MCClients
  NumModels = 2
  MaxAttempts = 2
INVARIANTS
  TypeOK
  TraceIsComplete
  AttemptsAreTrue
  ReportIsTrue
PROPERTIES
  FailureDoesNotWait
  RunEnds
