SPECIFICATION Spec
CONSTANTS
  Callers <- MCCallers
  Clients <- MCClients
  NumModels = 2
  MaxAttempts = 2
INVARIANTS
  FallbacksAreReported
