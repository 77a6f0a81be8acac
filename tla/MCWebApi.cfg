SPECIFICATION FairSpec
CONSTANTS
  Null = Null
  Models <- MCModels
  DefaultModel = "local"
  FallbackModel = "hosted"
  Requests = {r1, r2}
  Kinds <- MCKinds
  Deployments <- MCDeployments
  Threads = 1
INVARIANTS
  OnlyGoodRequestsReachTheModel
  LeftoversAreExplained
  BlameIsExplained
PROPERTIES
  EveryRequestIsAnswered
