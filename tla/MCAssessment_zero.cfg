SPECIFICATION Spec
CONSTANTS
  Null = Null
  Present = Present
  Garbled = Garbled
  Now = 120
  Overrides <- MCOverrides
  TaskWeights <- MCTaskWeights
  Answers <- MCAnswers
  Blocks <- MCBlocks
  PIISpanCounts <- MCPIISpanCounts
  Traces <- MCTraces
  TaskCriteria <- MCTaskCriteria
  DefaultCriteria <- MCDefaultCriteria
INVARIANTS
  AcceptedWeightsScore
