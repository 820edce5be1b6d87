\* Three batches; each has enough tokens for a mapping of its own.
CONSTANTS
  prefix = prefix  other = other  None = None
  MaxBatches = 3
  Records <- MCRecords
  SharedStates <- MCBatchIds
  Instances <- MCBatchIds
  ProbeBatches <- MCBatchIds
  shared_state <- MCShared
  Batches = {}
  TokenCounts = {1, 3}
  FirstReindexing = 2
  MaxIndexed = 9
  Inputs <- MCThreeBatches
  plans <- MCPlans
  PrefixPlan = prefix
SPECIFICATION BlockSpec
INVARIANTS ComparedInOneMapping
CHECK_DEADLOCK FALSE
