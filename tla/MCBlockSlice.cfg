\* Every split of one to nine records into one to four batches that start
\* within the dataset; an index batch has too few tokens for a mapping or enough.
CONSTANTS
  prefix = prefix  other = other  None = None
  MaxBatches = 4
  Records <- MCRecords
  SharedStates <- MCBatchIds
  Instances <- MCBatchIds
  ProbeBatches <- MCBatchIds
  shared_state <- MCShared
  Batches = {}
  TokenCounts = {1, 3}
  FirstReindexing = 2
  MaxIndexed = 9
  Inputs <- MCInputs
  plans <- MCPlans
  PrefixPlan = prefix
SPECIFICATION BlockSpec
INVARIANTS EveryPairOnce
CHECK_DEADLOCK FALSE
