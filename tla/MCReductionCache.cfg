\* Three places for the eight reduced batches.
CONSTANTS
  b1 = b1
  b2 = b2
  None = None
  Batches <- MCBatches
  Steps <- MCSteps
  Plans <- MCPlans
  Keys <- MCKeys
  Values <- MCValues
  Capacity = 3
SPECIFICATION MCSpec
INVARIANTS CachedDataIsReduced NothingReducedTwice ListMatchesTable
PROPERTIES ImplementsOracle ImplementsPolicy CallsReturn
CHECK_DEADLOCK FALSE
