\* A batch of 3 tokens is half way to the first mapping, and the second is
\* reached after five of them: versions 0 to 2, in any order with the probes.
CONSTANTS
  shared = shared  a1 = a1  a2 = a2
  Records = {1, 2, 3}
  SharedStates = {shared}
  Instances = {a1, a2}
  shared_state <- MCShared
  Batches <- MCBatches
  TokenCounts = {1, 3}
  ProbeBatches = {1, 2}
  FirstReindexing = 2
  MaxIndexed = 4
SPECIFICATION Spec
INVARIANTS IndexIsComplete ComparedInOneMapping
CHECK_DEADLOCK FALSE
