\* Ten selections: more than the children of any two nodes on a path, so that
\* the choice by quality is reached at the root and below it.
CONSTANTS
  Nodes <- MCNodes
  Algorithms <- MCAlgorithms
  Reductions <- MCReductions
  algorithms <- MCalgorithms
  edges <- MCedges
  Starts <- MCStarts
  AlgorithmExclusions <- MCAlgorithmExclusions
  ReductionExclusions <- MCReductionExclusions
  MaxSelections = 10
SPECIFICATION TreeSpec
INVARIANTS StepNamesPath TreeMirrorsPlans CountsFit
PROPERTIES AllPlansOnce
CHECK_DEADLOCK FALSE
