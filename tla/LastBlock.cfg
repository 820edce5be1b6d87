\* Nineteen records: blocks of three by two batches, of unequal sides.
CONSTANTS
  N = 19
  ALIGNMENT = 2
  Plans = {a, b}
  MergeablePlans = {a}
  Joins = 1
SPECIFICATION JoinSpec
INVARIANTS LastBlockProcessed
CHECK_DEADLOCK FALSE
