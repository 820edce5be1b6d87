\* Two joins over nine records in batches of two: four whole batches and a
\* short one, blocks of one to three batches a side.
CONSTANTS
  N = 9
  ALIGNMENT = 2
  Plans = {a, b}
  MergeablePlans = {a}
  Joins = 2
SPECIFICATION JoinSpec
INVARIANTS ComputesReportedPart BatchIdFixesExtent IndexCoversRange
PROPERTIES LossOnlyAtDescent ReportsWithinContract ConsolidationKeepsRecords JoinCompletes
CHECK_DEADLOCK FALSE
