------------------------------ MODULE MCPlanTree ------------------------------
(* The tree over the plans of the program's graph, with exclusions that    *)
(* leave it whole, take a branch or a level from it, or leave no plan.     *)
EXTENDS PlanTree, StandardGraph

MCStarts == {"ted", "sed", "jaro_string", "set_hd"}

MCAlgorithmExclusions == {{}, {"PALLOC", "PARTITION"}, {"PASS_JOIN"}, MCAlgorithms}

MCReductionExclusions == SUBSET {"label-sets", "2gram", "traversal-strings"}
==============================================================================
