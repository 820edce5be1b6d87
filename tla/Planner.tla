------------------------------- MODULE Planner -------------------------------
(***************************************************************************)
(* ontology::ReductionGraph::enumerate_plans (planner.hh): all paths from  *)
(* a node of the reduction graph to a join algorithm, without the excluded *)
(* algorithms and reductions, each reduction step with an id of its own.   *)
(*                                                                         *)
(* The recursion is a stack of frames: the node and the positions of the   *)
(* two loops of enumerate_plans_recursive.  One iteration of a loop or one *)
(* return is one step.                                                     *)
(***************************************************************************)
EXTENDS Integers, Sequences, SequencesExt, FiniteSets

CONSTANTS
  Nodes, Algorithms,
  Reductions,   \* of the graph: objects, also where two have the same label
  algorithms,   \* the algorithms at a node
  edges,        \* the edges of a node
  Starts,       \* the nodes that belong to a similarity of the command line
  AlgorithmExclusions, ReductionExclusions  \* what may be excluded

ASSUME GraphAssumption ==
  /\ algorithms \in [Nodes -> Seq(Algorithms)]
  /\ DOMAIN edges = Nodes
  /\ \A n \in Nodes : edges[n] \in Seq([reduction : Reductions, to_node : Nodes])
  /\ \A n \in Nodes : \A i, j \in DOMAIN edges[n] :
       edges[n][i].reduction = edges[n][j].reduction => i = j
  /\ Starts \subseteq Nodes

(* A node lists each of its algorithms once.                               *)
ASSUME ListingAssumption ==
  /\ IsFiniteSet(Nodes)
  /\ \A n \in Nodes : \A i, j \in DOMAIN algorithms[n] :
       algorithms[n][i] = algorithms[n][j] => i = j

VARIABLES
  excluded_algorithms, excluded_reductions,  \* the configuration
  start,                                     \* the node that is planned for
  stack,                 \* the running calls, the innermost last
  steps,                 \* current_plan.steps
  plans,
  running_reduction_id

configVars == <<excluded_algorithms, excluded_reductions, start>>
plannerVars == <<configVars, stack, steps, plans, running_reduction_id>>

(* Faulty forms: ids by depth, steps that stay after their call, calls     *)
(* that stay.                                                              *)
NewId_Depth == Len(steps)

Backtracked_Not(s) == s

Popped_Not(s) == s

Frame(n) == [node |-> n, algorithm |-> 1, edge |-> 1]

Call == Last(stack)

NewId == running_reduction_id

Backtracked(s) == IF s = <<>> THEN s ELSE Front(s)

Popped(s) == Front(s)

(* The frame of the innermost call after one iteration of a loop.          *)
WithCall(f) == Append(Front(stack), f)

Init ==
  /\ excluded_algorithms \in AlgorithmExclusions
  /\ excluded_reductions \in ReductionExclusions
  /\ start \in Starts
  /\ stack = <<Frame(start)>>
  /\ steps = <<>> /\ plans = <<>>
  /\ running_reduction_id = 0

Enumerating == stack # <<>>

AtAlgorithm == Enumerating /\ Call.algorithm <= Len(algorithms[Call.node])

AtEdge == Enumerating /\ ~AtAlgorithm /\ Call.edge <= Len(edges[Call.node])

(* First loop: a plan for every algorithm at the node.                     *)
EmitPlan ==
  /\ AtAlgorithm
  /\ stack' = WithCall([Call EXCEPT !.algorithm = @ + 1])
  /\ LET id == algorithms[Call.node][Call.algorithm]
     IN  IF id \in excluded_algorithms THEN UNCHANGED plans
         ELSE plans' = Append(plans, [steps |-> steps, algorithm_id |-> id])
  /\ UNCHANGED <<configVars, steps, running_reduction_id>>

(* Second loop: follow every edge.                                         *)
SkipEdge ==
  /\ AtEdge
  /\ edges[Call.node][Call.edge].reduction \in excluded_reductions
  /\ stack' = WithCall([Call EXCEPT !.edge = @ + 1])
  /\ UNCHANGED <<configVars, steps, plans, running_reduction_id>>

FollowEdge ==
  /\ AtEdge
  /\ LET e == edges[Call.node][Call.edge]
     IN  /\ e.reduction \notin excluded_reductions
         /\ steps' = Append(steps, [id |-> NewId, reduction |-> e.reduction])
         /\ stack' = Append(WithCall([Call EXCEPT !.edge = @ + 1]), Frame(e.to_node))
  /\ running_reduction_id' = running_reduction_id + 1
  /\ UNCHANGED <<configVars, plans>>

(* The call ends; its caller takes its step from the plan.                 *)
Return ==
  /\ Enumerating /\ ~AtAlgorithm /\ ~AtEdge
  /\ stack' = Popped(stack)
  /\ steps' = Backtracked(steps)
  /\ UNCHANGED <<configVars, plans, running_reduction_id>>

Next == EmitPlan \/ SkipEdge \/ FollowEdge \/ Return

Spec == Init /\ [][Next]_plannerVars

------------------------------------------------------------------------------
(* Properties.                                                             *)

Steps == [id : Nat, reduction : Reductions]

Frames == [node : Nodes, algorithm : Nat \ {0}, edge : Nat \ {0}]

QueryPlans == [steps : Seq(Steps), algorithm_id : Algorithms]

(* Every variable has the type the code declares for it, and the plan has  *)
(* one step for every call but the first.                                  *)
TypeOK ==
  /\ stack \in Seq(Frames)
  /\ steps \in Seq(Steps)
  /\ Enumerating => Len(steps) = Len(stack) - 1
  /\ plans \in Seq(QueryPlans)
  /\ running_reduction_id \in Nat

(* A step id names one path of reductions, in all plans: what the caches   *)
(* keep under an id, and the node the UCT tree has for it, fit every plan  *)
(* that has the id.                                                        *)
SharedPrefix(p, q) ==
  \A i \in DOMAIN p, j \in DOMAIN q :
    p[i].id = q[j].id => i = j /\ \A h \in 1 .. i : p[h] = q[h]

StepNamesPath ==
  \A m, n \in DOMAIN plans : SharedPrefix(plans[m].steps, plans[n].steps)

(* The paths of n edges from the start that are not excluded, and the      *)
(* plans they give.                                                        *)
EndOf(w) == IF w = <<>> THEN start ELSE Last(w).to_node

Usable(n) == {e \in ToSet(edges[n]) : e.reduction \notin excluded_reductions}

Walks ==
  LET walks[n \in 0 .. Cardinality(Nodes)] ==
        IF n = 0 THEN {<<>>}
        ELSE UNION {{Append(w, e) : e \in Usable(EndOf(w))} : w \in walks[n-1]}
  IN  UNION {walks[n] : n \in DOMAIN walks}

Expected ==
  UNION {{<<[i \in DOMAIN w |-> w[i].reduction], a>> :
            a \in ToSet(algorithms[EndOf(w)]) \ excluded_algorithms} : w \in Walks}

Found(i) == <<[j \in DOMAIN plans[i].steps |-> plans[i].steps[j].reduction],
              plans[i].algorithm_id>>

(* When the enumeration ends there is one plan for every path that is not  *)
(* excluded and every algorithm at its end, and no other: no path is lost  *)
(* by an exclusion elsewhere or by what another path has left in the       *)
(* current plan.                                                           *)
EachOnce ==
  /\ {Found(i) : i \in DOMAIN plans} = Expected
  /\ \A i, j \in DOMAIN plans : Found(i) = Found(j) => i = j

AllPlansOnce == [][Enumerating /\ ~Enumerating' => EachOnce']_plannerVars
==============================================================================
