------------------------------- MODULE PlanTree -------------------------------
(***************************************************************************)
(* ontology::UCT (uct.hh): the tree from which the time-sliced joins       *)
(* select the plan of the next slice.  An inner node stands for a          *)
(* reduction step, a leaf for a plan.  from_query_plans builds the tree    *)
(* from the planner's plans; then select_action and update alternate.      *)
(*                                                                         *)
(* The children of a node live in a vector.  When it grows they may move,  *)
(* and pointers to them dangle.  A pointer is the node with the size its   *)
(* parent's vector had when the pointer was taken.                         *)
(*                                                                         *)
(* Rewards are abstracted: when all children have been tried, any of them  *)
(* may have the best quality.  Every update counts as one implicit try.    *)
(***************************************************************************)
EXTENDS Planner

CONSTANT MaxSelections   \* bound on the number of calls of select_action

VARIABLES
  tree,      \* the nodes, the root first, in the order of their creation
  nodes,     \* pointers to the inner nodes, by step id
  parent,    \* pointer to the node at which the current plan continues
  at,        \* the plan and the step that are inserted next
  path,      \* the path of the running selection
  selections \* the number of selections

treeVars == <<tree, nodes, parent, at, path, selections>>
allVars  == <<plannerVars, treeVars>>

Node(up, action) ==
  [up |-> up, action |-> action, actions |-> <<>>,
   untried_action_ids |-> <<>>, nr_of_selections |-> 0]

Root == 1

RootPointer == [node |-> Root, size |-> 0]

Children(n) == {tree[n].actions[i] : i \in DOMAIN tree[n].actions}

(* No child was added to the parent after the pointer was taken.           *)
Valid(p) == p.node = Root \/ p.size = Len(tree[tree[p.node].up].actions)

TreeInit ==
  /\ Init
  /\ tree = <<Node(0, -1)>>
  /\ nodes = <<>>
  /\ parent = RootPointer
  /\ at = [plan |-> 1, step |-> 1]
  /\ path = <<>> /\ selections = 0

(* Faulty forms: a walk that stays at the root, a step looked up by its    *)
(* depth, ...                                                              *)
NextParent_Root(p) == RootPointer

NodeKey_Depth(s) == at.step

NextParent(p) == p

LeafAction == at.plan - 1

NodeKey(s) == s.id

------------------------------------------------------------------------------
(* The time-dynamic mode removes the plans of the tree join first.         *)
WithoutTJoin ==
  LET kept[i \in 0 .. Len(plans)] ==
        IF i = 0 THEN <<>>
        ELSE IF plans[i].algorithm_id = "TJOIN" THEN kept[i-1]
        ELSE Append(kept[i-1], plans[i])
  IN  kept[Len(plans)]

EraseTJoin ==
  /\ ~Enumerating /\ Len(tree) = 1
  /\ plans' = WithoutTJoin
  /\ plans' # plans
  /\ UNCHANGED <<configVars, stack, steps, running_reduction_id, treeVars>>

Building == ~Enumerating /\ at.plan <= Len(plans)

BuiltPlan == plans[at.plan]

AtStep == Building /\ at.step <= Len(BuiltPlan.steps)

BuiltStep == BuiltPlan.steps[at.step]

(* add_child on a node; its new child.                                     *)
WithChild(n, action) ==
  Append([tree EXCEPT ![n].actions = Append(@, Len(tree) + 1),
                      ![n].untried_action_ids = Append(@, Len(tree[n].actions) + 1)],
         Node(n, action))

PointerToChild(n) == [node |-> Len(tree) + 1, size |-> Len(tree[n].actions) + 1]

FollowStep ==
  /\ AtStep /\ NodeKey(BuiltStep) \in DOMAIN nodes
  /\ parent' = NextParent(nodes[NodeKey(BuiltStep)])
  /\ at' = [at EXCEPT !.step = @ + 1]
  /\ UNCHANGED <<plannerVars, tree, nodes, path, selections>>

AddStep ==
  /\ AtStep /\ NodeKey(BuiltStep) \notin DOMAIN nodes
  /\ tree' = WithChild(parent.node, -1)
  /\ nodes' = [id \in DOMAIN nodes \cup {NodeKey(BuiltStep)} |->
                 IF id = NodeKey(BuiltStep) THEN PointerToChild(parent.node) ELSE nodes[id]]
  /\ parent' = NextParent(PointerToChild(parent.node))
  /\ at' = [at EXCEPT !.step = @ + 1]
  /\ UNCHANGED <<plannerVars, path, selections>>

AddLeaf ==
  /\ Building /\ ~AtStep
  /\ tree' = WithChild(parent.node, LeafAction)
  /\ parent' = RootPointer
  /\ at' = [plan |-> at.plan + 1, step |-> 1]
  /\ UNCHANGED <<plannerVars, nodes, path, selections>>

Built == ~Enumerating /\ ~Building

------------------------------------------------------------------------------
(* ... actions that stay untried, counts that miss the root.               *)
Tried_Stays(ids) == ids

Counted_BelowRoot(n) == n \in ToSet(Tail(path))

Tried(ids) == Front(ids)

Counted(n) == n \in ToSet(path)

Selecting == path # <<>> /\ tree[Last(path)].actions # <<>>

Selected == path # <<>> /\ tree[Last(path)].actions = <<>>

StartSelection ==
  /\ Built /\ path = <<>>
  /\ selections < MaxSelections
  /\ path' = <<Root>>
  /\ selections' = selections + 1
  /\ UNCHANGED <<plannerVars, tree, nodes, parent, at>>

SelectUntried ==
  /\ Selecting
  /\ LET n == Last(path)
         ids == tree[n].untried_action_ids
     IN  /\ ids # <<>>
         /\ path' = Append(path, tree[n].actions[Last(ids)])
         /\ tree' = [tree EXCEPT ![n].untried_action_ids = Tried(@)]
  /\ UNCHANGED <<plannerVars, nodes, parent, at, selections>>

SelectBest ==
  /\ Selecting
  /\ tree[Last(path)].untried_action_ids = <<>>
  /\ \E child \in Children(Last(path)) : path' = Append(path, child)
  /\ UNCHANGED <<plannerVars, tree, nodes, parent, at, selections>>

(* The slice has ended: every node of the path counts it.                  *)
Update ==
  /\ Selected
  /\ tree' = [n \in DOMAIN tree |->
                IF Counted(n) THEN [tree[n] EXCEPT !.nr_of_selections = @ + 1] ELSE tree[n]]
  /\ path' = <<>>
  /\ UNCHANGED <<plannerVars, nodes, parent, at, selections>>

TreeNext ==
  \/ Next /\ UNCHANGED treeVars
  \/ EraseTJoin
  \/ FollowStep \/ AddStep \/ AddLeaf
  \/ StartSelection \/ SelectUntried \/ SelectBest \/ Update

TreeSpec == TreeInit /\ [][TreeNext]_allVars

------------------------------------------------------------------------------
(* Properties.                                                             *)

(* from_query_plans keeps pointers into vectors that grow.  None that it   *)
(* still follows dangles, because the plans that share a step come one     *)
(* after the other.                                                        *)
PointersValid ==
  Building =>
    /\ Valid(parent)
    /\ AtStep /\ NodeKey(BuiltStep) \in DOMAIN nodes => Valid(nodes[NodeKey(BuiltStep)])

(* The nodes from the root to a node.                                      *)
PathTo(n) ==
  LET above[m \in DOMAIN tree] ==
        IF m = Root THEN <<Root>> ELSE Append(above[tree[m].up], m)
  IN  above[n]

Leaf(i) == CHOOSE n \in DOMAIN tree : tree[n].action = i-1

(* The tree branches where the plans do: every plan has one leaf, as deep  *)
(* as the plan is long, and the paths to two leaves are the same exactly   *)
(* as far as the two plans take the same reductions.  A reward of a plan   *)
(* counts for those, and only for those, that share its steps.  On the way *)
(* there no pointer that is followed dangles.                              *)
TreeMirrorsPlans ==
  /\ PointersValid
  /\ Built =>
    /\ \A i \in DOMAIN plans :
         /\ Cardinality({n \in DOMAIN tree : tree[n].action = i-1}) = 1
         /\ tree[Leaf(i)].actions = <<>>
         /\ Len(PathTo(Leaf(i))) = Len(plans[i].steps) + 2
    /\ \A i, j \in DOMAIN plans : i < j =>
         \A k \in 1 .. Len(plans[i].steps) + 1 :
           k <= Len(plans[j].steps) + 1 =>
             (PathTo(Leaf(i))[k] = PathTo(Leaf(j))[k] <=>
                SubSeq(Found(i)[1], 1, k-1) = SubSeq(Found(j)[1], 1, k-1))

(* Qualities are divided by the selections of the children, and the bonus  *)
(* for exploration compares them with those of the parent.  Between two    *)
(* selections the children without any are exactly the untried ones, and a *)
(* node has been selected as often as its children together.               *)
CountsFit ==
  path = <<>> =>
    \A n \in DOMAIN tree :
      LET Selections(i) == tree[tree[n].actions[i]].nr_of_selections
      IN  /\ Built => \A i \in DOMAIN tree[n].actions :
                        i \in ToSet(tree[n].untried_action_ids) <=> Selections(i) = 0
          /\ tree[n].actions # <<>> =>
               tree[n].nr_of_selections =
                 FoldFunction(+, 0, [i \in DOMAIN tree[n].actions |-> Selections(i)])
==============================================================================
