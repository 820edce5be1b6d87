---------------------------- MODULE Planner_proofs ----------------------------
(***************************************************************************)
(* First part: a step id names one path of reductions, for every reduction *)
(* graph and every configuration: the assumption under which the reduction *)
(* cache is correct.  PathInv strengthens it with the plan that is being   *)
(* put together, and with the ids that are still to come.                  *)
(*                                                                         *)
(* Second part: the tree of the selections mirrors the plans.  WalkInv     *)
(* says of the order of the plans what from_query_plans relies on; with    *)
(* it BuildInv says which pointers are the latest of their vectors.        *)
(*                                                                         *)
(* Third part: what the nodes count fits what they have left untried, by   *)
(* CountInv, which includes a selection that has not ended.                *)
(*                                                                         *)
(* Fourth part: one plan for every path and every algorithm at its end.    *)
(* OnceInv says which paths have their plans while a call is still in its  *)
(* loops; the ids that were given bound the lengths of paths, and so no    *)
(* path has more edges than there are nodes.                               *)
(***************************************************************************)
EXTENDS PlanTree, SequenceTheorems, FiniteSetTheorems, WellFoundedInduction, TLAPS

(* A sequence that is not empty is its front and its last element.         *)
LEMMA FrontFacts ==
  ASSUME NEW S, NEW s \in Seq(S), s # <<>>
  PROVE  /\ Len(s) \in Nat \ {0}
         /\ Last(s) = s[Len(s)] /\ Last(s) \in S
         /\ Front(s) \in Seq(S) /\ Len(Front(s)) = Len(s)-1
         /\ \A i \in 1 .. Len(s)-1 : Front(s)[i] = s[i]
<1>1. Len(s) \in Nat \ {0} /\ Len(s) \in 1 .. Len(s)
  BY EmptySeq
<1>2. Front(s) = SubSeq(s, 1, Len(s)-1) /\ Last(s) = s[Len(s)]
  BY DEF Front, Last
<1>3. Last(s) \in S
  BY <1>1, <1>2, ElementOfSeq
<1> DEFINE n == Len(s)-1
           u == SubSeq(s, 1, n)
<1>4. n \in Nat /\ \A i \in 1 .. n : s[i] \in S
  BY <1>1, ElementOfSeq
<1>5. /\ u \in Seq(S)
      /\ Len(u) = IF 1 <= n THEN n-1+1 ELSE 0
      /\ \A i \in 1 .. n-1+1 : u[i] = s[1+i-1]
  BY <1>4, SubSeqProperties
<1> HIDE DEF u, n
<1>6. Len(u) = n
  BY <1>4, <1>5
<1>7. ASSUME NEW i \in 1 .. n PROVE u[i] = s[i]
  <2>1. i \in 1 .. n-1+1 /\ 1+i-1 = i
    BY <1>4
  <2>2. QED  BY <1>5, <2>1
<1>8. Front(s) = u /\ n = Len(s)-1
  BY <1>2 DEF u, n
<1>9. QED  BY <1>1, <1>2, <1>3, <1>5, <1>6, <1>7, <1>8

LEMMA StepId ==
  ASSUME NEW p \in Seq(Steps), NEW i \in DOMAIN p
  PROVE  p[i].id \in Nat
<1>1. p[i] \in Steps
  BY LenProperties, ElementOfSeq
<1>2. QED  BY <1>1 DEF Steps

(* Two sequences of steps share a prefix in either order.                  *)
LEMMA SharedSymmetric ==
  ASSUME NEW p \in Seq(Steps), NEW q \in Seq(Steps), SharedPrefix(p, q)
  PROVE  SharedPrefix(q, p)
BY DEF SharedPrefix

(* ... and go on doing so when one of them loses its last step,            *)
LEMMA SharedFront ==
  ASSUME NEW p \in Seq(Steps), NEW q \in Seq(Steps), q # <<>>, SharedPrefix(p, q)
  PROVE  SharedPrefix(p, Front(q))
<1> DEFINE f == Front(q)
<1>1. /\ f \in Seq(Steps) /\ Len(f) = Len(q)-1 /\ Len(q) \in Nat \ {0}
      /\ \A i \in 1 .. Len(q)-1 : f[i] = q[i]
  BY FrontFacts
<1>2. DOMAIN f = 1 .. Len(q)-1 /\ DOMAIN q = 1 .. Len(q) /\ DOMAIN p = 1 .. Len(p)
  BY <1>1
<1> HIDE DEF f
<1> SUFFICES ASSUME NEW i \in DOMAIN p, NEW j \in DOMAIN f, p[i].id = f[j].id
             PROVE  i = j /\ \A h \in 1 .. i : p[h] = f[h]
  BY DEF SharedPrefix, f
<1>3. j \in DOMAIN q /\ f[j] = q[j] /\ j \in 1 .. Len(q)-1
  BY <1>1, <1>2
<1>4. i = j /\ \A h \in 1 .. i : p[h] = q[h]
  BY <1>3 DEF SharedPrefix
<1>5. \A h \in 1 .. i : h \in 1 .. Len(q)-1
  BY <1>1, <1>3, <1>4
<1>6. QED  BY <1>1, <1>4, <1>5

(* ... or gains one with an id that is greater than those of the other.    *)
LEMMA SharedAppend ==
  ASSUME NEW p \in Seq(Steps), NEW q \in Seq(Steps), NEW e \in Steps,
         SharedPrefix(p, q), \A i \in DOMAIN p : p[i].id < e.id
  PROVE  SharedPrefix(p, Append(q, e))
<1> DEFINE a == Append(q, e)
<1>1. /\ a \in Seq(Steps) /\ DOMAIN a = 1 .. Len(q)+1 /\ DOMAIN q = 1 .. Len(q)
      /\ a[Len(q)+1] = e /\ Len(q) \in Nat
      /\ \A i \in 1 .. Len(q) : a[i] = q[i]
  OBVIOUS
<1> HIDE DEF a
<1> SUFFICES ASSUME NEW i \in DOMAIN p, NEW j \in DOMAIN a, p[i].id = a[j].id
             PROVE  i = j /\ \A h \in 1 .. i : p[h] = a[h]
  BY DEF SharedPrefix, a
<1>2. p[i].id \in Nat /\ e.id \in Nat /\ p[i].id < e.id
  BY StepId DEF Steps
<1>3. j \in 1 .. Len(q) /\ a[j] = q[j]
  BY <1>1, <1>2
<1>4. i = j /\ \A h \in 1 .. i : p[h] = q[h]
  BY <1>1, <1>3 DEF SharedPrefix
<1>5. \A h \in 1 .. i : h \in 1 .. Len(q)
  BY <1>1, <1>3, <1>4
<1>6. QED  BY <1>1, <1>4, <1>5

------------------------------------------------------------------------------
(* The invariant.                                                          *)

IdsBelow(s, n) == \A i \in DOMAIN s : s[i].id < n

PathInv ==
  /\ TypeOK
  /\ IdsBelow(steps, running_reduction_id)
  /\ \A m \in DOMAIN plans : IdsBelow(plans[m].steps, running_reduction_id)
  /\ StepNamesPath
  /\ \A m \in DOMAIN plans : SharedPrefix(plans[m].steps, steps)
  /\ SharedPrefix(steps, steps)

(* The innermost call, and what the plans and the steps are.               *)
LEMMA CallFacts ==
  ASSUME PathInv
  PROVE  /\ \A m \in DOMAIN plans : plans[m].steps \in Seq(Steps)
         /\ steps \in Seq(Steps) /\ running_reduction_id \in Nat
         /\ plans \in Seq(QueryPlans) /\ stack \in Seq(Frames)
         /\ Enumerating => /\ Call \in Frames
                           /\ Front(stack) \in Seq(Frames)
                           /\ Len(stack) \in Nat \ {0} /\ Len(Front(stack)) = Len(stack)-1
                           /\ Len(steps) = Len(stack)-1
<1>1. TypeOK
  BY DEF PathInv
<1>2. \A m \in DOMAIN plans : plans[m] \in QueryPlans
  BY <1>1, ElementOfSeq DEF TypeOK
<1>3. \A m \in DOMAIN plans : plans[m].steps \in Seq(Steps)
  BY <1>2 DEF QueryPlans
<1>4. Enumerating => stack # <<>>
  BY DEF Enumerating
<1>5. QED  BY <1>1, <1>3, <1>4, FrontFacts DEF TypeOK, Call

(* The innermost frame is replaced.                                        *)
LEMMA WithCallFacts ==
  ASSUME PathInv, Enumerating, NEW f \in Frames
  PROVE  /\ WithCall(f) \in Seq(Frames) /\ Len(WithCall(f)) = Len(stack)
         /\ WithCall(f) # <<>>
<1>1. /\ Front(stack) \in Seq(Frames)
      /\ Len(Front(stack)) = Len(stack)-1 /\ Len(stack) \in Nat \ {0}
  BY CallFacts
<1>2. QED  BY <1>1 DEF WithCall

LEMMA InitOK == Init => PathInv
<1> SUFFICES ASSUME Init PROVE PathInv
  OBVIOUS
<1>1. Frame(start) \in Frames
  BY GraphAssumption DEF Init, Frame, Frames
<1>2. /\ stack = <<Frame(start)>> /\ steps = <<>> /\ plans = <<>>
      /\ running_reduction_id = 0
  BY DEF Init
<1> HIDE DEF Frame
<1>3. TypeOK
  BY <1>1, <1>2 DEF TypeOK
<1>4. DOMAIN steps = {} /\ DOMAIN plans = {}
  BY <1>2
<1>5. QED  BY <1>3, <1>4 DEF PathInv, IdsBelow, StepNamesPath, SharedPrefix

(* A new plan takes the steps of the current plan.                         *)
LEMMA EmitStep == PathInv /\ EmitPlan => PathInv'
<1> SUFFICES ASSUME PathInv, EmitPlan PROVE PathInv'
  OBVIOUS
<1> DEFINE id == algorithms[Call.node][Call.algorithm]
           p == [steps |-> steps, algorithm_id |-> id]
<1>1. /\ AtAlgorithm
      /\ stack' = WithCall([Call EXCEPT !.algorithm = @ + 1])
      /\ steps' = steps /\ running_reduction_id' = running_reduction_id
      /\ plans' = plans \/ plans' = Append(plans, p)
  BY DEF EmitPlan
<1>2. /\ Call \in Frames /\ Enumerating /\ plans \in Seq(QueryPlans)
      /\ steps \in Seq(Steps)
  BY <1>1, CallFacts DEF AtAlgorithm
<1>3. [Call EXCEPT !.algorithm = @ + 1] \in Frames
  BY <1>2 DEF Frames
<1>4. stack' \in Seq(Frames) /\ Len(stack') = Len(stack) /\ stack' # <<>>
  BY <1>1, <1>2, <1>3, WithCallFacts
<1>5. id \in Algorithms
  <2>1. algorithms[Call.node] \in Seq(Algorithms) /\ Call.algorithm \in Nat \ {0}
    BY <1>2, GraphAssumption DEF Frames
  <2>2. Call.algorithm \in 1 .. Len(algorithms[Call.node])
    BY <1>1, <2>1 DEF AtAlgorithm
  <2>3. QED  BY <2>1, <2>2, ElementOfSeq
<1>6. p \in QueryPlans
  BY <1>2, <1>5 DEF QueryPlans
<1>7. TypeOK'
  <2>1. plans' \in Seq(QueryPlans)
    BY <1>1, <1>2, <1>6, SMTT(30)
  <2>2. steps \in Seq(Steps) /\ Len(steps) = Len(stack)-1 /\ running_reduction_id \in Nat
    BY <1>2, CallFacts
  <2>3. QED  BY <1>1, <1>4, <2>1, <2>2 DEF TypeOK
<1>8. p.steps = steps
  OBVIOUS
<1> HIDE DEF p, id
<1>9. ASSUME NEW m \in DOMAIN plans'
      PROVE  (m \in DOMAIN plans /\ plans'[m] = plans[m]) \/ plans'[m].steps = steps
  <2>1. CASE plans' = plans
    BY <2>1
  <2>2. CASE plans' = Append(plans, p)
    <3>1. /\ DOMAIN plans = 1 .. Len(plans) /\ Len(plans) \in Nat
          /\ m \in 1 .. Len(plans)+1
          /\ m # Len(plans)+1 => plans'[m] = plans[m]
          /\ m = Len(plans)+1 => plans'[m] = p
      BY <1>2, <1>6, <2>2
    <3>2. QED  BY <1>8, <3>1
  <2>3. QED  BY <1>1, <2>1, <2>2
<1>10. /\ IdsBelow(steps, running_reduction_id)
       /\ \A m \in DOMAIN plans : IdsBelow(plans[m].steps, running_reduction_id)
       /\ StepNamesPath
       /\ \A m \in DOMAIN plans : SharedPrefix(plans[m].steps, steps)
       /\ \A m \in DOMAIN plans : SharedPrefix(steps, plans[m].steps)
       /\ SharedPrefix(steps, steps)
  BY <1>2, CallFacts, SharedSymmetric DEF PathInv
<1>11. \A m \in DOMAIN plans' : IdsBelow(plans'[m].steps, running_reduction_id)
  BY <1>9, <1>10
<1>12. \A m \in DOMAIN plans' : SharedPrefix(plans'[m].steps, steps)
  BY <1>9, <1>10
<1>13. \A m, n \in DOMAIN plans' : SharedPrefix(plans'[m].steps, plans'[n].steps)
  BY <1>9, <1>10 DEF StepNamesPath
<1>14. QED
  BY <1>1, <1>7, <1>10, <1>11, <1>12, <1>13 DEF PathInv, IdsBelow, StepNamesPath, SharedPrefix

(* An edge that is not followed changes a frame only.                      *)
LEMMA SkipStep == PathInv /\ SkipEdge => PathInv'
<1> SUFFICES ASSUME PathInv, SkipEdge PROVE PathInv'
  OBVIOUS
<1>1. /\ AtEdge
      /\ stack' = WithCall([Call EXCEPT !.edge = @ + 1])
      /\ steps' = steps /\ plans' = plans /\ running_reduction_id' = running_reduction_id
  BY DEF SkipEdge
<1>2. Call \in Frames /\ Enumerating /\ Len(steps) = Len(stack)-1
  BY <1>1, CallFacts DEF AtEdge
<1>3. [Call EXCEPT !.edge = @ + 1] \in Frames
  BY <1>2 DEF Frames
<1>4. stack' \in Seq(Frames) /\ Len(stack') = Len(stack)
  BY <1>1, <1>2, <1>3, WithCallFacts
<1>5. TypeOK'
  BY <1>1, <1>2, <1>4 DEF PathInv, TypeOK
<1>6. QED  BY <1>1, <1>5 DEF PathInv, IdsBelow, StepNamesPath, SharedPrefix

(* A followed edge has an id that no step had before.                      *)
LEMMA FollowEdgeStep == PathInv /\ FollowEdge => PathInv'
<1> SUFFICES ASSUME PathInv, FollowEdge PROVE PathInv'
  OBVIOUS
<1> DEFINE e == edges[Call.node][Call.edge]
           s == [id |-> running_reduction_id, reduction |-> e.reduction]
           f == [Call EXCEPT !.edge = @ + 1]
<1>1. /\ AtEdge /\ plans' = plans
      /\ steps' = Append(steps, s)
      /\ stack' = Append(WithCall(f), Frame(e.to_node))
      /\ running_reduction_id' = running_reduction_id + 1
  BY DEF FollowEdge, NewId
<1>2. /\ Call \in Frames /\ Enumerating /\ steps \in Seq(Steps)
      /\ running_reduction_id \in Nat /\ Len(steps) = Len(stack)-1
      /\ Len(stack) \in Nat \ {0}
      /\ \A m \in DOMAIN plans : plans[m].steps \in Seq(Steps)
  BY <1>1, CallFacts DEF AtEdge
<1>3. e \in [reduction : Reductions, to_node : Nodes]
  <2>1. /\ edges[Call.node] \in Seq([reduction : Reductions, to_node : Nodes])
        /\ Call.edge \in Nat \ {0}
    BY <1>2, GraphAssumption DEF Frames
  <2>2. Call.edge \in 1 .. Len(edges[Call.node])
    BY <1>1, <2>1 DEF AtEdge
  <2>3. QED  BY <2>1, <2>2, ElementOfSeq
<1>4. s \in Steps /\ s.id = running_reduction_id
  BY <1>2, <1>3 DEF Steps
<1>5. f \in Frames /\ Frame(e.to_node) \in Frames
  BY <1>2, <1>3 DEF Frames, Frame
<1> HIDE DEF e, s, f
<1>6. WithCall(f) \in Seq(Frames) /\ Len(WithCall(f)) = Len(stack)
  BY <1>2, <1>5, WithCallFacts
<1>7. TypeOK'
  <2>1. stack' \in Seq(Frames) /\ Len(stack') = Len(stack)+1
    BY <1>1, <1>5, <1>6
  <2>2. steps' \in Seq(Steps) /\ Len(steps') = Len(steps)+1
    BY <1>1, <1>2, <1>4
  <2>3. Len(steps') = Len(stack')-1
    BY <1>2, <2>1, <2>2
  <2>4. QED  BY <1>1, <1>2, <2>1, <2>2, <2>3 DEF PathInv, TypeOK
<1>8. /\ IdsBelow(steps, running_reduction_id)
      /\ \A m \in DOMAIN plans : IdsBelow(plans[m].steps, running_reduction_id)
      /\ \A m \in DOMAIN plans : SharedPrefix(plans[m].steps, steps)
      /\ SharedPrefix(steps, steps)
  BY DEF PathInv
<1>9. \A m \in DOMAIN plans : SharedPrefix(plans[m].steps, steps')
  BY <1>1, <1>2, <1>4, <1>8, SharedAppend DEF IdsBelow
<1>10. SharedPrefix(steps, steps')
  BY <1>1, <1>2, <1>4, <1>8, SharedAppend DEF IdsBelow
<1>11. /\ DOMAIN steps' = 1 .. Len(steps)+1 /\ DOMAIN steps = 1 .. Len(steps)
       /\ Len(steps) \in Nat /\ steps'[Len(steps)+1] = s
       /\ \A i \in 1 .. Len(steps) : steps'[i] = steps[i]
  BY <1>1, <1>2, <1>4
<1>12. SharedPrefix(steps', steps')
  <2> SUFFICES ASSUME NEW i \in DOMAIN steps', NEW j \in DOMAIN steps',
                      steps'[i].id = steps'[j].id
               PROVE  i = j
    BY DEF SharedPrefix
  <2>1. CASE i \in 1 .. Len(steps)
    BY <1>10, <1>11, <2>1 DEF SharedPrefix
  <2>2. CASE j \in 1 .. Len(steps)
    BY <1>10, <1>11, <2>2 DEF SharedPrefix
  <2>3. CASE i \notin 1 .. Len(steps) /\ j \notin 1 .. Len(steps)
    BY <1>11, <2>3
  <2>4. QED  BY <2>1, <2>2, <2>3
<1>13. \A m \in DOMAIN plans : IdsBelow(plans[m].steps, running_reduction_id + 1)
  <2> SUFFICES ASSUME NEW m \in DOMAIN plans, NEW i \in DOMAIN plans[m].steps
               PROVE  plans[m].steps[i].id < running_reduction_id + 1
    BY DEF IdsBelow
  <2>1. plans[m].steps[i].id \in Nat
    BY <1>2, StepId
  <2>2. plans[m].steps[i].id < running_reduction_id
    BY <1>8 DEF IdsBelow
  <2>3. QED  BY <1>2, <2>1, <2>2
<1>14. IdsBelow(steps', running_reduction_id + 1)
  <2> SUFFICES ASSUME NEW i \in DOMAIN steps'
               PROVE  steps'[i].id < running_reduction_id + 1
    BY DEF IdsBelow
  <2>1. CASE i \in 1 .. Len(steps)
    <3>1. steps[i].id \in Nat /\ steps[i].id < running_reduction_id
      BY <1>2, <1>8, <1>11, <2>1, StepId DEF IdsBelow
    <3>2. QED  BY <1>2, <1>11, <2>1, <3>1
  <2>2. CASE i = Len(steps)+1
    BY <1>2, <1>4, <1>11, <2>2
  <2>3. QED  BY <1>11, <2>1, <2>2
<1>15. StepNamesPath'
  BY <1>1 DEF PathInv, StepNamesPath, SharedPrefix
<1>16. QED
  BY <1>1, <1>7, <1>9, <1>12, <1>13, <1>14, <1>15 DEF PathInv, IdsBelow, SharedPrefix

(* A return takes the last step away.                                      *)
LEMMA ReturnStep == PathInv /\ Return => PathInv'
<1> SUFFICES ASSUME PathInv, Return PROVE PathInv'
  OBVIOUS
<1>1. /\ Enumerating /\ stack' = Front(stack) /\ steps' = Backtracked(steps)
      /\ plans' = plans /\ running_reduction_id' = running_reduction_id
  BY DEF Return, Popped
<1>2. /\ Front(stack) \in Seq(Frames) /\ Len(stack) \in Nat \ {0}
      /\ Len(Front(stack)) = Len(stack)-1 /\ Len(steps) = Len(stack)-1
      /\ steps \in Seq(Steps)
      /\ \A m \in DOMAIN plans : plans[m].steps \in Seq(Steps)
  BY <1>1, CallFacts
<1>3. /\ IdsBelow(steps, running_reduction_id)
      /\ \A m \in DOMAIN plans : SharedPrefix(plans[m].steps, steps)
      /\ SharedPrefix(steps, steps)
  BY DEF PathInv
<1>4. CASE steps = <<>>
  <2>1. steps' = steps /\ stack' = <<>>
    BY <1>1, <1>2, <1>4, EmptySeq DEF Backtracked
  <2>2. TypeOK'
    BY <1>1, <1>2, <2>1 DEF PathInv, TypeOK, Enumerating
  <2>3. QED  BY <1>1, <2>1, <2>2 DEF PathInv, IdsBelow, StepNamesPath, SharedPrefix
<1>5. CASE steps # <<>>
  <2>1. steps' = Front(steps)
    BY <1>1, <1>5 DEF Backtracked
  <2>2. /\ Front(steps) \in Seq(Steps) /\ Len(Front(steps)) = Len(steps)-1
        /\ Len(steps) \in Nat \ {0}
        /\ \A i \in 1 .. Len(steps)-1 : Front(steps)[i] = steps[i]
    BY <1>2, <1>5, FrontFacts
  <2>3. Len(steps') = Len(stack')-1
    BY <1>1, <1>2, <2>1, <2>2
  <2>4. TypeOK'
    BY <1>1, <1>2, <2>1, <2>2, <2>3 DEF PathInv, TypeOK
  <2>5. \A m \in DOMAIN plans : SharedPrefix(plans[m].steps, steps')
    BY <1>2, <1>3, <1>5, <2>1, SharedFront
  <2>6. SharedPrefix(steps', steps')
    <3>1. SharedPrefix(steps, steps')
      BY <1>2, <1>3, <1>5, <2>1, SharedFront
    <3>2. SharedPrefix(steps', steps)
      BY <1>2, <2>1, <2>2, <3>1, SharedSymmetric
    <3>3. QED  BY <1>2, <1>5, <2>1, <2>2, <3>2, SharedFront
  <2>7. IdsBelow(steps', running_reduction_id)
    <3>1. DOMAIN steps' = 1 .. Len(steps)-1 /\ DOMAIN steps = 1 .. Len(steps)
      BY <1>2, <2>1, <2>2
    <3>2. \A i \in DOMAIN steps' : i \in DOMAIN steps /\ steps'[i] = steps[i]
      BY <2>1, <2>2, <3>1
    <3>3. QED  BY <1>3, <3>2 DEF IdsBelow
  <2>8. QED
    BY <1>1, <2>4, <2>5, <2>6, <2>7 DEF PathInv, IdsBelow, StepNamesPath, SharedPrefix
<1>6. QED  BY <1>4, <1>5

LEMMA StepOK == PathInv /\ [Next]_plannerVars => PathInv'
<1> SUFFICES ASSUME PathInv, [Next]_plannerVars PROVE PathInv'
  OBVIOUS
<1>1. CASE UNCHANGED plannerVars
  BY <1>1 DEF plannerVars, configVars, PathInv, TypeOK, Enumerating, IdsBelow,
              StepNamesPath, SharedPrefix
<1>2. QED  BY <1>1, EmitStep, SkipStep, FollowEdgeStep, ReturnStep DEF Next

------------------------------------------------------------------------------
(* A step id names one path: whatever the graph and the exclusions, plans  *)
(* that share the id of a step share all reductions down to it.            *)
THEOREM StepIdNamesPath == Spec => [](TypeOK /\ StepNamesPath)
<1>1. PathInv => TypeOK /\ StepNamesPath
  BY DEF PathInv
<1>2. QED  BY <1>1, InitOK, StepOK, PTL DEF Spec

------------------------------------------------------------------------------
(* Order of the plans.  Plans that start with the same reductions have the *)
(* same steps there, since a call follows each of its edges once; and      *)
(* plans that share a step are neighbours, since what stands between them  *)
(* was emitted before the step was taken back.                             *)
Agree(p, q, s) ==
  /\ s \in DOMAIN p /\ s \in DOMAIN q
  /\ \A h \in 1 .. s : p[h].reduction = q[h].reduction

Determined(p, q) == \A s \in Nat : Agree(p, q, s) => p[s].id = q[s].id

Shares(p, q, s) == s \in DOMAIN p /\ s \in DOMAIN q /\ p[s].id = q[s].id

Between(p, q, r) == \A s \in Nat : Shares(p, r, s) => Shares(p, q, s)

(* The reductions of the edges that a call has passed.                     *)
Behind(f) == {edges[f.node][k].reduction : k \in {l \in DOMAIN edges[f.node] : l < f.edge}}

(* A plan that goes on from the d-th call.                                 *)
Continues(p, d) == d \in DOMAIN p /\ (d = 1 \/ Shares(p, steps, d-1))

WalkInv ==
  /\ \A m \in DOMAIN plans : Determined(plans[m].steps, steps)
  /\ \A m, n \in DOMAIN plans : Determined(plans[m].steps, plans[n].steps)
  /\ \A m, n \in DOMAIN plans : m < n => Between(plans[m].steps, plans[n].steps, steps)
  /\ \A m, n, k \in DOMAIN plans :
       m < n /\ n < k => Between(plans[m].steps, plans[n].steps, plans[k].steps)
  /\ \A d \in DOMAIN stack : \A m \in DOMAIN plans :
       Continues(plans[m].steps, d) => plans[m].steps[d].reduction \in Behind(stack[d])
  /\ \A d \in DOMAIN steps : d \in DOMAIN stack /\ steps[d].reduction \in Behind(stack[d])

LEMMA WithCallElements ==
  ASSUME PathInv, Enumerating, NEW f \in Frames
  PROVE  /\ Len(stack) \in Nat \ {0}
         /\ DOMAIN WithCall(f) = 1 .. Len(stack) /\ DOMAIN stack = 1 .. Len(stack)
         /\ \A d \in 1 .. Len(stack)-1 : WithCall(f)[d] = stack[d]
         /\ WithCall(f)[Len(stack)] = f /\ Call = stack[Len(stack)]
<1>1. stack \in Seq(Frames) /\ stack # <<>>
  BY CallFacts DEF Enumerating
<1>2. /\ Len(stack) \in Nat \ {0} /\ Last(stack) = stack[Len(stack)]
      /\ Front(stack) \in Seq(Frames) /\ Len(Front(stack)) = Len(stack)-1
      /\ \A i \in 1 .. Len(stack)-1 : Front(stack)[i] = stack[i]
  BY <1>1, FrontFacts, SMTT(30)
<1> DEFINE u == Front(stack)
<1>3. /\ u \in Seq(Frames) /\ Len(u) = Len(stack)-1
      /\ \A i \in 1 .. Len(stack)-1 : u[i] = stack[i] /\ WithCall(f) = Append(u, f)
  BY <1>2 DEF WithCall
<1> HIDE DEF u
<1>4. /\ DOMAIN Append(u, f) = 1 .. Len(stack)
      /\ \A i \in 1 .. Len(stack)-1 : Append(u, f)[i] = u[i]
      /\ Append(u, f)[Len(stack)] = f
  BY <1>2, <1>3
<1>5. WithCall(f) = Append(u, f)
  BY DEF WithCall, u
<1> QED  BY <1>1, <1>2, <1>3, <1>4, <1>5 DEF Call

LEMMA WalkEmit == PathInv /\ WalkInv /\ EmitPlan => WalkInv'
<1> SUFFICES ASSUME PathInv, WalkInv, EmitPlan PROVE WalkInv'
  OBVIOUS
<1> DEFINE id == algorithms[Call.node][Call.algorithm]
           p == [steps |-> steps, algorithm_id |-> id]
           f == [Call EXCEPT !.algorithm = @ + 1]
<1>1. /\ Enumerating /\ stack' = WithCall(f) /\ steps' = steps
      /\ plans' = plans \/ plans' = Append(plans, p)
  BY DEF EmitPlan, AtAlgorithm
<1>2. Call \in Frames /\ plans \in Seq(QueryPlans) /\ steps \in Seq(Steps)
  BY <1>1, CallFacts
<1>3. f \in Frames /\ f.node = Call.node /\ f.edge = Call.edge
  BY <1>2 DEF Frames
<1>4. p.steps = steps
  OBVIOUS
<1> HIDE DEF p, id, f
<1>5. /\ DOMAIN stack' = DOMAIN stack
      /\ \A d \in DOMAIN stack : Behind(stack'[d]) = Behind(stack[d])
  <2>1. /\ Len(stack) \in Nat \ {0}
        /\ DOMAIN WithCall(f) = 1 .. Len(stack) /\ DOMAIN stack = 1 .. Len(stack)
        /\ \A d \in 1 .. Len(stack)-1 : WithCall(f)[d] = stack[d]
        /\ WithCall(f)[Len(stack)] = f /\ Call = stack[Len(stack)]
    BY <1>1, <1>3, WithCallElements
  <2>2. \A d \in 1 .. Len(stack) : stack'[d] = stack[d] \/ (stack'[d] = f /\ stack[d] = Call)
    BY <1>1, <2>1
  <2>3. Behind(f) = Behind(Call)
    BY <1>3 DEF Behind
  <2> QED  BY <1>1, <2>1, <2>2, <2>3
<1>6. /\ DOMAIN plans \subseteq Nat
      /\ \A m \in DOMAIN plans' :
           \/ m \in DOMAIN plans /\ plans'[m] = plans[m]
           \/ plans'[m].steps = steps /\ m = Len(plans) + 1
      /\ \A m \in DOMAIN plans : m < Len(plans) + 1
  <2>1. DOMAIN plans = 1 .. Len(plans) /\ Len(plans) \in Nat
    BY <1>2
  <2>2. CASE plans' = plans
    BY <2>1, <2>2
  <2>3. CASE plans' = Append(plans, p)
    <3>1. \A m \in DOMAIN plans' :
            /\ m \in 1 .. Len(plans)+1
            /\ m # Len(plans)+1 => plans'[m] = plans[m]
            /\ m = Len(plans)+1 => plans'[m] = p
      BY <1>2, <2>1, <2>3
    <3> QED  BY <1>4, <2>1, <3>1
  <2> QED  BY <1>1, <2>2, <2>3
<1>7. /\ \A m \in DOMAIN plans : Determined(plans[m].steps, steps)
      /\ \A m, n \in DOMAIN plans : Determined(plans[m].steps, plans[n].steps)
      /\ \A m, n \in DOMAIN plans : m < n => Between(plans[m].steps, plans[n].steps, steps)
      /\ \A m, n, k \in DOMAIN plans :
           m < n /\ n < k => Between(plans[m].steps, plans[n].steps, plans[k].steps)
  BY DEF WalkInv
<1>8. Determined(steps, steps) /\ \A q : Between(q, steps, steps)
  BY DEF Determined, Between, Shares
<1>9. \A q : Determined(q, steps) => Determined(steps, q)
  BY DEF Determined, Agree
<1>10. \A m \in DOMAIN plans' : Determined(plans'[m].steps, steps)
  BY <1>6, <1>7, <1>8
<1>11. \A m, n \in DOMAIN plans' : Determined(plans'[m].steps, plans'[n].steps)
  BY <1>6, <1>7, <1>8, <1>9
<1>12. \A m, n \in DOMAIN plans' : m < n => Between(plans'[m].steps, plans'[n].steps, steps)
  BY <1>6, <1>7, <1>8
<1>13. \A m, n, k \in DOMAIN plans' :
         m < n /\ n < k => Between(plans'[m].steps, plans'[n].steps, plans'[k].steps)
  <2> TAKE m, n, k \in DOMAIN plans'
  <2> HAVE m < n /\ n < k
  <2>1. m \in Nat /\ n \in Nat /\ k \in Nat /\ Len(plans) \in Nat
    BY <1>2, <1>6
  <2>2. /\ m \in DOMAIN plans /\ n \in DOMAIN plans
        /\ plans'[m] = plans[m] /\ plans'[n] = plans[n]
    <3>1. \A x \in DOMAIN plans' : x \in DOMAIN plans \/ x = Len(plans) + 1
      BY <1>6
    <3>2. m # Len(plans) + 1 /\ n # Len(plans) + 1
      BY <1>6, <2>1, <3>1
    <3> QED  BY <1>6, <3>2
  <2> QED  BY <1>6, <1>7, <2>2
<1>14. \A d \in DOMAIN steps : d \in DOMAIN stack' /\ steps[d].reduction \in Behind(stack'[d])
  BY <1>5 DEF WalkInv
<1>15. \A d \in DOMAIN stack' : \A m \in DOMAIN plans' :
         Continues(plans'[m].steps, d) => plans'[m].steps[d].reduction \in Behind(stack'[d])
  <2> TAKE d \in DOMAIN stack'
  <2> TAKE m \in DOMAIN plans'
  <2> HAVE Continues(plans'[m].steps, d)
  <2>1. CASE plans'[m].steps = steps
    BY <1>14, <2>1 DEF Continues
  <2>2. CASE m \in DOMAIN plans /\ plans'[m] = plans[m]
    BY <1>5, <2>2 DEF WalkInv
  <2> QED  BY <1>6, <2>1, <2>2
<1> QED
  BY <1>1, <1>10, <1>11, <1>12, <1>13, <1>14, <1>15
     DEF WalkInv, Determined, Agree, Between, Shares, Continues, Behind

LEMMA WalkSkip == PathInv /\ WalkInv /\ SkipEdge => WalkInv'
<1> SUFFICES ASSUME PathInv, WalkInv, SkipEdge PROVE WalkInv'
  OBVIOUS
<1> DEFINE f == [Call EXCEPT !.edge = @ + 1]
<1>1. /\ Enumerating /\ stack' = WithCall(f) /\ steps' = steps /\ plans' = plans
  BY DEF SkipEdge, AtEdge
<1>2. Call \in Frames
  BY <1>1, CallFacts
<1>3. f \in Frames /\ f.node = Call.node /\ f.edge = Call.edge + 1 /\ Call.edge \in Nat
  BY <1>2 DEF Frames
<1> HIDE DEF f
<1>4. Call.node \in Nodes
  BY <1>2 DEF Frames
<1>5. /\ DOMAIN stack' = DOMAIN stack
      /\ \A d \in DOMAIN stack : Behind(stack[d]) \subseteq Behind(stack'[d])
  <2>1. /\ Len(stack) \in Nat \ {0}
        /\ DOMAIN WithCall(f) = 1 .. Len(stack) /\ DOMAIN stack = 1 .. Len(stack)
        /\ \A d \in 1 .. Len(stack)-1 : WithCall(f)[d] = stack[d]
        /\ WithCall(f)[Len(stack)] = f /\ Call = stack[Len(stack)]
    BY <1>1, <1>3, WithCallElements
  <2>2. \A d \in 1 .. Len(stack) : stack'[d] = stack[d] \/ (stack'[d] = f /\ stack[d] = Call)
    BY <1>1, <2>1
  <2>3. Behind(Call) \subseteq Behind(f)
    <3>1. DOMAIN edges[Call.node] \subseteq Nat
      BY <1>4, GraphAssumption
    <3> QED  BY <1>3, <3>1 DEF Behind
  <2> QED  BY <1>1, <2>1, <2>2, <2>3
<1>6. /\ \A d \in DOMAIN steps : d \in DOMAIN stack' /\ steps[d].reduction \in Behind(stack'[d])
      /\ \A d \in DOMAIN stack' : \A m \in DOMAIN plans :
           Continues(plans[m].steps, d) => plans[m].steps[d].reduction \in Behind(stack'[d])
  BY <1>5 DEF WalkInv
<1> QED
  BY <1>1, <1>6 DEF WalkInv, Determined, Agree, Between, Shares, Continues, Behind

LEMMA WalkFollow == PathInv /\ WalkInv /\ FollowEdge => WalkInv'
<1> SUFFICES ASSUME PathInv, WalkInv, FollowEdge PROVE WalkInv'
  OBVIOUS
<1> DEFINE e == edges[Call.node][Call.edge]
           s == [id |-> running_reduction_id, reduction |-> e.reduction]
           f == [Call EXCEPT !.edge = @ + 1]
           g == Frame(e.to_node)
           L == Len(steps)
<1>1. /\ AtEdge /\ Enumerating /\ plans' = plans
      /\ steps' = Append(steps, s)
      /\ stack' = Append(WithCall(f), g)
  BY DEF FollowEdge, NewId, AtEdge
<1>2. /\ Call \in Frames /\ steps \in Seq(Steps) /\ L \in Nat
      /\ running_reduction_id \in Nat /\ L = Len(stack)-1
      /\ \A m \in DOMAIN plans : plans[m].steps \in Seq(Steps)
  BY <1>1, CallFacts
<1>3. Call.node \in Nodes /\ Call.edge \in DOMAIN edges[Call.node] /\ Call.edge \in Nat
  <2>1. edges[Call.node] \in Seq([reduction : Reductions, to_node : Nodes])
    BY <1>2, GraphAssumption DEF Frames
  <2>2. Call.edge \in 1 .. Len(edges[Call.node]) /\ Call.node \in Nodes
    BY <1>1, <1>2 DEF AtEdge, Frames
  <2> QED  BY <2>1, <2>2
<1>4. e \in [reduction : Reductions, to_node : Nodes]
  <2>1. edges[Call.node] \in Seq([reduction : Reductions, to_node : Nodes])
    BY <1>3, GraphAssumption
  <2>2. DOMAIN edges[Call.node] = 1 .. Len(edges[Call.node])
    BY <2>1
  <2> QED  BY <1>3, <2>1, <2>2, ElementOfSeq
<1>5. s \in Steps /\ s.id = running_reduction_id /\ s.reduction = e.reduction
  BY <1>2, <1>4 DEF Steps
<1>6. f \in Frames /\ f.node = Call.node /\ f.edge = Call.edge + 1 /\ g \in Frames
  BY <1>2, <1>4 DEF Frames, Frame
<1> HIDE DEF f, g, s
<1>7. e.reduction \notin Behind(Call) /\ e.reduction \in Behind(f)
      /\ Behind(Call) \subseteq Behind(f)
  <2>1. DOMAIN edges[Call.node] \subseteq Nat
    BY <1>3, GraphAssumption
  <2>2. \A i \in DOMAIN edges[Call.node] :
          edges[Call.node][i].reduction = e.reduction => i = Call.edge
    BY <1>3, GraphAssumption
  <2> QED  BY <1>3, <1>6, <2>1, <2>2 DEF Behind
<1> HIDE DEF e
<1>8. /\ DOMAIN stack = 1 .. L+1 /\ DOMAIN stack' = 1 .. L+2
      /\ \A d \in 1 .. L : stack'[d] = stack[d]
      /\ stack[L+1] = Call /\ stack'[L+1] = f /\ stack'[L+2] = g
  <2> DEFINE w == WithCall(f)
  <2>1. w \in Seq(Frames) /\ Len(w) = Len(stack) /\ Len(stack) = L+1
    BY <1>1, <1>2, <1>6, WithCallFacts
  <2>2. /\ DOMAIN stack = 1 .. Len(stack)
        /\ \A d \in 1 .. Len(stack)-1 : w[d] = stack[d]
        /\ w[Len(stack)] = f /\ Call = stack[Len(stack)]
    BY <1>1, <1>6, WithCallElements
  <2> HIDE DEF w
  <2>3. stack' = Append(w, g)
    BY <1>1 DEF w
  <2>4. /\ DOMAIN stack' = 1 .. L+2 /\ stack'[L+2] = g
        /\ \A d \in 1 .. L+1 : stack'[d] = w[d]
    BY <1>2, <1>6, <2>1, <2>3
  <2> QED  BY <1>2, <2>1, <2>2, <2>4
<1>9. /\ DOMAIN steps = 1 .. L /\ DOMAIN steps' = 1 .. L+1
      /\ \A d \in 1 .. L : steps'[d] = steps[d]
      /\ steps'[L+1] = s
  BY <1>1, <1>2, <1>5
<1>10. ASSUME NEW m \in DOMAIN plans, NEW d \in Nat
       PROVE  Shares(plans[m].steps, steps', d) <=> Shares(plans[m].steps, steps, d)
  <2>1. ~Shares(plans[m].steps, steps', L+1)
    <3> SUFFICES ASSUME L+1 \in DOMAIN plans[m].steps
                 PROVE  plans[m].steps[L+1].id # s.id
      BY <1>9 DEF Shares
    <3>1. plans[m].steps[L+1].id \in Nat
      BY <1>2, StepId
    <3>2. plans[m].steps[L+1].id < running_reduction_id
      BY DEF PathInv, IdsBelow
    <3> QED  BY <1>2, <1>5, <3>1, <3>2
  <2>2. d \in DOMAIN steps' <=> d \in DOMAIN steps \/ d = L+1
    BY <1>2, <1>9
  <2> QED  BY <1>9, <2>1, <2>2 DEF Shares
<1>11. ASSUME NEW m \in DOMAIN plans PROVE Determined(plans[m].steps, steps')
  <2> SUFFICES ASSUME NEW d \in Nat, Agree(plans[m].steps, steps', d)
               PROVE  plans[m].steps[d].id = steps'[d].id
    BY DEF Determined
  <2>1. d \in DOMAIN plans[m].steps /\ d \in 1 .. L+1
        /\ \A h \in 1 .. d : plans[m].steps[h].reduction = steps'[h].reduction
    BY <1>9 DEF Agree
  <2>2. DOMAIN plans[m].steps = 1 .. Len(plans[m].steps) /\ Len(plans[m].steps) \in Nat
    BY <1>2
  <2>3. ASSUME NEW c \in 1 .. L, c <= d PROVE plans[m].steps[c].id = steps[c].id
    <3>1. \A h \in 1 .. c : h \in 1 .. d /\ h \in 1 .. L
      BY <1>2, <2>1, <2>3
    <3>2. Agree(plans[m].steps, steps, c)
      <4>1. c \in DOMAIN plans[m].steps /\ c \in DOMAIN steps
        BY <1>9, <2>1, <2>2, <2>3
      <4> QED  BY <1>9, <2>1, <3>1, <4>1 DEF Agree
    <3> QED  BY <3>2 DEF WalkInv, Determined
  <2>4. CASE d \in 1 .. L
    BY <1>2, <1>9, <2>3, <2>4
  <2>5. CASE d = L+1
    <3>1. Continues(plans[m].steps, L+1)
      <4>1. CASE L = 0
        BY <2>1, <2>5, <4>1 DEF Continues
      <4>2. CASE L # 0
        <5>1. L \in 1 .. L /\ L <= d /\ L+1-1 = L
          BY <1>2, <2>5, <4>2
        <5>2. L \in DOMAIN plans[m].steps
          BY <1>2, <2>1, <2>2, <2>5, <5>1
        <5> QED  BY <1>9, <2>1, <2>3, <2>5, <5>1, <5>2 DEF Continues, Shares
      <4> QED  BY <4>1, <4>2
    <3>2. plans[m].steps[L+1].reduction \in Behind(Call)
      <4>1. L+1 \in DOMAIN stack
        BY <1>2, <1>8
      <4> QED  BY <1>8, <3>1, <4>1 DEF WalkInv
    <3>3. plans[m].steps[L+1].reduction = e.reduction
      BY <1>5, <1>9, <2>1, <2>5
    <3> QED  BY <1>7, <3>2, <3>3
  <2> QED  BY <1>2, <2>1, <2>4, <2>5
<1>12. \A m, n \in DOMAIN plans : m < n => Between(plans[m].steps, plans[n].steps, steps')
  BY <1>10 DEF WalkInv, Between
<1>13. \A d \in DOMAIN steps' : d \in DOMAIN stack' /\ steps'[d].reduction \in Behind(stack'[d])
  <2> TAKE d \in DOMAIN steps'
  <2>1. CASE d \in 1 .. L
    BY <1>2, <1>8, <1>9, <2>1, SMTT(30) DEF WalkInv
  <2>2. CASE d = L+1
    BY <1>2, <1>5, <1>7, <1>8, <1>9, <2>2
  <2> QED  BY <1>2, <1>9, <2>1, <2>2
<1>14. ASSUME NEW d \in DOMAIN stack', NEW m \in DOMAIN plans,
              d \in DOMAIN plans[m].steps,
              d = 1 \/ Shares(plans[m].steps, steps', d-1)
       PROVE  plans[m].steps[d].reduction \in Behind(stack'[d])
  <2>1. d \in 1 .. L+2
    BY <1>8
  <2>2. d = 1 \/ (d-1 \in DOMAIN steps /\ Shares(plans[m].steps, steps, d-1))
    <3>1. d-1 \in Nat
      BY <2>1
    <3> QED  BY <1>10, <1>14, <3>1 DEF Shares
  <2>3. d \in 1 .. L+1 /\ d \in DOMAIN stack
    BY <1>2, <1>8, <1>9, <2>1, <2>2
  <2>4. plans[m].steps[d].reduction \in Behind(stack[d])
    BY <1>14, <2>2, <2>3 DEF WalkInv, Continues
  <2>5. CASE d = L+1
    BY <1>7, <1>8, <2>4, <2>5
  <2>6. CASE d \in 1 .. L
    BY <1>8, <2>4, <2>6
  <2> QED  BY <1>2, <2>3, <2>5, <2>6
<1>15. /\ \A m, n \in DOMAIN plans : Determined(plans[m].steps, plans[n].steps)
       /\ \A m, n, k \in DOMAIN plans :
            m < n /\ n < k => Between(plans[m].steps, plans[n].steps, plans[k].steps)
  BY DEF WalkInv
<1>16. \A d \in DOMAIN stack' : \A m \in DOMAIN plans :
         Continues(plans[m].steps, d)' => plans[m].steps[d].reduction \in Behind(stack'[d])
  BY <1>1, <1>14 DEF Continues, Shares
<1>17. /\ (\A m \in DOMAIN plans : Determined(plans[m].steps, steps))'
       /\ (\A m, n \in DOMAIN plans : Determined(plans[m].steps, plans[n].steps))'
  BY <1>1, <1>11, <1>15 DEF Determined, Agree
<1>18. /\ (\A m, n \in DOMAIN plans : m < n => Between(plans[m].steps, plans[n].steps, steps))'
       /\ (\A m, n, k \in DOMAIN plans :
             m < n /\ n < k => Between(plans[m].steps, plans[n].steps, plans[k].steps))'
  BY <1>1, <1>12, <1>15, SMTT(30) DEF Between, Shares
<1>19. (\A d \in DOMAIN stack : \A m \in DOMAIN plans :
         Continues(plans[m].steps, d) => plans[m].steps[d].reduction \in Behind(stack[d]))'
  BY <1>1, <1>16 DEF Behind
<1>20. (\A d \in DOMAIN steps : d \in DOMAIN stack /\ steps[d].reduction \in Behind(stack[d]))'
  BY <1>13 DEF Behind
<1> QED
  BY <1>17, <1>18, <1>19, <1>20 DEF WalkInv

LEMMA WalkReturn == PathInv /\ WalkInv /\ Return => WalkInv'
<1> SUFFICES ASSUME PathInv, WalkInv, Return PROVE WalkInv'
  OBVIOUS
<1>1. /\ Enumerating /\ stack' = Front(stack) /\ steps' = Backtracked(steps) /\ plans' = plans
  BY DEF Return, Popped
<1>2. /\ stack \in Seq(Frames) /\ stack # <<>> /\ steps \in Seq(Steps)
      /\ Len(steps) = Len(stack)-1 /\ Len(stack) \in Nat \ {0}
  BY <1>1, CallFacts DEF Enumerating
<1>3. /\ stack' \in Seq(Frames) /\ Len(stack') = Len(stack)-1
      /\ \A d \in 1 .. Len(stack)-1 : stack'[d] = stack[d]
  BY <1>1, <1>2, FrontFacts
<1>4. /\ DOMAIN stack' \subseteq DOMAIN stack /\ DOMAIN stack' = 1 .. Len(stack)-1
      /\ \A d \in DOMAIN stack' : stack'[d] = stack[d]
  BY <1>2, <1>3
<1>5. /\ DOMAIN steps = 1 .. Len(stack)-1
      /\ DOMAIN steps' = 1 .. Len(stack)-2
      /\ \A d \in 1 .. Len(stack)-2 : steps'[d] = steps[d]
  <2>1. CASE steps = <<>>
    <3>1. steps' = <<>> /\ Len(stack) = 1
      BY <1>1, <1>2, <2>1 DEF Backtracked
    <3>2. DOMAIN <<>> = {} /\ 1 .. 1-1 = {} /\ 1 .. 1-2 = {}
      OBVIOUS
    <3> QED  BY <2>1, <3>1, <3>2
  <2>2. CASE steps # <<>>
    <3>1. /\ steps' \in Seq(Steps) /\ Len(steps') = Len(steps)-1
          /\ \A i \in 1 .. Len(steps)-1 : steps'[i] = steps[i]
      BY <1>1, <1>2, <2>2, FrontFacts DEF Backtracked
    <3>2. DOMAIN steps = 1 .. Len(steps) /\ DOMAIN steps' = 1 .. Len(steps')
      BY <1>2, <3>1
    <3>3. Len(steps)-1 = Len(stack)-2
      BY <1>2
    <3> QED  BY <1>2, <3>1, <3>2, <3>3
  <2> QED  BY <2>1, <2>2
<1>6. /\ \A d \in DOMAIN steps' : d \in DOMAIN steps /\ steps'[d] = steps[d]
      /\ \A d \in DOMAIN steps' : \A h \in 1 .. d : h \in DOMAIN steps'
  BY <1>2, <1>5
<1>7. /\ \A p, d : Shares(p, steps', d) => Shares(p, steps, d)
      /\ \A p, d : Agree(p, steps', d) => Agree(p, steps, d)
  BY <1>6 DEF Shares, Agree
<1>8. \A m \in DOMAIN plans : Determined(plans[m].steps, steps')
  BY <1>6, <1>7 DEF WalkInv, Determined, Agree
<1>9. \A m, n \in DOMAIN plans : m < n => Between(plans[m].steps, plans[n].steps, steps')
  BY <1>7 DEF WalkInv, Between
<1>10. \A d \in DOMAIN steps' : d \in DOMAIN stack' /\ steps'[d].reduction \in Behind(stack'[d])
  <2>1. \A d \in DOMAIN steps' : d \in DOMAIN stack'
    BY <1>2, <1>4, <1>5
  <2> QED  BY <1>4, <1>6, <2>1 DEF WalkInv
<1>11. ASSUME NEW d \in DOMAIN stack', NEW m \in DOMAIN plans,
              d \in DOMAIN plans[m].steps,
              d = 1 \/ Shares(plans[m].steps, steps', d-1)
       PROVE  plans[m].steps[d].reduction \in Behind(stack'[d])
  BY <1>4, <1>7, <1>11 DEF WalkInv, Continues
<1> QED
  BY <1>1, <1>8, <1>9, <1>10, <1>11
     DEF WalkInv, Determined, Agree, Between, Shares, Continues, Behind

LEMMA WalkInit == Init => WalkInv
<1> SUFFICES ASSUME Init PROVE WalkInv
  OBVIOUS
<1>1. DOMAIN steps = {} /\ DOMAIN plans = {}
  BY DEF Init
<1> QED  BY <1>1 DEF WalkInv

LEMMA WalkStep == PathInv /\ WalkInv /\ [Next]_plannerVars => WalkInv'
<1> SUFFICES ASSUME PathInv, WalkInv, [Next]_plannerVars PROVE WalkInv'
  OBVIOUS
<1>1. CASE UNCHANGED plannerVars
  BY <1>1 DEF plannerVars, configVars, WalkInv, Determined, Agree, Between, Shares,
              Continues, Behind
<1> QED  BY <1>1, WalkEmit, WalkSkip, WalkFollow, WalkReturn DEF Next

------------------------------------------------------------------------------
(* Recursion and induction along a rank.                                   *)
LEMMA NatOrder == IsWellFoundedOn({ss \in Nat \X Nat : ss[1] < ss[2]}, Nat)
  BY NatLessThanWellFounded DEF OpToRel

LEMMA LeastElement ==
  ASSUME NEW T, T \subseteq Nat, T # {}
  PROVE  \E m \in T : \A n \in T : m <= n
<1> DEFINE R == {ss \in Nat \X Nat : ss[1] < ss[2]}
<1>1. IsWellFoundedOn(R, Nat)
  BY NatOrder
<1>2. \A m, n \in Nat : n < m => <<n, m>> \in R
  OBVIOUS
<1> HIDE DEF R
<1>3. PICK m \in T : \A n \in T : ~(<<n, m>> \in R)
  BY <1>1, WFMin
<1>4. ASSUME NEW n \in T PROVE m <= n
  <2>1. m \in Nat /\ n \in Nat
    OBVIOUS
  <2>2. ~(n < m)
    BY <1>2, <1>3, <2>1
  <2> QED  BY <2>1, <2>2
<1> QED  BY <1>4

LEMMA RankInduction ==
  ASSUME NEW D, NEW rank \in [D -> Nat], NEW P,
         \A d \in D : (\A e \in D : rank[e] < rank[d] => e \in P) => d \in P
  PROVE  D \subseteq P
<1> SUFFICES ASSUME ~(D \subseteq P) PROVE FALSE
  OBVIOUS
<1> DEFINE T == {rank[d] : d \in D \ P}
<1>1. T \subseteq Nat /\ T # {}
  OBVIOUS
<1> HIDE DEF T
<1>2. PICK m \in T : \A n \in T : m <= n
  BY <1>1, LeastElement
<1>3. PICK d \in D \ P : m = rank[d]
  BY DEF T
<1>4. ASSUME NEW e \in D, rank[e] < rank[d] PROVE e \in P
  <2>1. e \notin P => rank[e] \in T
    BY DEF T
  <2>2. rank[e] \in Nat /\ rank[d] \in Nat
    OBVIOUS
  <2> QED  BY <1>2, <1>3, <1>4, <2>1, <2>2
<1> QED  BY <1>3, <1>4

(* A function that is defined by its value at one element of lower rank.   *)
Ranked(D, B, pred, rank, N) ==
  /\ N \in Nat /\ rank \in [D -> 0 .. N] /\ pred \in [D \ B -> D]
  /\ \A d \in D \ B : rank[pred[d]] < rank[d]

Solves(f, D, B, pred, base, step) ==
  \A d \in D : f[d] = IF d \in B THEN base[d] ELSE step[<<d, f[pred[d]]>>]

LEMMA PredRecursion ==
  ASSUME NEW D, NEW X, NEW B, NEW pred, NEW rank, NEW N, Ranked(D, B, pred, rank, N),
         NEW base \in [D -> X], NEW step \in [D \X X -> X]
  PROVE  \E f \in [D -> X] : Solves(f, D, B, pred, base, step)
<1>0. /\ N \in Nat /\ rank \in [D -> 0 .. N] /\ pred \in [D \ B -> D]
      /\ \A d \in D \ B : rank[pred[d]] < rank[d]
  BY DEF Ranked
<1> DEFINE Val(f, d) == IF d \in B THEN base[d] ELSE step[<<d, f[pred[d]]>>]
           Up(n, f) == \A d \in D : rank[d] < n => f[d] = Val(f, d)
           P == {n \in 0 .. N+1 : \E f \in [D -> X] : Up(n, f)}
           id == [n \in 0 .. N+1 |-> n]
<1>1. ASSUME NEW f \in [D -> X], NEW d \in D PROVE Val(f, d) \in X
  BY <1>0, <1>1
<1>2. 0 \in P
  BY <1>0, <1>1
<1>3. ASSUME NEW n \in 0 .. N+1, n # 0, n-1 \in P PROVE n \in P
  <2>1. PICK f \in [D -> X] : Up(n-1, f)
    BY <1>3
  <2> DEFINE g == [d \in D |-> Val(f, d)]
  <2>2. g \in [D -> X]
    BY <1>1
  <2>3. ASSUME NEW d \in D, rank[d] < n PROVE g[d] = Val(g, d)
    <3>1. CASE d \in B
      BY <3>1
    <3>2. CASE d \notin B
      <4>1. pred[d] \in D /\ rank[pred[d]] \in Nat /\ rank[d] \in Nat /\ rank[pred[d]] < rank[d]
        BY <1>0, <3>2
      <4>2. rank[pred[d]] < n-1
        BY <1>0, <2>3, <4>1
      <4>3. g[pred[d]] = f[pred[d]]
        BY <2>1, <4>1, <4>2
      <4> QED  BY <3>2, <4>3
    <3> QED  BY <3>1, <3>2
  <2> HIDE DEF g
  <2>4. Up(n, g)
    BY <2>3
  <2> QED  BY <2>2, <2>4
<1>4. N+1 \in P
  <2>1. id \in [0 .. N+1 -> Nat]
    OBVIOUS
  <2>2. ASSUME NEW n \in 0 .. N+1, \A e \in 0 .. N+1 : id[e] < id[n] => e \in P
        PROVE  n \in P
    <3> HIDE DEF P
    <3>1. CASE n = 0
      BY <1>2, <3>1
    <3>2. CASE n # 0
      <4>1. n-1 \in 0 .. N+1 /\ id[n-1] < id[n]
        BY <1>0, <3>2
      <4> QED  BY <1>3, <2>2, <3>2, <4>1
    <3> QED  BY <3>1, <3>2
  <2> DEFINE I == 0 .. N+1
  <2>3. N+1 \in I
    BY <1>0
  <2> HIDE DEF P, id, I
  <2>4. id \in [I -> Nat] /\ \A n \in I : (\A e \in I : id[e] < id[n] => e \in P) => n \in P
    BY <2>1, <2>2 DEF I
  <2>5. I \subseteq P
    BY <2>4, RankInduction
  <2> QED  BY <2>3, <2>5
<1>5. PICK f \in [D -> X] : Up(N+1, f)
  BY <1>4
<1>6. \A d \in D : rank[d] < N+1
  BY <1>0
<1> QED  BY <1>5, <1>6 DEF Solves

------------------------------------------------------------------------------
(* What the time-dynamic mode leaves of the plans, in their order.         *)
OrderedPart(p, q) ==
  \E o \in [DOMAIN q -> DOMAIN p] :
    /\ \A i \in DOMAIN q : q[i] = p[o[i]]
    /\ \A i, j \in DOMAIN q : i < j => o[i] < o[j]

LEMMA PartAppend ==
  ASSUME NEW p \in Seq(QueryPlans), NEW n \in 1 .. Len(p), NEW q \in Seq(QueryPlans),
         NEW o \in [DOMAIN q -> 1 .. n-1], \A i \in DOMAIN q : q[i] = p[o[i]],
         \A i, j \in DOMAIN q : i < j => o[i] < o[j]
  PROVE  \E u \in [DOMAIN Append(q, p[n]) -> 1 .. n] :
           /\ \A i \in DOMAIN Append(q, p[n]) : Append(q, p[n])[i] = p[u[i]]
           /\ \A i, j \in DOMAIN Append(q, p[n]) : i < j => u[i] < u[j]
<1> DEFINE a == Append(q, p[n])
           L == Len(q)
           u == [i \in 1 .. L+1 |-> IF i = L+1 THEN n ELSE o[i]]
<1>1. /\ L \in Nat /\ DOMAIN q = 1 .. L /\ DOMAIN a = 1 .. L+1 /\ a[L+1] = p[n]
      /\ \A i \in 1 .. L : a[i] = q[i]
  <2>1. p[n] \in QueryPlans
    BY ElementOfSeq
  <2> QED  BY <2>1
<1>2. \A i \in 1 .. L+1 : i = L+1 \/ i \in 1 .. L
  BY <1>1
<1>3. /\ u[L+1] = n
      /\ \A i \in 1 .. L : u[i] = o[i] /\ o[i] \in 1 .. n-1
  BY <1>1
<1>4. u \in [1 .. L+1 -> 1 .. n]
  <2>1. \A i \in 1 .. L+1 : u[i] \in 1 .. n
    BY <1>2, <1>3
  <2> QED  BY <2>1
<1> HIDE DEF a, u, L
<1>5. \A i \in 1 .. L+1 : a[i] = p[u[i]]
  BY <1>1, <1>2, <1>3
<1>6. ASSUME NEW i \in 1 .. L+1, NEW j \in 1 .. L+1, i < j PROVE u[i] < u[j]
  <2>1. i \in 1 .. L
    BY <1>1, <1>6
  <2>2. CASE j = L+1
    BY <1>3, <2>1, <2>2
  <2>3. CASE j \in 1 .. L
    BY <1>1, <1>3, <1>6, <2>1, <2>3
  <2> QED  BY <1>2, <2>2, <2>3
<1>7. a = Append(q, p[n])
  BY DEF a
<1> QED  BY <1>1, <1>4, <1>5, <1>6, <1>7

LEMMA ErasedPart ==
  ASSUME plans \in Seq(QueryPlans)
  PROVE  WithoutTJoin \in Seq(QueryPlans) /\ OrderedPart(plans, WithoutTJoin)
<1> DEFINE N == Len(plans)
           D == 0 .. N
           Stays(i) == plans[i].algorithm_id # "TJOIN"
           pred == [i \in D \ {0} |-> i-1]
           rank == [i \in D |-> i]
           base == [i \in D |-> <<>>]
           step == [x \in D \X Seq(QueryPlans) |->
                      IF x[1] = 0 THEN <<>>
                      ELSE IF plans[x[1]].algorithm_id = "TJOIN" THEN x[2]
                      ELSE Append(x[2], plans[x[1]])]
           Val(f, i) == IF i = 0 THEN <<>>
                        ELSE IF plans[i].algorithm_id = "TJOIN" THEN f[i-1]
                        ELSE Append(f[i-1], plans[i])
<1>1. N \in Nat /\ \A i \in D : i # 0 => i \in 1 .. N /\ plans[i] \in QueryPlans /\ i-1 \in D
  BY ElementOfSeq
<1>2. \E f : f = [i \in D |-> Val(f, i)]
  <2> DEFINE B == {0}
  <2>1. /\ pred \in [D \ B -> D] /\ rank \in [D -> 0 .. N] /\ base \in [D -> Seq(QueryPlans)]
        /\ N \in Nat
    BY <1>1
  <2>2. step \in [D \X Seq(QueryPlans) -> Seq(QueryPlans)]
    BY <1>1
  <2>3. \A i \in D \ B : rank[pred[i]] < rank[i]
    BY <1>1
  <2>4. \A i \in D, s \in Seq(QueryPlans) : i # 0 =>
          step[<<i, s>>] = IF plans[i].algorithm_id = "TJOIN" THEN s ELSE Append(s, plans[i])
    OBVIOUS
  <2>5. \A i \in D \ {0} : pred[i] = i-1
    OBVIOUS
  <2>6. \A i \in D : base[i] = <<>>
    OBVIOUS
  <2> HIDE DEF pred, rank, base, step, D, B, N
  <2>7. PICK f \in [D -> Seq(QueryPlans)] : Solves(f, D, B, pred, base, step)
    <3>1. Ranked(D, B, pred, rank, N)
      BY <2>1, <2>3 DEF Ranked
    <3> QED  BY <2>1, <2>2, <3>1, PredRecursion
  <2>8. ASSUME NEW i \in D PROVE f[i] = Val(f, i)
    <3>1. CASE i = 0
      BY <2>6, <2>7, <3>1 DEF B, Solves
    <3>2. CASE i # 0
      <4>1. i-1 \in D /\ f[i-1] \in Seq(QueryPlans)
        BY <1>1, <3>2
      <4>2. f[i] = step[<<i, f[i-1]>>]
        BY <2>5, <2>7, <3>2, SMTT(30) DEF B, Solves
      <4> QED  BY <2>4, <3>2, <4>1, <4>2
    <3> QED  BY <3>1, <3>2
  <2>9. f = [i \in D |-> Val(f, i)]
    BY <2>8
  <2> QED  BY <2>9
<1> DEFINE kept == CHOOSE f : f = [i \in D |-> Val(f, i)]
<1>3. kept = [i \in D |-> Val(kept, i)]
  BY <1>2, ZenonT(30)
<1>4. WithoutTJoin = kept[N]
  BY DEF WithoutTJoin
<1> HIDE DEF kept
<1>5. \A i \in D : kept[i] = Val(kept, i)
  BY <1>3
<1> DEFINE Part(i) == \E o \in [DOMAIN kept[i] -> 1 .. i] :
                        /\ \A k \in DOMAIN kept[i] : kept[i][k] = plans[o[k]]
                        /\ \A k, l \in DOMAIN kept[i] : k < l => o[k] < o[l]
           P == {i \in D : kept[i] \in Seq(QueryPlans) /\ Part(i)}
<1>6. 0 \in P
  <2>1. kept[0] = <<>> /\ 0 \in D
    BY <1>1, <1>5
  <2>2. <<>> \in Seq(QueryPlans) /\ DOMAIN <<>> = {}
    OBVIOUS
  <2>3. <<>> \in [DOMAIN <<>> -> 1 .. 0]
    OBVIOUS
  <2> QED  BY <2>1, <2>2, <2>3
<1>7. ASSUME NEW i \in D, i # 0, i-1 \in P PROVE i \in P
  <2>1. /\ i \in 1 .. N /\ i-1 \in D /\ kept[i-1] \in Seq(QueryPlans)
        /\ plans[i] \in QueryPlans
    BY <1>1, <1>7
  <2>2. PICK o \in [DOMAIN kept[i-1] -> 1 .. i-1] :
          /\ \A k \in DOMAIN kept[i-1] : kept[i-1][k] = plans[o[k]]
          /\ \A k, l \in DOMAIN kept[i-1] : k < l => o[k] < o[l]
    BY <1>7
  <2>3. CASE plans[i].algorithm_id = "TJOIN"
    <3>1. kept[i] = kept[i-1]
      BY <1>5, <1>7, <2>3
    <3>2. o \in [DOMAIN kept[i-1] -> 1 .. i]
      BY <2>1
    <3> QED  BY <2>1, <2>2, <3>1, <3>2
  <2>4. CASE plans[i].algorithm_id # "TJOIN"
    <3>1. kept[i] = Append(kept[i-1], plans[i])
      BY <1>5, <1>7, <2>4
    <3>2. kept[i] \in Seq(QueryPlans)
      BY <2>1, <3>1
    <3>3. Part(i)
      <4> DEFINE q == kept[i-1]
                 a == Append(q, plans[i])
      <4>1. /\ q \in Seq(QueryPlans) /\ i \in 1 .. Len(plans) /\ o \in [DOMAIN q -> 1 .. i-1]
            /\ \A k \in DOMAIN q : q[k] = plans[o[k]]
            /\ \A k, l \in DOMAIN q : k < l => o[k] < o[l]
        BY <2>1, <2>2
      <4> HIDE DEF q
      <4>2. \E u \in [DOMAIN a -> 1 .. i] :
              /\ \A k \in DOMAIN a : a[k] = plans[u[k]]
              /\ \A k, l \in DOMAIN a : k < l => u[k] < u[l]
        BY <4>1, PartAppend, ZenonT(30)
      <4>3. kept[i] = a
        BY <3>1 DEF q
      <4> HIDE DEF a
      <4> QED  BY <4>2, <4>3
    <3> QED  BY <3>2, <3>3
  <2> QED  BY <2>3, <2>4
<1>8. N \in P
  <2>1. rank \in [D -> Nat]
    OBVIOUS
  <2>2. ASSUME NEW i \in D, \A e \in D : rank[e] < rank[i] => e \in P PROVE i \in P
    <3>1. CASE i = 0
      BY <1>6, <3>1
    <3>2. CASE i # 0
      <4>1. i-1 \in D /\ rank[i-1] < rank[i]
        BY <1>1, <3>2
      <4> HIDE DEF P
      <4> QED  BY <1>7, <2>2, <3>2, <4>1
    <3> QED  BY <3>1, <3>2
  <2>3. N \in D
    BY <1>1
  <2> HIDE DEF P, rank, D
  <2>4. D \subseteq P
    BY <2>1, <2>2, RankInduction
  <2> QED  BY <2>3, <2>4
<1>9. DOMAIN plans = 1 .. N
  OBVIOUS
<1> QED  BY <1>4, <1>8, <1>9 DEF OrderedPart

LEMMA EraseKeeps ==
  ASSUME PathInv, WalkInv, EraseTJoin
  PROVE  PathInv' /\ WalkInv'
<1>1. /\ plans' = WithoutTJoin /\ plans \in Seq(QueryPlans)
      /\ UNCHANGED <<stack, steps, running_reduction_id>>
  BY DEF EraseTJoin, PathInv, TypeOK
<1>2. PICK o \in [DOMAIN plans' -> DOMAIN plans] :
        /\ \A i \in DOMAIN plans' : plans'[i] = plans[o[i]]
        /\ \A i, j \in DOMAIN plans' : i < j => o[i] < o[j]
  BY <1>1, ErasedPart DEF OrderedPart
<1>3. \A i \in DOMAIN plans' : o[i] \in DOMAIN plans
  OBVIOUS
<1>4. PathInv'
  <2>1. TypeOK'
    BY <1>1, ErasedPart DEF PathInv, TypeOK, Enumerating
  <2>2. /\ IdsBelow(steps, running_reduction_id)'
        /\ SharedPrefix(steps, steps)'
    BY <1>1 DEF PathInv, IdsBelow, SharedPrefix
  <2>3. (\A m \in DOMAIN plans : IdsBelow(plans[m].steps, running_reduction_id))'
    BY <1>1, <1>2, <1>3 DEF PathInv, IdsBelow
  <2>4. (\A m \in DOMAIN plans : SharedPrefix(plans[m].steps, steps))'
    <3>1. \A m \in DOMAIN plans' : SharedPrefix(plans'[m].steps, steps)
      BY <1>2, <1>3 DEF PathInv
    <3> QED  BY <1>1, <3>1 DEF SharedPrefix
  <2>5. StepNamesPath'
    <3>1. \A m, n \in DOMAIN plans' : SharedPrefix(plans'[m].steps, plans'[n].steps)
      BY <1>2, <1>3 DEF PathInv, StepNamesPath
    <3> QED  BY <3>1 DEF StepNamesPath, SharedPrefix
  <2> QED  BY <2>1, <2>2, <2>3, <2>4, <2>5 DEF PathInv
<1>5. WalkInv'
  <2>1. (\A m \in DOMAIN plans : Determined(plans[m].steps, steps))'
    <3>1. \A m \in DOMAIN plans' : Determined(plans'[m].steps, steps)
      BY <1>2, <1>3 DEF WalkInv
    <3> QED  BY <1>1, <3>1 DEF Determined, Agree
  <2>2. (\A m, n \in DOMAIN plans : Determined(plans[m].steps, plans[n].steps))'
    <3>1. \A m, n \in DOMAIN plans' : Determined(plans'[m].steps, plans'[n].steps)
      BY <1>2, <1>3 DEF WalkInv
    <3> QED  BY <3>1 DEF Determined, Agree
  <2>3. (\A m, n \in DOMAIN plans : m < n => Between(plans[m].steps, plans[n].steps, steps))'
    <3>1. \A m, n \in DOMAIN plans' : m < n => Between(plans'[m].steps, plans'[n].steps, steps)
      BY <1>2, <1>3 DEF WalkInv
    <3> QED  BY <1>1, <3>1 DEF Between, Shares
  <2>4. (\A m, n, k \in DOMAIN plans :
           m < n /\ n < k => Between(plans[m].steps, plans[n].steps, plans[k].steps))'
    <3>1. \A m, n, k \in DOMAIN plans' :
            m < n /\ n < k => Between(plans'[m].steps, plans'[n].steps, plans'[k].steps)
      BY <1>2, <1>3 DEF WalkInv
    <3> QED  BY <3>1 DEF Between, Shares
  <2>5. (\A d \in DOMAIN stack : \A m \in DOMAIN plans :
           Continues(plans[m].steps, d) => plans[m].steps[d].reduction \in Behind(stack[d]))'
    <3>1. \A d \in DOMAIN stack : \A m \in DOMAIN plans' :
            Continues(plans'[m].steps, d) => plans'[m].steps[d].reduction \in Behind(stack[d])
      BY <1>2, <1>3 DEF WalkInv
    <3> QED  BY <1>1, <3>1 DEF Continues, Shares, Behind
  <2>6. (\A d \in DOMAIN steps : d \in DOMAIN stack /\ steps[d].reduction \in Behind(stack[d]))'
    BY <1>1 DEF WalkInv, Behind
  <2> QED  BY <2>1, <2>2, <2>3, <2>4, <2>5, <2>6 DEF WalkInv
<1> QED  BY <1>4, <1>5

------------------------------------------------------------------------------
(* The tree.  What has been inserted is the steps of the plans before      *)
(* at.plan, and those before at.step of that one.                          *)
TreeNodes ==
  [up : Nat, action : Int, actions : Seq(Nat), untried_action_ids : Seq(Nat),
   nr_of_selections : Nat]

InTree(m, i) ==
  /\ m \in DOMAIN plans /\ i \in DOMAIN plans[m].steps
  /\ m < at.plan \/ (m = at.plan /\ i < at.step)

IdOf(m, i) == plans[m].steps[i].id

NodeOf(m, i) == IF i = 0 THEN Root ELSE nodes[IdOf(m, i)].node

(* Nodes stand behind their parents; a child is listed once.               *)
TreeShape ==
  /\ tree \in Seq(TreeNodes) /\ Len(tree) >= 1
  /\ \A n \in DOMAIN tree : n # Root => tree[n].up \in 1 .. n-1
  /\ \A n \in DOMAIN tree : \A i \in DOMAIN tree[n].actions :
       /\ tree[n].actions[i] \in DOMAIN tree \ {Root}
       /\ tree[tree[n].actions[i]].up = n
  /\ \A n \in DOMAIN tree : \A i, j \in DOMAIN tree[n].actions :
       tree[n].actions[i] = tree[n].actions[j] => i = j

Place ==
  /\ at \in [plan : Nat \ {0}, step : Nat \ {0}]
  /\ at.plan <= Len(plans) + 1
  /\ at.plan \in DOMAIN plans => at.step <= Len(plans[at.plan].steps) + 1
  /\ at.plan \notin DOMAIN plans => at.step = 1
  /\ Len(tree) = 1 => at.plan = 1 /\ at.step = 1
  /\ Enumerating => Len(tree) = 1

(* Every inserted id has a node of its own, below that of the step before. *)
Named ==
  /\ \A m, i : InTree(m, i) => IdOf(m, i) \in DOMAIN nodes
  /\ \A id \in DOMAIN nodes : \E m \in DOMAIN plans : \E i \in DOMAIN plans[m].steps :
       InTree(m, i) /\ id = IdOf(m, i)
  /\ \A id \in DOMAIN nodes :
       /\ nodes[id].node \in DOMAIN tree \ {Root}
       /\ tree[nodes[id].node].action = -1
  /\ \A id, jd \in DOMAIN nodes : nodes[id].node = nodes[jd].node => id = jd
  /\ \A m, i : InTree(m, i) => tree[NodeOf(m, i)].up = NodeOf(m, i-1)

IsLeaf(m, l) ==
  /\ l \in DOMAIN tree \ {Root}
  /\ tree[l].action = m-1 /\ tree[l].actions = <<>>
  /\ tree[l].up = NodeOf(m, Len(plans[m].steps))
  /\ \A n \in DOMAIN tree : tree[n].action = m-1 => n = l

Leaves ==
  /\ \A m \in DOMAIN plans : m < at.plan => \E l \in DOMAIN tree : IsLeaf(m, l)
  /\ \A n \in DOMAIN tree : tree[n].action \in -1 .. at.plan-2
  /\ tree[Root].action = -1

(* The pointers that the plan at hand follows are the latest of their      *)
(* vectors.                                                                *)
Followed ==
  /\ parent = IF at.step = 1 THEN RootPointer ELSE nodes[IdOf(at.plan, at.step-1)]
  /\ at.plan \in DOMAIN plans =>
       \A i \in DOMAIN plans[at.plan].steps :
         IdOf(at.plan, i) \in DOMAIN nodes => Valid(nodes[IdOf(at.plan, i)])

BuildInv ==
  PathInv /\ WalkInv /\ TreeShape /\ Place /\ Named /\ Leaves /\ Followed

(* Places of the plans, and which nodes they have.                         *)
LEMMA PlanFacts ==
  ASSUME PathInv
  PROVE  /\ Len(plans) \in Nat /\ DOMAIN plans = 1 .. Len(plans)
         /\ \A m \in DOMAIN plans :
              /\ Len(plans[m].steps) \in Nat
              /\ DOMAIN plans[m].steps = 1 .. Len(plans[m].steps)
BY CallFacts

LEMMA InsertedFacts ==
  ASSUME PathInv, Place, NEW m, NEW i, InTree(m, i)
  PROVE  /\ m \in Nat \ {0} /\ i \in Nat \ {0}
         /\ m \in DOMAIN plans /\ i \in DOMAIN plans[m].steps
         /\ i = 1 \/ InTree(m, i-1)
BY PlanFacts DEF InTree, Place

LEMMA NodeFacts ==
  ASSUME BuildInv, NEW m, NEW i, InTree(m, i)
  PROVE  /\ NodeOf(m, i) = nodes[IdOf(m, i)].node /\ IdOf(m, i) \in DOMAIN nodes
         /\ NodeOf(m, i) \in DOMAIN tree \ {Root}
         /\ tree[NodeOf(m, i)].action = -1
         /\ tree[NodeOf(m, i)].up = NodeOf(m, i-1)
<1>1. i # 0
  BY InsertedFacts DEF BuildInv
<1> QED  BY <1>1 DEF BuildInv, Named, NodeOf

LEMMA AboveFacts ==
  ASSUME BuildInv, NEW m, NEW i \in Nat, i = 0 \/ InTree(m, i)
  PROVE  NodeOf(m, i) \in DOMAIN tree /\ tree[NodeOf(m, i)].action = -1
<1>1. CASE i = 0
  BY <1>1 DEF BuildInv, TreeShape, Leaves, NodeOf, Root
<1>2. CASE i # 0
  BY <1>2, NodeFacts
<1> QED  BY <1>1, <1>2

(* Two places have the same node only if they have the same id, and then   *)
(* everything before them is the same.                                     *)
LEMMA NodeTellsPlace ==
  ASSUME BuildInv, NEW m, NEW i \in Nat, NEW n, NEW j \in Nat,
         i = 0 \/ InTree(m, i), j = 0 \/ InTree(n, j), NodeOf(m, i) = NodeOf(n, j)
  PROVE  i = j /\ (i # 0 => IdOf(m, i) = IdOf(n, j))
<1>1. CASE i = 0 \/ j = 0
  <2>1. i # 0 => NodeOf(m, i) # Root
    BY NodeFacts
  <2>2. j # 0 => NodeOf(n, j) # Root
    BY NodeFacts
  <2> QED  BY <1>1, <2>1, <2>2 DEF NodeOf
<1>2. CASE i # 0 /\ j # 0
  <2>1. /\ InTree(m, i) /\ InTree(n, j)
        /\ m \in DOMAIN plans /\ n \in DOMAIN plans
        /\ i \in DOMAIN plans[m].steps /\ j \in DOMAIN plans[n].steps
    BY <1>2 DEF InTree
  <2>2. IdOf(m, i) = IdOf(n, j)
    BY <2>1, NodeFacts DEF BuildInv, Named
  <2>3. i = j
    BY <2>1, <2>2 DEF BuildInv, PathInv, StepNamesPath, SharedPrefix, IdOf
  <2> QED  BY <2>2, <2>3
<1> QED  BY <1>1, <1>2

(* A child is added.                                                       *)
LEMMA NodeType ==
  ASSUME TreeShape, NEW n \in DOMAIN tree
  PROVE  /\ Len(tree) \in Nat /\ DOMAIN tree = 1 .. Len(tree) /\ n \in Nat \ {0}
         /\ tree[n] \in TreeNodes
         /\ tree[n].up \in Nat /\ tree[n].action \in Int /\ tree[n].actions \in Seq(Nat)
         /\ tree[n].untried_action_ids \in Seq(Nat) /\ tree[n].nr_of_selections \in Nat
         /\ Len(tree[n].actions) \in Nat
         /\ DOMAIN tree[n].actions = 1 .. Len(tree[n].actions)
<1>1. /\ Len(tree) \in Nat /\ DOMAIN tree = 1 .. Len(tree) /\ tree[n] \in TreeNodes
  BY ElementOfSeq DEF TreeShape
<1> QED  BY <1>1 DEF TreeNodes

LEMMA GrowFacts ==
  ASSUME TreeShape, NEW p \in DOMAIN tree, NEW a \in Int, tree' = WithChild(p, a)
  PROVE  /\ Len(tree) \in Nat /\ DOMAIN tree = 1 .. Len(tree) /\ Len(tree') = Len(tree) + 1
         /\ DOMAIN tree' = 1 .. Len(tree) + 1
         /\ \A n \in DOMAIN tree :
              /\ tree'[n].up = tree[n].up /\ tree'[n].action = tree[n].action
              /\ tree'[n].nr_of_selections = tree[n].nr_of_selections
              /\ n # p => tree'[n] = tree[n]
         /\ tree'[p].actions = Append(tree[p].actions, Len(tree) + 1)
         /\ tree'[p].untried_action_ids =
              Append(tree[p].untried_action_ids, Len(tree[p].actions) + 1)
         /\ tree'[Len(tree) + 1] = Node(p, a)
         /\ tree' \in Seq(TreeNodes)
<1> DEFINE N == Len(tree)
           acts == Append(tree[p].actions, N + 1)
           unt == Append(tree[p].untried_action_ids, Len(tree[p].actions) + 1)
           t == [tree EXCEPT ![p].actions = acts, ![p].untried_action_ids = unt]
           x == [tree[p] EXCEPT !.actions = acts, !.untried_action_ids = unt]
<1>1. /\ N \in Nat /\ DOMAIN tree = 1 .. N /\ tree \in Seq(TreeNodes)
      /\ \A n \in 1 .. N : tree[n] \in TreeNodes
      /\ Len(tree[p].actions) \in Nat /\ tree[p] \in TreeNodes
      /\ tree[p].actions \in Seq(Nat) /\ tree[p].untried_action_ids \in Seq(Nat)
  BY NodeType DEF TreeShape
<1>2. acts \in Seq(Nat) /\ unt \in Seq(Nat)
  BY <1>1
<1>3. tree' = Append(t, Node(p, a))
  <2>1. [tree EXCEPT ![p].actions = Append(@, N + 1),
                     ![p].untried_action_ids = Append(@, Len(tree[p].actions) + 1)] = t
    BY <1>1 DEF TreeNodes
  <2> QED  BY <2>1 DEF WithChild
<1> HIDE DEF acts, unt
<1>4. /\ x \in TreeNodes /\ x.up = tree[p].up /\ x.action = tree[p].action
      /\ x.nr_of_selections = tree[p].nr_of_selections
      /\ x.actions = acts /\ x.untried_action_ids = unt
  BY <1>1, <1>2 DEF TreeNodes
<1>5. t = [tree EXCEPT ![p] = x]
  BY <1>1 DEF TreeNodes
<1>6. Node(p, a) \in TreeNodes
  BY <1>1 DEF Node, TreeNodes
<1> HIDE DEF x, t, N
<1>7. /\ t \in Seq(TreeNodes) /\ Len(t) = N /\ t[p] = x
      /\ \A n \in 1 .. N : n # p => t[n] = tree[n]
  <2>1. \A n \in 1 .. N : t[n] = IF n = p THEN x ELSE tree[n]
    BY <1>1, <1>5
  <2>2. t = [n \in 1 .. N |-> IF n = p THEN x ELSE tree[n]]
    BY <1>1, <1>5
  <2>3. t \in Seq(TreeNodes) /\ Len(t) = N
    <3> DEFINE e(n) == IF n = p THEN x ELSE tree[n]
    <3>1. \A n \in 1 .. N : e(n) \in TreeNodes
      BY <1>1, <1>4
    <3> HIDE DEF e
    <3>2. [n \in 1 .. N |-> e(n)] \in Seq(TreeNodes) /\ Len([n \in 1 .. N |-> e(n)]) = N
      BY <1>1, <3>1, SeqDef, LenProperties
    <3> QED  BY <2>2, <3>2 DEF e
  <2> QED  BY <1>1, <2>1, <2>3
<1>8. /\ Append(t, Node(p, a)) \in Seq(TreeNodes)
      /\ Len(Append(t, Node(p, a))) = N + 1
      /\ DOMAIN Append(t, Node(p, a)) = 1 .. N + 1
      /\ \A n \in 1 .. N : Append(t, Node(p, a))[n] = t[n]
      /\ Append(t, Node(p, a))[N + 1] = Node(p, a)
  <2>1. PICK c : c = Node(p, a)
    OBVIOUS
  <2>2. N \in Nat /\ c \in TreeNodes /\ t \in Seq(TreeNodes) /\ Len(t) = N
    BY <1>1, <1>6, <1>7, <2>1
  <2>3. /\ Append(t, c) \in Seq(TreeNodes) /\ Len(Append(t, c)) = N + 1
        /\ \A n \in 1 .. N : Append(t, c)[n] = t[n]
        /\ Append(t, c)[N + 1] = c
    BY <2>2, AppendProperties
  <2>4. DOMAIN Append(t, c) = 1 .. N + 1
    BY <2>3
  <2> QED  BY <2>1, <2>3, <2>4
<1>9. \A n \in DOMAIN tree : tree'[n] = IF n = p THEN x ELSE tree[n]
  BY <1>1, <1>3, <1>7, <1>8
<1>10. acts = Append(tree[p].actions, Len(tree) + 1)
       /\ unt = Append(tree[p].untried_action_ids, Len(tree[p].actions) + 1) /\ N = Len(tree)
  BY DEF acts, unt, N
<1> QED  BY <1>1, <1>3, <1>4, <1>8, <1>9, <1>10

LEMMA GrowShape ==
  ASSUME TreeShape, NEW p \in DOMAIN tree, NEW a \in Int, tree' = WithChild(p, a)
  PROVE  TreeShape'
<1> DEFINE N == Len(tree)
<1>1. /\ N \in Nat /\ DOMAIN tree = 1 .. N /\ Len(tree') = N + 1 /\ DOMAIN tree' = 1 .. N + 1
      /\ \A n \in DOMAIN tree : tree'[n].up = tree[n].up /\ (n # p => tree'[n] = tree[n])
      /\ tree'[p].actions = Append(tree[p].actions, N + 1)
      /\ tree'[N + 1] = Node(p, a) /\ tree' \in Seq(TreeNodes) /\ N >= 1
  BY GrowFacts DEF TreeShape
<1>2. /\ tree'[N+1].up = p /\ tree'[N+1].actions = <<>>
  BY <1>1 DEF Node
<1> HIDE DEF N
<1> DEFINE L == Len(tree[p].actions)
<1>3. /\ L \in Nat /\ DOMAIN tree[p].actions = 1 .. L /\ DOMAIN tree'[p].actions = 1 .. L + 1
      /\ \A i \in 1 .. L : tree'[p].actions[i] = tree[p].actions[i]
      /\ tree'[p].actions[L + 1] = N + 1
  <2>1. tree[p].actions \in Seq(Nat)
    BY NodeType
  <2> QED  BY <1>1, <2>1
<1> HIDE DEF L
<1>4. \A n \in 1 .. N + 1 : n \in DOMAIN tree \/ n = N + 1
  BY <1>1
<1>5. Root = 1 /\ N + 1 # Root /\ N + 1 \notin DOMAIN tree
  BY <1>1 DEF Root
<1>6. (\A n \in DOMAIN tree : n # Root => tree[n].up \in 1 .. n-1)'
  <2> SUFFICES ASSUME NEW n \in DOMAIN tree', n # Root PROVE tree'[n].up \in 1 .. n-1
    BY DEF Root
  <2>1. CASE n \in DOMAIN tree
    BY <1>1, <2>1 DEF TreeShape
  <2>2. CASE n = N + 1
    BY <1>1, <1>2, <2>2
  <2> QED  BY <1>1, <1>4, <2>1, <2>2
<1>7. ASSUME NEW n \in DOMAIN tree', NEW i \in DOMAIN tree'[n].actions
      PROVE  /\ tree'[n].actions[i] \in DOMAIN tree' \ {Root}
             /\ tree'[tree'[n].actions[i]].up = n
             /\ \/ n \in DOMAIN tree /\ i \in DOMAIN tree[n].actions
                   /\ tree'[n].actions[i] = tree[n].actions[i]
                   /\ tree'[n].actions[i] \in DOMAIN tree
                \/ n = p /\ i = L + 1 /\ tree'[n].actions[i] = N + 1
  <2>1. CASE n = N + 1
    BY <1>2, <1>7, <2>1
  <2>2. CASE n \in DOMAIN tree /\ i \in DOMAIN tree[n].actions
             /\ tree'[n].actions[i] = tree[n].actions[i]
    <3>1. tree[n].actions[i] \in DOMAIN tree \ {Root} /\ tree[tree[n].actions[i]].up = n
      BY <2>2 DEF TreeShape
    <3>2. tree'[tree[n].actions[i]].up = n /\ tree[n].actions[i] \in DOMAIN tree'
      BY <1>1, <3>1
    <3> QED  BY <2>2, <3>1, <3>2
  <2>3. CASE n = p /\ i = L + 1
    BY <1>1, <1>2, <1>3, <1>5, <2>3
  <2>4. n = N + 1 \/ (n \in DOMAIN tree /\ i \in DOMAIN tree[n].actions
                      /\ tree'[n].actions[i] = tree[n].actions[i]) \/ (n = p /\ i = L + 1)
    <3>1. CASE n = p
      BY <1>3, <1>7, <3>1
    <3>2. CASE n \in DOMAIN tree /\ n # p
      BY <1>1, <1>7, <3>2
    <3> QED  BY <1>1, <1>4, <3>1, <3>2
  <2> QED  BY <2>1, <2>2, <2>3, <2>4
<1>8. ASSUME NEW n \in DOMAIN tree', NEW i \in DOMAIN tree'[n].actions,
             NEW j \in DOMAIN tree'[n].actions, tree'[n].actions[i] = tree'[n].actions[j]
      PROVE  i = j
  <2>1. CASE n \in DOMAIN tree /\ i \in DOMAIN tree[n].actions /\ j \in DOMAIN tree[n].actions
    BY <1>5, <1>7, <1>8, <2>1, SMTT(30) DEF TreeShape
  <2>2. CASE i = L + 1 /\ tree'[n].actions[i] = N + 1
    BY <1>5, <1>7, <1>8, <2>2
  <2>3. CASE j = L + 1 /\ tree'[n].actions[j] = N + 1
    BY <1>5, <1>7, <1>8, <2>3
  <2> QED  BY <1>7, <2>1, <2>2, <2>3
<1>9. (\A n \in DOMAIN tree : \A i \in DOMAIN tree[n].actions :
         /\ tree[n].actions[i] \in DOMAIN tree \ {Root}
         /\ tree[tree[n].actions[i]].up = n)'
  BY <1>7 DEF Root
<1>10. (\A n \in DOMAIN tree : \A i, j \in DOMAIN tree[n].actions :
          tree[n].actions[i] = tree[n].actions[j] => i = j)'
  BY <1>8
<1>11. (tree \in Seq(TreeNodes) /\ Len(tree) >= 1)'
  BY <1>1 DEF TreeNodes
<1> QED  BY <1>6, <1>9, <1>10, <1>11 DEF TreeShape

(* A pointer stays valid unless the child is one of the same node.         *)
LEMMA GrowValid ==
  ASSUME TreeShape, NEW p \in DOMAIN tree, NEW a \in Int, tree' = WithChild(p, a),
         NEW q, q.node \in DOMAIN tree, Valid(q), q.node # Root => tree[q.node].up # p
  PROVE  Valid(q)'
<1>1. CASE q.node = Root
  BY <1>1 DEF Valid, Root
<1>2. CASE q.node # Root
  <2>1. tree[q.node].up \in DOMAIN tree
    <3>1. tree[q.node].up \in 1 .. q.node-1 /\ DOMAIN tree = 1 .. Len(tree) /\ Len(tree) \in Nat
      BY <1>2, NodeType DEF TreeShape
    <3> QED  BY <3>1
  <2>2. tree'[q.node].up = tree[q.node].up /\ tree'[tree[q.node].up] = tree[tree[q.node].up]
    BY <1>2, <2>1, GrowFacts
  <2> QED  BY <1>2, <2>2 DEF Valid
<1> QED  BY <1>1, <1>2


------------------------------------------------------------------------------
(* Steps.  While the tree is the root alone nothing has been inserted.     *)
LEMMA NothingInserted ==
  ASSUME PathInv, Place, Len(tree) = 1
  PROVE  \A m, i : ~InTree(m, i)
<1> SUFFICES ASSUME NEW m, NEW i, InTree(m, i) PROVE FALSE
  OBVIOUS
<1>1. at.plan = 1 /\ at.step = 1
  BY DEF Place
<1>2. m \in Nat \ {0} /\ i \in Nat \ {0}
  BY InsertedFacts
<1> QED  BY <1>1, <1>2 DEF InTree

LEMMA RootOnly ==
  ASSUME BuildInv, Len(tree) = 1, PathInv', WalkInv', UNCHANGED treeVars,
         Enumerating' => Enumerating
  PROVE  BuildInv'
<1>1. at.plan = 1 /\ at.step = 1 /\ \A m, i : ~InTree(m, i)
  BY NothingInserted DEF BuildInv, Place
<1>2. DOMAIN nodes = {} /\ parent = RootPointer
  BY <1>1 DEF BuildInv, Named, Followed
<1>3. UNCHANGED <<tree, nodes, parent, at>>
  BY DEF treeVars
<1>4. TreeShape'
  BY <1>3 DEF BuildInv, TreeShape, TreeNodes, Root
<1>5. /\ Len(plans') \in Nat /\ DOMAIN plans' = 1 .. Len(plans')
      /\ \A m \in DOMAIN plans' : /\ Len(plans'[m].steps) \in Nat
                                  /\ DOMAIN plans'[m].steps = 1 .. Len(plans'[m].steps)
  <2>1. plans' \in Seq(QueryPlans)
    BY DEF PathInv, TypeOK
  <2>2. \A m \in DOMAIN plans' : plans'[m] \in QueryPlans
    BY <2>1, ElementOfSeq
  <2>3. \A m \in DOMAIN plans' : plans'[m].steps \in Seq(Steps)
    BY <2>2 DEF QueryPlans
  <2> QED  BY <2>1, <2>3
<1>6. Place'
  BY <1>1, <1>3, <1>5 DEF BuildInv, Place
<1>7. \A m, i : ~InTree(m, i)'
  <2> SUFFICES ASSUME NEW m, NEW i, InTree(m, i)' PROVE FALSE
    OBVIOUS
  <2>1. /\ m \in 1 .. Len(plans') /\ i \in 1 .. Len(plans'[m].steps)
        /\ m < 1 \/ (m = 1 /\ i < 1)
    BY <1>1, <1>3, <1>5 DEF InTree
  <2> QED  BY <1>5, <2>1
<1>8. Named'
  BY <1>2, <1>3, <1>7 DEF Named
<1>9. Leaves'
  <2>1. \A m \in DOMAIN plans' : ~(m < at'.plan)
    BY <1>1, <1>3, <1>5
  <2> QED  BY <1>3, <2>1 DEF BuildInv, Leaves, Root
<1>10. Followed'
  BY <1>1, <1>2, <1>3 DEF Followed, RootPointer, Root
<1> QED  BY <1>4, <1>6, <1>8, <1>9, <1>10 DEF BuildInv

LEMMA PlanningStep ==
  ASSUME BuildInv, Next, UNCHANGED treeVars
  PROVE  BuildInv'
<1>1. PathInv' /\ WalkInv'
  BY StepOK, WalkStep DEF BuildInv
<1>2. Enumerating
  BY DEF Next, EmitPlan, SkipEdge, FollowEdge, Return, AtAlgorithm, AtEdge
<1>3. Len(tree) = 1
  BY <1>2 DEF BuildInv, Place
<1> QED  BY <1>1, <1>2, <1>3, RootOnly

LEMMA EraseStep ==
  ASSUME BuildInv, EraseTJoin
  PROVE  BuildInv'
<1>1. PathInv' /\ WalkInv'
  BY EraseKeeps DEF BuildInv
<1>2. UNCHANGED treeVars /\ UNCHANGED stack /\ Len(tree) = 1
  BY DEF EraseTJoin
<1> QED  BY <1>1, <1>2, RootOnly DEF Enumerating

(* Between the steps the plan at hand and its ids.                         *)
LEMMA BuildingFacts ==
  ASSUME BuildInv, Building
  PROVE  /\ ~Enumerating /\ at.plan \in DOMAIN plans /\ at.plan \in Nat \ {0}
         /\ at.step \in Nat \ {0} /\ at.step <= Len(plans[at.plan].steps) + 1
         /\ Len(plans[at.plan].steps) \in Nat
         /\ DOMAIN plans[at.plan].steps = 1 .. Len(plans[at.plan].steps)
         /\ parent.node = NodeOf(at.plan, at.step-1)
         /\ at.step-1 = 0 \/ InTree(at.plan, at.step-1)
         /\ AtStep => /\ at.step \in DOMAIN plans[at.plan].steps
                      /\ NodeKey(BuiltStep) = IdOf(at.plan, at.step)
         /\ ~AtStep => at.step = Len(plans[at.plan].steps) + 1
<1>1. ~Enumerating /\ at.plan <= Len(plans) /\ at.plan \in Nat \ {0} /\ at.step \in Nat \ {0}
  BY DEF Building, BuildInv, Place
<1>2. /\ Len(plans) \in Nat /\ DOMAIN plans = 1 .. Len(plans) /\ at.plan \in DOMAIN plans
      /\ Len(plans[at.plan].steps) \in Nat
      /\ DOMAIN plans[at.plan].steps = 1 .. Len(plans[at.plan].steps)
  BY <1>1, PlanFacts DEF BuildInv
<1>3. at.step <= Len(plans[at.plan].steps) + 1
  BY <1>2 DEF BuildInv, Place
<1>4. at.step-1 = 0 \/ InTree(at.plan, at.step-1)
  BY <1>1, <1>2, <1>3 DEF InTree
<1>5. parent.node = NodeOf(at.plan, at.step-1)
  BY <1>1 DEF BuildInv, Followed, NodeOf, RootPointer, IdOf
<1> QED  BY <1>1, <1>2, <1>3, <1>4, <1>5 DEF AtStep, NodeKey, BuiltStep, BuiltPlan, IdOf

(* An id of a plan that is in the tree got there with one of the plans up  *)
(* to now, which has the same steps up to it.                              *)
LEMMA Inserter ==
  ASSUME BuildInv, NEW m \in DOMAIN plans, NEW i \in DOMAIN plans[m].steps,
         IdOf(m, i) \in DOMAIN nodes
  PROVE  \E n : /\ InTree(n, i) /\ n \in DOMAIN plans
                /\ \A h \in 1 .. i : /\ InTree(n, h) /\ IdOf(n, h) = IdOf(m, h)
                                     /\ IdOf(m, h) \in DOMAIN nodes
<1>1. PICK n \in DOMAIN plans : \E j \in DOMAIN plans[n].steps :
        InTree(n, j) /\ IdOf(m, i) = IdOf(n, j)
  BY DEF BuildInv, Named
<1>2. PICK j \in DOMAIN plans[n].steps : InTree(n, j) /\ IdOf(m, i) = IdOf(n, j)
  BY <1>1
<1>3. i = j /\ \A h \in 1 .. i : plans[m].steps[h] = plans[n].steps[h]
  BY <1>2 DEF BuildInv, PathInv, StepNamesPath, SharedPrefix, IdOf
<1>4. \A h \in 1 .. i : InTree(n, h)
  <2>1. /\ Len(plans[n].steps) \in Nat /\ DOMAIN plans[n].steps = 1 .. Len(plans[n].steps)
        /\ at.step \in Nat
    BY PlanFacts DEF BuildInv, Place
  <2> QED  BY <1>2, <1>3, <2>1 DEF InTree
<1>5. \A h \in 1 .. i : IdOf(n, h) = IdOf(m, h)
  BY <1>3 DEF IdOf
<1>6. \A h \in 1 .. i : IdOf(m, h) \in DOMAIN nodes
  BY <1>4, <1>5 DEF BuildInv, Named
<1> QED  BY <1>2, <1>3, <1>4, <1>5, <1>6

LEMMA FollowStepKeeps ==
  ASSUME BuildInv, FollowStep
  PROVE  BuildInv'
<1> DEFINE m == at.plan
           s == at.step
<1>1. /\ AtStep /\ Building /\ NodeKey(BuiltStep) \in DOMAIN nodes
      /\ parent' = nodes[NodeKey(BuiltStep)] /\ at' = [at EXCEPT !.step = @ + 1]
      /\ UNCHANGED plannerVars /\ UNCHANGED <<tree, nodes>>
  BY DEF FollowStep, NextParent, AtStep
<1>2. /\ m \in DOMAIN plans /\ s \in DOMAIN plans[m].steps /\ s \in Nat \ {0} /\ m \in Nat \ {0}
      /\ IdOf(m, s) \in DOMAIN nodes /\ parent' = nodes[IdOf(m, s)]
      /\ DOMAIN plans[m].steps = 1 .. Len(plans[m].steps) /\ Len(plans[m].steps) \in Nat
  BY <1>1, BuildingFacts
<1>3. at'.plan = m /\ at'.step = s + 1
  BY <1>1 DEF BuildInv, Place
<1>4. UNCHANGED <<plans, stack, steps, running_reduction_id, tree, nodes>>
  BY <1>1 DEF plannerVars
<1>5. PathInv' /\ WalkInv'
  BY <1>1, StepOK, WalkStep DEF BuildInv
<1>6. TreeShape'
  BY <1>4 DEF BuildInv, TreeShape, TreeNodes, Root
<1>7. Place'
  <2>1. at' \in [plan : Nat \ {0}, step : Nat \ {0}]
    BY <1>1, <1>2 DEF BuildInv, Place
  <2>2. Len(tree) # 1
    <3> SUFFICES ASSUME Len(tree) = 1 PROVE FALSE
      OBVIOUS
    <3>1. PICK n : InTree(n, s)
      BY <1>2, Inserter
    <3> QED  BY <3>1, NothingInserted DEF BuildInv
  <2> QED  BY <1>2, <1>3, <1>4, <2>1, <2>2 DEF BuildInv, Place, Enumerating
<1>8. \A n, i : InTree(n, i)' <=> InTree(n, i) \/ (n = m /\ i = s)
  <2> TAKE n, i
  <2>1. i \in DOMAIN plans[m].steps => (i < s + 1 <=> i < s \/ i = s)
    BY <1>2
  <2> QED  BY <1>2, <1>3, <1>4, <2>1 DEF InTree
<1>9. \A n, i : IdOf(n, i)' = IdOf(n, i) /\ NodeOf(n, i)' = NodeOf(n, i)
  BY <1>4 DEF IdOf, NodeOf, Root
<1>10. tree[NodeOf(m, s)].up = NodeOf(m, s-1)
  <2>1. PICK n : /\ InTree(n, s)
                 /\ \A h \in 1 .. s : InTree(n, h) /\ IdOf(n, h) = IdOf(m, h)
    BY <1>2, Inserter
  <2>2. NodeOf(n, s) = NodeOf(m, s)
    BY <1>2, <2>1 DEF NodeOf
  <2>3. NodeOf(n, s-1) = NodeOf(m, s-1)
    <3>1. s-1 = 0 \/ s-1 \in 1 .. s
      BY <1>2
    <3> QED  BY <2>1, <3>1 DEF NodeOf
  <2> QED  BY <2>1, <2>2, <2>3, NodeFacts
<1>11. Named'
  <2>1. \A n, i : InTree(n, i)' => IdOf(n, i)' \in DOMAIN nodes'
    BY <1>2, <1>4, <1>8, <1>9 DEF BuildInv, Named
  <2>2. \A id \in DOMAIN nodes' : \E n \in DOMAIN plans' : \E i \in DOMAIN plans'[n].steps :
          InTree(n, i)' /\ id = IdOf(n, i)'
    BY <1>4, <1>8, <1>9 DEF BuildInv, Named
  <2>3. \A n, i : InTree(n, i)' => tree'[NodeOf(n, i)'].up = NodeOf(n, i-1)'
    BY <1>4, <1>8, <1>9, <1>10 DEF BuildInv, Named
  <2> QED  BY <1>4, <2>1, <2>2, <2>3 DEF BuildInv, Named, Root
<1>12. Leaves'
  <2>1. \A n, l : IsLeaf(n, l) => IsLeaf(n, l)'
    BY <1>4, <1>9 DEF IsLeaf, Root
  <2> QED  BY <1>3, <1>4, <2>1 DEF BuildInv, Leaves, Root
<1>13. Followed'
  <2>1. /\ at'.step # 1 /\ at'.step-1 = s /\ parent' = nodes'[plans'[m].steps[s].id]
    BY <1>2, <1>3, <1>4 DEF IdOf
  <2>3. (parent = IF at.step = 1 THEN RootPointer ELSE nodes[IdOf(at.plan, at.step-1)])'
    BY <1>3, <2>1, SMTT(30) DEF IdOf
  <2>4. (at.plan \in DOMAIN plans =>
          \A i \in DOMAIN plans[at.plan].steps :
            IdOf(at.plan, i) \in DOMAIN nodes => Valid(nodes[IdOf(at.plan, i)]))'
    <3>1. \A i \in DOMAIN plans[m].steps : IdOf(m, i) \in DOMAIN nodes => Valid(nodes[IdOf(m, i)])
      BY <1>2 DEF BuildInv, Followed
    <3> QED  BY <1>3, <1>4, <3>1, ZenonT(30) DEF Valid, Root, IdOf
  <2> QED  BY <2>3, <2>4 DEF Followed
<1> QED  BY <1>5, <1>6, <1>7, <1>11, <1>12, <1>13 DEF BuildInv

LEMMA AddStepKeeps ==
  ASSUME BuildInv, AddStep
  PROVE  BuildInv'
<1>0. PICK m, s, p, N, key :
        m = at.plan /\ s = at.step /\ p = parent.node /\ N = Len(tree) /\ key = IdOf(at.plan, at.step)
  OBVIOUS
<1>1. /\ AtStep /\ Building /\ NodeKey(BuiltStep) \notin DOMAIN nodes
      /\ tree' = WithChild(p, -1)
      /\ nodes' = [id \in DOMAIN nodes \cup {NodeKey(BuiltStep)} |->
                     IF id = NodeKey(BuiltStep) THEN PointerToChild(p) ELSE nodes[id]]
      /\ parent' = PointerToChild(p) /\ at' = [at EXCEPT !.step = @ + 1]
      /\ UNCHANGED plannerVars
  BY <1>0 DEF AddStep, NextParent, AtStep
<1>2. /\ m \in DOMAIN plans /\ s \in DOMAIN plans[m].steps /\ s \in Nat \ {0} /\ m \in Nat \ {0}
      /\ key \notin DOMAIN nodes /\ key = IdOf(m, s) /\ NodeKey(BuiltStep) = key
      /\ DOMAIN plans[m].steps = 1 .. Len(plans[m].steps) /\ Len(plans[m].steps) \in Nat
      /\ p = NodeOf(m, s-1) /\ (s-1 = 0 \/ InTree(m, s-1))
  BY <1>0, <1>1, BuildingFacts
<1>3. at'.plan = m /\ at'.step = s + 1 /\ at' \in [plan : Nat \ {0}, step : Nat \ {0}]
  BY <1>0, <1>1, <1>2, SMTT(30) DEF BuildInv, Place
<1>4. UNCHANGED <<plans, stack, steps, running_reduction_id>>
  BY <1>1 DEF plannerVars
<1>5. PathInv' /\ WalkInv'
  BY <1>1, StepOK, WalkStep DEF BuildInv
<1>6. p \in DOMAIN tree /\ tree[p].action = -1
  <2>1. s-1 \in Nat
    BY <1>2
  <2> QED  BY <1>2, <2>1, AboveFacts
<1>7. /\ N \in Nat \ {0} /\ DOMAIN tree = 1 .. N /\ Len(tree') = N + 1 /\ DOMAIN tree' = 1 .. N + 1
      /\ \A n \in DOMAIN tree :
           /\ tree'[n].up = tree[n].up /\ tree'[n].action = tree[n].action
           /\ n # p => tree'[n] = tree[n]
      /\ tree'[p].actions = Append(tree[p].actions, N + 1)
      /\ tree'[N + 1] = Node(p, -1)
  BY <1>0, <1>1, <1>6, GrowFacts, SMTT(30) DEF BuildInv, TreeShape
<1>8. TreeShape'
  BY <1>1, <1>6, GrowShape DEF BuildInv
<1>9. Place'
  <2>1. ~Enumerating'
    BY <1>1, <1>4 DEF Building, Enumerating
  <2>2. /\ m <= Len(plans) /\ m <= Len(plans) + 1 /\ s + 1 <= Len(plans[m].steps) + 1
    <3>1. Len(plans) \in Nat /\ DOMAIN plans = 1 .. Len(plans)
      BY PlanFacts DEF BuildInv
    <3> QED  BY <1>2, <3>1
  <2>3. Len(tree') # 1
    BY <1>7
  <2> QED  BY <1>2, <1>3, <1>4, <2>1, <2>2, <2>3 DEF Place
<1>10. \A n, i : InTree(n, i)' <=> InTree(n, i) \/ (n = m /\ i = s)
  <2> TAKE n, i
  <2>1. i \in DOMAIN plans[m].steps => (i < s + 1 <=> i < s \/ i = s)
    BY <1>2
  <2> QED  BY <1>0, <1>2, <1>3, <1>4, <2>1 DEF InTree
<1>11. /\ DOMAIN nodes' = DOMAIN nodes \cup {key}
       /\ nodes'[key] = PointerToChild(p) /\ nodes'[key].node = N + 1
       /\ \A id \in DOMAIN nodes : nodes'[id] = nodes[id]
  BY <1>0, <1>1, <1>2 DEF PointerToChild
<1>12. /\ \A n, i : IdOf(n, i)' = IdOf(n, i)
       /\ NodeOf(m, s)' = N + 1
       /\ \A n, i : i = 0 \/ InTree(n, i) => NodeOf(n, i)' = NodeOf(n, i)
  <2>1. \A n, i : IdOf(n, i)' = IdOf(n, i)
    BY <1>4 DEF IdOf
  <2>2. NodeOf(m, s)' = N + 1
    BY <1>2, <1>11, <2>1 DEF NodeOf
  <2>3. ASSUME NEW n, NEW i, i = 0 \/ InTree(n, i) PROVE NodeOf(n, i)' = NodeOf(n, i)
    <3>1. CASE i = 0
      BY <3>1 DEF NodeOf, Root
    <3>2. CASE i # 0
      <4>1. IdOf(n, i) \in DOMAIN nodes
        BY <2>3, <3>2, NodeFacts
      <4> QED  BY <1>11, <2>1, <3>2, <4>1 DEF NodeOf
    <3> QED  BY <3>1, <3>2
  <2> QED  BY <2>1, <2>2, <2>3
<1>13. Named'
  <2>1. (\A n, i : InTree(n, i) => IdOf(n, i) \in DOMAIN nodes)'
    BY <1>2, <1>10, <1>11, <1>12 DEF BuildInv, Named
  <2>2. (\A id \in DOMAIN nodes : \E n \in DOMAIN plans : \E i \in DOMAIN plans[n].steps :
           InTree(n, i) /\ id = IdOf(n, i))'
    BY <1>2, <1>4, <1>10, <1>11, <1>12 DEF BuildInv, Named
  <2>3. (\A id \in DOMAIN nodes : /\ nodes[id].node \in DOMAIN tree \ {Root}
                                  /\ tree[nodes[id].node].action = -1)'
    <3> SUFFICES ASSUME NEW id \in DOMAIN nodes'
                 PROVE  nodes'[id].node \in DOMAIN tree' \ {Root} /\ tree'[nodes'[id].node].action = -1
      BY DEF Root
    <3>1. CASE id \in DOMAIN nodes
      BY <1>7, <1>11, <3>1 DEF BuildInv, Named
    <3>2. CASE id = key
      BY <1>7, <1>11, <3>2 DEF Node, Root
    <3> QED  BY <1>11, <3>1, <3>2
  <2>4. (\A id, jd \in DOMAIN nodes : nodes[id].node = nodes[jd].node => id = jd)'
    <3>1. \A id \in DOMAIN nodes : nodes'[id].node # N + 1
      BY <1>7, <1>11 DEF BuildInv, Named
    <3> QED  BY <1>11, <3>1 DEF BuildInv, Named
  <2>5. ASSUME NEW n, NEW i, InTree(n, i)' PROVE tree'[NodeOf(n, i)'].up = NodeOf(n, i-1)'
    <3>1. CASE InTree(n, i)
      <4>1. /\ NodeOf(n, i) \in DOMAIN tree /\ tree[NodeOf(n, i)].up = NodeOf(n, i-1)
            /\ NodeOf(n, i)' = NodeOf(n, i)
        BY <1>12, <3>1, NodeFacts
      <4>2. i-1 = 0 \/ InTree(n, i-1)
        BY <3>1, InsertedFacts DEF BuildInv
      <4>3. NodeOf(n, i-1)' = NodeOf(n, i-1)
        BY <1>12, <4>2
      <4> QED  BY <1>7, <4>1, <4>3
    <3>2. CASE n = m /\ i = s
      <4>1. NodeOf(m, s-1)' = p
        BY <1>2, <1>12
      <4>2. tree'[N + 1].up = p
        BY <1>7 DEF Node
      <4> QED  BY <1>12, <3>2, <4>1, <4>2
    <3> QED  BY <1>10, <2>5, <3>1, <3>2
  <2>6. (\A n, i : InTree(n, i) => tree[NodeOf(n, i)].up = NodeOf(n, i-1))'
    BY <2>5
  <2> QED  BY <2>1, <2>2, <2>3, <2>4, <2>6 DEF Named
<1>14. Leaves'
  <2>1. ASSUME NEW n \in DOMAIN plans, n < m PROVE \E l \in DOMAIN tree' : IsLeaf(n, l)'
    <3>1. PICK l \in DOMAIN tree : IsLeaf(n, l)
      BY <1>0, <2>1 DEF BuildInv, Leaves
    <3>2. n \in Nat \ {0} /\ Len(plans[n].steps) \in Nat
          /\ DOMAIN plans[n].steps = 1 .. Len(plans[n].steps)
      BY PlanFacts DEF BuildInv
    <3>3. /\ l \in DOMAIN tree \ {Root} /\ tree[l].action = n-1 /\ tree[l].actions = <<>>
          /\ tree[l].up = NodeOf(n, Len(plans[n].steps))
          /\ \A k \in DOMAIN tree : tree[k].action = n-1 => k = l
      BY <3>1 DEF IsLeaf
    <3>4. l # p
      BY <1>6, <3>2, <3>3
    <3>5. Len(plans[n].steps) = 0 \/ InTree(n, Len(plans[n].steps))
      BY <1>0, <2>1, <3>2 DEF InTree
    <3>6. NodeOf(n, Len(plans[n].steps))' = NodeOf(n, Len(plans[n].steps))
      <4>1. PICK L : L = Len(plans[n].steps)
        OBVIOUS
      <4>2. L = Len(plans'[n].steps) /\ NodeOf(n, L)' = NodeOf(n, L)
        BY <1>4, <1>12, <3>5, <4>1
      <4>3. NodeOf(n, Len(plans[n].steps))' = NodeOf(n, L)'
        BY <4>2 DEF NodeOf, IdOf, Root
      <4> QED  BY <4>1, <4>2, <4>3
    <3>7. tree'[l] = tree[l] /\ l \in DOMAIN tree'
      BY <1>7, <3>3, <3>4
    <3>8. \A k \in DOMAIN tree' : tree'[k].action = n-1 => k = l
      <4> SUFFICES ASSUME NEW k \in DOMAIN tree', tree'[k].action = n-1 PROVE k = l
        OBVIOUS
      <4>1. tree'[N + 1].action = -1
        BY <1>7 DEF Node
      <4>2. k # N + 1
        BY <3>2, <4>1
      <4>3. k \in DOMAIN tree
        BY <1>7, <4>2
      <4> QED  BY <1>7, <3>3, <4>3
    <3> QED  BY <1>4, <3>3, <3>6, <3>7, <3>8 DEF IsLeaf, Root
  <2>2. \A n \in DOMAIN tree' : tree'[n].action \in -1 .. m-2
    <3>1. \A n \in DOMAIN tree : tree'[n].action \in -1 .. m-2
      BY <1>0, <1>7 DEF BuildInv, Leaves
    <3>2. tree'[N + 1].action \in -1 .. m-2
      BY <1>2, <1>7 DEF Node
    <3> QED  BY <1>7, <3>1, <3>2
  <2>3. tree'[Root].action = -1
    BY <1>7 DEF BuildInv, Leaves, Root
  <2>4. (\A n \in DOMAIN plans : n < at.plan => \E l \in DOMAIN tree : IsLeaf(n, l))'
    BY <1>3, <1>4, <2>1
  <2>5. (\A n \in DOMAIN tree : tree[n].action \in -1 .. at.plan-2)'
    BY <1>3, <2>2
  <2> QED  BY <2>3, <2>4, <2>5 DEF Leaves, Root
<1>15. Followed'
  <2>1. (parent = IF at.step = 1 THEN RootPointer ELSE nodes[IdOf(at.plan, at.step-1)])'
    <3>1. at'.step # 1 /\ at'.step-1 = s
      BY <1>2, <1>3
    <3>2. parent' = nodes'[plans'[m].steps[s].id]
      BY <1>1, <1>2, <1>4, <1>11 DEF IdOf
    <3> QED  BY <1>3, <3>1, <3>2 DEF IdOf
  <2>2. ASSUME NEW i \in DOMAIN plans[m].steps, NEW id, id = IdOf(m, i), id \in DOMAIN nodes',
               NEW q, q = nodes'[id]
        PROVE  Valid(q)'
    <3>1. CASE id = key
      <4>1. q = PointerToChild(p)
        BY <1>11, <2>2, <3>1
      <4>2. q.node = N + 1 /\ q.size = Len(tree[p].actions) + 1
        BY <1>0, <4>1 DEF PointerToChild
      <4>3. Len(tree'[p].actions) = Len(tree[p].actions) + 1
        <5>1. tree[p].actions \in Seq(Nat)
          BY <1>6, NodeType DEF BuildInv
        <5> QED  BY <1>7, <5>1
      <4>4. tree'[N + 1].up = p
        BY <1>7 DEF Node
      <4> QED  BY <4>2, <4>3, <4>4 DEF Valid
    <3>2. CASE id # key
      <4>1. id \in DOMAIN nodes /\ nodes'[id] = nodes[id]
        BY <1>11, <2>2, <3>2
      <4>2. Valid(nodes[id])
        BY <1>0, <1>2, <2>2, <4>1 DEF BuildInv, Followed
      <4>3. i < s
        <5> SUFFICES ASSUME ~(i < s) PROVE FALSE
          OBVIOUS
        <5>1. s \in 1 .. i
          BY <1>2
        <5>2. IdOf(m, s) \in DOMAIN nodes
          BY <1>2, <2>2, <4>1, <5>1, Inserter
        <5> QED  BY <1>2, <5>2
      <4>4. InTree(m, i) /\ i \in Nat \ {0}
        BY <1>0, <1>2, <4>3 DEF InTree
      <4>5. /\ nodes[id].node \in DOMAIN tree /\ nodes[id].node = NodeOf(m, i)
            /\ tree[nodes[id].node].up = NodeOf(m, i-1)
        BY <2>2, <4>4, NodeFacts
      <4>6. NodeOf(m, i-1) # p
        <5> SUFFICES ASSUME NodeOf(m, i-1) = NodeOf(m, s-1) PROVE FALSE
          BY <1>2
        <5>1. i-1 \in Nat /\ s-1 \in Nat /\ i-1 # s-1
          BY <1>2, <4>3, <4>4
        <5>2. i-1 = 0 \/ InTree(m, i-1)
          BY <4>4, InsertedFacts DEF BuildInv
        <5> QED  BY <1>2, <5>1, <5>2, NodeTellsPlace
      <4>7. q = nodes[id]
        BY <2>2, <4>1, SMTT(30)
      <4> QED
        BY <1>1, <1>6, <4>2, <4>5, <4>6, <4>7, GrowValid DEF BuildInv
    <3> QED  BY <3>1, <3>2
  <2>3. (at.plan \in DOMAIN plans =>
          \A i \in DOMAIN plans[at.plan].steps :
            IdOf(at.plan, i) \in DOMAIN nodes => Valid(nodes[IdOf(at.plan, i)]))'
    <3> SUFFICES ASSUME NEW i \in DOMAIN plans'[m].steps, plans'[m].steps[i].id \in DOMAIN nodes'
                 PROVE  Valid(nodes[plans[m].steps[i].id])'
      BY <1>3 DEF IdOf
    <3>1. PICK id : id = IdOf(m, i)
      OBVIOUS
    <3>2. id = plans'[m].steps[i].id /\ i \in DOMAIN plans[m].steps
      BY <1>4, <3>1 DEF IdOf
    <3>3. PICK q : q = nodes'[id]
      OBVIOUS
    <3>4. Valid(q)'
      BY <2>2, <3>1, <3>2, <3>3
    <3> QED  BY <3>2, <3>3, <3>4, ZenonT(30) DEF Valid, Root
  <2> QED  BY <2>1, <2>3 DEF Followed
<1> QED  BY <1>5, <1>8, <1>9, <1>13, <1>14, <1>15 DEF BuildInv

LEMMA AddLeafKeeps ==
  ASSUME BuildInv, AddLeaf
  PROVE  BuildInv'
<1>0. PICK m, L, p, N :
        m = at.plan /\ L = Len(plans[at.plan].steps) /\ p = parent.node /\ N = Len(tree)
  OBVIOUS
<1>1. /\ Building /\ ~AtStep /\ tree' = WithChild(p, m - 1)
      /\ parent' = RootPointer /\ at' = [plan |-> m + 1, step |-> 1]
      /\ UNCHANGED plannerVars /\ nodes' = nodes
  BY <1>0 DEF AddLeaf, LeafAction
<1>2. /\ m \in DOMAIN plans /\ m \in Nat \ {0} /\ L = Len(plans[m].steps) /\ L \in Nat
      /\ DOMAIN plans[m].steps = 1 .. L /\ at.step = L + 1
      /\ p = NodeOf(m, L) /\ (L = 0 \/ InTree(m, L))
      /\ Len(plans) \in Nat /\ DOMAIN plans = 1 .. Len(plans)
  <2>1. at.step = L + 1 /\ L \in Nat
    BY <1>0, <1>1, BuildingFacts
  <2>2. at.step-1 = L
    BY <2>1
  <2> QED  BY <1>0, <1>1, <2>1, <2>2, BuildingFacts, PlanFacts DEF BuildInv
<1>3. at'.plan = m + 1 /\ at'.step = 1
  BY <1>1
<1>4. UNCHANGED <<plans, stack, steps, running_reduction_id>>
  BY <1>1 DEF plannerVars
<1>5. PathInv' /\ WalkInv'
  BY <1>1, StepOK, WalkStep DEF BuildInv
<1>6. p \in DOMAIN tree /\ tree[p].action = -1
  BY <1>2, AboveFacts
<1>7. /\ N \in Nat \ {0} /\ DOMAIN tree = 1 .. N /\ Len(tree') = N + 1 /\ DOMAIN tree' = 1 .. N + 1
      /\ \A n \in DOMAIN tree :
           /\ tree'[n].up = tree[n].up /\ tree'[n].action = tree[n].action
           /\ n # p => tree'[n] = tree[n]
      /\ tree'[N + 1] = Node(p, m - 1)
  <2>1. m - 1 \in Int
    BY <1>2
  <2> QED  BY <1>0, <1>1, <1>6, <2>1, GrowFacts DEF BuildInv, TreeShape
<1>8. TreeShape'
  <2>1. m - 1 \in Int
    BY <1>2
  <2> QED  BY <1>1, <1>6, <2>1, GrowShape DEF BuildInv
<1>9. Place'
  <2>1. ~Enumerating'
    BY <1>1, <1>4 DEF Building, Enumerating
  <2>2. at' \in [plan : Nat \ {0}, step : Nat \ {0}]
    BY <1>1, <1>2
  <2>3. /\ m + 1 <= Len(plans') + 1 /\ Len(tree') # 1
        /\ m + 1 \in DOMAIN plans' => 1 <= Len(plans'[m + 1].steps) + 1
    <3>1. m + 1 \in DOMAIN plans => Len(plans[m + 1].steps) \in Nat
      BY PlanFacts DEF BuildInv
    <3> QED  BY <1>2, <1>4, <1>7, <3>1
  <2> QED  BY <1>3, <2>1, <2>2, <2>3 DEF Place
<1>10. \A n, i : InTree(n, i)' <=> InTree(n, i)
  <2> TAKE n, i
  <2>1. n \in DOMAIN plans /\ i \in DOMAIN plans[n].steps => n \in Nat /\ i \in Nat \ {0}
    BY PlanFacts DEF BuildInv
  <2>2. n = m /\ i \in DOMAIN plans[n].steps => i < L + 1
    BY <1>2
  <2> QED  BY <1>0, <1>2, <1>3, <1>4, <2>1, <2>2 DEF InTree
<1>11. \A n, i : IdOf(n, i)' = IdOf(n, i) /\ NodeOf(n, i)' = NodeOf(n, i)
  BY <1>1, <1>4 DEF IdOf, NodeOf, Root
<1>12. Named'
  <2>1. (\A n, i : InTree(n, i) => IdOf(n, i) \in DOMAIN nodes)'
    BY <1>1, <1>10, <1>11 DEF BuildInv, Named
  <2>2. (\A id \in DOMAIN nodes : \E n \in DOMAIN plans : \E i \in DOMAIN plans[n].steps :
           InTree(n, i) /\ id = IdOf(n, i))'
    BY <1>1, <1>4, <1>10, <1>11 DEF BuildInv, Named
  <2>3. (\A id \in DOMAIN nodes : /\ nodes[id].node \in DOMAIN tree \ {Root}
                                  /\ tree[nodes[id].node].action = -1)'
    BY <1>1, <1>7 DEF BuildInv, Named, Root
  <2>4. (\A id, jd \in DOMAIN nodes : nodes[id].node = nodes[jd].node => id = jd)'
    BY <1>1 DEF BuildInv, Named
  <2>5. ASSUME NEW n, NEW i, InTree(n, i)' PROVE tree'[NodeOf(n, i)'] .up = NodeOf(n, i-1)'
    <3>1. InTree(n, i)
      BY <1>10, <2>5
    <3>2. /\ NodeOf(n, i) \in DOMAIN tree /\ tree[NodeOf(n, i)].up = NodeOf(n, i-1)
      BY <3>1, NodeFacts
    <3> QED  BY <1>7, <1>11, <3>2
  <2>6. (\A n, i : InTree(n, i) => tree[NodeOf(n, i)].up = NodeOf(n, i-1))'
    BY <2>5
  <2> QED  BY <2>1, <2>2, <2>3, <2>4, <2>6 DEF Named
<1>13. /\ tree'[N + 1].action = m - 1 /\ tree'[N + 1].actions = <<>> /\ tree'[N + 1].up = p
  BY <1>7 DEF Node
<1>14. \A n \in DOMAIN tree : tree[n].action \in -1 .. m-2
  BY <1>0 DEF BuildInv, Leaves
<1>15. Leaves'
  <2>1. ASSUME NEW n \in DOMAIN plans, n < m PROVE \E l \in DOMAIN tree' : IsLeaf(n, l)'
    <3>1. PICK l \in DOMAIN tree : IsLeaf(n, l)
      BY <1>0, <2>1 DEF BuildInv, Leaves
    <3>2. n \in Nat \ {0}
      BY <1>2
    <3>3. /\ l \in DOMAIN tree \ {Root} /\ tree[l].action = n-1 /\ tree[l].actions = <<>>
          /\ tree[l].up = NodeOf(n, Len(plans[n].steps))
          /\ \A k \in DOMAIN tree : tree[k].action = n-1 => k = l
      BY <3>1 DEF IsLeaf
    <3>4. l # p
      BY <1>6, <3>2, <3>3
    <3>5. tree'[l] = tree[l] /\ l \in DOMAIN tree'
      BY <1>7, <3>3, <3>4
    <3>6. NodeOf(n, Len(plans[n].steps))' = NodeOf(n, Len(plans[n].steps))
      BY <1>1, <1>4 DEF NodeOf, IdOf, Root
    <3>7. \A k \in DOMAIN tree' : tree'[k].action = n-1 => k = l
      BY <1>2, <1>7, <1>13, <2>1, <3>2, <3>3
    <3> QED  BY <1>4, <3>3, <3>5, <3>6, <3>7 DEF IsLeaf, Root
  <2>2. IsLeaf(m, N + 1)'
    <3>1. (tree[N + 1].up = NodeOf(m, Len(plans[m].steps)))'
      <4>1. NodeOf(m, Len(plans[m].steps))' = NodeOf(m, Len(plans[m].steps))
        BY <1>1, <1>4 DEF NodeOf, IdOf, Root
      <4> QED  BY <1>2, <1>13, <4>1
    <3>2. \A k \in DOMAIN tree' : tree'[k].action = m-1 => k = N + 1
      <4>1. \A k \in DOMAIN tree : tree'[k].action # m-1
        BY <1>2, <1>7, <1>14
      <4> QED  BY <1>7, <4>1
    <3>3. N + 1 \in DOMAIN tree' \ {Root}
      BY <1>7 DEF Root
    <3> QED  BY <1>13, <3>1, <3>2, <3>3 DEF IsLeaf, Root
  <2>3. ASSUME NEW n \in DOMAIN plans', n < m + 1 PROVE \E l \in DOMAIN tree' : IsLeaf(n, l)'
    <3>1. CASE n < m
      BY <1>4, <2>1, <3>1
    <3>2. CASE n = m
      BY <1>7, <2>2, <3>2
    <3> QED  BY <1>2, <1>4, <2>3, <3>1, <3>2
  <2>4. (\A n \in DOMAIN plans : n < at.plan => \E l \in DOMAIN tree : IsLeaf(n, l))'
    BY <1>3, <2>3
  <2>5. (\A n \in DOMAIN tree : tree[n].action \in -1 .. at.plan-2)'
    <3>1. \A n \in DOMAIN tree : tree'[n].action \in -1 .. m-2
      BY <1>7, <1>14
    <3> QED  BY <1>2, <1>3, <1>7, <1>13, <3>1
  <2>6. (tree[Root].action = -1)'
    BY <1>7 DEF BuildInv, Leaves, Root
  <2> QED  BY <2>4, <2>5, <2>6 DEF Leaves
<1>16. Followed'
  <2>1. (parent = IF at.step = 1 THEN RootPointer ELSE nodes[IdOf(at.plan, at.step-1)])'
    BY <1>1, <1>3 DEF RootPointer, Root
  <2>2. ASSUME m + 1 \in DOMAIN plans, NEW i \in DOMAIN plans[m + 1].steps,
               NEW id, id = IdOf(m + 1, i), id \in DOMAIN nodes, NEW q, q = nodes[id]
        PROVE  Valid(q)'
    <3>1. PICK n : InTree(n, i) /\ n \in DOMAIN plans /\ IdOf(n, i) = id
      <4>1. i \in 1 .. i
        BY <2>2, PlanFacts DEF BuildInv
      <4> QED  BY <2>2, <4>1, Inserter
    <3>2. n \in Nat \ {0} /\ i \in Nat \ {0} /\ n <= m /\ i \in DOMAIN plans[n].steps
      BY <1>0, <1>2, <3>1, InsertedFacts DEF BuildInv, InTree
    <3>3. i \in DOMAIN plans[m].steps /\ IdOf(m, i) = id
      <4>1. CASE n = m
        BY <3>1, <3>2, <4>1
      <4>2. CASE n < m
        <5>1. Between(plans[n].steps, plans[m].steps, plans[m + 1].steps)
          BY <1>2, <2>2, <3>1, <4>2 DEF BuildInv, WalkInv
        <5>2. Shares(plans[n].steps, plans[m + 1].steps, i)
          BY <2>2, <3>1, <3>2 DEF Shares, IdOf
        <5>3. Shares(plans[n].steps, plans[m].steps, i)
          BY <3>2, <5>1, <5>2 DEF Between
        <5> QED  BY <3>1, <5>3 DEF Shares, IdOf
      <4> QED  BY <1>2, <3>2, <4>1, <4>2
    <3>4. Valid(q)
      BY <1>0, <1>2, <2>2, <3>3 DEF BuildInv, Followed
    <3>5. InTree(m, i)
      BY <1>0, <1>2, <3>2, <3>3 DEF InTree
    <3>6. q.node \in DOMAIN tree /\ tree[q.node].up = NodeOf(m, i-1)
      BY <2>2, <3>3, <3>5, NodeFacts
    <3>7. NodeOf(m, i-1) # p
      <4> SUFFICES ASSUME NodeOf(m, i-1) = NodeOf(m, L) PROVE FALSE
        BY <1>2
      <4>1. i-1 \in Nat /\ i-1 # L
        BY <1>2, <3>2, <3>3
      <4>2. i-1 = 0 \/ InTree(m, i-1)
        BY <3>5, InsertedFacts DEF BuildInv
      <4> QED  BY <1>2, <4>1, <4>2, NodeTellsPlace
    <3>8. m - 1 \in Int
      BY <1>2, SMTT(30)
    <3> QED  BY <1>1, <1>6, <3>4, <3>6, <3>7, <3>8, GrowValid DEF BuildInv
  <2>3. (at.plan \in DOMAIN plans =>
          \A i \in DOMAIN plans[at.plan].steps :
            IdOf(at.plan, i) \in DOMAIN nodes => Valid(nodes[IdOf(at.plan, i)]))'
    <3> SUFFICES ASSUME m + 1 \in DOMAIN plans',
                        NEW i \in DOMAIN plans'[m + 1].steps,
                        plans'[m + 1].steps[i].id \in DOMAIN nodes'
                 PROVE  Valid(nodes[plans[m + 1].steps[i].id])'
      BY <1>3 DEF IdOf
    <3>1. PICK id : id = IdOf(m + 1, i)
      OBVIOUS
    <3>2. id = plans'[m + 1].steps[i].id /\ i \in DOMAIN plans[m + 1].steps /\ m + 1 \in DOMAIN plans
      BY <1>4, <3>1 DEF IdOf
    <3>3. PICK q : q = nodes[id]
      OBVIOUS
    <3>4. Valid(q)'
      BY <1>1, <2>2, <3>1, <3>2, <3>3
    <3> QED  BY <1>1, <3>2, <3>3, <3>4, ZenonT(30) DEF Valid, Root
  <2> QED  BY <2>1, <2>3 DEF Followed
<1> QED  BY <1>5, <1>8, <1>9, <1>12, <1>15, <1>16 DEF BuildInv

LEMMA BuildInit == TreeInit => BuildInv
<1> SUFFICES ASSUME TreeInit PROVE BuildInv
  OBVIOUS
<1>1. PathInv /\ WalkInv
  BY InitOK, WalkInit DEF TreeInit
<1>2. /\ plans = <<>> /\ tree = <<Node(0, -1)>> /\ nodes = <<>> /\ parent = RootPointer
      /\ at = [plan |-> 1, step |-> 1] /\ DOMAIN nodes = {}
  BY DEF TreeInit, Init
<1>3. Node(0, -1) \in TreeNodes /\ Node(0, -1).actions = <<>> /\ Node(0, -1).action = -1
  BY DEF Node, TreeNodes
<1>4. DOMAIN tree = {1} /\ Len(tree) = 1 /\ tree[1] = Node(0, -1) /\ tree \in Seq(TreeNodes)
  BY <1>2, <1>3
<1>5. TreeShape
  BY <1>3, <1>4 DEF TreeShape, Root
<1>6. DOMAIN plans = {} /\ Len(plans) = 0
  BY <1>2
<1>7. Place
  BY <1>2, <1>4, <1>6 DEF Place
<1>8. Named
  BY <1>2, <1>6 DEF Named, InTree
<1>9. Leaves
  BY <1>2, <1>3, <1>4, <1>6 DEF Leaves, Root
<1>10. Followed
  BY <1>2, <1>6 DEF Followed
<1> QED  BY <1>1, <1>5, <1>7, <1>8, <1>9, <1>10 DEF BuildInv

(* Selections change what the nodes count, and nothing else in the tree.   *)
SameNodes(t) ==
  /\ t \in Seq(TreeNodes) /\ Len(t) = Len(tree)
  /\ \A n \in DOMAIN tree :
       /\ t[n].up = tree[n].up /\ t[n].action = tree[n].action
       /\ t[n].actions = tree[n].actions

LEMMA SelectionKeeps ==
  ASSUME BuildInv, UNCHANGED <<plannerVars, nodes, parent, at>>, NEW t, t = tree', SameNodes(t)
  PROVE  BuildInv'
<1>1. /\ t \in Seq(TreeNodes) /\ Len(t) = Len(tree) /\ DOMAIN t = DOMAIN tree
      /\ DOMAIN tree = 1 .. Len(tree) /\ Len(tree) \in Nat
      /\ \A n \in DOMAIN tree :
           /\ t[n].up = tree[n].up /\ t[n].action = tree[n].action
           /\ t[n].actions = tree[n].actions
  BY DEF SameNodes, BuildInv, TreeShape
<1>2. UNCHANGED <<plans, stack, steps, running_reduction_id, nodes, parent, at>>
  BY DEF plannerVars
<1>3. PathInv' /\ WalkInv'
  BY StepOK, WalkStep DEF BuildInv
<1>4. TreeShape'
  <2>1. (tree \in Seq(TreeNodes) /\ Len(tree) >= 1)'
    BY <1>1 DEF BuildInv, TreeShape, TreeNodes
  <2>2. (\A n \in DOMAIN tree : n # Root => tree[n].up \in 1 .. n-1)'
    BY <1>1 DEF BuildInv, TreeShape, Root
  <2>3. (\A n \in DOMAIN tree : \A i \in DOMAIN tree[n].actions :
           /\ tree[n].actions[i] \in DOMAIN tree \ {Root}
           /\ tree[tree[n].actions[i]].up = n)'
    <3>1. ASSUME NEW n \in DOMAIN tree, NEW i \in DOMAIN tree[n].actions,
                 NEW c, c = tree[n].actions[i]
          PROVE  c \in DOMAIN t \ {Root} /\ t[c].up = n
      <4>1. c \in DOMAIN tree \ {Root} /\ tree[c].up = n
        BY <3>1 DEF BuildInv, TreeShape
      <4> QED  BY <1>1, <4>1
    <3>2. ASSUME NEW n \in DOMAIN t, NEW i \in DOMAIN t[n].actions
          PROVE  t[n].actions[i] \in DOMAIN t \ {Root} /\ t[t[n].actions[i]].up = n
      BY <1>1, <3>1
    <3> QED  BY <3>2 DEF Root
  <2>4. (\A n \in DOMAIN tree : \A i, j \in DOMAIN tree[n].actions :
           tree[n].actions[i] = tree[n].actions[j] => i = j)'
    BY <1>1 DEF BuildInv, TreeShape
  <2> QED  BY <2>1, <2>2, <2>3, <2>4 DEF TreeShape
<1>5. Place'
  BY <1>1, <1>2 DEF BuildInv, Place, Enumerating
<1>6. \A m, i : /\ InTree(m, i)' <=> InTree(m, i)
                /\ IdOf(m, i)' = IdOf(m, i) /\ NodeOf(m, i)' = NodeOf(m, i)
  BY <1>2 DEF InTree, IdOf, NodeOf, Root
<1>7. Named'
  <2>1. (\A m, i : InTree(m, i) => IdOf(m, i) \in DOMAIN nodes)'
    BY <1>2, <1>6 DEF BuildInv, Named
  <2>2. (\A id \in DOMAIN nodes : \E n \in DOMAIN plans : \E i \in DOMAIN plans[n].steps :
           InTree(n, i) /\ id = IdOf(n, i))'
    BY <1>2, <1>6 DEF BuildInv, Named
  <2>3. (\A id \in DOMAIN nodes : /\ nodes[id].node \in DOMAIN tree \ {Root}
                                  /\ tree[nodes[id].node].action = -1)'
    BY <1>1, <1>2 DEF BuildInv, Named, Root
  <2>4. (\A id, jd \in DOMAIN nodes : nodes[id].node = nodes[jd].node => id = jd)'
    BY <1>2 DEF BuildInv, Named
  <2>5. ASSUME NEW n, NEW i, InTree(n, i)' PROVE tree'[NodeOf(n, i)'] .up = NodeOf(n, i-1)'
    <3>1. InTree(n, i)
      BY <1>6, <2>5
    <3>2. NodeOf(n, i) \in DOMAIN tree /\ tree[NodeOf(n, i)].up = NodeOf(n, i-1)
      BY <3>1, NodeFacts
    <3> QED  BY <1>1, <1>6, <3>2
  <2>6. (\A n, i : InTree(n, i) => tree[NodeOf(n, i)].up = NodeOf(n, i-1))'
    BY <2>5
  <2> QED  BY <2>1, <2>2, <2>3, <2>4, <2>6 DEF Named
<1>8. Leaves'
  <2>1. ASSUME NEW m \in DOMAIN plans, NEW l \in DOMAIN tree, IsLeaf(m, l) PROVE IsLeaf(m, l)'
    <3>1. NodeOf(m, Len(plans[m].steps))' = NodeOf(m, Len(plans[m].steps))
      BY <1>2 DEF NodeOf, IdOf, Root
    <3> QED  BY <1>1, <1>2, <2>1, <3>1 DEF IsLeaf, Root
  <2>2. (\A m \in DOMAIN plans : m < at.plan => \E l \in DOMAIN tree : IsLeaf(m, l))'
    BY <1>1, <1>2, <2>1 DEF BuildInv, Leaves
  <2>3. Root \in DOMAIN tree
    BY DEF BuildInv, TreeShape, Root
  <2> QED  BY <1>1, <1>2, <2>2, <2>3 DEF BuildInv, Leaves, Root
<1>9. Followed'
  <2>1. (parent = IF at.step = 1 THEN RootPointer ELSE nodes[IdOf(at.plan, at.step-1)])'
    BY <1>2 DEF BuildInv, Followed, IdOf, RootPointer, Root
  <2>2. ASSUME NEW id \in DOMAIN nodes, NEW q, q = nodes[id], Valid(q) PROVE Valid(q)'
    <3>1. q.node \in DOMAIN tree \ {Root} /\ tree[q.node].up \in 1 .. q.node-1
      BY <2>2 DEF BuildInv, Named, TreeShape
    <3>2. tree[q.node].up \in DOMAIN tree
      BY <1>1, <3>1
    <3> QED  BY <1>1, <2>2, <3>1, <3>2, SMTT(30) DEF Valid, Root
  <2>3. (at.plan \in DOMAIN plans =>
          \A i \in DOMAIN plans[at.plan].steps :
            IdOf(at.plan, i) \in DOMAIN nodes => Valid(nodes[IdOf(at.plan, i)]))'
    <3> SUFFICES ASSUME at.plan \in DOMAIN plans, NEW i \in DOMAIN plans[at.plan].steps,
                        plans[at.plan].steps[i].id \in DOMAIN nodes
                 PROVE  Valid(nodes[plans[at.plan].steps[i].id])'
      BY <1>2 DEF IdOf
    <3>1. PICK id, q : id = IdOf(at.plan, i) /\ q = nodes[id]
      OBVIOUS
    <3>2. id \in DOMAIN nodes /\ id = plans[at.plan].steps[i].id /\ Valid(q)
      BY <3>1 DEF BuildInv, Followed, IdOf
    <3>3. Valid(q)'
      BY <2>2, <3>1, <3>2
    <3> QED  BY <1>2, <3>1, <3>2, <3>3, ZenonT(30) DEF Valid, Root
  <2> QED  BY <2>1, <2>3 DEF Followed
<1> QED  BY <1>3, <1>4, <1>5, <1>7, <1>8, <1>9 DEF BuildInv

(* A sequence with one element changed.                                    *)
LEMMA ChangedNodes ==
  ASSUME TreeShape, NEW t, DOMAIN t = DOMAIN tree, t = [n \in DOMAIN tree |-> t[n]],
         \A n \in DOMAIN tree : t[n] \in TreeNodes,
         \A n \in DOMAIN tree :
           /\ t[n].up = tree[n].up /\ t[n].action = tree[n].action
           /\ t[n].actions = tree[n].actions
  PROVE  SameNodes(t)
<1>1. Len(tree) \in Nat /\ DOMAIN tree = 1 .. Len(tree)
  BY DEF TreeShape
<1>2. t \in Seq(TreeNodes) /\ Len(t) = Len(tree)
  <2> DEFINE e(n) == t[n]
             N == Len(tree)
  <2>1. t = [n \in 1 .. N |-> e(n)] /\ N \in Nat /\ \A n \in 1 .. N : e(n) \in TreeNodes
    BY <1>1
  <2> HIDE DEF e, N
  <2>2. [n \in 1 .. N |-> e(n)] \in Seq(TreeNodes) /\ Len([n \in 1 .. N |-> e(n)]) = N
    BY <2>1, SeqDef, LenProperties
  <2>3. N = Len(tree)
    BY DEF N
  <2> QED  BY <2>1, <2>2, <2>3
<1> QED  BY <1>2 DEF SameNodes

LEMMA TriedNodes ==
  ASSUME TreeShape, SelectUntried
  PROVE  /\ SameNodes(tree')
         /\ \A n \in DOMAIN tree : tree'[n].nr_of_selections = tree[n].nr_of_selections
<1> DEFINE p == Last(path)
           ids == tree[p].untried_action_ids
           t == [tree EXCEPT ![p].untried_action_ids = Front(ids)]
<1>1. ids # <<>> /\ tree' = t
  BY DEF SelectUntried, Tried
<1>2. \A n \in DOMAIN tree : n # p => t[n] = tree[n]
  OBVIOUS
<1>3. ASSUME p \in DOMAIN tree
      PROVE  /\ t[p] \in TreeNodes
             /\ t[p].up = tree[p].up /\ t[p].action = tree[p].action
             /\ t[p].actions = tree[p].actions
             /\ t[p].nr_of_selections = tree[p].nr_of_selections
  <2>1. tree[p] \in TreeNodes /\ ids \in Seq(Nat)
    BY <1>3, NodeType
  <2>2. Front(ids) \in Seq(Nat)
    <3> HIDE DEF ids
    <3> QED  BY <1>1, <2>1, FrontFacts
  <2>3. t[p] = [tree[p] EXCEPT !.untried_action_ids = Front(ids)]
    BY <1>3
  <2> QED  BY <2>1, <2>2, <2>3, ZenonT(30) DEF TreeNodes
<1>4. DOMAIN t = DOMAIN tree /\ t = [n \in DOMAIN tree |-> t[n]]
  OBVIOUS
<1>5. \A n \in DOMAIN tree :
        /\ t[n] \in TreeNodes
        /\ t[n].up = tree[n].up /\ t[n].action = tree[n].action
        /\ t[n].actions = tree[n].actions
        /\ t[n].nr_of_selections = tree[n].nr_of_selections
  <2> HIDE DEF t
  <2>1. \A n \in DOMAIN tree : tree[n] \in TreeNodes
    BY NodeType
  <2> QED  BY <1>2, <1>3, <2>1
<1> HIDE DEF t
<1>6. SameNodes(t)
  BY <1>4, <1>5, ChangedNodes
<1> QED  BY <1>1, <1>5, <1>6

LEMMA UpdatedNodes ==
  ASSUME TreeShape, Update
  PROVE  /\ SameNodes(tree')
         /\ \A n \in DOMAIN tree :
              /\ tree'[n].untried_action_ids = tree[n].untried_action_ids
              /\ tree'[n].nr_of_selections =
                   tree[n].nr_of_selections + (IF n \in ToSet(path) THEN 1 ELSE 0)
<1> DEFINE e(n) == IF Counted(n) THEN [tree[n] EXCEPT !.nr_of_selections = @ + 1] ELSE tree[n]
           t == [n \in DOMAIN tree |-> e(n)]
<1>1. tree' = t
  BY DEF Update
<1>2. ASSUME NEW n \in DOMAIN tree
      PROVE  /\ e(n) \in TreeNodes
             /\ e(n).up = tree[n].up /\ e(n).action = tree[n].action
             /\ e(n).actions = tree[n].actions
             /\ e(n).untried_action_ids = tree[n].untried_action_ids
             /\ e(n).nr_of_selections =
                  tree[n].nr_of_selections + (IF n \in ToSet(path) THEN 1 ELSE 0)
  <2>1. tree[n] \in TreeNodes
    BY NodeType
  <2>2. PICK x, y : x = tree[n] /\ y = [tree[n] EXCEPT !.nr_of_selections = @ + 1]
    OBVIOUS
  <2>3. Counted(n) <=> n \in ToSet(path)
    BY DEF Counted
  <2>4. CASE Counted(n)
    <3>1. e(n) = y /\ y = [x EXCEPT !.nr_of_selections = x.nr_of_selections + 1] /\ x \in TreeNodes
      BY <2>1, <2>2, <2>4
    <3>2. /\ y \in TreeNodes /\ y.up = x.up /\ y.action = x.action /\ y.actions = x.actions
          /\ y.untried_action_ids = x.untried_action_ids
          /\ y.nr_of_selections = x.nr_of_selections + 1
      <4> HIDE DEF e
      <4>1. /\ x.up \in Nat /\ x.action \in Int /\ x.actions \in Seq(Nat)
            /\ x.untried_action_ids \in Seq(Nat) /\ x.nr_of_selections \in Nat
        BY <3>1 DEF TreeNodes
      <4>2. y = [up |-> x.up, action |-> x.action, actions |-> x.actions,
                 untried_action_ids |-> x.untried_action_ids,
                 nr_of_selections |-> x.nr_of_selections + 1]
        BY <3>1 DEF TreeNodes
      <4>3. x.nr_of_selections + 1 \in Nat
        BY <4>1
      <4> QED  BY <4>1, <4>2, <4>3 DEF TreeNodes
    <3> QED  BY <2>2, <2>3, <2>4, <3>1, <3>2
  <2>5. CASE ~Counted(n)
    <3>1. e(n) = x /\ x \in TreeNodes /\ x.nr_of_selections \in Nat
      BY <2>1, <2>2, <2>5 DEF TreeNodes
    <3>2. x.nr_of_selections = x.nr_of_selections + 0
      BY <3>1
    <3> QED  BY <2>2, <2>3, <2>5, <3>1, <3>2
  <2> QED  BY <2>4, <2>5
<1> HIDE DEF e
<1>3. /\ DOMAIN t = DOMAIN tree /\ t = [n \in DOMAIN tree |-> t[n]]
      /\ \A n \in DOMAIN tree : t[n] = e(n)
  OBVIOUS
<1>4. SameNodes(t)
  <2> HIDE DEF t
  <2> QED  BY <1>2, <1>3, ChangedNodes
<1> QED  BY <1>1, <1>2, <1>3, <1>4

LEMMA BuildStep == BuildInv /\ [TreeNext]_allVars => BuildInv'
<1> SUFFICES ASSUME BuildInv, [TreeNext]_allVars PROVE BuildInv'
  OBVIOUS
<1>0. TreeShape /\ SameNodes(tree)
  BY DEF BuildInv, TreeShape, SameNodes
<1>1. ASSUME UNCHANGED <<plannerVars, nodes, parent, at>>, SameNodes(tree') PROVE BuildInv'
  <2>1. PICK t : t = tree'
    OBVIOUS
  <2> QED  BY <1>1, <2>1, SelectionKeeps
<1>2. CASE UNCHANGED allVars
  BY <1>0, <1>1, <1>2 DEF allVars, treeVars
<1>3. CASE StartSelection \/ SelectBest
  BY <1>0, <1>1, <1>3 DEF StartSelection, SelectBest
<1>4. CASE SelectUntried
  <2>1. UNCHANGED <<plannerVars, nodes, parent, at>>
    BY <1>4 DEF SelectUntried
  <2> QED  BY <1>0, <1>1, <1>4, <2>1, TriedNodes
<1>5. CASE Update
  <2>1. UNCHANGED <<plannerVars, nodes, parent, at>>
    BY <1>5 DEF Update
  <2> QED  BY <1>0, <1>1, <1>5, <2>1, UpdatedNodes
<1>6. CASE Next /\ UNCHANGED treeVars
  BY <1>6, PlanningStep
<1> QED  BY <1>2, <1>3, <1>4, <1>5, <1>6, EraseStep, FollowStepKeeps, AddStepKeeps, AddLeafKeeps
         DEF TreeNext

LEMMA BuildInvPointers == BuildInv => PointersValid
<1> SUFFICES ASSUME BuildInv, Building PROVE PointersValid
  BY DEF PointersValid
<1>1. /\ at.plan \in DOMAIN plans /\ at.step \in Nat \ {0}
      /\ at.step-1 = 0 \/ InTree(at.plan, at.step-1)
      /\ AtStep => /\ at.step \in DOMAIN plans[at.plan].steps
                   /\ NodeKey(BuiltStep) = IdOf(at.plan, at.step)
  BY BuildingFacts
<1>2. Valid(parent)
  <2>1. CASE at.step = 1
    BY <2>1 DEF BuildInv, Followed, Valid, RootPointer
  <2>2. CASE at.step # 1
    <3>1. InTree(at.plan, at.step-1)
      BY <1>1, <2>2
    <3>2. IdOf(at.plan, at.step-1) \in DOMAIN nodes /\ at.step-1 \in DOMAIN plans[at.plan].steps
      BY <3>1 DEF BuildInv, Named, InTree
    <3> QED  BY <1>1, <2>2, <3>2 DEF BuildInv, Followed
  <2> QED  BY <2>1, <2>2
<1>3. AtStep /\ NodeKey(BuiltStep) \in DOMAIN nodes => Valid(nodes[NodeKey(BuiltStep)])
  BY <1>1 DEF BuildInv, Followed
<1> QED  BY <1>2, <1>3 DEF PointersValid

------------------------------------------------------------------------------
(* Paths.  The recursion of PathTo has a solution, since nodes stand       *)
(* behind their parents.                                                   *)
LEMMA PathFacts ==
  ASSUME TreeShape
  PROVE  /\ PathTo(Root) = <<Root>>
         /\ \A n \in DOMAIN tree :
              /\ PathTo(n) \in Seq(Nat)
              /\ n # Root => PathTo(n) = Append(PathTo(tree[n].up), n)
<1> DEFINE D == DOMAIN tree
           N == Len(tree)
           B == {Root}
           pred == [n \in D \ B |-> tree[n].up]
           rank == [n \in D |-> n]
           base == [n \in D |-> <<Root>>]
           step == [x \in D \X Seq(Nat) |-> Append(x[2], x[1])]
           Val(f, n) == IF n = Root THEN <<Root>> ELSE Append(f[tree[n].up], n)
<1>1. /\ N \in Nat /\ D = 1 .. N /\ Root \in D /\ Root \in Nat
      /\ \A n \in D : n # Root => tree[n].up \in D /\ tree[n].up < n
  <2>1. N \in Nat /\ D = 1 .. N /\ N >= 1
    BY DEF TreeShape
  <2>2. \A n \in D : n # Root => tree[n].up \in 1 .. n-1
    BY DEF TreeShape
  <2> QED  BY <2>1, <2>2 DEF Root
<1>2. \E f \in [D -> Seq(Nat)] : f = [n \in D |-> Val(f, n)]
  <2>1. /\ pred \in [D \ B -> D] /\ rank \in [D -> 0 .. N] /\ base \in [D -> Seq(Nat)]
        /\ \A n \in D \ B : rank[pred[n]] < rank[n]
    BY <1>1
  <2>2. step \in [D \X Seq(Nat) -> Seq(Nat)]
    BY <1>1
  <2>3. \A n \in D, s \in Seq(Nat) : step[<<n, s>>] = Append(s, n)
    OBVIOUS
  <2>4. /\ \A n \in D \ B : pred[n] = tree[n].up
        /\ \A n \in D : base[n] = <<Root>>
    OBVIOUS
  <2> HIDE DEF pred, rank, base, step, D, B, N
  <2>5. PICK f \in [D -> Seq(Nat)] : Solves(f, D, B, pred, base, step)
    <3>1. Ranked(D, B, pred, rank, N)
      BY <1>1, <2>1 DEF Ranked
    <3> QED  BY <2>1, <2>2, <3>1, PredRecursion
  <2>6. ASSUME NEW n \in D PROVE f[n] = Val(f, n)
    <3>1. CASE n = Root
      BY <2>4, <2>5, <3>1 DEF B, Solves
    <3>2. CASE n # Root
      <4>1. f[n] = step[<<n, f[pred[n]]>>]
        BY <2>5, <3>2 DEF B, Solves
      <4>2. pred[n] = tree[n].up /\ f[tree[n].up] \in Seq(Nat)
        BY <1>1, <2>4, <3>2 DEF B
      <4> QED  BY <2>3, <3>2, <4>1, <4>2
    <3> QED  BY <3>1, <3>2
  <2>7. f = [n \in D |-> Val(f, n)]
    BY <2>6, SMTT(30)
  <2> QED  BY <2>7
<1> DEFINE above == CHOOSE f : f = [n \in D |-> Val(f, n)]
<1>3. above = [n \in D |-> Val(above, n)]
  BY <1>2, ZenonT(30)
<1>4. \A n : PathTo(n) = above[n]
  BY DEF PathTo
<1> HIDE DEF above
<1>5. \A n \in D : above[n] = Val(above, n)
  BY <1>3
<1>6. D \subseteq {n \in D : above[n] \in Seq(Nat)}
  <2> DEFINE P == {n \in D : above[n] \in Seq(Nat)}
  <2>1. rank \in [D -> Nat]
    BY <1>1
  <2>2. above[Root] \in Seq(Nat) /\ \A n \in D : n # Root => above[n] = Append(above[tree[n].up], n)
    <3>1. above[Root] = <<Root>>
      BY <1>1, <1>5
    <3>2. <<Root>> \in Seq(Nat)
      BY <1>1
    <3>3. \A n \in D : n # Root => above[n] = Append(above[tree[n].up], n)
      BY <1>5
    <3> QED  BY <3>1, <3>2, <3>3
  <2>3. \A n \in D : rank[n] = n
    OBVIOUS
  <2>4. ASSUME NEW n \in D, \A e \in D : rank[e] < rank[n] => e \in P PROVE n \in P
    <3> HIDE DEF rank, D
    <3>1. CASE n = Root
      BY <2>2, <3>1
    <3>2. CASE n # Root
      <4>1. tree[n].up \in D /\ rank[tree[n].up] < rank[n] /\ n \in Nat
        BY <1>1, <2>3, <3>2
      <4>2. above[tree[n].up] \in Seq(Nat)
        BY <2>4, <4>1
      <4>3. Append(above[tree[n].up], n) \in Seq(Nat)
        BY <4>1, <4>2
      <4> QED  BY <2>2, <3>2, <4>3
    <3> QED  BY <3>1, <3>2
  <2> HIDE DEF P, rank, D
  <2>5. D \subseteq P
    BY <2>1, <2>4, RankInduction
  <2> QED  BY <2>5 DEF P
<1>7. \A n \in D : PathTo(n) \in Seq(Nat)
  BY <1>4, <1>6
<1>8. PathTo(Root) = <<Root>>
  BY <1>1, <1>4, <1>5
<1>9. \A n \in D : n # Root => PathTo(n) = Append(PathTo(tree[n].up), n)
  BY <1>1, <1>4, <1>5
<1> QED  BY <1>7, <1>8, <1>9

(* The path to a step of a plan is the nodes of its steps up to there.     *)
StepPath(m, i) ==
  /\ PathTo(NodeOf(m, i)) \in Seq(Nat) /\ Len(PathTo(NodeOf(m, i))) = i + 1
  /\ \A k \in 1 .. i + 1 : PathTo(NodeOf(m, i))[k] = NodeOf(m, k-1)

LEMMA StepPaths ==
  ASSUME BuildInv, NEW m, NEW i \in Nat, i = 0 \/ InTree(m, i)
  PROVE  StepPath(m, i)
<1> DEFINE D == {h \in Nat : h = 0 \/ InTree(m, h)}
           rank == [h \in D |-> h]
           P == {h \in D : StepPath(m, h)}
<1>1. rank \in [D -> Nat]
  OBVIOUS
<1>2. ASSUME NEW h \in D, \A e \in D : rank[e] < rank[h] => e \in P PROVE h \in P
  <2>1. CASE h = 0
    <3>1. NodeOf(m, 0) = Root
      BY DEF NodeOf
    <3>2. PathTo(Root) = <<Root>> /\ Root \in Nat
      BY PathFacts DEF BuildInv, Root
    <3>3. \A k \in 1 .. 0 + 1 : k = 1 /\ k-1 = 0
      OBVIOUS
    <3>4. <<Root>> \in Seq(Nat) /\ Len(<<Root>>) = 0 + 1 /\ <<Root>>[1] = Root
      BY <3>2
    <3>5. StepPath(m, 0)
      BY <3>1, <3>2, <3>3, <3>4 DEF StepPath
    <3> QED  BY <2>1, <3>5
  <2>2. CASE h # 0
    <3>1. h \in Nat \ {0} /\ InTree(m, h)
      BY <2>2
    <3>2. h-1 = 0 \/ InTree(m, h-1)
      BY <3>1, InsertedFacts DEF BuildInv
    <3>3. h-1 \in D /\ rank[h-1] < rank[h]
      BY <3>1, <3>2
    <3>4. StepPath(m, h-1)
      BY <1>2, <3>3
    <3>5. /\ NodeOf(m, h) \in DOMAIN tree \ {Root} /\ tree[NodeOf(m, h)].up = NodeOf(m, h-1)
          /\ NodeOf(m, h) \in Nat
      <4>1. DOMAIN tree \subseteq Nat
        BY DEF BuildInv, TreeShape
      <4> QED  BY <3>1, <4>1, NodeFacts
    <3>6. PathTo(NodeOf(m, h)) = Append(PathTo(NodeOf(m, h-1)), NodeOf(m, h))
      BY <3>5, PathFacts DEF BuildInv
    <3> DEFINE s == PathTo(NodeOf(m, h-1))
               x == NodeOf(m, h)
    <3>7. s \in Seq(Nat) /\ Len(s) = h /\ \A k \in 1 .. h : s[k] = NodeOf(m, k-1)
      BY <3>1, <3>4 DEF StepPath
    <3>8. x \in Nat /\ x = NodeOf(m, (h + 1)-1)
      BY <3>1, <3>5
    <3>9. PathTo(NodeOf(m, h)) = Append(s, x)
      BY <3>6
    <3> HIDE DEF s, x
    <3>10. /\ Append(s, x) \in Seq(Nat) /\ Len(Append(s, x)) = h + 1
           /\ \A k \in 1 .. h : Append(s, x)[k] = s[k]
           /\ Append(s, x)[h + 1] = x
      BY <3>1, <3>7, <3>8
    <3>11. \A k \in 1 .. h + 1 : k \in 1 .. h \/ k = h + 1
      BY <3>1
    <3>12. StepPath(m, h)
      BY <3>7, <3>8, <3>9, <3>10, <3>11 DEF StepPath
    <3> QED  BY <3>12
  <2> QED  BY <2>1, <2>2
<1>3. i \in D
  OBVIOUS
<1> HIDE DEF D, P, rank
<1>4. D \subseteq P
  BY <1>1, <1>2, RankInduction
<1> QED  BY <1>3, <1>4 DEF P

(* ... and the path to its leaf goes on with the leaf.                     *)
LEMMA LeafPaths ==
  ASSUME BuildInv, Built, NEW m \in DOMAIN plans
  PROVE  /\ IsLeaf(m, Leaf(m))
         /\ Len(PathTo(Leaf(m))) = Len(plans[m].steps) + 2
         /\ \A k \in 1 .. Len(plans[m].steps) + 1 : PathTo(Leaf(m))[k] = NodeOf(m, k-1)
<1>1. /\ m < at.plan /\ m \in Nat \ {0}
      /\ Len(plans[m].steps) \in Nat /\ DOMAIN plans[m].steps = 1 .. Len(plans[m].steps)
  <2>1. ~(at.plan <= Len(plans)) /\ at.plan \in Nat /\ DOMAIN plans = 1 .. Len(plans)
        /\ Len(plans) \in Nat
    BY PlanFacts DEF BuildInv, Place, Built, Building
  <2> QED  BY <2>1, PlanFacts DEF BuildInv
<1>2. PICK l \in DOMAIN tree : IsLeaf(m, l)
  BY <1>1 DEF BuildInv, Leaves
<1>3. Leaf(m) = l
  BY <1>2 DEF Leaf, IsLeaf
<1> DEFINE L == Len(plans[m].steps)
           s == PathTo(NodeOf(m, L))
<1>4. L = 0 \/ InTree(m, L)
  BY <1>1 DEF InTree
<1>5. StepPath(m, L)
  BY <1>1, <1>4, StepPaths
<1>6. PathTo(l) = Append(s, l)
  BY <1>2, PathFacts DEF IsLeaf, BuildInv
<1>7. l \in Nat
  BY DEF BuildInv, TreeShape
<1>8. /\ s \in Seq(Nat) /\ Len(s) = L + 1 /\ L \in Nat
      /\ \A k \in 1 .. L + 1 : s[k] = NodeOf(m, k-1)
  BY <1>1, <1>5 DEF StepPath
<1> HIDE DEF s, L
<1>9. Len(Append(s, l)) = L + 2 /\ \A k \in 1 .. L + 1 : Append(s, l)[k] = s[k]
  BY <1>7, <1>8
<1> QED  BY <1>2, <1>3, <1>6, <1>8, <1>9 DEF L

(* Two plans have the same node at a step exactly when they take the same  *)
(* reductions up to it.                                                    *)
LEMMA SameNodeAgrees ==
  ASSUME BuildInv, NEW m \in DOMAIN plans, NEW n \in DOMAIN plans,
         NEW s \in Nat, s = 0 \/ (InTree(m, s) /\ InTree(n, s))
  PROVE  NodeOf(m, s) = NodeOf(n, s) <=>
           \A h \in 1 .. s : plans[m].steps[h].reduction = plans[n].steps[h].reduction
<1>1. CASE s = 0
  BY <1>1 DEF NodeOf
<1>2. CASE s # 0
  <2>1. InTree(m, s) /\ InTree(n, s) /\ s \in DOMAIN plans[m].steps /\ s \in DOMAIN plans[n].steps
    BY <1>2 DEF InTree
  <2>2. ASSUME NodeOf(m, s) = NodeOf(n, s), NEW h \in 1 .. s
        PROVE  plans[m].steps[h].reduction = plans[n].steps[h].reduction
    <3>1. IdOf(m, s) = IdOf(n, s)
      BY <1>2, <2>1, <2>2, NodeTellsPlace
    <3>2. plans[m].steps[h] = plans[n].steps[h]
      BY <2>1, <2>2, <3>1 DEF BuildInv, PathInv, StepNamesPath, SharedPrefix, IdOf
    <3> QED  BY <3>2
  <2>3. ASSUME \A h \in 1 .. s : plans[m].steps[h].reduction = plans[n].steps[h].reduction
        PROVE  NodeOf(m, s) = NodeOf(n, s)
    <3>1. Agree(plans[m].steps, plans[n].steps, s)
      BY <2>1, <2>3 DEF Agree
    <3>2. plans[m].steps[s].id = plans[n].steps[s].id
      BY <3>1 DEF BuildInv, WalkInv, Determined
    <3> QED  BY <3>2 DEF NodeOf, IdOf
  <2> QED  BY <2>2, <2>3
<1> QED  BY <1>1, <1>2

LEMMA FoundPrefix ==
  ASSUME PathInv, NEW m \in DOMAIN plans, NEW s \in 0 .. Len(plans[m].steps)
  PROVE  /\ SubSeq(Found(m)[1], 1, s) \in Seq(Reductions)
         /\ Len(SubSeq(Found(m)[1], 1, s)) = s
         /\ \A h \in 1 .. s : SubSeq(Found(m)[1], 1, s)[h] = plans[m].steps[h].reduction
<1> DEFINE r == Found(m)[1]
<1>1. Len(plans[m].steps) \in Nat /\ DOMAIN plans[m].steps = 1 .. Len(plans[m].steps)
  BY PlanFacts
<1>2. plans[m].steps \in Seq(Steps)
  BY CallFacts
<1>3. \A h \in 1 .. s : r[h] = plans[m].steps[h].reduction
  BY <1>1 DEF Found
<1>4. \A h \in 1 .. s : plans[m].steps[h] \in Steps
  BY <1>1, <1>2, ElementOfSeq
<1>5. \A h \in 1 .. s : r[h] \in Reductions
  BY <1>3, <1>4 DEF Steps
<1> HIDE DEF r
<1>6. s \in Int
  BY <1>1
<1>7. /\ SubSeq(r, 1, s) \in Seq(Reductions)
      /\ Len(SubSeq(r, 1, s)) = IF 1 <= s THEN s - 1 + 1 ELSE 0
      /\ \A h \in 1 .. s - 1 + 1 : SubSeq(r, 1, s)[h] = r[1 + h - 1]
  BY <1>5, <1>6, SubSeqProperties
<1>8. Len(SubSeq(r, 1, s)) = s
  BY <1>1, <1>7
<1>9. \A h \in 1 .. s : SubSeq(r, 1, s)[h] = r[h]
  <2> TAKE h \in 1 .. s
  <2>1. s - 1 + 1 = s /\ 1 + h - 1 = h
    BY <1>1
  <2> QED  BY <1>7, <2>1
<1> QED  BY <1>3, <1>7, <1>8, <1>9 DEF r

LEMMA BranchFacts ==
  ASSUME BuildInv, Built, NEW m \in DOMAIN plans, NEW n \in DOMAIN plans,
         NEW k \in 1 .. Len(plans[m].steps) + 1, k <= Len(plans[n].steps) + 1
  PROVE  PathTo(Leaf(m))[k] = PathTo(Leaf(n))[k] <=>
           SubSeq(Found(m)[1], 1, k-1) = SubSeq(Found(n)[1], 1, k-1)
<1> DEFINE s == k-1
           a == SubSeq(Found(m)[1], 1, s)
           b == SubSeq(Found(n)[1], 1, s)
<1>1. /\ m < at.plan /\ n < at.plan
      /\ \A q \in DOMAIN plans : /\ Len(plans[q].steps) \in Nat
                                 /\ DOMAIN plans[q].steps = 1 .. Len(plans[q].steps)
  <2>1. ~(at.plan <= Len(plans)) /\ at.plan \in Nat /\ DOMAIN plans = 1 .. Len(plans)
        /\ Len(plans) \in Nat
    BY PlanFacts DEF BuildInv, Place, Built, Building
  <2> QED  BY <2>1, PlanFacts DEF BuildInv
<1>2. /\ s \in Nat /\ s \in 0 .. Len(plans[m].steps) /\ s \in 0 .. Len(plans[n].steps)
      /\ k \in 1 .. Len(plans[n].steps) + 1
  BY <1>1
<1>3. s = 0 \/ (InTree(m, s) /\ InTree(n, s))
  BY <1>1, <1>2 DEF InTree
<1>4. PathTo(Leaf(m))[k] = NodeOf(m, s) /\ PathTo(Leaf(n))[k] = NodeOf(n, s)
  BY <1>2, LeafPaths
<1>5. /\ a \in Seq(Reductions) /\ Len(a) = s
      /\ \A h \in 1 .. s : a[h] = plans[m].steps[h].reduction
  BY <1>2, FoundPrefix DEF BuildInv
<1>6. /\ b \in Seq(Reductions) /\ Len(b) = s
      /\ \A h \in 1 .. s : b[h] = plans[n].steps[h].reduction
  BY <1>2, FoundPrefix DEF BuildInv
<1>7. NodeOf(m, s) = NodeOf(n, s) <=>
        \A h \in 1 .. s : plans[m].steps[h].reduction = plans[n].steps[h].reduction
  BY <1>2, <1>3, SameNodeAgrees
<1> HIDE DEF a, b
<1>8. a = b <=> \A h \in 1 .. s : plans[m].steps[h].reduction = plans[n].steps[h].reduction
  <2>1. (\A h \in 1 .. s : a[h] = b[h]) => a = b
    BY <1>5, <1>6, SeqEqual
  <2> QED  BY <1>5, <1>6, <2>1
<1> QED  BY <1>4, <1>7, <1>8 DEF a, b

LEMMA BuildInvMirrors == BuildInv => TreeMirrorsPlans
<1> SUFFICES ASSUME BuildInv PROVE TreeMirrorsPlans
  OBVIOUS
<1>1. ASSUME Built, NEW i \in DOMAIN plans
      PROVE  /\ Cardinality({n \in DOMAIN tree : tree[n].action = i-1}) = 1
             /\ tree[Leaf(i)].actions = <<>>
             /\ Len(PathTo(Leaf(i))) = Len(plans[i].steps) + 2
  <2>1. IsLeaf(i, Leaf(i)) /\ Len(PathTo(Leaf(i))) = Len(plans[i].steps) + 2
    BY <1>1, LeafPaths
  <2>2. {n \in DOMAIN tree : tree[n].action = i-1} = {Leaf(i)}
    BY <2>1 DEF IsLeaf
  <2>3. Cardinality({Leaf(i)}) = 1
    BY FS_Singleton
  <2> QED  BY <2>1, <2>2, <2>3 DEF IsLeaf
<1>2. ASSUME Built, NEW i \in DOMAIN plans, NEW j \in DOMAIN plans,
             NEW k \in 1 .. Len(plans[i].steps) + 1, k <= Len(plans[j].steps) + 1
      PROVE  PathTo(Leaf(i))[k] = PathTo(Leaf(j))[k] <=>
               SubSeq(Found(i)[1], 1, k-1) = SubSeq(Found(j)[1], 1, k-1)
  BY <1>2, BranchFacts
<1>3. PointersValid
  BY BuildInvPointers
<1> QED  BY <1>1, <1>2, <1>3 DEF TreeMirrorsPlans

(* Whatever the graph, the exclusions and the order of the plans: no       *)
(* pointer that from_query_plans follows dangles, and the tree it leaves   *)
(* has one leaf per plan and branches exactly where the plans take         *)
(* different reductions.                                                   *)
THEOREM TreeAlwaysMirrors == TreeSpec => []TreeMirrorsPlans
<1>1. TreeInit => BuildInv
  BY BuildInit
<1>2. BuildInv /\ [TreeNext]_allVars => BuildInv'
  BY BuildStep
<1>3. BuildInv => TreeMirrorsPlans
  BY BuildInvMirrors
<1> QED  BY <1>1, <1>2, <1>3, PTL DEF TreeSpec

------------------------------------------------------------------------------
(* Sums over the children of a node.                                       *)
Total(f) == FoldFunction(+, 0, f)

Pick(S) == CHOOSE x \in S : TRUE

(* Sums of the values of f over sets of its arguments.                     *)
SumsOf(sum, f) ==
  \A S \in SUBSET DOMAIN f : sum[S] = IF S = {} THEN 0 ELSE f[Pick(S)] + sum[S \ {Pick(S)}]

LEMMA SetInduction ==
  ASSUME NEW N \in Nat, NEW P, {} \in P,
         \A S \in SUBSET (1 .. N) : S # {} /\ S \ {Pick(S)} \in P => S \in P
  PROVE  SUBSET (1 .. N) \subseteq P
<1> DEFINE D == SUBSET (1 .. N)
           rank == [S \in D |-> Cardinality(S)]
<1>1. ASSUME NEW S \in D PROVE IsFiniteSet(S) /\ Cardinality(S) \in Nat
  <2>1. IsFiniteSet(1 .. N)
    BY FS_Interval
  <2>2. IsFiniteSet(S)
    BY <2>1, FS_Subset
  <2> QED  BY <2>2, FS_CardinalityType
<1>2. rank \in [D -> Nat]
  BY <1>1
<1>3. ASSUME NEW S \in D, \A e \in D : rank[e] < rank[S] => e \in P PROVE S \in P
  <2>1. CASE S = {}
    BY <2>1
  <2>2. CASE S # {}
    <3>1. Pick(S) \in S
      BY <2>2 DEF Pick
    <3>2. Cardinality(S \ {Pick(S)}) = Cardinality(S) - 1
      BY <1>1, <3>1, FS_RemoveElement
    <3>3. PICK T : T = S \ {Pick(S)}
      OBVIOUS
    <3>4. T \in D
      BY <3>3
    <3>5. rank[T] = Cardinality(T) /\ rank[S] = Cardinality(S)
      BY <3>4
    <3>6. rank[T] < rank[S]
      BY <1>1, <3>2, <3>3, <3>5
    <3> QED  BY <1>3, <2>2, <3>3, <3>4, <3>6
  <2> QED  BY <2>1, <2>2
<1> HIDE DEF D, rank
<1>4. D \subseteq P
  BY <1>2, <1>3, RankInduction
<1> QED  BY <1>4 DEF D

LEMMA TotalFacts ==
  ASSUME NEW N \in Nat, NEW f \in [1 .. N -> Nat]
  PROVE  \E sum \in [SUBSET (1 .. N) -> Nat] : SumsOf(sum, f) /\ Total(f) = sum[1 .. N]
<1> DEFINE D == SUBSET (1 .. N)
           B == {{}}
           pred == [S \in D \ B |-> S \ {Pick(S)}]
           rank == [S \in D |-> Cardinality(S)]
           base == [S \in D |-> 0]
           step == [x \in D \X Nat |-> IF x[1] = {} THEN 0 ELSE f[Pick(x[1])] + x[2]]
           Val(s, S) == IF S = {} THEN 0 ELSE f[Pick(S)] + s[S \ {Pick(S)}]
<1>1. \A S \in D : S # {} => Pick(S) \in S /\ Pick(S) \in 1 .. N /\ S \ {Pick(S)} \in D
  BY DEF Pick
<1>2. \A S \in D : IsFiniteSet(S) /\ Cardinality(S) \in 0 .. N
  <2>1. IsFiniteSet(1 .. N) /\ Cardinality(1 .. N) = N
    BY FS_Interval
  <2>2. ASSUME NEW S \in D
        PROVE  /\ IsFiniteSet(S) /\ Cardinality(S) <= N /\ Cardinality(S) \in Nat
    <3>1. IsFiniteSet(S) /\ Cardinality(S) <= Cardinality(1 .. N)
      BY <2>1, FS_Subset
    <3> QED  BY <2>1, <3>1, FS_CardinalityType
  <2> QED  BY <2>2
<1>3. \A S \in D : S # {} => Cardinality(S \ {Pick(S)}) = Cardinality(S) - 1
  BY <1>1, <1>2, FS_RemoveElement
<1>4. \E s \in [D -> Nat] : s = [S \in D |-> Val(s, S)]
  <2>1. pred \in [D \ B -> D] /\ rank \in [D -> 0 .. N] /\ base \in [D -> Nat]
    BY <1>1, <1>2
  <2>2. \A S \in D \ B : rank[pred[S]] < rank[S]
    <3> TAKE S \in D \ B
    <3>1. pred[S] = S \ {Pick(S)} /\ pred[S] \in D /\ S # {}
      BY <1>1
    <3>2. rank[pred[S]] = Cardinality(S) - 1 /\ rank[S] = Cardinality(S)
      BY <1>3, <3>1
    <3> QED  BY <1>2, <3>2
  <2>3. step \in [D \X Nat -> Nat]
    <3>1. \A x \in D \X Nat : (IF x[1] = {} THEN 0 ELSE f[Pick(x[1])] + x[2]) \in Nat
      <4> TAKE x \in D \X Nat
      <4>1. x[1] \in D /\ x[2] \in Nat
        OBVIOUS
      <4> QED  BY <1>1, <4>1, SMTT(30)
    <3> QED  BY <3>1
  <2>4. /\ \A S \in D, v \in Nat : S # {} => step[<<S, v>>] = f[Pick(S)] + v
        /\ \A S \in D \ B : pred[S] = S \ {Pick(S)}
        /\ \A S \in D : base[S] = 0
    OBVIOUS
  <2> HIDE DEF pred, rank, base, step, D, B
  <2>5. PICK s \in [D -> Nat] : Solves(s, D, B, pred, base, step)
    <3>1. Ranked(D, B, pred, rank, N)
      BY <2>1, <2>2 DEF Ranked
    <3> QED  BY <2>1, <2>3, <3>1, PredRecursion
  <2>6. ASSUME NEW S \in D PROVE s[S] = Val(s, S)
    <3>1. CASE S = {}
      BY <2>4, <2>5, <3>1 DEF B, Solves
    <3>2. CASE S # {}
      <4>1. s[S] = step[<<S, s[pred[S]]>>] /\ S \in D \ B
        BY <2>5, <3>2 DEF B, Solves
      <4>2. pred[S] = S \ {Pick(S)} /\ s[pred[S]] \in Nat
        BY <1>1, <2>4, <3>2, <4>1
      <4> QED  BY <2>4, <3>2, <4>1, <4>2
    <3> QED  BY <3>1, <3>2
  <2>7. s = [S \in D |-> Val(s, S)]
    BY <2>6
  <2> QED  BY <2>7
<1> DEFINE sum == CHOOSE s : s = [S \in SUBSET DOMAIN f |->
                    IF S = {} THEN 0
                    ELSE f[CHOOSE x \in S : TRUE] + s[S \ {CHOOSE x \in S : TRUE}]]
<1>5. D = SUBSET DOMAIN f /\ DOMAIN f = 1 .. N
  OBVIOUS
<1>6. sum = [S \in SUBSET DOMAIN f |->
              IF S = {} THEN 0 ELSE f[CHOOSE x \in S : TRUE] + sum[S \ {CHOOSE x \in S : TRUE}]]
  <2> DEFINE IsSum(s) == s = [S \in SUBSET DOMAIN f |->
                    IF S = {} THEN 0
                    ELSE f[CHOOSE x \in S : TRUE] + s[S \ {CHOOSE x \in S : TRUE}]]
  <2>1. PICK s : s = [S \in D |-> Val(s, S)]
    BY <1>4
  <2>2. IsSum(s)
    BY <1>5, <2>1 DEF Pick
  <2>3. sum = CHOOSE r : IsSum(r)
    OBVIOUS
  <2> HIDE DEF IsSum, sum
  <2>4. IsSum(sum)
    BY <2>2, <2>3
  <2> QED  BY <2>4 DEF IsSum
<1>7. Total(f) = sum[DOMAIN f]
  BY DEF Total, FoldFunction, FoldFunctionOnSet, MapThenFoldSet
<1> HIDE DEF sum
<1>8. \A S \in D : sum[S] = Val(sum, S)
  BY <1>5, <1>6 DEF Pick
<1>9. SUBSET (1 .. N) \subseteq {S \in D : sum[S] \in Nat}
  <2> DEFINE P == {S \in D : sum[S] \in Nat}
  <2>1. {} \in P
    <3>1. {} \in D
      OBVIOUS
    <3>2. sum[{}] = 0
      <4> HIDE DEF D
      <4> QED  BY <1>8, <3>1
    <3> QED  BY <3>1, <3>2
  <2>2. \A S \in SUBSET (1 .. N) : S # {} /\ S \ {Pick(S)} \in P => S \in P
    <3> SUFFICES ASSUME NEW S \in SUBSET (1 .. N), S # {}, S \ {Pick(S)} \in P PROVE S \in P
      OBVIOUS
    <3>1. f[Pick(S)] \in Nat /\ sum[S \ {Pick(S)}] \in Nat
      BY <1>1
    <3> QED  BY <1>8, <3>1
  <2> HIDE DEF P
  <2>3. SUBSET (1 .. N) \subseteq P
    BY <2>1, <2>2, SetInduction
  <2> QED  BY <2>3 DEF P
<1>10. sum \in [SUBSET (1 .. N) -> Nat]
  BY <1>5, <1>6, <1>9
<1> QED  BY <1>5, <1>7, <1>8, <1>10 DEF SumsOf

LEMMA TotalZero ==
  ASSUME NEW N \in Nat, NEW f \in [1 .. N -> Nat], \A i \in 1 .. N : f[i] = 0
  PROVE  Total(f) = 0
<1>1. PICK sum \in [SUBSET (1 .. N) -> Nat] : SumsOf(sum, f) /\ Total(f) = sum[1 .. N]
  BY TotalFacts
<1> DEFINE P == {S \in SUBSET (1 .. N) : sum[S] = 0}
<1>2. \A S \in SUBSET (1 .. N) : sum[S] = IF S = {} THEN 0 ELSE f[Pick(S)] + sum[S \ {Pick(S)}]
  BY <1>1 DEF SumsOf
<1>3. {} \in P
  <2>1. {} \in SUBSET (1 .. N)
    OBVIOUS
  <2> QED  BY <1>2, <2>1
<1>4. \A S \in SUBSET (1 .. N) : S # {} /\ S \ {Pick(S)} \in P => S \in P
  <2> SUFFICES ASSUME NEW S \in SUBSET (1 .. N), S # {}, S \ {Pick(S)} \in P PROVE S \in P
    OBVIOUS
  <2>1. Pick(S) \in 1 .. N
    BY DEF Pick
  <2>2. sum[S] = f[Pick(S)] + sum[S \ {Pick(S)}] /\ sum[S \ {Pick(S)}] = 0
    BY <1>2
  <2>3. f[Pick(S)] = 0
    BY <2>1
  <2>4. sum[S] = 0
    BY <2>2, <2>3
  <2> QED  BY <2>4
<1> HIDE DEF P
<1>5. SUBSET (1 .. N) \subseteq P
  BY <1>3, <1>4, SetInduction
<1> QED  BY <1>1, <1>5 DEF P

LEMMA TotalRaised ==
  ASSUME NEW N \in Nat, NEW f \in [1 .. N -> Nat], NEW g \in [1 .. N -> Nat],
         NEW i \in 1 .. N, g[i] = f[i] + 1, \A j \in 1 .. N : j # i => g[j] = f[j]
  PROVE  Total(g) = Total(f) + 1
<1>1. PICK a \in [SUBSET (1 .. N) -> Nat] : SumsOf(a, f) /\ Total(f) = a[1 .. N]
  BY TotalFacts
<1>2. PICK b \in [SUBSET (1 .. N) -> Nat] : SumsOf(b, g) /\ Total(g) = b[1 .. N]
  BY TotalFacts
<1> DEFINE P == {S \in SUBSET (1 .. N) : b[S] = a[S] + (IF i \in S THEN 1 ELSE 0)}
<1>3. \A S \in SUBSET (1 .. N) :
        /\ a[S] = IF S = {} THEN 0 ELSE f[Pick(S)] + a[S \ {Pick(S)}]
        /\ b[S] = IF S = {} THEN 0 ELSE g[Pick(S)] + b[S \ {Pick(S)}]
  BY <1>1, <1>2 DEF SumsOf
<1>4. {} \in P
  <2>1. {} \in SUBSET (1 .. N)
    OBVIOUS
  <2>2. a[{}] = 0 /\ b[{}] = 0
    BY <1>3, <2>1
  <2> QED  BY <2>1, <2>2
<1>5. \A S \in SUBSET (1 .. N) : S # {} /\ S \ {Pick(S)} \in P => S \in P
  <2> SUFFICES ASSUME NEW S \in SUBSET (1 .. N), S # {}, S \ {Pick(S)} \in P PROVE S \in P
    OBVIOUS
  <2>1. PICK x, T : x = Pick(S) /\ T = S \ {x}
    OBVIOUS
  <2>2. x \in S /\ x \in 1 .. N
    BY <2>1 DEF Pick
  <2>3. /\ a[S] = f[x] + a[T] /\ b[S] = g[x] + b[T] /\ T \in SUBSET (1 .. N)
        /\ b[T] = a[T] + (IF i \in T THEN 1 ELSE 0)
    BY <1>3, <2>1
  <2>4. f[x] \in Nat /\ g[x] \in Nat /\ a[T] \in Nat /\ b[T] \in Nat
    BY <2>2, <2>3
  <2>5. CASE x = i
    <3>1. i \notin T /\ i \in S
      BY <2>1, <2>2, <2>5
    <3>2. b[T] = a[T] + 0 /\ g[x] = f[x] + 1
      BY <2>3, <2>5, <3>1
    <3>3. b[S] = a[S] + 1
      <4> HIDE DEF P
      <4>1. a[S] = f[x] + a[T] /\ b[S] = (f[x] + 1) + (a[T] + 0)
        BY <2>3, <3>2
      <4>2. \A y, z \in Nat : (y + 1) + (z + 0) = (y + z) + 1
        OBVIOUS
      <4> QED  BY <2>4, <4>1, <4>2, ZenonT(30)
    <3> QED  BY <3>1, <3>3
  <2>6. CASE x # i
    <3>1. i \in T <=> i \in S
      BY <2>1, <2>6
    <3>2. g[x] = f[x]
      BY <2>2, <2>6
    <3>3. b[S] = a[S] + (IF i \in S THEN 1 ELSE 0)
      BY <2>3, <2>4, <3>1, <3>2, SMTT(30)
    <3> QED  BY <3>3
  <2> QED  BY <2>5, <2>6
<1> HIDE DEF P
<1>6. SUBSET (1 .. N) \subseteq P
  BY <1>4, <1>5, SetInduction
<1>7. b[1 .. N] = a[1 .. N] + 1
  BY <1>6 DEF P
<1> QED  BY <1>1, <1>2, <1>7

------------------------------------------------------------------------------
(* Selections.  The path of a selection goes down from the root, one child *)
(* after the other.                                                        *)
PathShape ==
  /\ path \in Seq(DOMAIN tree)
  /\ path # <<>> => Built /\ path[1] = Root
  /\ \A k \in DOMAIN path : k # 1 =>
       \E i \in DOMAIN tree[path[k-1]].actions : path[k] = tree[path[k-1]].actions[i]
  /\ \A j, k \in DOMAIN path : j < k => path[j] < path[k]

OnPath(n) == \E k \in DOMAIN path : path[k] = n

IsUntried(n, i) ==
  \E k \in DOMAIN tree[n].untried_action_ids : tree[n].untried_action_ids[k] = i

UntriedShape ==
  \A n \in DOMAIN tree :
    /\ \A k \in DOMAIN tree[n].untried_action_ids :
         tree[n].untried_action_ids[k] \in DOMAIN tree[n].actions
    /\ \A j, k \in DOMAIN tree[n].untried_action_ids :
         tree[n].untried_action_ids[j] = tree[n].untried_action_ids[k] => j = k

(* A child has been tried if it was selected, be it by the selection that  *)
(* has not ended.                                                          *)
UntriedFits ==
  \A n \in DOMAIN tree : \A i \in DOMAIN tree[n].actions :
    IsUntried(n, i) <=> tree[tree[n].actions[i]].nr_of_selections = 0 /\ ~OnPath(tree[n].actions[i])

SumsFit ==
  \A n \in DOMAIN tree : tree[n].actions # <<>> =>
    tree[n].nr_of_selections =
      Total([i \in DOMAIN tree[n].actions |-> tree[tree[n].actions[i]].nr_of_selections])

Unselected == \A n \in DOMAIN tree : tree[n].nr_of_selections = 0

Fresh == ~Built => Unselected

CountInv == PathShape /\ UntriedShape /\ UntriedFits /\ SumsFit /\ Fresh

LEMMA ChildFacts ==
  ASSUME TreeShape, NEW n \in DOMAIN tree, NEW i \in DOMAIN tree[n].actions
  PROVE  /\ tree[n].actions[i] \in DOMAIN tree \ {Root}
         /\ tree[tree[n].actions[i]].up = n
         /\ n \in Nat /\ tree[n].actions[i] \in Nat /\ n < tree[n].actions[i]
         /\ tree[tree[n].actions[i]].nr_of_selections \in Nat
<1> DEFINE c == tree[n].actions[i]
<1>1. c \in DOMAIN tree \ {Root} /\ tree[c].up = n
  BY DEF TreeShape
<1>2. DOMAIN tree = 1 .. Len(tree) /\ Len(tree) \in Nat /\ tree[c].nr_of_selections \in Nat
  <2> HIDE DEF c
  <2> QED  BY <1>1, NodeType
<1>3. tree[c].up \in 1 .. c-1
  <2> HIDE DEF c
  <2> QED  BY <1>1 DEF TreeShape
<1> HIDE DEF c
<1>4. n \in Nat /\ c \in Nat /\ n < c
  BY <1>1, <1>2, <1>3
<1> QED  BY <1>1, <1>2, <1>4 DEF c

LEMMA ZeroSums == TreeShape /\ Unselected => SumsFit
<1> SUFFICES ASSUME TreeShape, Unselected, NEW n \in DOMAIN tree
             PROVE  tree[n].nr_of_selections =
                      Total([i \in DOMAIN tree[n].actions |->
                               tree[tree[n].actions[i]].nr_of_selections])
  BY DEF SumsFit
<1> DEFINE f == [i \in DOMAIN tree[n].actions |-> tree[tree[n].actions[i]].nr_of_selections]
           N == Len(tree[n].actions)
<1>1. N \in Nat /\ DOMAIN tree[n].actions = 1 .. N
  BY NodeType
<1>2. \A i \in 1 .. N : f[i] = 0
  BY <1>1, ChildFacts DEF Unselected
<1>3. f \in [1 .. N -> Nat]
  <2>1. f = [i \in 1 .. N |-> tree[tree[n].actions[i]].nr_of_selections]
    BY <1>1
  <2> HIDE DEF f, N
  <2>2. f = [i \in 1 .. N |-> f[i]]
    BY <2>1
  <2> QED  BY <1>2, <2>2
<1> HIDE DEF f, N
<1>4. Total(f) = 0
  BY <1>1, <1>2, <1>3, TotalZero
<1> QED  BY <1>4 DEF f, Unselected

LEMMA QuietKeeps ==
  ASSUME CountInv, UNCHANGED <<tree, path>>, path = <<>> \/ Built', ~Built' => Unselected
  PROVE  CountInv'
<1>1. PathShape'
  BY DEF CountInv, PathShape, Root
<1>2. UntriedShape'
  BY DEF CountInv, UntriedShape
<1>3. UntriedFits'
  BY DEF CountInv, UntriedFits, IsUntried, OnPath
<1>4. SumsFit'
  BY DEF CountInv, SumsFit
<1>5. Fresh'
  BY DEF CountInv, Fresh, Unselected
<1> QED  BY <1>1, <1>2, <1>3, <1>4, <1>5 DEF CountInv

LEMMA CountInit ==
  ASSUME BuildInv, TreeInit
  PROVE  CountInv
<1>1. /\ path = <<>> /\ tree = <<Node(0, -1)>>
      /\ DOMAIN tree = {1} /\ tree[1] = Node(0, -1) /\ DOMAIN path = {}
  BY DEF TreeInit
<1>2. /\ tree[1].nr_of_selections = 0 /\ tree[1].actions = <<>>
      /\ tree[1].untried_action_ids = <<>>
  BY <1>1 DEF Node
<1>3. Unselected
  BY <1>1, <1>2 DEF Unselected
<1>4. PathShape
  BY <1>1 DEF PathShape
<1>5. UntriedShape
  BY <1>1, <1>2 DEF UntriedShape
<1>6. UntriedFits
  BY <1>1, <1>2 DEF UntriedFits
<1>7. SumsFit
  BY <1>3, ZeroSums DEF BuildInv
<1> QED  BY <1>3, <1>4, <1>5, <1>6, <1>7 DEF CountInv, Fresh

(* While the tree is built nothing has been selected.                      *)
LEMMA GrowKeeps ==
  ASSUME BuildInv, BuildInv', CountInv, ~Built, NEW p \in DOMAIN tree, NEW a \in Int,
         tree' = WithChild(p, a), path' = path
  PROVE  CountInv'
<1>0. PICK N, L : N = Len(tree) /\ L = Len(tree[p].actions)
  OBVIOUS
<1>1. /\ path = <<>> /\ path' = <<>> /\ DOMAIN path = {} /\ Unselected
  BY DEF CountInv, PathShape, Fresh
<1>2. /\ N \in Nat /\ DOMAIN tree = 1 .. N /\ DOMAIN tree' = 1 .. N + 1
      /\ \A n \in DOMAIN tree :
           /\ tree'[n].nr_of_selections = tree[n].nr_of_selections
           /\ n # p => tree'[n] = tree[n]
      /\ tree'[p].actions = Append(tree[p].actions, N + 1)
      /\ tree'[p].untried_action_ids = Append(tree[p].untried_action_ids, L + 1)
      /\ tree'[N + 1] = Node(p, a)
  BY <1>0, GrowFacts DEF BuildInv
<1>3. /\ tree'[N + 1].nr_of_selections = 0 /\ tree'[N + 1].actions = <<>>
      /\ tree'[N + 1].untried_action_ids = <<>>
  BY <1>2 DEF Node
<1>4. \A n \in 1 .. N + 1 : n \in 1 .. N \/ n = N + 1
  BY <1>2
<1>5. Unselected'
  <2>1. \A n \in 1 .. N + 1 : tree'[n].nr_of_selections = 0
    BY <1>1, <1>2, <1>3, <1>4 DEF Unselected
  <2> QED  BY <1>2, <2>1 DEF Unselected
<1>6. SumsFit'
  <2>1. TreeShape'
    BY DEF BuildInv
  <2> QED  BY <1>5, <2>1, ZeroSums, PTL
<1>7. PathShape'
  <2>1. DOMAIN path' = {} /\ path' \in Seq(DOMAIN tree')
    BY <1>1
  <2> QED  BY <1>1, <2>1 DEF PathShape
<1>8. PICK u, v, U : /\ u = tree[p].untried_action_ids /\ v = tree'[p].untried_action_ids
                     /\ U = Len(tree[p].untried_action_ids)
  OBVIOUS
<1>9. /\ U \in Nat /\ L \in Nat /\ DOMAIN u = 1 .. U /\ DOMAIN v = 1 .. U + 1
      /\ \A k \in 1 .. U : v[k] = u[k]
      /\ v[U + 1] = L + 1
      /\ DOMAIN tree[p].actions = 1 .. L /\ DOMAIN tree'[p].actions = 1 .. L + 1
      /\ \A k \in 1 .. U : u[k] \in 1 .. L
      /\ \A k \in 1 .. U + 1 : k \in 1 .. U \/ k = U + 1
      /\ \A i \in 1 .. L + 1 : i \in 1 .. L \/ i = L + 1
  <2>1. /\ tree[p].actions \in Seq(Nat) /\ u \in Seq(Nat) /\ U = Len(u)
        /\ DOMAIN tree[p].actions = 1 .. L /\ L \in Nat
    BY <1>0, <1>8, NodeType DEF BuildInv
  <2>2. v = Append(u, L + 1)
    BY <1>2, <1>8
  <2>3. U \in Nat /\ DOMAIN u = 1 .. U
    BY <2>1
  <2>4. \A k \in 1 .. U : u[k] \in 1 .. L
    BY <1>8, <2>1, <2>3 DEF CountInv, UntriedShape
  <2>5. DOMAIN v = 1 .. U + 1 /\ (\A k \in 1 .. U : v[k] = u[k]) /\ v[U + 1] = L + 1
    BY <2>1, <2>2, <2>3
  <2>6. DOMAIN tree'[p].actions = 1 .. L + 1
    <3>1. N + 1 \in Nat
      BY <1>2
    <3> QED  BY <1>0, <1>2, <2>1, <3>1
  <2> QED  BY <2>1, <2>3, <2>4, <2>5, <2>6
<1>10. UntriedShape'
  <2> SUFFICES ASSUME NEW n \in DOMAIN tree'
               PROVE  /\ \A k \in DOMAIN tree'[n].untried_action_ids :
                           tree'[n].untried_action_ids[k] \in DOMAIN tree'[n].actions
                      /\ \A j, k \in DOMAIN tree'[n].untried_action_ids :
                           tree'[n].untried_action_ids[j] = tree'[n].untried_action_ids[k] => j = k
    BY DEF UntriedShape
  <2>1. CASE n = N + 1
    BY <1>3, <2>1
  <2>2. CASE n \in DOMAIN tree /\ n # p
    BY <1>2, <2>2 DEF CountInv, UntriedShape
  <2>3. CASE n = p
    <3>1. \A j, k \in 1 .. U : u[j] = u[k] => j = k
      BY <1>8, <1>9 DEF CountInv, UntriedShape
    <3>2. \A k \in 1 .. U + 1 : v[k] \in 1 .. L + 1
      BY <1>9
    <3>3. ASSUME NEW j \in 1 .. U + 1, NEW k \in 1 .. U + 1, v[j] = v[k] PROVE j = k
      <4>1. CASE j = U + 1 /\ k # U + 1
        BY <1>9, <3>3, <4>1
      <4>2. CASE k = U + 1 /\ j # U + 1
        BY <1>9, <3>3, <4>2
      <4>3. CASE j \in 1 .. U /\ k \in 1 .. U
        BY <1>9, <3>1, <3>3, <4>3
      <4> QED  BY <1>9, <4>1, <4>2, <4>3
    <3>4. n = p /\ tree'[n].untried_action_ids = v /\ DOMAIN v = 1 .. U + 1
          /\ DOMAIN tree'[n].actions = 1 .. L + 1
      BY <1>8, <1>9, <2>3
    <3> QED  BY <3>2, <3>3, <3>4
  <2> QED  BY <1>2, <1>4, <2>1, <2>2, <2>3
<1>11. UntriedFits'
  <2>1. ASSUME NEW n \in DOMAIN tree', NEW i \in DOMAIN tree'[n].actions
        PROVE  \E k \in DOMAIN tree'[n].untried_action_ids : tree'[n].untried_action_ids[k] = i
    <3>1. CASE n = N + 1
      BY <1>3, <2>1, <3>1
    <3>2. \A m \in DOMAIN tree : \A j \in DOMAIN tree[m].actions : IsUntried(m, j)
      <4>1. \A m \in DOMAIN tree : \A j \in DOMAIN tree[m].actions :
              tree[tree[m].actions[j]].nr_of_selections = 0
        BY <1>1, ChildFacts DEF Unselected, BuildInv
      <4> QED  BY <1>1, <4>1 DEF CountInv, UntriedFits, OnPath
    <3>3. CASE n \in DOMAIN tree /\ n # p
      BY <1>2, <2>1, <3>2, <3>3 DEF IsUntried
    <3>4. CASE n = p /\ i \in 1 .. L
      <4>1. \E k \in 1 .. U : u[k] = i
        <5>1. IsUntried(p, i)
          BY <1>9, <3>2, <3>4
        <5> QED  BY <1>8, <1>9, <5>1 DEF IsUntried
      <4>2. \A k \in 1 .. U : k \in 1 .. U + 1
        BY <1>9
      <4> QED  BY <1>8, <1>9, <3>4, <4>1, <4>2
    <3>5. CASE n = p /\ i = L + 1
      <4>1. U + 1 \in 1 .. U + 1
        BY <1>9
      <4> QED  BY <1>8, <1>9, <3>5, <4>1
    <3> QED  BY <1>2, <1>4, <1>9, <2>1, <3>1, <3>3, <3>4, <3>5
  <2>2. \A n \in DOMAIN tree' : \A i \in DOMAIN tree'[n].actions :
          tree'[tree'[n].actions[i]].nr_of_selections = 0
    <3>1. TreeShape'
      BY DEF BuildInv
    <3>2. \A n \in DOMAIN tree' : \A i \in DOMAIN tree'[n].actions : tree'[n].actions[i] \in DOMAIN tree'
      BY <3>1 DEF TreeShape
    <3> QED  BY <1>5, <3>2 DEF Unselected
  <2>3. DOMAIN path' = {}
    BY <1>1
  <2> QED  BY <2>1, <2>2, <2>3 DEF UntriedFits, IsUntried, OnPath
<1> QED  BY <1>5, <1>6, <1>7, <1>10, <1>11 DEF CountInv, Fresh

LEMMA PathUp ==
  ASSUME TreeShape, PathShape, NEW k \in DOMAIN path
  PROVE  /\ Len(path) \in Nat /\ DOMAIN path = 1 .. Len(path) /\ path[k] \in DOMAIN tree
         /\ k = 1 => path[k] = Root
         /\ k # 1 => k-1 \in DOMAIN path /\ path[k] # Root /\ tree[path[k]].up = path[k-1]
<1>1. Len(path) \in Nat /\ DOMAIN path = 1 .. Len(path) /\ \A h \in DOMAIN path : path[h] \in DOMAIN tree
  BY ElementOfSeq DEF PathShape
<1>2. k = 1 => path[k] = Root
  BY DEF PathShape
<1>3. ASSUME k # 1 PROVE k-1 \in DOMAIN path /\ path[k] # Root /\ tree[path[k]].up = path[k-1]
  <2>1. k-1 \in DOMAIN path /\ path[k-1] \in DOMAIN tree
    BY <1>1, <1>3
  <2>2. PICK i \in DOMAIN tree[path[k-1]].actions : path[k] = tree[path[k-1]].actions[i]
    BY <1>3 DEF PathShape
  <2> QED  BY <2>1, <2>2 DEF TreeShape
<1> QED  BY <1>1, <1>2, <1>3

(* The path goes on with a child of its last node.                         *)
LEMMA Descend ==
  ASSUME BuildInv, PathShape, Selecting, NEW n, n = Last(path),
         NEW i \in DOMAIN tree[n].actions, NEW c, c = tree[n].actions[i],
         path' = Append(path, c), SameNodes(tree'), UNCHANGED <<plans, stack, at>>
  PROVE  PathShape' /\ n \in DOMAIN tree /\ \A x : OnPath(x)' <=> OnPath(x) \/ x = c
<1>0. PICK L : L = Len(path)
  OBVIOUS
<1>1. /\ path \in Seq(DOMAIN tree) /\ path # <<>> /\ L \in Nat \ {0} /\ DOMAIN path = 1 .. L
      /\ n = path[L] /\ \A k \in 1 .. L : path[k] \in DOMAIN tree
  <2>1. path \in Seq(DOMAIN tree) /\ path # <<>>
    BY DEF PathShape, Selecting
  <2>2. L \in Nat \ {0} /\ DOMAIN path = 1 .. L /\ \A k \in 1 .. L : path[k] \in DOMAIN tree
    BY <1>0, <2>1, ElementOfSeq
  <2> QED  BY <1>0, <2>1, <2>2 DEF Last
<1>2. n \in DOMAIN tree
  BY <1>1
<1>3. /\ c \in DOMAIN tree \ {Root} /\ n < c /\ n \in Nat /\ c \in Nat
  BY <1>2, ChildFacts DEF BuildInv
<1>4. /\ path' \in Seq(DOMAIN tree) /\ DOMAIN path' = 1 .. L + 1 /\ path'[L + 1] = c
      /\ \A k \in 1 .. L : path'[k] = path[k]
      /\ \A k \in 1 .. L + 1 : k \in 1 .. L \/ k = L + 1
  BY <1>0, <1>1, <1>3
<1>5. /\ DOMAIN tree' = DOMAIN tree /\ DOMAIN tree \subseteq Nat
      /\ \A x \in DOMAIN tree : tree'[x].actions = tree[x].actions
  BY DEF SameNodes, BuildInv, TreeShape
<1>6. \A j, k \in 1 .. L : j < k => path[j] < path[k]
  BY <1>1 DEF PathShape
<1>7. (path \in Seq(DOMAIN tree))'
  BY <1>4, <1>5
<1>8. (path # <<>> => Built /\ path[1] = Root)'
  <2>1. Built /\ path[1] = Root
    BY <1>1 DEF PathShape
  <2>2. Built'
    BY <2>1 DEF Built, Building, Enumerating
  <2>3. path'[1] = Root
    BY <1>1, <1>4, <2>1
  <2> QED  BY <2>2, <2>3 DEF Root
<1>9. (\A k \in DOMAIN path : k # 1 =>
         \E j \in DOMAIN tree[path[k-1]].actions : path[k] = tree[path[k-1]].actions[j])'
  <2> SUFFICES ASSUME NEW k \in DOMAIN path', k # 1
               PROVE  \E j \in DOMAIN tree'[path'[k-1]].actions :
                        path'[k] = tree'[path'[k-1]].actions[j]
    OBVIOUS
  <2>1. k-1 \in 1 .. L /\ path'[k-1] = path[k-1] /\ path[k-1] \in DOMAIN tree
    BY <1>1, <1>4
  <2>2. \E j \in DOMAIN tree[path[k-1]].actions : path'[k] = tree[path[k-1]].actions[j]
    <3>1. CASE k = L + 1
      <4>1. k-1 = L
        BY <1>1, <3>1
      <4> QED  BY <1>1, <1>4, <3>1, <4>1
    <3>2. CASE k \in 1 .. L
      BY <1>1, <1>4, <3>2, ZenonT(30) DEF PathShape
    <3> QED  BY <1>4, <3>1, <3>2
  <2> QED  BY <1>5, <2>1, <2>2
<1>10. (\A j, k \in DOMAIN path : j < k => path[j] < path[k])'
  <2> SUFFICES ASSUME NEW j \in 1 .. L + 1, NEW k \in 1 .. L + 1, j < k PROVE path'[j] < path'[k]
    BY <1>4, ZenonT(30)
  <2>1. j \in 1 .. L
    BY <1>1, <1>4
  <2>2. CASE k \in 1 .. L
    BY <1>4, <1>6, <2>1, <2>2
  <2>3. CASE k = L + 1
    <3>1. path[j] \in Nat /\ (j = L \/ path[j] < n)
      <4>1. j # L => j < L /\ L \in 1 .. L
        BY <1>1, <2>1
      <4> QED  BY <1>1, <1>5, <1>6, <2>1, <4>1
    <3> QED  BY <1>1, <1>3, <1>4, <2>1, <2>3, <3>1
  <2> QED  BY <1>4, <2>2, <2>3
<1>11. PathShape'
  BY <1>7, <1>8, <1>9, <1>10 DEF PathShape
<1>12. \A x : OnPath(x)' <=> OnPath(x) \/ x = c
  <2> TAKE x
  <2>1. L + 1 \in 1 .. L + 1 /\ \A k \in 1 .. L : k \in 1 .. L + 1
    BY <1>1
  <2> QED  BY <1>1, <1>4, <2>1 DEF OnPath
<1> QED  BY <1>2, <1>11, <1>12

(* As long as no node counts a selection the sums stay as they are.        *)
LEMMA SumsKept ==
  ASSUME TreeShape, SumsFit, SameNodes(tree'),
         \A n \in DOMAIN tree : tree'[n].nr_of_selections = tree[n].nr_of_selections
  PROVE  SumsFit'
<1>1. DOMAIN tree' = DOMAIN tree /\ \A n \in DOMAIN tree : tree'[n].actions = tree[n].actions
  BY DEF SameNodes, TreeShape
<1>2. ASSUME NEW n \in DOMAIN tree, tree[n].actions # <<>>
      PROVE  tree[n].nr_of_selections =
               Total([i \in DOMAIN tree[n].actions |->
                        tree'[tree[n].actions[i]].nr_of_selections])
  <2>1. \A i \in DOMAIN tree[n].actions : tree[n].actions[i] \in DOMAIN tree
    BY ChildFacts
  <2>2. [i \in DOMAIN tree[n].actions |-> tree'[tree[n].actions[i]].nr_of_selections] =
          [i \in DOMAIN tree[n].actions |-> tree[tree[n].actions[i]].nr_of_selections]
    BY <2>1
  <2> QED  BY <1>2, <2>2 DEF SumsFit
<1> QED  BY <1>1, <1>2 DEF SumsFit

LEMMA StartKeeps ==
  ASSUME BuildInv, CountInv, StartSelection
  PROVE  CountInv'
<1>1. /\ Built /\ path = <<>> /\ path' = <<Root>>
      /\ UNCHANGED <<plans, stack, steps, tree, nodes, parent, at>>
  BY DEF StartSelection, plannerVars
<1>2. Root \in DOMAIN tree
  BY DEF BuildInv, TreeShape, Root
<1>3. DOMAIN path = {} /\ DOMAIN path' = {1} /\ path'[1] = Root /\ path' \in Seq(DOMAIN tree)
  BY <1>1, <1>2
<1>4. PathShape'
  <2>1. Built'
    BY <1>1 DEF Built, Building, Enumerating
  <2> QED  BY <1>1, <1>3, <2>1 DEF PathShape, Root
<1>5. UntriedShape'
  BY <1>1 DEF CountInv, UntriedShape
<1>6. UntriedFits'
  <2>1. \A x : ~OnPath(x) /\ (OnPath(x)' <=> x = Root)
    BY <1>3 DEF OnPath
  <2>2. ASSUME NEW n \in DOMAIN tree, NEW i \in DOMAIN tree[n].actions
        PROVE  /\ IsUntried(n, i) <=> tree[tree[n].actions[i]].nr_of_selections = 0
               /\ tree[n].actions[i] # Root
    BY <2>1, ChildFacts DEF CountInv, UntriedFits, BuildInv
  <2> QED  BY <1>1, <1>3, <2>2 DEF UntriedFits, IsUntried, OnPath
<1>7. SumsFit'
  BY <1>1 DEF CountInv, SumsFit
<1>8. Fresh'
  BY <1>1 DEF Fresh, Built, Building, Enumerating
<1> QED  BY <1>4, <1>5, <1>6, <1>7, <1>8 DEF CountInv

LEMMA BestKeeps ==
  ASSUME BuildInv, CountInv, SelectBest
  PROVE  CountInv'
<1>1. PICK n : n = Last(path)
  OBVIOUS
<1>2. /\ Selecting /\ tree[n].untried_action_ids = <<>> /\ UNCHANGED <<plans, stack, at, tree>>
      /\ \E c \in Children(n) : path' = Append(path, c)
  BY <1>1 DEF SelectBest, plannerVars
<1>3. PICK i \in DOMAIN tree[n].actions : path' = Append(path, tree[n].actions[i])
  BY <1>2 DEF Children
<1>4. PICK c : c = tree[n].actions[i]
  OBVIOUS
<1>5. SameNodes(tree')
  BY <1>2 DEF BuildInv, TreeShape, SameNodes
<1>6. PathShape' /\ n \in DOMAIN tree /\ \A x : OnPath(x)' <=> OnPath(x) \/ x = c
  BY <1>1, <1>2, <1>3, <1>4, <1>5, Descend DEF CountInv
<1>7. UntriedShape'
  BY <1>2 DEF CountInv, UntriedShape
<1>8. UntriedFits'
  <2>1. ASSUME NEW m \in DOMAIN tree, NEW j \in DOMAIN tree[m].actions
        PROVE  IsUntried(m, j) <=>
                 /\ tree[tree[m].actions[j]].nr_of_selections = 0
                 /\ ~(OnPath(tree[m].actions[j]) \/ tree[m].actions[j] = c)
    <3>1. CASE m = n
      <4>1. DOMAIN tree[n].untried_action_ids = {}
        BY <1>2
      <4>2. ~IsUntried(m, j)
        BY <3>1, <4>1 DEF IsUntried
      <4> QED  BY <4>2 DEF CountInv, UntriedFits
    <3>2. CASE m # n
      <4>1. tree[m].actions[j] # c
        BY <1>4, <1>6, <3>2 DEF BuildInv, TreeShape
      <4> QED  BY <4>1 DEF CountInv, UntriedFits
    <3> QED  BY <3>1, <3>2
  <2>2. \A m, j : IsUntried(m, j)' <=> IsUntried(m, j)
    BY <1>2 DEF IsUntried
  <2> SUFFICES ASSUME NEW m \in DOMAIN tree, NEW j \in DOMAIN tree[m].actions,
                      NEW d, d = tree[m].actions[j]
               PROVE  IsUntried(m, j)' <=> tree[d].nr_of_selections = 0 /\ ~OnPath(d)'
    BY <1>2 DEF UntriedFits, IsUntried, OnPath
  <2> QED  BY <1>6, <2>1, <2>2
<1>9. SumsFit'
  BY <1>2 DEF CountInv, SumsFit
<1>10. Fresh'
  <2>1. Built
    BY <1>2 DEF CountInv, PathShape, Selecting
  <2> QED  BY <1>2, <2>1 DEF Fresh, Built, Building, Enumerating
<1> QED  BY <1>6, <1>7, <1>8, <1>9, <1>10 DEF CountInv

LEMMA UntriedKeeps ==
  ASSUME BuildInv, CountInv, SelectUntried
  PROVE  CountInv'
<1>1. PICK n, ids : n = Last(path) /\ ids = tree[n].untried_action_ids
  OBVIOUS
<1>2. /\ Selecting /\ ids # <<>> /\ UNCHANGED <<plans, stack, at>>
      /\ path' = Append(path, tree[n].actions[Last(ids)])
      /\ tree' = [tree EXCEPT ![n].untried_action_ids = Front(ids)]
  BY <1>1 DEF SelectUntried, plannerVars, Tried
<1>3. PICK i, c, u : i = Last(ids) /\ c = tree[n].actions[i] /\ u = Front(ids)
  OBVIOUS
<1>4. SameNodes(tree') /\ \A m \in DOMAIN tree : tree'[m].nr_of_selections = tree[m].nr_of_selections
  BY TriedNodes DEF BuildInv
<1>5. n \in DOMAIN tree
  <2>1. path \in Seq(DOMAIN tree) /\ path # <<>>
    BY <1>2 DEF CountInv, PathShape, Selecting
  <2> QED  BY <1>1, <2>1 DEF Last
<1>6. PICK U : U = Len(ids)
  OBVIOUS
<1>7. /\ U \in Nat \ {0} /\ DOMAIN ids = 1 .. U /\ i = ids[U] /\ DOMAIN u = 1 .. U-1
      /\ \A k \in 1 .. U-1 : u[k] = ids[k]
      /\ \A k \in 1 .. U : ids[k] \in DOMAIN tree[n].actions
      /\ \A j, k \in 1 .. U : ids[j] = ids[k] => j = k
      /\ \A k \in 1 .. U : k \in 1 .. U-1 \/ k = U
  <2>1. ids \in Seq(Nat)
    BY <1>1, <1>5, NodeType DEF BuildInv
  <2>2. /\ u \in Seq(Nat) /\ Len(u) = U-1 /\ U \in Nat \ {0} /\ DOMAIN ids = 1 .. U /\ i = ids[U]
        /\ \A k \in 1 .. U-1 : u[k] = ids[k]
    <3>1. /\ ids # <<>> /\ i = Last(ids) /\ u = Front(ids) /\ U = Len(ids)
      BY <1>2, <1>3, <1>6
    <3>2. /\ Front(ids) \in Seq(Nat) /\ Len(Front(ids)) = Len(ids)-1
          /\ \A k \in 1 .. Len(ids)-1 : Front(ids)[k] = ids[k]
          /\ Len(ids) \in Nat \ {0} /\ Last(ids) = ids[Len(ids)]
      BY <2>1, <3>1, FrontFacts
    <3>3. DOMAIN ids = 1 .. Len(ids)
      BY <2>1
    <3> QED  BY <3>1, <3>2, <3>3
  <2>3. DOMAIN u = 1 .. U-1
    BY <2>2
  <2> QED  BY <1>1, <1>5, <2>2, <2>3, SMTT(30) DEF CountInv, UntriedShape
<1>8. i \in DOMAIN tree[n].actions
  BY <1>7
<1>9. PathShape' /\ \A x : OnPath(x)' <=> OnPath(x) \/ x = c
  BY <1>1, <1>2, <1>3, <1>4, <1>8, Descend DEF CountInv
<1>10. /\ DOMAIN tree' = DOMAIN tree
       /\ \A m \in DOMAIN tree : /\ tree'[m].actions = tree[m].actions
                                 /\ m # n => tree'[m] = tree[m]
       /\ tree'[n].untried_action_ids = u
  <2>1. tree[n] \in TreeNodes
    BY <1>5, NodeType DEF BuildInv
  <2>2. tree'[n] = [tree[n] EXCEPT !.untried_action_ids = u]
    BY <1>2, <1>3, <1>5
  <2>3. tree'[n].untried_action_ids = u
    BY <2>1, <2>2 DEF TreeNodes
  <2> QED  BY <1>2, <1>4, <2>3 DEF SameNodes
<1>11. UntriedShape'
  <2> SUFFICES ASSUME NEW m \in DOMAIN tree
               PROVE  /\ \A k \in DOMAIN tree'[m].untried_action_ids :
                           tree'[m].untried_action_ids[k] \in DOMAIN tree'[m].actions
                      /\ \A j, k \in DOMAIN tree'[m].untried_action_ids :
                           tree'[m].untried_action_ids[j] = tree'[m].untried_action_ids[k] => j = k
    BY <1>10 DEF UntriedShape
  <2>1. CASE m # n
    BY <1>10, <2>1 DEF CountInv, UntriedShape
  <2>2. CASE m = n
    <3>1. \A k \in 1 .. U-1 : k \in 1 .. U
      BY <1>7
    <3> QED  BY <1>7, <1>10, <2>2, <3>1
  <2> QED  BY <2>1, <2>2
<1>12. UntriedFits'
  <2>1. ASSUME NEW m \in DOMAIN tree, NEW j \in DOMAIN tree[m].actions
        PROVE  (\E k \in DOMAIN tree'[m].untried_action_ids : tree'[m].untried_action_ids[k] = j)
                 <=> IsUntried(m, j) /\ tree[m].actions[j] # c
    <3>1. CASE m # n
      <4>1. tree[m].actions[j] # c
        BY <1>3, <1>5, <1>8, <3>1, SMTT(30) DEF BuildInv, TreeShape
      <4> QED  BY <1>10, <3>1, <4>1 DEF IsUntried
    <3>2. CASE m = n
      <4>1. tree[m].actions[j] = c <=> j = i
        BY <1>3, <1>5, <1>8, <3>2 DEF BuildInv, TreeShape
      <4>2. (\E k \in 1 .. U-1 : u[k] = j) <=> (\E k \in 1 .. U : ids[k] = j) /\ j # i
        <5>1. ASSUME NEW k \in 1 .. U-1, u[k] = j PROVE (\E h \in 1 .. U : ids[h] = j) /\ j # i
          <6>1. k \in 1 .. U /\ U \in 1 .. U /\ k # U
            BY <1>7
          <6> QED  BY <1>7, <5>1, <6>1
        <5>2. ASSUME NEW k \in 1 .. U, ids[k] = j, j # i PROVE \E h \in 1 .. U-1 : u[h] = j
          BY <1>7, <5>2
        <5> QED  BY <5>1, <5>2
      <4> QED  BY <1>1, <1>7, <1>10, <3>2, <4>1, <4>2 DEF IsUntried
    <3> QED  BY <3>1, <3>2
  <2>2. ASSUME NEW m \in DOMAIN tree, NEW j \in DOMAIN tree[m].actions,
               NEW d, d = tree[m].actions[j]
        PROVE  (\E k \in DOMAIN tree'[m].untried_action_ids : tree'[m].untried_action_ids[k] = j)
                 <=> tree'[d].nr_of_selections = 0 /\ ~OnPath(d)'
    <3>1. d \in DOMAIN tree
      BY <2>2, ChildFacts DEF BuildInv
    <3>2. IsUntried(m, j) <=> tree[d].nr_of_selections = 0 /\ ~OnPath(d)
      BY <2>2 DEF CountInv, UntriedFits
    <3> QED  BY <1>4, <1>9, <2>1, <2>2, <3>1, <3>2
  <2> SUFFICES ASSUME NEW m \in DOMAIN tree, NEW j \in DOMAIN tree[m].actions,
                      NEW d, d = tree[m].actions[j]
               PROVE  (\E k \in DOMAIN tree'[m].untried_action_ids : tree'[m].untried_action_ids[k] = j)
                        <=> tree'[d].nr_of_selections = 0 /\ ~OnPath(d)'
    BY <1>10 DEF UntriedFits, IsUntried, OnPath
  <2> QED  BY <2>2
<1>13. SumsFit'
  BY <1>4, SumsKept DEF CountInv, BuildInv
<1>14. Fresh'
  <2>1. Built
    BY <1>2 DEF CountInv, PathShape, Selecting
  <2> QED  BY <1>2, <2>1 DEF Fresh, Built, Building, Enumerating
<1> QED  BY <1>9, <1>11, <1>12, <1>13, <1>14 DEF CountInv

(* The nodes of the path count the selection: of the children of a node on *)
(* the path one, of those of any other node none.                          *)
LEMMA UpdateKeeps ==
  ASSUME BuildInv, CountInv, Update
  PROVE  CountInv'
<1>1. /\ Selected /\ path' = <<>> /\ UNCHANGED <<plans, stack, at>>
  BY DEF Update, plannerVars
<1>2. /\ SameNodes(tree')
      /\ \A n \in DOMAIN tree :
           /\ tree'[n].untried_action_ids = tree[n].untried_action_ids
           /\ tree'[n].nr_of_selections = tree[n].nr_of_selections + (IF OnPath(n) THEN 1 ELSE 0)
  <2>1. \A n : n \in ToSet(path) <=> OnPath(n)
    BY DEF ToSet, OnPath
  <2>2. /\ SameNodes(tree')
        /\ \A n \in DOMAIN tree :
             /\ tree'[n].untried_action_ids = tree[n].untried_action_ids
             /\ tree'[n].nr_of_selections =
                  tree[n].nr_of_selections + (IF n \in ToSet(path) THEN 1 ELSE 0)
    BY UpdatedNodes DEF BuildInv
  <2> QED  BY <2>1, <2>2
<1>3. /\ DOMAIN tree' = DOMAIN tree /\ \A n \in DOMAIN tree : tree'[n].actions = tree[n].actions
  BY <1>2 DEF SameNodes, BuildInv, TreeShape
<1>4. TreeShape /\ PathShape
  BY DEF BuildInv, CountInv
<1>5. DOMAIN path' = {}
  BY <1>1
<1>6. \A n \in DOMAIN tree : tree[n].nr_of_selections \in Nat
  BY NodeType DEF BuildInv
<1>7. PathShape'
  BY <1>1, <1>5 DEF PathShape
<1>8. UntriedShape'
  BY <1>2, <1>3 DEF CountInv, UntriedShape
<1>9. UntriedFits'
  <2>1. ASSUME NEW n \in DOMAIN tree, NEW i \in DOMAIN tree[n].actions,
               NEW c, c = tree[n].actions[i]
        PROVE  IsUntried(n, i) <=> tree'[c].nr_of_selections = 0
    <3>1. c \in DOMAIN tree
      BY <1>4, <2>1, ChildFacts
    <3>2. IsUntried(n, i) <=> tree[c].nr_of_selections = 0 /\ ~OnPath(c)
      BY <2>1 DEF CountInv, UntriedFits
    <3>3. tree[c].nr_of_selections \in Nat
          /\ tree'[c].nr_of_selections = tree[c].nr_of_selections + (IF OnPath(c) THEN 1 ELSE 0)
      BY <1>2, <1>6, <3>1
    <3> QED  BY <3>2, <3>3
  <2> SUFFICES ASSUME NEW n \in DOMAIN tree, NEW i \in DOMAIN tree[n].actions,
                      NEW c, c = tree[n].actions[i]
               PROVE  IsUntried(n, i) <=> tree'[c].nr_of_selections = 0
    BY <1>2, <1>3, <1>5 DEF UntriedFits, IsUntried, OnPath
  <2> QED  BY <2>1
<1>10. SumsFit'
  <2> SUFFICES ASSUME NEW n \in DOMAIN tree, tree[n].actions # <<>>
               PROVE  tree'[n].nr_of_selections =
                        Total([i \in DOMAIN tree[n].actions |->
                                 tree'[tree[n].actions[i]].nr_of_selections])
    BY <1>3 DEF SumsFit
  <2> DEFINE f == [i \in DOMAIN tree[n].actions |-> tree[tree[n].actions[i]].nr_of_selections]
             g == [i \in DOMAIN tree[n].actions |-> tree'[tree[n].actions[i]].nr_of_selections]
             a == tree[n].actions
             N == Len(a)
  <2>1. /\ N \in Nat /\ DOMAIN a = 1 .. N
        /\ \A i \in 1 .. N : a[i] \in DOMAIN tree \ {Root} /\ tree[a[i]].up = n
        /\ \A i, j \in 1 .. N : a[i] = a[j] => i = j
    BY <1>4, NodeType, SMTT(30) DEF TreeShape
  <2>2. \A i \in 1 .. N :
          /\ f[i] \in Nat
          /\ g[i] = f[i] + (IF OnPath(a[i]) THEN 1 ELSE 0)
    BY <1>2, <1>6, <2>1
  <2>3. f \in [1 .. N -> Nat] /\ g \in [1 .. N -> Nat]
    <3>1. f = [i \in 1 .. N |-> f[i]] /\ g = [i \in 1 .. N |-> g[i]]
      BY <2>1
    <3> HIDE DEF f, g, a, N
    <3>2. \A i \in 1 .. N : f[i] \in Nat /\ g[i] \in Nat
      BY <2>2
    <3> QED  BY <3>1, <3>2
  <2>4. tree[n].nr_of_selections = Total(f)
    BY DEF CountInv, SumsFit
  <2> HIDE DEF f, g
  <2>5. CASE ~OnPath(n)
    <3>1. ASSUME NEW i \in 1 .. N PROVE ~OnPath(a[i])
      <4> SUFFICES ASSUME NEW k \in DOMAIN path, path[k] = a[i] PROVE FALSE
        BY DEF OnPath
      <4>1. k # 1 /\ k-1 \in DOMAIN path /\ path[k-1] = n
        BY <1>4, <2>1, PathUp, SMTT(30)
      <4> QED  BY <2>5, <4>1 DEF OnPath
    <3>2. \A i \in 1 .. N : g[i] = f[i]
      BY <2>2, <3>1
    <3>3. g = f
      BY <2>3, <3>2
    <3> QED  BY <1>2, <1>6, <2>4, <2>5, <3>3 DEF g
  <2>6. CASE OnPath(n)
    <3>1. PICK k \in DOMAIN path : path[k] = n
      BY <2>6 DEF OnPath
    <3>2. k # Len(path) /\ DOMAIN path = 1 .. Len(path) /\ Len(path) \in Nat
      BY <1>1, <1>4, <3>1, PathUp DEF Selected, Last
    <3>3. k+1 \in DOMAIN path /\ k+1 # 1 /\ (k+1)-1 = k /\ k \in Nat
      BY <3>2
    <3>4. PICK i \in 1 .. N : path[k+1] = a[i]
      <4>1. \E i \in DOMAIN tree[path[(k+1)-1]].actions :
              path[k+1] = tree[path[(k+1)-1]].actions[i]
        BY <1>4, <3>3 DEF PathShape
      <4> QED  BY <2>1, <3>1, <3>3, <4>1
    <3>5. OnPath(a[i])
      BY <3>3, <3>4 DEF OnPath
    <3>6. ASSUME NEW j \in 1 .. N, j # i PROVE ~OnPath(a[j])
      <4> SUFFICES ASSUME NEW h \in DOMAIN path, path[h] = a[j] PROVE FALSE
        BY DEF OnPath
      <4>1. h # 1 /\ h-1 \in DOMAIN path /\ path[h-1] = path[k]
        BY <1>4, <2>1, <3>1, PathUp
      <4>2. path[k] \in Nat
        BY <1>4, <3>1 DEF TreeShape
      <4>3. ~(h-1 < k) /\ ~(k < h-1)
        BY <1>4, <4>1, <4>2 DEF PathShape
      <4>4. h = k+1
        BY <3>2, <4>1, <4>3
      <4>5. a[i] = a[j]
        BY <3>4, <4>4
      <4> QED  BY <2>1, <3>6, <4>5
    <3>7. g[i] = f[i] + 1 /\ \A j \in 1 .. N : j # i => g[j] = f[j]
      BY <2>2, <3>5, <3>6
    <3>8. Total(g) = Total(f) + 1
      BY <2>1, <2>3, <3>7, TotalRaised, ZenonT(30)
    <3> QED  BY <1>2, <2>4, <2>6, <3>8 DEF g
  <2> QED  BY <2>5, <2>6
<1>11. Fresh'
  <2>1. Built
    BY <1>1 DEF CountInv, PathShape, Selected
  <2> QED  BY <1>1, <2>1 DEF Fresh, Built, Building, Enumerating
<1> QED  BY <1>7, <1>8, <1>9, <1>10, <1>11 DEF CountInv

LEMMA CountStep == BuildInv /\ CountInv /\ [TreeNext]_allVars => CountInv'
<1> SUFFICES ASSUME BuildInv, CountInv, [TreeNext]_allVars PROVE CountInv'
  OBVIOUS
<1>1. BuildInv'
  BY BuildStep
<1>2. ASSUME ~Built, UNCHANGED <<tree, path>> PROVE CountInv'
  <2>1. path = <<>> /\ Unselected
    BY <1>2 DEF CountInv, PathShape, Fresh
  <2> QED  BY <1>2, <2>1, QuietKeeps
<1>3. CASE UNCHANGED allVars
  <2>1. UNCHANGED <<tree, path, plans, stack, at>>
    BY <1>3 DEF allVars, treeVars, plannerVars
  <2>2. (path = <<>> \/ Built') /\ (~Built' => Unselected)
    BY <2>1 DEF CountInv, PathShape, Fresh, Built, Building, Enumerating
  <2> QED  BY <2>1, <2>2, QuietKeeps
<1>4. CASE Next /\ UNCHANGED treeVars
  <2>1. Enumerating
    BY <1>4 DEF Next, EmitPlan, SkipEdge, FollowEdge, Return, AtAlgorithm, AtEdge
  <2> QED  BY <1>2, <1>4, <2>1 DEF Built, treeVars
<1>5. CASE EraseTJoin
  <2>1. ~Built
    <3> SUFFICES ASSUME Built PROVE FALSE
      OBVIOUS
    <3>1. plans' = WithoutTJoin /\ plans' # plans /\ Len(tree) = 1
      BY <1>5 DEF EraseTJoin
    <3>2. at.plan = 1 /\ ~(at.plan <= Len(plans)) /\ Len(plans) \in Nat /\ plans \in Seq(QueryPlans)
      BY <3>1, PlanFacts, CallFacts DEF BuildInv, Place, Built, Building
    <3>3. plans = <<>>
      BY <3>2
    <3>4. plans' \in Seq(QueryPlans) /\ OrderedPart(plans, plans')
      BY <3>1, <3>2, ErasedPart
    <3>5. PICK q : q = plans'
      OBVIOUS
    <3>6. DOMAIN q = {}
      BY <3>3, <3>4, <3>5 DEF OrderedPart
    <3>7. q = <<>>
      BY <3>4, <3>5, <3>6
    <3> QED  BY <3>1, <3>3, <3>5, <3>7
  <2> QED  BY <1>2, <1>5, <2>1 DEF EraseTJoin, treeVars
<1>6. CASE FollowStep
  <2>1. ~Built
    BY <1>6 DEF FollowStep, AtStep, Built
  <2> QED  BY <1>2, <1>6, <2>1 DEF FollowStep
<1>7. CASE AddStep \/ AddLeaf
  <2>1. PICK p, a : p = parent.node /\ (IF AddStep THEN a = -1 ELSE a = at.plan - 1)
    OBVIOUS
  <2>2. Building /\ tree' = WithChild(p, a) /\ path' = path
    BY <1>7, <2>1 DEF AddStep, AddLeaf, AtStep, LeafAction
  <2>3. a \in Int
    BY <2>1, <2>2, BuildingFacts
  <2>4. p \in DOMAIN tree
    <3>1. /\ p = NodeOf(at.plan, at.step-1) /\ at.step-1 \in Nat
          /\ at.step-1 = 0 \/ InTree(at.plan, at.step-1)
      BY <2>1, <2>2, BuildingFacts
    <3> QED  BY <3>1, AboveFacts
  <2> QED  BY <1>1, <2>2, <2>3, <2>4, GrowKeeps DEF Built
<1> QED  BY <1>3, <1>4, <1>5, <1>6, <1>7, StartKeeps, UntriedKeeps, BestKeeps, UpdateKeeps
         DEF TreeNext

LEMMA CountInvFits == TreeShape /\ CountInv => CountsFit
<1> SUFFICES ASSUME TreeShape, CountInv, path = <<>>, NEW n \in DOMAIN tree
             PROVE  /\ Built => \A i \in DOMAIN tree[n].actions :
                         i \in ToSet(tree[n].untried_action_ids) <=>
                           tree[tree[n].actions[i]].nr_of_selections = 0
                    /\ tree[n].actions # <<>> =>
                         tree[n].nr_of_selections =
                           FoldFunction(+, 0, [i \in DOMAIN tree[n].actions |->
                                                 tree[tree[n].actions[i]].nr_of_selections])
  BY DEF CountsFit
<1>1. \A x : ~OnPath(x)
  BY DEF OnPath
<1>2. \A i : i \in ToSet(tree[n].untried_action_ids) <=> IsUntried(n, i)
  BY DEF ToSet, IsUntried
<1>3. \A i \in DOMAIN tree[n].actions :
        IsUntried(n, i) <=> tree[tree[n].actions[i]].nr_of_selections = 0
  BY <1>1 DEF CountInv, UntriedFits
<1>4. tree[n].actions # <<>> =>
        tree[n].nr_of_selections =
          Total([i \in DOMAIN tree[n].actions |-> tree[tree[n].actions[i]].nr_of_selections])
  BY DEF CountInv, SumsFit
<1> QED  BY <1>2, <1>3, <1>4 DEF Total

(* However often and in whatever order plans are selected: between two     *)
(* selections the untried children are exactly those that were never       *)
(* selected, and a node has been selected as often as its children         *)
(* together.                                                               *)
THEOREM CountsAlwaysFit == TreeSpec => []CountsFit
<1>1. TreeInit => BuildInv /\ CountInv
  BY BuildInit, CountInit
<1>2. BuildInv /\ CountInv /\ [TreeNext]_allVars => BuildInv' /\ CountInv'
  BY BuildStep, CountStep
<1>3. BuildInv /\ CountInv => CountsFit
  BY CountInvFits DEF BuildInv
<1> QED  BY <1>1, <1>2, <1>3, PTL DEF TreeSpec
------------------------------------------------------------------------------
(* Fourth part: every plan is found once.  Walks are paths from the start  *)
(* along edges that are not excluded, of any length.                       *)
GraphEdges == [reduction : Reductions, to_node : Nodes]

NodeAt(w, i) == IF i = 1 THEN start ELSE w[i-1].to_node

IsWalk(w) == w \in Seq(GraphEdges) /\ \A i \in DOMAIN w : w[i] \in Usable(NodeAt(w, i))

Taken(s) == [i \in DOMAIN s |-> s[i].reduction]

LEMMA UsableFacts ==
  ASSUME NEW n \in Nodes
  PROVE  /\ Usable(n) \subseteq GraphEdges
         /\ \A e \in Usable(n) : /\ e.reduction \notin excluded_reductions
                                 /\ \E k \in DOMAIN edges[n] : e = edges[n][k]
         /\ \A e, f \in Usable(n) : e.reduction = f.reduction => e = f
         /\ \A k \in DOMAIN edges[n] : edges[n][k].reduction \notin excluded_reductions
                                         => edges[n][k] \in Usable(n)
<1>1. edges[n] \in Seq(GraphEdges)
  BY GraphAssumption DEF GraphEdges
<1>2. \A k \in DOMAIN edges[n] : edges[n][k] \in GraphEdges
  BY <1>1, LenProperties, ElementOfSeq
<1>3. \A i, j \in DOMAIN edges[n] : edges[n][i].reduction = edges[n][j].reduction => i = j
  BY GraphAssumption
<1> QED  BY <1>2, <1>3 DEF Usable, ToSet

LEMMA WalkNodes ==
  ASSUME start \in Nodes, NEW w, IsWalk(w)
  PROVE  /\ Len(w) \in Nat /\ DOMAIN w = 1 .. Len(w)
         /\ \A i \in 1 .. Len(w) : w[i] \in GraphEdges
         /\ \A i \in 1 .. Len(w) + 1 : NodeAt(w, i) \in Nodes
         /\ EndOf(w) = NodeAt(w, Len(w) + 1) /\ EndOf(w) \in Nodes
<1>1. /\ w \in Seq(GraphEdges) /\ Len(w) \in Nat /\ DOMAIN w = 1 .. Len(w)
      /\ \A i \in 1 .. Len(w) : w[i] \in GraphEdges
  BY LenProperties, ElementOfSeq DEF IsWalk
<1>2. ASSUME NEW i \in 1 .. Len(w) + 1 PROVE NodeAt(w, i) \in Nodes
  <2>1. CASE i = 1
    BY <2>1 DEF NodeAt
  <2>2. CASE i # 1
    <3>1. i - 1 \in 1 .. Len(w)
      BY <1>1, <2>2
    <3> QED  BY <1>1, <2>2, <3>1 DEF NodeAt, GraphEdges
  <2> QED  BY <2>1, <2>2
<1>3. EndOf(w) = NodeAt(w, Len(w) + 1)
  <2>1. CASE w = <<>>
    BY <2>1 DEF EndOf, NodeAt
  <2>2. CASE w # <<>>
    <3>1. Len(w) # 0 /\ Last(w) = w[Len(w)] /\ Len(w) + 1 - 1 = Len(w) /\ Len(w) + 1 # 1
      BY <1>1, <2>2, EmptySeq DEF Last
    <3> QED  BY <2>2, <3>1 DEF EndOf, NodeAt
  <2> QED  BY <2>1, <2>2
<1>4. Len(w) + 1 \in 1 .. Len(w) + 1
  BY <1>1
<1> QED  BY <1>1, <1>2, <1>3, <1>4

(* Reductions tell the edges of a walk.                                    *)
SameUpTo(w, v, d) ==
  \A i \in 1 .. d : i \in DOMAIN w /\ i \in DOMAIN v /\ w[i].reduction = v[i].reduction

LEMMA SameWalk ==
  ASSUME start \in Nodes, NEW w, IsWalk(w), NEW v, IsWalk(v), NEW d \in Nat, SameUpTo(w, v, d)
  PROVE  /\ \A i \in 1 .. d : w[i] = v[i]
         /\ \A i \in 1 .. d + 1 : NodeAt(w, i) = NodeAt(v, i)
<1>1. \A i \in 1 .. d : w[i] = v[i]
  <2> SUFFICES ASSUME NEW k \in 1 .. d, w[k] # v[k] PROVE FALSE
    OBVIOUS
  <2> DEFINE T == {i \in 1 .. d : w[i] # v[i]}
  <2>1. T \subseteq Nat /\ T # {}
    OBVIOUS
  <2>2. PICK i \in T : \A n \in T : i <= n
    <3> HIDE DEF T
    <3> QED  BY <2>1, LeastElement
  <2>3. i \in 1 .. d /\ w[i] # v[i] /\ i \in Nat
    BY <2>2
  <2>4. NodeAt(w, i) = NodeAt(v, i)
    <3>1. CASE i = 1
      BY <3>1 DEF NodeAt
    <3>2. CASE i # 1
      <4>1. i - 1 \in 1 .. d /\ ~(i <= i - 1)
        BY <2>3, <3>2
      <4>2. w[i-1] = v[i-1]
        BY <2>2, <4>1
      <4> QED  BY <3>2, <4>2 DEF NodeAt
    <3> QED  BY <3>1, <3>2
  <2>5. i \in DOMAIN w /\ i \in DOMAIN v /\ w[i].reduction = v[i].reduction
    BY <2>3 DEF SameUpTo
  <2>6. NodeAt(w, i) \in Nodes
    BY <2>3, <2>5, WalkNodes
  <2>7. w[i] \in Usable(NodeAt(w, i)) /\ v[i] \in Usable(NodeAt(w, i))
    BY <2>4, <2>5 DEF IsWalk
  <2> QED  BY <2>3, <2>5, <2>6, <2>7, UsableFacts
<1>2. ASSUME NEW i \in 1 .. d + 1 PROVE NodeAt(w, i) = NodeAt(v, i)
  <2>1. i = 1 \/ i - 1 \in 1 .. d
    OBVIOUS
  <2> QED  BY <1>1, <2>1 DEF NodeAt
<1> QED  BY <1>1, <1>2

LEMMA EmptyWalk == IsWalk(<<>>)
BY DEF IsWalk

LEMMA LongerWalk ==
  ASSUME start \in Nodes, NEW w, IsWalk(w), NEW e, e \in Usable(EndOf(w))
  PROVE  /\ IsWalk(Append(w, e)) /\ Len(Append(w, e)) = Len(w) + 1
         /\ \A i \in 1 .. Len(w) : Append(w, e)[i] = w[i]
         /\ Append(w, e)[Len(w) + 1] = e
         /\ \A i \in 1 .. Len(w) + 1 : NodeAt(Append(w, e), i) = NodeAt(w, i)
<1>1. /\ Len(w) \in Nat /\ DOMAIN w = 1 .. Len(w) /\ EndOf(w) \in Nodes
      /\ EndOf(w) = NodeAt(w, Len(w) + 1) /\ w \in Seq(GraphEdges)
  BY WalkNodes DEF IsWalk
<1>2. e \in GraphEdges
  BY <1>1, UsableFacts
<1> DEFINE v == Append(w, e)
<1>3. /\ v \in Seq(GraphEdges) /\ Len(v) = Len(w) + 1 /\ v[Len(w) + 1] = e
      /\ \A i \in 1 .. Len(w) : v[i] = w[i]
      /\ DOMAIN v = 1 .. Len(w) + 1
  BY <1>1, <1>2
<1> HIDE DEF v
<1>4. ASSUME NEW i \in 1 .. Len(w) + 1 PROVE NodeAt(v, i) = NodeAt(w, i)
  <2>1. i = 1 \/ i - 1 \in 1 .. Len(w)
    BY <1>1
  <2> QED  BY <1>3, <2>1 DEF NodeAt
<1>5. ASSUME NEW i \in DOMAIN v PROVE v[i] \in Usable(NodeAt(v, i))
  <2>1. CASE i \in 1 .. Len(w)
    BY <1>1, <1>3, <1>4, <2>1 DEF IsWalk
  <2>2. CASE i = Len(w) + 1
    BY <1>1, <1>3, <1>4, <2>2
  <2> QED  BY <1>1, <1>3, <2>1, <2>2
<1> QED  BY <1>3, <1>4, <1>5 DEF IsWalk, v

LEMMA ShorterWalk ==
  ASSUME start \in Nodes, NEW w, IsWalk(w), w # <<>>
  PROVE  /\ IsWalk(Front(w)) /\ Len(Front(w)) = Len(w) - 1 /\ Len(w) \in Nat \ {0}
         /\ \A i \in 1 .. Len(w) - 1 : Front(w)[i] = w[i]
         /\ \A i \in 1 .. Len(w) : NodeAt(Front(w), i) = NodeAt(w, i)
         /\ EndOf(Front(w)) = NodeAt(w, Len(w)) /\ w[Len(w)] \in Usable(EndOf(Front(w)))
         /\ w = Append(Front(w), w[Len(w)])
<1> DEFINE v == Front(w)
           n == Len(w)
<1>1. /\ n \in Nat \ {0} /\ v \in Seq(GraphEdges) /\ Len(v) = n - 1 /\ w \in Seq(GraphEdges)
      /\ \A i \in 1 .. n - 1 : v[i] = w[i]
      /\ \A i \in 1 .. n : w[i] \in Usable(NodeAt(w, i))
  BY FrontFacts DEF IsWalk
<1>2. w = Append(v, w[n])
  BY <1>1
<1> HIDE DEF v, n
<1>3. ASSUME NEW i \in 1 .. n PROVE NodeAt(v, i) = NodeAt(w, i)
  <2>1. i = 1 \/ i - 1 \in 1 .. n - 1
    BY <1>1
  <2> QED  BY <1>1, <2>1 DEF NodeAt
<1>4. \A i \in 1 .. n - 1 : i \in 1 .. n
  BY <1>1
<1>5. DOMAIN v = 1 .. n - 1 /\ n \in 1 .. n /\ n - 1 + 1 = n
  BY <1>1
<1>6. IsWalk(v)
  BY <1>1, <1>3, <1>4, <1>5 DEF IsWalk
<1>7. EndOf(v) = NodeAt(w, n)
  BY <1>1, <1>3, <1>5, <1>6, WalkNodes
<1> QED  BY <1>1, <1>2, <1>3, <1>5, <1>6, <1>7 DEF v, n

(* Walks are those with at most as many edges as there are nodes.          *)
LEMMA WalksFacts ==
  ASSUME start \in Nodes
  PROVE  Walks = {w \in Seq(GraphEdges) : IsWalk(w) /\ Len(w) <= Cardinality(Nodes)}
<1> DEFINE N == Cardinality(Nodes)
           D == 0 .. N
           Longer(S) == UNION {{Append(w, e) : e \in Usable(EndOf(w))} : w \in S}
           Val(f, n) == IF n = 0 THEN {<<>>} ELSE Longer(f[n-1])
           rank == [n \in D |-> n]
           Of(n) == {w \in Seq(GraphEdges) : IsWalk(w) /\ Len(w) = n}
<1>1. N \in Nat
  BY ListingAssumption, FS_CardinalityType
<1>2. Of(0) = {<<>>}
  <2>1. <<>> \in Of(0)
    BY EmptyWalk DEF IsWalk
  <2>2. \A w \in Of(0) : w = <<>>
    BY EmptySeq
  <2> HIDE DEF Of
  <2> QED  BY <2>1, <2>2
<1>3. ASSUME NEW n \in Nat \ {0} PROVE Of(n) = Longer(Of(n-1))
  <2>1. ASSUME NEW w \in Of(n) PROVE w \in Longer(Of(n-1))
    <3>1. IsWalk(w) /\ w # <<>> /\ Len(w) = n
      BY EmptySeq
    <3>2. /\ IsWalk(Front(w)) /\ Len(Front(w)) = n - 1
          /\ w[n] \in Usable(EndOf(Front(w))) /\ w = Append(Front(w), w[n])
      BY <3>1, ShorterWalk
    <3>3. Front(w) \in Of(n-1)
      BY <3>2 DEF IsWalk
    <3> HIDE DEF Of
    <3> QED  BY <3>2, <3>3
  <2>2. ASSUME NEW w \in Of(n-1), NEW e \in Usable(EndOf(w)) PROVE Append(w, e) \in Of(n)
    <3>1. IsWalk(w) /\ Len(w) = n - 1
      OBVIOUS
    <3>2. IsWalk(Append(w, e)) /\ Len(Append(w, e)) = n
      BY <3>1, LongerWalk
    <3> QED  BY <3>2 DEF IsWalk
  <2> HIDE DEF Of
  <2>3. PICK S : S = Of(n-1)
    OBVIOUS
  <2>4. \A w : w \in Longer(S) <=> \E v \in S : \E e \in Usable(EndOf(v)) : w = Append(v, e)
    OBVIOUS
  <2>5. PICK T : T = Longer(S)
    OBVIOUS
  <2>6. \A w \in Of(n) : w \in T
    BY <2>1, <2>3, <2>5
  <2>7. \A w \in T : w \in Of(n)
    <3>1. \A w \in T : \E v \in S : \E e \in Usable(EndOf(v)) : w = Append(v, e)
      BY <2>4, <2>5
    <3>2. \A v \in S : \A e \in Usable(EndOf(v)) : Append(v, e) \in Of(n)
      BY <2>2, <2>3
    <3> QED  BY <3>1, <3>2
  <2>8. Of(n) = T
    BY <2>6, <2>7
  <2> QED  BY <2>3, <2>5, <2>8
<1> DEFINE g == [n \in D |-> Of(n)]
<1>4. g = [n \in D |-> Val(g, n)]
  <2>1. ASSUME NEW n \in D PROVE Of(n) = Val(g, n)
    <3>1. CASE n = 0
      BY <1>2, <3>1
    <3>2. CASE n # 0
      <4>1. n \in Nat \ {0} /\ n - 1 \in D
        BY <1>1, <3>2
      <4> HIDE DEF Of, Longer
      <4>2. g[n-1] = Of(n-1)
        BY <4>1
      <4> QED  BY <1>3, <3>2, <4>1, <4>2
    <3> QED  BY <3>1, <3>2
  <2> HIDE DEF Of, Val
  <2> QED  BY <2>1
<1> DEFINE walks == CHOOSE f : f = [n \in D |-> Val(f, n)]
<1>5. walks = [n \in D |-> Val(walks, n)]
  <2> HIDE DEF Val, g
  <2> QED  BY <1>4, ZenonT(30)
<1> DEFINE I == {n \in D : walks[n] = Of(n)}
<1>6. D \subseteq I
  <2> HIDE DEF walks
  <2>1. rank \in [D -> Nat] /\ \A n \in D : rank[n] = n
    BY <1>1
  <2>2. \A n \in D : walks[n] = Val(walks, n)
    <3> HIDE DEF Val
    <3> QED  BY <1>5
  <2>3. ASSUME NEW n \in D, \A k \in D : rank[k] < rank[n] => k \in I PROVE n \in I
    <3>1. CASE n = 0
      <4> HIDE DEF Of
      <4> QED  BY <1>2, <2>2, <3>1
    <3>2. CASE n # 0
      <4>1. n \in Nat \ {0} /\ n - 1 \in D /\ n - 1 < n
        BY <1>1, <3>2
      <4> HIDE DEF rank, Of, Longer
      <4>2. walks[n-1] = Of(n-1)
        BY <2>1, <2>3, <4>1
      <4>3. walks[n] = Longer(Of(n-1))
        BY <2>2, <3>2, <4>2
      <4> QED  BY <1>3, <4>1, <4>3
    <3> QED  BY <3>1, <3>2
  <2> HIDE DEF I, rank, D
  <2> QED  BY <2>1, <2>3, RankInduction
<1>7. DOMAIN walks = D
  <2> HIDE DEF Val
  <2> QED  BY <1>5
<1>8. Walks = UNION {walks[n] : n \in DOMAIN walks}
  BY DEF Walks
<1> HIDE DEF walks
<1>9. Walks = UNION {Of(n) : n \in D}
  <2> HIDE DEF Of
  <2> QED  BY <1>6, <1>7, <1>8
<1>10. \A w : w \in Walks <=> \E n \in D : w \in Of(n)
  <2> HIDE DEF Of
  <2> QED  BY <1>9
<1>11. ASSUME NEW w \in Seq(GraphEdges), IsWalk(w), Len(w) <= N PROVE Len(w) \in D /\ w \in Of(Len(w))
  <2>1. Len(w) \in Nat
    OBVIOUS
  <2> QED  BY <1>1, <1>11, <2>1
<1>12. ASSUME NEW n \in D, NEW w \in Of(n) PROVE w \in Seq(GraphEdges) /\ IsWalk(w) /\ Len(w) <= N
  BY <1>1
<1>13. \A w : w \in Walks <=> w \in Seq(GraphEdges) /\ IsWalk(w) /\ Len(w) <= N
  <2> HIDE DEF Of, D, N
  <2> QED  BY <1>10, <1>11, <1>12
<1> QED  BY <1>13

(* If the lengths of walks have a bound, no walk passes a node twice: what *)
(* lies between could be repeated.                                         *)
LEMMA NoNodeTwice ==
  ASSUME start \in Nodes, NEW w, IsWalk(w), \A v : IsWalk(v) => Len(v) <= Len(w),
         NEW i \in 1 .. Len(w) + 1, NEW j \in 1 .. Len(w) + 1, i < j, NodeAt(w, i) = NodeAt(w, j)
  PROVE  FALSE
<1> DEFINE n == Len(w)
           c == j - i
           v == [k \in 1 .. n + c |-> IF k < j THEN w[k] ELSE w[k-c]]
<1>1. /\ n \in Nat /\ i \in Nat /\ j \in Nat /\ 1 <= i /\ j <= n + 1 /\ c \in Nat \ {0} /\ c = j - i
      /\ DOMAIN w = 1 .. n /\ \A k \in 1 .. n : w[k] \in GraphEdges
      /\ \A k \in 1 .. n : w[k] \in Usable(NodeAt(w, k))
  BY WalkNodes DEF IsWalk
<1>2. /\ v \in [1 .. n + c -> GraphEdges] /\ DOMAIN v = 1 .. n + c
      /\ \A k \in 1 .. n + c : k < j => v[k] = w[k]
      /\ \A k \in 1 .. n + c : ~(k < j) => v[k] = w[k-c]
  <2>1. ASSUME NEW k \in 1 .. n + c PROVE k < j \/ k - c \in 1 .. n
    BY <1>1
  <2>2. ASSUME NEW k \in 1 .. n + c, k < j PROVE k \in 1 .. n
    BY <1>1, <2>2
  <2> HIDE DEF n, c
  <2> QED  BY <1>1, <2>1, <2>2
<1> HIDE DEF v, n, c
<1>3. v \in Seq(GraphEdges) /\ Len(v) = n + c
  <2>1. n + c \in Nat
    BY <1>1
  <2> QED  BY <1>2, <2>1
<1>4. ASSUME NEW k \in 1 .. n + c PROVE v[k] \in Usable(NodeAt(v, k))
  <2>1. CASE k < j
    <3>1. k \in 1 .. n
      BY <1>1, <2>1
    <3>2. NodeAt(v, k) = NodeAt(w, k)
      <4>1. CASE k = 1
        BY <4>1 DEF NodeAt
      <4>2. CASE k # 1
        <5>1. k - 1 \in 1 .. n + c /\ k - 1 < j
          BY <1>1, <2>1, <4>2
        <5>2. v[k-1] = w[k-1]
          BY <1>2, <5>1
        <5> QED  BY <4>2, <5>2 DEF NodeAt
      <4> QED  BY <4>1, <4>2
    <3> QED  BY <1>1, <1>2, <2>1, <3>1, <3>2
  <2>2. CASE k = j
    <3>1. k - 1 \in 1 .. n + c /\ k - 1 < j /\ k # 1 /\ k - c = i /\ i \in 1 .. n
      BY <1>1, <2>2
    <3>2. v[k-1] = w[k-1] /\ v[k] = w[i]
      BY <1>2, <2>2, <3>1
    <3>3. NodeAt(v, k) = NodeAt(w, i)
      BY <2>2, <3>1, <3>2 DEF NodeAt
    <3> QED  BY <1>1, <3>1, <3>2, <3>3
  <2>3. CASE k > j
    <3>1. /\ k - 1 \in 1 .. n + c /\ ~(k - 1 < j) /\ ~(k < j) /\ k # 1 /\ k - c # 1
          /\ k - c \in 1 .. n /\ k - 1 - c = k - c - 1
      BY <1>1, <2>3
    <3>2. v[k-1] = w[k - c - 1] /\ v[k] = w[k-c]
      BY <1>2, <3>1
    <3>3. NodeAt(v, k) = NodeAt(w, k - c)
      BY <3>1, <3>2 DEF NodeAt
    <3> QED  BY <1>1, <3>1, <3>2, <3>3
  <2> QED  BY <1>1, <2>1, <2>2, <2>3
<1>5. IsWalk(v)
  BY <1>2, <1>3, <1>4 DEF IsWalk
<1>6. Len(v) <= n
  BY <1>5 DEF n
<1> QED  BY <1>1, <1>3, <1>6

LEMMA WalksAreShort ==
  ASSUME start \in Nodes, NEW b \in Nat, \A w : IsWalk(w) => Len(w) <= b,
         NEW u, IsWalk(u)
  PROVE  Len(u) <= Cardinality(Nodes)
<1> SUFFICES ASSUME Len(u) > Cardinality(Nodes) PROVE FALSE
  BY ListingAssumption, FS_CardinalityType, WalkNodes
<1> DEFINE T == {b - Len(w) : w \in {x \in Seq(GraphEdges) : IsWalk(x)}}
<1>1. T \subseteq Nat /\ b - Len(u) \in T
  <2>1. ASSUME NEW w \in Seq(GraphEdges), IsWalk(w) PROVE b - Len(w) \in Nat
    <3>1. Len(w) <= b /\ Len(w) \in Nat
      BY <2>1, WalkNodes
    <3> QED  BY <3>1
  <2>2. u \in Seq(GraphEdges)
    BY DEF IsWalk
  <2> QED  BY <2>1, <2>2
<1>2. PICK m \in T : \A n \in T : m <= n
  <2> HIDE DEF T
  <2> QED  BY <1>1, LeastElement
<1>3. PICK w \in Seq(GraphEdges) : IsWalk(w) /\ m = b - Len(w)
  OBVIOUS
<1>4. ASSUME NEW v, IsWalk(v) PROVE Len(v) <= Len(w)
  <2>1. v \in Seq(GraphEdges) /\ Len(v) \in Nat /\ Len(w) \in Nat
    BY <1>3, <1>4, WalkNodes DEF IsWalk
  <2>2. b - Len(v) \in T
    BY <1>4, <2>1
  <2>3. b - Len(w) <= b - Len(v)
    BY <1>2, <1>3, <2>2
  <2> QED  BY <2>1, <2>3
<1> DEFINE L == Len(w) + 1
           f == [i \in 1 .. L |-> NodeAt(w, i)]
<1>5. /\ L \in Nat /\ L > Cardinality(Nodes) /\ Cardinality(Nodes) \in Nat
      /\ \A i \in 1 .. L : NodeAt(w, i) \in Nodes
  <2>1. Len(u) <= Len(w) /\ Len(w) \in Nat /\ Len(u) \in Nat /\ Cardinality(Nodes) \in Nat
    BY <1>3, <1>4, WalkNodes, ListingAssumption, FS_CardinalityType
  <2> QED  BY <1>3, <2>1, WalkNodes
<1>6. ASSUME NEW i \in 1 .. L, NEW j \in 1 .. L, NodeAt(w, i) = NodeAt(w, j) PROVE i = j
  <2>1. ~(i < j) /\ ~(j < i)
    BY <1>3, <1>4, <1>6, NoNodeTwice
  <2> QED  BY <1>5, <2>1
<1> HIDE DEF L
<1>7. f \in Injection(1 .. L, Nodes)
  BY <1>5, <1>6 DEF Injection, IsInjective
<1>8. IsFiniteSet(1 .. L) /\ Cardinality(1 .. L) = L
  BY <1>5, FS_Interval
<1>9. Cardinality(1 .. L) <= Cardinality(Nodes)
  BY <1>7, <1>8, ListingAssumption, FS_Injection DEF ExistsInjection
<1> QED  BY <1>5, <1>8, <1>9

------------------------------------------------------------------------------
(* The walks that a call has behind it have their plans.  A call at depth  *)
(* d has behind it what goes on along its first d-1 steps and then along   *)
(* an edge that it has passed and returned from.                           *)
HasPlan(w, a) == \E m \in DOMAIN plans : Found(m) = <<Taken(w), a>>

AllFound(w) ==
  /\ Len(w) <= running_reduction_id
  /\ \A a \in ToSet(algorithms[EndOf(w)]) \ excluded_algorithms : HasPlan(w, a)

CallsWalk(v) ==
  /\ IsWalk(v) /\ Len(v) = Len(steps) /\ SameUpTo(v, steps, Len(steps))
  /\ \A d \in DOMAIN stack : stack[d].node = NodeAt(v, d)

(* The algorithms that the d-th call has passed.                           *)
Emitted(d, a) ==
  \E k \in DOMAIN algorithms[stack[d].node] :
    k < stack[d].algorithm /\ a = algorithms[stack[d].node][k]

EndsHere(w, d) == IsWalk(w) /\ SameUpTo(w, steps, d-1) /\ Len(w) = d-1

LeavesHere(w, d) ==
  /\ IsWalk(w) /\ SameUpTo(w, steps, d-1) /\ d \in DOMAIN w
  /\ w[d].reduction \in Behind(stack[d])
  /\ ~(d \in DOMAIN steps /\ w[d].reduction = steps[d].reduction)

OuterPassed ==
  \A d \in DOMAIN stack : d < Len(stack) => Len(algorithms[stack[d].node]) < stack[d].algorithm

PlansAreOfWalks ==
  \A m \in DOMAIN plans : \E w, a :
    /\ IsWalk(w) /\ Found(m) = <<Taken(w), a>>
    /\ a \in ToSet(algorithms[EndOf(w)]) \ excluded_algorithms

AlgorithmsDone ==
  \A d \in DOMAIN stack : \A w, a :
    EndsHere(w, d) /\ Emitted(d, a) /\ a \notin excluded_algorithms => HasPlan(w, a)

EdgesDone == \A d \in DOMAIN stack : \A w : LeavesHere(w, d) => AllFound(w)

NoPlanTwice == \A m, n \in DOMAIN plans : Found(m) = Found(n) => m = n

(* The plans that the innermost call is to emit are not there yet.         *)
StillNew == \A a : HasPlan(steps, a) => Emitted(Len(stack), a)

OnceInv ==
  /\ start \in Nodes /\ Len(steps) <= running_reduction_id
  /\ Enumerating => StillNew /\ \E v : CallsWalk(v)
  /\ ~Enumerating => \A w : IsWalk(w) => AllFound(w)
  /\ OuterPassed /\ PlansAreOfWalks /\ AlgorithmsDone /\ EdgesDone /\ NoPlanTwice

LEMMA ConfigStays ==
  ASSUME UNCHANGED configVars
  PROVE  /\ start' = start /\ excluded_algorithms' = excluded_algorithms
         /\ \A n : Usable(n)' = Usable(n)
         /\ \A w, i : NodeAt(w, i)' = NodeAt(w, i)
         /\ \A w : EndOf(w)' = EndOf(w) /\ IsWalk(w)' = IsWalk(w)
<1>1. start' = start /\ excluded_algorithms' = excluded_algorithms
      /\ excluded_reductions' = excluded_reductions
  BY DEF configVars
<1> QED  BY <1>1 DEF Usable, NodeAt, EndOf, IsWalk

(* Plans and ids that are added take nothing away.                         *)
LEMMA FoundStays ==
  ASSUME PathInv, start \in Nodes, UNCHANGED configVars,
         \A m \in DOMAIN plans : m \in DOMAIN plans' /\ plans'[m] = plans[m],
         running_reduction_id' \in Nat, running_reduction_id <= running_reduction_id'
  PROVE  /\ \A w, a : HasPlan(w, a) => HasPlan(w, a)'
         /\ \A w : IsWalk(w) /\ AllFound(w) => AllFound(w)'
<1>1. \A m \in DOMAIN plans : Found(m)' = Found(m)
  BY DEF Found
<1>2. ASSUME NEW w, NEW a, HasPlan(w, a) PROVE HasPlan(w, a)'
  <2>1. PICK m \in DOMAIN plans : Found(m) = <<Taken(w), a>>
    BY <1>2 DEF HasPlan
  <2>2. Taken(w)' = Taken(w)
    BY DEF Taken
  <2> QED  BY <1>1, <2>1, <2>2 DEF HasPlan
<1>3. ASSUME NEW w, IsWalk(w), AllFound(w) PROVE AllFound(w)'
  <2>1. Len(w) <= running_reduction_id'
    <3>1. Len(w) \in Nat /\ running_reduction_id \in Nat /\ Len(w) <= running_reduction_id
      BY <1>3, WalkNodes, CallFacts DEF AllFound
    <3> QED  BY <3>1
  <2> QED  BY <1>2, <1>3, <2>1, ConfigStays DEF AllFound
<1> QED  BY <1>2, <1>3

(* Who goes along the calls is where they are.                             *)
LEMMA AlongCalls ==
  ASSUME PathInv, start \in Nodes, Enumerating, NEW v, CallsWalk(v), NEW d \in DOMAIN stack,
         NEW w, IsWalk(w), SameUpTo(w, steps, d-1)
  PROVE  /\ d \in 1 .. Len(stack) /\ d - 1 \in Nat /\ stack[d].node = NodeAt(w, d)
         /\ stack[d].node \in Nodes /\ \A i \in 1 .. d-1 : w[i] = v[i]
<1>1. /\ Len(stack) \in Nat \ {0} /\ DOMAIN stack = 1 .. Len(stack) /\ Len(steps) = Len(stack) - 1
      /\ DOMAIN steps = 1 .. Len(steps)
  BY CallFacts
<1>2. /\ d \in 1 .. Len(stack) /\ d - 1 \in Nat /\ d \in 1 .. (d - 1) + 1
      /\ \A i \in 1 .. d-1 : i \in 1 .. Len(steps)
  BY <1>1
<1>3. SameUpTo(w, v, d-1)
  BY <1>2 DEF CallsWalk, SameUpTo
<1>4. NodeAt(w, d) = NodeAt(v, d) /\ \A i \in 1 .. d-1 : w[i] = v[i]
  BY <1>2, <1>3, SameWalk DEF CallsWalk
<1>5. NodeAt(v, d) \in Nodes
  <2>1. d \in 1 .. Len(v) + 1
    BY <1>1, <1>2 DEF CallsWalk
  <2> QED  BY <2>1, WalkNodes DEF CallsWalk
<1> QED  BY <1>2, <1>4, <1>5 DEF CallsWalk

LEMMA TakenSame ==
  ASSUME NEW w, NEW s, Len(w) = Len(s), DOMAIN w = 1 .. Len(w), DOMAIN s = 1 .. Len(s),
         SameUpTo(w, s, Len(s))
  PROVE  Taken(w) = Taken(s)
BY DEF Taken, SameUpTo

LEMMA SameTaken ==
  ASSUME NEW w, NEW s, Taken(w) = Taken(s)
  PROVE  DOMAIN w = DOMAIN s /\ \A i \in DOMAIN w : w[i].reduction = s[i].reduction
<1>1. DOMAIN Taken(w) = DOMAIN w /\ DOMAIN Taken(s) = DOMAIN s
  BY DEF Taken
<1>2. /\ \A i \in DOMAIN w : Taken(w)[i] = w[i].reduction
      /\ \A i \in DOMAIN s : Taken(s)[i] = s[i].reduction
  BY DEF Taken
<1> QED  BY <1>1, <1>2

LEMMA OnceInit == Init => OnceInv
<1> SUFFICES ASSUME Init PROVE OnceInv
  OBVIOUS
<1>1. /\ start \in Nodes /\ stack = <<Frame(start)>> /\ steps = <<>> /\ plans = <<>>
      /\ running_reduction_id = 0
  BY GraphAssumption DEF Init
<1>2. /\ DOMAIN stack = {1} /\ stack[1].node = start /\ stack[1].algorithm = 1 /\ stack[1].edge = 1
      /\ Len(stack) = 1 /\ stack # <<>>
  <2>1. DOMAIN stack = 1 .. 1 /\ Len(stack) = 1 /\ stack[1] = Frame(start) /\ stack # <<>>
    BY <1>1
  <2> QED  BY <2>1 DEF Frame
<1>3. DOMAIN plans = {} /\ DOMAIN steps = {} /\ Len(steps) = 0
  BY <1>1
<1>4. CallsWalk(<<>>)
  BY <1>1, <1>2, EmptyWalk DEF CallsWalk, SameUpTo, NodeAt
<1>5. Behind(stack[1]) = {}
  <2>1. edges[start] \in Seq(GraphEdges)
    BY <1>1, GraphAssumption DEF GraphEdges
  <2>2. \A l \in DOMAIN edges[start] : ~(l < 1)
    BY <2>1
  <2> QED  BY <1>2, <2>2 DEF Behind
<1>6. EdgesDone
  BY <1>2, <1>5 DEF EdgesDone, LeavesHere
<1>7. AlgorithmsDone
  <2>1. algorithms[start] \in Seq(Algorithms)
    BY <1>1, GraphAssumption
  <2>2. \A k \in DOMAIN algorithms[start] : ~(k < 1)
    BY <2>1
  <2> QED  BY <1>2, <2>2 DEF AlgorithmsDone, Emitted
<1> QED
  BY <1>1, <1>2, <1>3, <1>4, <1>6, <1>7
     DEF OnceInv, StillNew, HasPlan, Enumerating, OuterPassed, PlansAreOfWalks, NoPlanTwice

(* Facts of a step that stays in the innermost call.                       *)
LEMMA CallStays ==
  ASSUME PathInv, Enumerating, NEW f \in Frames, f.node = Call.node, stack' = WithCall(f)
  PROVE  /\ Len(stack') = Len(stack) /\ DOMAIN stack' = DOMAIN stack /\ DOMAIN stack = 1 .. Len(stack)
         /\ Len(stack) \in Nat \ {0} /\ Len(steps) = Len(stack)-1 /\ DOMAIN steps = 1 .. Len(steps)
         /\ \A d \in DOMAIN stack : d < Len(stack) => stack'[d] = stack[d]
         /\ \A d \in DOMAIN stack : ~(d < Len(stack)) => d = Len(stack)
         /\ stack'[Len(stack)] = f /\ stack[Len(stack)] = Call
         /\ \A d \in DOMAIN stack : stack'[d].node = stack[d].node
         /\ stack' # <<>>
<1>1. /\ Len(stack) \in Nat \ {0}
      /\ DOMAIN WithCall(f) = 1 .. Len(stack) /\ DOMAIN stack = 1 .. Len(stack)
      /\ \A d \in 1 .. Len(stack)-1 : WithCall(f)[d] = stack[d]
      /\ WithCall(f)[Len(stack)] = f /\ Call = stack[Len(stack)]
  BY WithCallElements
<1>2. PICK n \in Nat \ {0} : n = Len(stack)
  BY <1>1
<1>3. /\ \A d \in 1 .. n : d < n => d \in 1 .. n-1
      /\ \A d \in 1 .. n : ~(d < n) => d = n
  BY <1>2
<1>4. Len(WithCall(f)) = Len(stack) /\ WithCall(f) # <<>>
  BY WithCallFacts
<1>5. Len(steps) = Len(stack)-1 /\ DOMAIN steps = 1 .. Len(steps)
  BY CallFacts
<1>6. \A d \in DOMAIN stack : stack'[d].node = stack[d].node
  BY <1>1, <1>2, <1>3
<1> QED  BY <1>1, <1>2, <1>3, <1>4, <1>5, <1>6


LEMMA OnceEmit == PathInv /\ OnceInv /\ EmitPlan => OnceInv'
<1> SUFFICES ASSUME PathInv, OnceInv, EmitPlan PROVE OnceInv'
  OBVIOUS
<1>1. PICK id : id = algorithms[Call.node][Call.algorithm]
  OBVIOUS
<1>2. PICK p : p = [steps |-> steps, algorithm_id |-> id]
  OBVIOUS
<1>3. PICK f : f = [Call EXCEPT !.algorithm = @ + 1]
  OBVIOUS
<1>4. /\ Enumerating /\ stack' = WithCall(f) /\ UNCHANGED configVars
      /\ steps' = steps /\ running_reduction_id' = running_reduction_id
      /\ Call.algorithm <= Len(algorithms[Call.node])
      /\ id \in excluded_algorithms => plans' = plans
      /\ id \notin excluded_algorithms => plans' = Append(plans, p)
  BY <1>1, <1>2, <1>3 DEF EmitPlan, AtAlgorithm
<1>5. Call \in Frames
  BY <1>4, CallFacts
<1>6. /\ f \in Frames /\ f.node = Call.node /\ f.edge = Call.edge
      /\ f.algorithm = Call.algorithm + 1 /\ Call.node \in Nodes /\ Call.algorithm \in Nat \ {0}
  BY <1>3, <1>5 DEF Frames
<1>7. /\ Call.algorithm \in DOMAIN algorithms[Call.node] /\ id \in ToSet(algorithms[Call.node])
      /\ DOMAIN algorithms[Call.node] \subseteq Nat
  <2>1. algorithms[Call.node] \in Seq(Algorithms)
    BY <1>6, GraphAssumption
  <2>2. Call.algorithm \in DOMAIN algorithms[Call.node]
    BY <1>4, <1>6, <2>1
  <2> QED  BY <1>1, <2>1, <2>2 DEF ToSet
<1>8. /\ plans \in Seq(QueryPlans) /\ DOMAIN plans = 1 .. Len(plans) /\ Len(plans) \in Nat
      /\ running_reduction_id \in Nat
  BY CallFacts
<1>9. PICK q : q = Len(plans) + 1
  OBVIOUS
<1>10. PICK n : n = Len(stack)
  OBVIOUS
<1>11. /\ Len(stack') = n /\ DOMAIN stack' = DOMAIN stack /\ DOMAIN stack = 1 .. n
       /\ n \in Nat \ {0} /\ Len(steps) = n - 1 /\ DOMAIN steps = 1 .. Len(steps)
       /\ \A d \in DOMAIN stack : d < n => stack'[d] = stack[d]
       /\ \A d \in DOMAIN stack : ~(d < n) => d = n
       /\ stack'[n] = f /\ stack[n] = Call /\ n \in DOMAIN stack
       /\ \A d \in DOMAIN stack : stack'[d].node = stack[d].node
       /\ stack' # <<>>
  BY <1>4, <1>6, <1>10, CallStays
<1>12. /\ \A m \in DOMAIN plans : m \in DOMAIN plans' /\ plans'[m] = plans[m]
       /\ \A m \in DOMAIN plans' : m \in DOMAIN plans \/ (m = q /\ id \notin excluded_algorithms)
       /\ id \notin excluded_algorithms => q \in DOMAIN plans' /\ plans'[q] = p
  <2>1. CASE plans' = plans /\ id \in excluded_algorithms
    BY <2>1
  <2>2. CASE plans' = Append(plans, p) /\ id \notin excluded_algorithms
    <3>1. /\ DOMAIN plans' = 1 .. Len(plans) + 1 /\ plans'[Len(plans) + 1] = p
          /\ \A m \in 1 .. Len(plans) : plans'[m] = plans[m]
      BY <1>8, <2>2
    <3> QED  BY <1>8, <1>9, <2>2, <3>1
  <2> QED  BY <1>4, <2>1, <2>2
<1>13. PICK v : CallsWalk(v)
  BY <1>4 DEF OnceInv
<1>14. start \in Nodes /\ IsWalk(v)
  BY <1>13 DEF OnceInv, CallsWalk
<1>15. /\ start' = start /\ excluded_algorithms' = excluded_algorithms
       /\ \A w, i : NodeAt(w, i)' = NodeAt(w, i)
       /\ \A w : EndOf(w)' = EndOf(w) /\ IsWalk(w)' = IsWalk(w)
  BY <1>4, ConfigStays
<1>16. /\ \A w, a : HasPlan(w, a) => HasPlan(w, a)'
       /\ \A w : IsWalk(w) /\ AllFound(w) => AllFound(w)'
  BY <1>4, <1>8, <1>12, <1>14, FoundStays
<1>17. CallsWalk(v)'
  BY <1>4, <1>11, <1>13, <1>15 DEF CallsWalk, SameUpTo
<1>18. PICK t : t = Taken(steps)
  OBVIOUS
<1>19. EndOf(v) = Call.node /\ Taken(v) = t
  <2>1. EndOf(v) = NodeAt(v, n) /\ DOMAIN v = 1 .. Len(v)
    BY <1>11, <1>13, <1>14, WalkNodes DEF CallsWalk
  <2> QED  BY <1>11, <1>13, <1>18, <2>1, TakenSame DEF CallsWalk
<1>20. /\ \A m \in DOMAIN plans : Found(m)' = Found(m)
       /\ id \notin excluded_algorithms => Found(q)' = <<t, id>>
  <2>1. \A m \in DOMAIN plans : Found(m)' = Found(m)
    BY <1>12 DEF Found
  <2>2. p.steps = steps /\ p.algorithm_id = id
    BY <1>2
  <2>3. ASSUME plans'[q] = p PROVE Found(q)' = <<t, id>>
    BY <1>18, <2>2, <2>3 DEF Found, Taken
  <2> QED  BY <1>12, <2>1, <2>3
<1>21. \A d \in DOMAIN stack : \A a : Emitted(d, a)' => Emitted(d, a) \/ (d = n /\ a = id)
  <2> SUFFICES ASSUME NEW d \in DOMAIN stack, NEW a, Emitted(d, a)', ~Emitted(d, a)
               PROVE  d = n /\ a = id
    OBVIOUS
  <2>1. PICK k \in DOMAIN algorithms[stack[d].node] :
          k < stack'[d].algorithm /\ a = algorithms[stack[d].node][k]
    BY <1>11 DEF Emitted
  <2>2. ~(k < stack[d].algorithm)
    BY <2>1 DEF Emitted
  <2>3. d = n
    BY <1>11, <2>1, <2>2
  <2>4. k = Call.algorithm
    BY <1>6, <1>7, <1>11, <2>1, <2>2, <2>3
  <2> QED  BY <1>1, <1>11, <2>1, <2>3, <2>4
<1>22. Emitted(n, id)' /\ \A a : Emitted(n, a) => Emitted(n, a)'
  <2>1. \A k \in DOMAIN algorithms[Call.node] : k < Call.algorithm \/ k = Call.algorithm => k < f.algorithm
    BY <1>6, <1>7
  <2> QED  BY <1>1, <1>6, <1>7, <1>11, <2>1 DEF Emitted
<1>23. AlgorithmsDone'
  <2>1. ASSUME NEW d \in DOMAIN stack, NEW w, NEW a, EndsHere(w, d), Emitted(d, a)',
               a \notin excluded_algorithms
        PROVE  HasPlan(w, a)'
    <3>1. CASE Emitted(d, a)
      BY <1>16, <2>1, <3>1 DEF OnceInv, AlgorithmsDone
    <3>2. CASE d = n /\ a = id
      <4>1. IsWalk(w) /\ Len(w) = Len(steps) /\ SameUpTo(w, steps, Len(steps))
        BY <1>11, <2>1, <3>2 DEF EndsHere
      <4>2. Taken(w) = t
        BY <1>11, <1>14, <1>18, <4>1, WalkNodes, TakenSame
      <4>3. q \in DOMAIN plans' /\ Found(q)' = <<Taken(w), a>>
        BY <1>12, <1>20, <2>1, <3>2, <4>2
      <4> QED  BY <4>3 DEF HasPlan, Taken
    <3> QED  BY <1>21, <2>1, <3>1, <3>2
  <2>2. \A d \in DOMAIN stack : \A w : EndsHere(w, d)' = EndsHere(w, d)
    BY <1>4, <1>15 DEF EndsHere, SameUpTo
  <2> QED  BY <1>11, <1>15, <2>1, <2>2 DEF AlgorithmsDone
<1>24. EdgesDone'
  <2>1. \A d \in DOMAIN stack : Behind(stack'[d]) = Behind(stack[d])
    BY <1>6, <1>11 DEF Behind
  <2>2. \A d \in DOMAIN stack : \A w : LeavesHere(w, d)' = LeavesHere(w, d)
    BY <1>4, <1>15, <2>1 DEF LeavesHere, SameUpTo, Behind
  <2>3. \A d \in DOMAIN stack : \A w : LeavesHere(w, d) => IsWalk(w) /\ AllFound(w)
    BY DEF OnceInv, EdgesDone, LeavesHere
  <2> QED  BY <1>11, <1>16, <2>2, <2>3 DEF EdgesDone
<1>25. PlansAreOfWalks'
  <2> SUFFICES ASSUME NEW m \in DOMAIN plans'
               PROVE  \E w, a : /\ IsWalk(w) /\ Found(m)' = <<Taken(w), a>>
                                /\ a \in ToSet(algorithms[EndOf(w)]) \ excluded_algorithms
    BY <1>15 DEF PlansAreOfWalks, Taken
  <2>1. CASE m \in DOMAIN plans
    <3>1. Found(m)' = Found(m)
      BY <1>20, <2>1
    <3> QED  BY <2>1, <3>1 DEF OnceInv, PlansAreOfWalks
  <2>2. CASE m \notin DOMAIN plans
    <3>1. m = q /\ id \notin excluded_algorithms
      BY <1>12, <2>2
    <3>2. Found(m)' = <<Taken(v), id>>
      BY <1>19, <1>20, <3>1
    <3>3. id \in ToSet(algorithms[EndOf(v)]) \ excluded_algorithms
      BY <1>7, <1>19, <3>1
    <3> QED  BY <1>14, <3>2, <3>3
  <2> QED  BY <2>1, <2>2
<1>26. \A m \in DOMAIN plans : Found(m) # <<t, id>>
  <2> SUFFICES ASSUME NEW m \in DOMAIN plans, Found(m) = <<t, id>> PROVE FALSE
    OBVIOUS
  <2>1. HasPlan(steps, id)
    BY <1>18 DEF HasPlan
  <2>2. PICK k \in DOMAIN algorithms[Call.node] : k < Call.algorithm /\ id = algorithms[Call.node][k]
    BY <1>4, <1>10, <1>11, <2>1 DEF OnceInv, StillNew, Emitted
  <2>3. k = Call.algorithm
    BY <1>1, <1>6, <1>7, <2>2, ListingAssumption
  <2> QED  BY <1>6, <2>2, <2>3
<1>27. NoPlanTwice'
  <2>1. ASSUME NEW l \in DOMAIN plans', NEW m \in DOMAIN plans', Found(l)' = Found(m)'
        PROVE  l = m
    <3>1. CASE l \in DOMAIN plans /\ m \in DOMAIN plans
      <4>1. Found(l) = Found(m)
        BY <1>20, <2>1, <3>1
      <4> QED  BY <3>1, <4>1 DEF OnceInv, NoPlanTwice
    <3>2. CASE l \in DOMAIN plans /\ m \notin DOMAIN plans
      <4>1. m = q /\ Found(q)' = <<t, id>> /\ Found(l)' = Found(l)
        BY <1>12, <1>20, <3>2
      <4> QED  BY <1>26, <2>1, <3>2, <4>1
    <3>3. CASE l \notin DOMAIN plans /\ m \in DOMAIN plans
      <4>1. l = q /\ Found(q)' = <<t, id>> /\ Found(m)' = Found(m)
        BY <1>12, <1>20, <3>3
      <4> QED  BY <1>26, <2>1, <3>3, <4>1
    <3>4. CASE l \notin DOMAIN plans /\ m \notin DOMAIN plans
      BY <1>12, <3>4
    <3> QED  BY <3>1, <3>2, <3>3, <3>4
  <2> QED  BY <2>1 DEF NoPlanTwice
<1>28. StillNew'
  <2>1. ASSUME NEW a, HasPlan(steps, a)' PROVE Emitted(n, a)'
    <3>1. PICK m \in DOMAIN plans' : Found(m)' = <<t, a>>
      <4>1. Taken(steps)' = t
        BY <1>4, <1>18 DEF Taken
      <4> QED  BY <2>1, <4>1 DEF HasPlan
    <3>2. CASE m \in DOMAIN plans
      <4>1. HasPlan(steps, a)
        BY <1>18, <1>20, <3>1, <3>2 DEF HasPlan
      <4>2. Emitted(n, a)
        BY <1>4, <1>10, <4>1 DEF OnceInv, StillNew
      <4> QED  BY <1>22, <4>2
    <3>3. CASE m \notin DOMAIN plans
      <4>1. <<t, a>> = <<t, id>>
        BY <1>12, <1>20, <3>1, <3>3
      <4> QED  BY <1>22, <4>1
    <3> QED  BY <3>2, <3>3
  <2> QED  BY <1>11, <2>1 DEF StillNew, Emitted
<1>29. OuterPassed'
  BY <1>10, <1>11 DEF OnceInv, OuterPassed
<1>30. Enumerating'
  BY <1>11 DEF Enumerating
<1> QED
  BY <1>4, <1>14, <1>15, <1>17, <1>23, <1>24, <1>25, <1>27, <1>28, <1>29, <1>30 DEF OnceInv

(* Facts of a step that emits no plan.                                     *)
LEMMA PlansKept ==
  ASSUME PathInv, OnceInv, UNCHANGED configVars, plans' = plans,
         running_reduction_id' \in Nat, running_reduction_id <= running_reduction_id'
  PROVE  /\ start \in Nodes /\ start' = start /\ excluded_algorithms' = excluded_algorithms
         /\ \A w, i : NodeAt(w, i)' = NodeAt(w, i)
         /\ \A w : EndOf(w)' = EndOf(w) /\ IsWalk(w)' = IsWalk(w)
         /\ \A w, a : HasPlan(w, a)' <=> HasPlan(w, a)
         /\ \A w : IsWalk(w) /\ AllFound(w) => AllFound(w)'
         /\ PlansAreOfWalks' /\ NoPlanTwice'
<1>1. /\ start \in Nodes /\ start' = start /\ excluded_algorithms' = excluded_algorithms
      /\ \A w, i : NodeAt(w, i)' = NodeAt(w, i)
      /\ \A w : EndOf(w)' = EndOf(w) /\ IsWalk(w)' = IsWalk(w)
  BY ConfigStays DEF OnceInv
<1>2. \A m : Found(m)' = Found(m)
  BY DEF Found
<1>3. \A w, a : HasPlan(w, a)' <=> HasPlan(w, a)
  BY <1>2 DEF HasPlan, Taken
<1>4. \A w : IsWalk(w) /\ AllFound(w) => AllFound(w)'
  BY <1>1, FoundStays
<1>5. PlansAreOfWalks'
  <2> SUFFICES ASSUME NEW m \in DOMAIN plans
               PROVE  \E w, a : /\ IsWalk(w) /\ Found(m)' = <<Taken(w), a>>
                                /\ a \in ToSet(algorithms[EndOf(w)]) \ excluded_algorithms
    BY <1>1 DEF PlansAreOfWalks, Taken
  <2> QED  BY <1>2 DEF OnceInv, PlansAreOfWalks
<1>6. NoPlanTwice'
  BY <1>2 DEF OnceInv, NoPlanTwice
<1> QED  BY <1>1, <1>3, <1>4, <1>5, <1>6

LEMMA OnceSkip == PathInv /\ OnceInv /\ SkipEdge => OnceInv'
<1> SUFFICES ASSUME PathInv, OnceInv, SkipEdge PROVE OnceInv'
  OBVIOUS
<1>1. PICK f : f = [Call EXCEPT !.edge = @ + 1]
  OBVIOUS
<1>2. /\ Enumerating /\ stack' = WithCall(f) /\ UNCHANGED configVars
      /\ steps' = steps /\ plans' = plans /\ running_reduction_id' = running_reduction_id
      /\ edges[Call.node][Call.edge].reduction \in excluded_reductions
  BY <1>1 DEF SkipEdge, AtEdge
<1>3. Call \in Frames /\ running_reduction_id \in Nat
  BY <1>2, CallFacts
<1>4. /\ f \in Frames /\ f.node = Call.node /\ f.edge = Call.edge + 1
      /\ f.algorithm = Call.algorithm /\ Call.node \in Nodes /\ Call.edge \in Nat
  BY <1>1, <1>3 DEF Frames
<1>5. PICK n : n = Len(stack)
  OBVIOUS
<1>6. /\ Len(stack') = n /\ DOMAIN stack' = DOMAIN stack /\ DOMAIN stack = 1 .. n
      /\ n \in Nat \ {0} /\ Len(steps) = n - 1 /\ DOMAIN steps = 1 .. Len(steps)
      /\ \A d \in DOMAIN stack : d < n => stack'[d] = stack[d]
      /\ \A d \in DOMAIN stack : ~(d < n) => d = n
      /\ stack'[n] = f /\ stack[n] = Call /\ n \in DOMAIN stack
      /\ \A d \in DOMAIN stack : stack'[d].node = stack[d].node
      /\ stack' # <<>>
  BY <1>2, <1>4, <1>5, CallStays
<1>7. /\ start \in Nodes /\ start' = start /\ excluded_algorithms' = excluded_algorithms
      /\ \A w, i : NodeAt(w, i)' = NodeAt(w, i)
      /\ \A w : EndOf(w)' = EndOf(w) /\ IsWalk(w)' = IsWalk(w)
      /\ \A w, a : HasPlan(w, a)' <=> HasPlan(w, a)
      /\ \A w : IsWalk(w) /\ AllFound(w) => AllFound(w)'
      /\ PlansAreOfWalks' /\ NoPlanTwice'
  BY <1>2, <1>3, PlansKept
<1>8. PICK v : CallsWalk(v)
  BY <1>2 DEF OnceInv
<1>9. CallsWalk(v)'
  BY <1>2, <1>6, <1>7, <1>8 DEF CallsWalk, SameUpTo
<1>10. \A d \in DOMAIN stack : stack'[d].algorithm = stack[d].algorithm
  BY <1>4, <1>6
<1>11. \A d \in DOMAIN stack : \A a : Emitted(d, a)' <=> Emitted(d, a)
  BY <1>6, <1>10 DEF Emitted
<1>12. \A d \in DOMAIN stack : \A w : EndsHere(w, d)' = EndsHere(w, d)
  BY <1>2, <1>7 DEF EndsHere, SameUpTo
<1>13. AlgorithmsDone'
  BY <1>6, <1>7, <1>11, <1>12 DEF OnceInv, AlgorithmsDone
<1>14. StillNew'
  <2>1. \A a : HasPlan(steps, a)' <=> HasPlan(steps, a)
    BY <1>2 DEF HasPlan, Found, Taken
  <2>2. \A a : HasPlan(steps, a) => Emitted(n, a)
    BY <1>2, <1>5 DEF OnceInv, StillNew
  <2>3. \A a : Emitted(n, a)' <=> Emitted(n, a)
    BY <1>6, <1>11
  <2> QED  BY <1>6, <2>1, <2>2, <2>3 DEF StillNew, Emitted
<1>15. ASSUME NEW d \in DOMAIN stack, NEW w, LeavesHere(w, d)' PROVE LeavesHere(w, d)
  <2>1. /\ IsWalk(w) /\ SameUpTo(w, steps, d-1) /\ d \in DOMAIN w
        /\ w[d].reduction \in Behind(stack'[d])
        /\ ~(d \in DOMAIN steps /\ w[d].reduction = steps[d].reduction)
    BY <1>2, <1>7, <1>15 DEF LeavesHere, SameUpTo, Behind
  <2>2. w[d].reduction \in Behind(stack[d])
    <3>1. CASE d < n
      BY <1>6, <2>1, <3>1
    <3>2. CASE d = n
      <4>1. stack[d].node = NodeAt(w, d)
        BY <1>2, <1>7, <1>8, <2>1, AlongCalls
      <4>2. w[d].reduction \notin excluded_reductions
        <5>1. w[d] \in Usable(Call.node)
          BY <1>6, <2>1, <3>2, <4>1 DEF IsWalk
        <5> QED  BY <1>4, <5>1, UsableFacts
      <4>3. PICK k \in DOMAIN edges[Call.node] : k < Call.edge + 1 /\ w[d].reduction = edges[Call.node][k].reduction
        BY <1>4, <1>6, <2>1, <3>2 DEF Behind
      <4>4. k \in Nat /\ k # Call.edge
        <5>1. edges[Call.node] \in Seq(GraphEdges)
          BY <1>4, GraphAssumption DEF GraphEdges
        <5> QED  BY <1>2, <4>2, <4>3, <5>1
      <4>5. k < Call.edge
        BY <1>4, <4>3, <4>4
      <4> QED  BY <1>6, <3>2, <4>3, <4>5 DEF Behind
    <3> QED  BY <1>6, <3>1, <3>2
  <2> QED  BY <2>1, <2>2 DEF LeavesHere
<1>16. EdgesDone'
  <2>1. \A d \in DOMAIN stack : \A w : LeavesHere(w, d) => IsWalk(w) /\ AllFound(w)
    BY DEF OnceInv, EdgesDone, LeavesHere
  <2> QED  BY <1>6, <1>7, <1>15, <2>1 DEF EdgesDone
<1>17. OuterPassed'
  BY <1>5, <1>6 DEF OnceInv, OuterPassed
<1>18. Enumerating'
  BY <1>6 DEF Enumerating
<1> QED
  BY <1>2, <1>7, <1>9, <1>13, <1>14, <1>16, <1>17, <1>18 DEF OnceInv


LEMMA OnceFollow == PathInv /\ WalkInv /\ OnceInv /\ FollowEdge => OnceInv'
<1> SUFFICES ASSUME PathInv, WalkInv, OnceInv, FollowEdge PROVE OnceInv'
  OBVIOUS
<1>1. PICK e : e = edges[Call.node][Call.edge]
  OBVIOUS
<1>2. PICK f : f = [Call EXCEPT !.edge = @ + 1]
  OBVIOUS
<1>3. PICK s : s = [id |-> running_reduction_id, reduction |-> e.reduction]
  OBVIOUS
<1>4. PICK g : g = Frame(e.to_node)
  OBVIOUS
<1>5. /\ AtEdge /\ Enumerating /\ ~AtAlgorithm /\ UNCHANGED configVars /\ plans' = plans
      /\ e.reduction \notin excluded_reductions
      /\ steps' = Append(steps, s) /\ stack' = Append(WithCall(f), g)
      /\ running_reduction_id' = running_reduction_id + 1
  BY <1>1, <1>2, <1>3, <1>4 DEF FollowEdge, NewId, AtEdge
<1>6. Call \in Frames /\ running_reduction_id \in Nat /\ steps \in Seq(Steps)
  BY <1>5, CallFacts
<1>7. /\ f \in Frames /\ f.node = Call.node /\ f.edge = Call.edge + 1 /\ f.algorithm = Call.algorithm
      /\ Call.node \in Nodes /\ Call.edge \in Nat \ {0} /\ Call.algorithm \in Nat \ {0}
  BY <1>2, <1>6 DEF Frames
<1>8. /\ Call.edge \in DOMAIN edges[Call.node] /\ e \in GraphEdges /\ e \in Usable(Call.node)
      /\ DOMAIN edges[Call.node] \subseteq Nat
  <2>1. edges[Call.node] \in Seq(GraphEdges)
    BY <1>7, GraphAssumption DEF GraphEdges
  <2>2. Call.edge \in DOMAIN edges[Call.node]
    BY <1>5, <1>7, <2>1 DEF AtEdge
  <2>3. e \in Usable(Call.node)
    BY <1>1, <1>5, <1>7, <2>2, UsableFacts
  <2> QED  BY <1>7, <2>1, <2>2, <2>3, UsableFacts
<1>9. /\ s \in Steps /\ s.id = running_reduction_id /\ s.reduction = e.reduction
      /\ g \in Frames /\ g.node = e.to_node /\ g.algorithm = 1 /\ g.edge = 1 /\ e.to_node \in Nodes
  BY <1>3, <1>4, <1>6, <1>8 DEF Steps, Frame, Frames, GraphEdges
<1>10. PICK n : n = Len(stack)
  OBVIOUS
<1>11. /\ n \in Nat \ {0} /\ Len(steps) = n - 1 /\ DOMAIN stack = 1 .. n /\ DOMAIN stack' = 1 .. n + 1
       /\ \A d \in 1 .. n - 1 : stack'[d] = stack[d]
       /\ stack[n] = Call /\ stack'[n] = f /\ stack'[n + 1] = g /\ Len(stack') = n + 1
  <2> DEFINE w == WithCall(f)
  <2>1. w \in Seq(Frames) /\ Len(w) = n
    BY <1>5, <1>7, <1>10, WithCallFacts
  <2>2. /\ n \in Nat \ {0} /\ DOMAIN stack = 1 .. n
        /\ \A d \in 1 .. n - 1 : w[d] = stack[d]
        /\ w[n] = f /\ Call = stack[n]
    BY <1>5, <1>7, <1>10, WithCallElements
  <2> HIDE DEF w
  <2>3. stack' = Append(w, g)
    BY <1>5 DEF w
  <2>4. /\ DOMAIN stack' = 1 .. n + 1 /\ stack'[n + 1] = g /\ Len(stack') = n + 1
        /\ \A d \in 1 .. n : stack'[d] = w[d]
    BY <1>9, <2>1, <2>2, <2>3
  <2>5. Len(steps) = n - 1
    BY <1>5, <1>10, CallFacts
  <2> QED  BY <2>2, <2>4, <2>5
<1>12. /\ DOMAIN steps = 1 .. n - 1 /\ DOMAIN steps' = 1 .. n /\ Len(steps') = n
       /\ \A d \in 1 .. n - 1 : steps'[d] = steps[d]
       /\ steps'[n] = s /\ steps' \in Seq(Steps)
  BY <1>5, <1>6, <1>9, <1>11
<1>13. /\ \A d \in 1 .. n + 1 : d \in 1 .. n - 1 \/ d = n \/ d = n + 1
       /\ \A d \in 1 .. n : d \in 1 .. n - 1 \/ d = n
       /\ \A d \in 1 .. n - 1 : d \in 1 .. n /\ d # n
       /\ n \in 1 .. n /\ n \notin 1 .. n - 1 /\ n + 1 \notin 1 .. n
       /\ \A d \in 1 .. n : \A i \in 1 .. d - 1 : i \in 1 .. n - 1 /\ i \in 1 .. n
  BY <1>11
<1>14. /\ start \in Nodes /\ start' = start /\ excluded_algorithms' = excluded_algorithms
       /\ \A w, i : NodeAt(w, i)' = NodeAt(w, i)
       /\ \A w : EndOf(w)' = EndOf(w) /\ IsWalk(w)' = IsWalk(w)
       /\ \A w, a : HasPlan(w, a)' <=> HasPlan(w, a)
       /\ \A w : IsWalk(w) /\ AllFound(w) => AllFound(w)'
       /\ PlansAreOfWalks' /\ NoPlanTwice'
  <2>1. running_reduction_id' \in Nat /\ running_reduction_id <= running_reduction_id'
    BY <1>5, <1>6
  <2> QED  BY <1>5, <2>1, PlansKept
<1>15. PICK v : CallsWalk(v)
  BY <1>5 DEF OnceInv
<1>16. /\ IsWalk(v) /\ Len(v) = n - 1 /\ EndOf(v) = Call.node /\ DOMAIN v = 1 .. n - 1
       /\ \A d \in 1 .. n : stack[d].node = NodeAt(v, d)
       /\ \A d \in 1 .. n - 1 : v[d].reduction = steps[d].reduction
  <2>1. IsWalk(v) /\ Len(v) = n - 1 /\ SameUpTo(v, steps, n - 1)
        /\ \A d \in 1 .. n : stack[d].node = NodeAt(v, d)
    BY <1>11, <1>15 DEF CallsWalk
  <2>2. EndOf(v) = NodeAt(v, n) /\ DOMAIN v = 1 .. n - 1
    BY <1>11, <1>14, <2>1, WalkNodes
  <2> QED  BY <1>11, <1>13, <2>1, <2>2 DEF SameUpTo
<1>17. PICK u : u = Append(v, e)
  OBVIOUS
<1>18. /\ IsWalk(u) /\ Len(u) = n /\ u[n] = e
       /\ \A i \in 1 .. n - 1 : u[i] = v[i]
       /\ \A i \in 1 .. n : NodeAt(u, i) = NodeAt(v, i)
       /\ NodeAt(u, n + 1) = e.to_node /\ DOMAIN u = 1 .. n
  <2>1. /\ IsWalk(u) /\ Len(u) = n - 1 + 1 /\ u[n - 1 + 1] = e
        /\ \A i \in 1 .. n - 1 : u[i] = v[i]
        /\ \A i \in 1 .. n - 1 + 1 : NodeAt(u, i) = NodeAt(v, i)
    BY <1>8, <1>14, <1>16, <1>17, LongerWalk
  <2>2. n - 1 + 1 = n /\ n + 1 # 1 /\ n + 1 - 1 = n
    BY <1>11
  <2>3. NodeAt(u, n + 1) = e.to_node
    BY <2>1, <2>2 DEF NodeAt
  <2> QED  BY <1>14, <2>1, <2>2, <2>3, WalkNodes
<1>19. CallsWalk(u)'
  <2>1. \A d \in 1 .. n + 1 : stack'[d].node = NodeAt(u, d)
    BY <1>7, <1>9, <1>11, <1>13, <1>16, <1>18
  <2>2. \A d \in 1 .. n : d \in DOMAIN u /\ d \in DOMAIN steps' /\ u[d].reduction = steps'[d].reduction
    BY <1>9, <1>12, <1>13, <1>16, <1>18
  <2> QED  BY <1>11, <1>12, <1>14, <1>18, <2>1, <2>2 DEF CallsWalk, SameUpTo
<1>20. OuterPassed'
  <2>1. ASSUME NEW d \in 1 .. n PROVE Len(algorithms[stack'[d].node]) < stack'[d].algorithm
    <3>1. CASE d \in 1 .. n - 1
      <4>1. d < n /\ d \in 1 .. n
        BY <1>11, <3>1
      <4> QED  BY <1>10, <1>11, <3>1, <4>1 DEF OnceInv, OuterPassed
    <3>2. CASE d = n
      <4>1. algorithms[Call.node] \in Seq(Algorithms)
        BY <1>7, GraphAssumption
      <4>2. Len(algorithms[Call.node]) < Call.algorithm
        BY <1>5, <1>7, <4>1 DEF AtAlgorithm
      <4> QED  BY <1>7, <1>11, <3>2, <4>2
    <3> QED  BY <1>13, <3>1, <3>2
  <2>2. \A d \in 1 .. n + 1 : d < n + 1 => d \in 1 .. n
    BY <1>11
  <2> QED  BY <1>11, <2>1, <2>2 DEF OuterPassed
<1>21. ASSUME NEW d \in 1 .. n, NEW w
       PROVE  SameUpTo(w, steps', d-1) <=> SameUpTo(w, steps, d-1)
  BY <1>12, <1>13 DEF SameUpTo
<1>22. AlgorithmsDone'
  <2>1. ASSUME NEW d \in 1 .. n + 1, NEW w, NEW a, EndsHere(w, d)', Emitted(d, a)',
               a \notin excluded_algorithms
        PROVE  HasPlan(w, a)
    <3>1. CASE d \in 1 .. n
      <4>1. stack'[d].node = stack[d].node /\ stack'[d].algorithm = stack[d].algorithm
        BY <1>7, <1>11, <1>13, <3>1
      <4>2. Emitted(d, a)
        BY <2>1, <4>1 DEF Emitted
      <4>3. IsWalk(w) /\ SameUpTo(w, steps', d-1) /\ Len(w) = d-1
        BY <1>14, <2>1 DEF EndsHere, SameUpTo
      <4>4. EndsHere(w, d)
        BY <1>21, <3>1, <4>3 DEF EndsHere
      <4> QED  BY <1>11, <2>1, <3>1, <4>2, <4>4 DEF OnceInv, AlgorithmsDone
    <3>2. CASE d = n + 1
      <4>1. PICK k \in DOMAIN algorithms[g.node] : k < 1
        BY <1>9, <1>11, <2>1, <3>2 DEF Emitted
      <4>2. algorithms[g.node] \in Seq(Algorithms)
        BY <1>9, GraphAssumption
      <4> QED  BY <4>1, <4>2
    <3> QED  BY <1>13, <3>1, <3>2
  <2> QED  BY <1>11, <1>14, <2>1 DEF AlgorithmsDone
<1>23. EdgesDone'
  <2>1. ASSUME NEW d \in 1 .. n + 1, NEW w, LeavesHere(w, d)' PROVE d \in 1 .. n /\ LeavesHere(w, d)
    <3>1. /\ IsWalk(w) /\ SameUpTo(w, steps', d-1) /\ d \in DOMAIN w
          /\ w[d].reduction \in Behind(stack'[d])
          /\ ~(d \in DOMAIN steps' /\ w[d].reduction = steps'[d].reduction)
      BY <1>14, <2>1 DEF LeavesHere, SameUpTo, Behind
    <3>2. CASE d \in 1 .. n - 1
      BY <1>11, <1>12, <1>13, <1>21, <3>1, <3>2 DEF LeavesHere
    <3>3. CASE d = n
      <4>1. w[d].reduction # e.reduction /\ w[d].reduction \in Behind(f)
        BY <1>9, <1>11, <1>12, <1>13, <3>1, <3>3
      <4>2. PICK k \in DOMAIN edges[Call.node] :
              k < Call.edge + 1 /\ w[d].reduction = edges[Call.node][k].reduction
        BY <1>7, <4>1 DEF Behind
      <4>3. k < Call.edge
        BY <1>1, <1>7, <1>8, <4>1, <4>2
      <4>4. w[d].reduction \in Behind(Call)
        BY <4>2, <4>3 DEF Behind
      <4> QED  BY <1>11, <1>12, <1>13, <1>21, <3>1, <3>3, <4>4 DEF LeavesHere
    <3>4. CASE d = n + 1
      <4>1. PICK k \in DOMAIN edges[g.node] : k < 1
        BY <1>9, <1>11, <3>1, <3>4 DEF Behind
      <4>2. edges[g.node] \in Seq(GraphEdges)
        BY <1>9, GraphAssumption DEF GraphEdges
      <4> QED  BY <4>1, <4>2
    <3> QED  BY <1>13, <3>2, <3>3, <3>4
  <2>2. \A d \in 1 .. n : \A w : LeavesHere(w, d) => IsWalk(w) /\ AllFound(w)
    BY <1>11 DEF OnceInv, EdgesDone, LeavesHere
  <2> QED  BY <1>11, <1>14, <2>1, <2>2 DEF EdgesDone
<1>24. ASSUME NEW a, HasPlan(steps, a)' PROVE FALSE
  <2>1. PICK m \in DOMAIN plans : Found(m)' = <<Taken(steps'), a>>
    BY <1>5, <1>24 DEF HasPlan, Taken
  <2>2. PICK p : p = plans[m].steps
    OBVIOUS
  <2>3. Taken(p) = Taken(steps')
    BY <1>5, <2>1, <2>2 DEF Found, Taken
  <2>4. DOMAIN p = 1 .. n /\ \A i \in 1 .. n : p[i].reduction = steps'[i].reduction
    BY <1>12, <2>3, SameTaken
  <2>5. Agree(p, steps', n)
    BY <1>12, <1>13, <2>4 DEF Agree
  <2>6. Determined(p, steps')
    <3>1. WalkInv'
      BY WalkFollow
    <3>2. \A k \in DOMAIN plans' : Determined(plans'[k].steps, steps')
      BY <3>1 DEF WalkInv, Determined, Agree
    <3> QED  BY <1>5, <2>2, <3>2
  <2>7. p[n].id = running_reduction_id
    BY <1>9, <1>11, <1>12, <2>5, <2>6 DEF Determined
  <2>8. p[n].id < running_reduction_id
    BY <1>13, <2>2, <2>4 DEF PathInv, IdsBelow
  <2> QED  BY <1>6, <2>7, <2>8
<1>25. StillNew'
  BY <1>24 DEF StillNew
<1>26. Enumerating'
  <2>1. stack' # <<>>
    <3>1. 1 \in DOMAIN stack'
      BY <1>11
    <3>2. DOMAIN <<>> = {}
      OBVIOUS
    <3> QED  BY <3>1, <3>2
  <2> QED  BY <2>1 DEF Enumerating
<1>27. Len(steps') <= running_reduction_id'
  BY <1>5, <1>6, <1>11, <1>12 DEF OnceInv
<1> QED
  BY <1>14, <1>19, <1>20, <1>22, <1>23, <1>25, <1>26, <1>27 DEF OnceInv


(* When a call ends, all that goes on along its steps has been found.      *)
LEMMA CallHasAll ==
  ASSUME PathInv, OnceInv, Return, NEW w, IsWalk(w), SameUpTo(w, steps, Len(stack)-1)
  PROVE  AllFound(w)
<1>1. Enumerating /\ ~AtAlgorithm /\ ~AtEdge
  BY DEF Return
<1>2. Call \in Frames /\ running_reduction_id \in Nat
  BY <1>1, CallFacts
<1>3. Call.node \in Nodes /\ Call.edge \in Nat \ {0} /\ Call.algorithm \in Nat \ {0}
  BY <1>2 DEF Frames
<1>4. PICK n : n = Len(stack)
  OBVIOUS
<1>5. /\ n \in Nat \ {0} /\ DOMAIN stack = 1 .. n /\ stack[n] = Call /\ n \in DOMAIN stack
      /\ Len(steps) = n - 1 /\ DOMAIN steps = 1 .. n - 1 /\ n \notin DOMAIN steps
  <2>1. n \in Nat \ {0} /\ DOMAIN stack = 1 .. n /\ stack[n] = Call
    BY <1>1, <1>2, <1>4, WithCallElements
  <2>2. Len(steps) = n - 1 /\ DOMAIN steps = 1 .. Len(steps)
    BY <1>1, <1>4, CallFacts
  <2> QED  BY <2>1, <2>2
<1>6. /\ \A k \in DOMAIN edges[Call.node] : k < Call.edge
      /\ \A k \in DOMAIN algorithms[Call.node] : k < Call.algorithm
  <2>1. edges[Call.node] \in Seq(GraphEdges) /\ algorithms[Call.node] \in Seq(Algorithms)
    BY <1>3, GraphAssumption DEF GraphEdges
  <2>2. Call.algorithm > Len(algorithms[Call.node]) /\ Call.edge > Len(edges[Call.node])
    BY <1>1, <1>3, <2>1 DEF AtAlgorithm, AtEdge
  <2> QED  BY <1>3, <2>1, <2>2
<1>7. start \in Nodes
  BY DEF OnceInv
<1>8. PICK v : CallsWalk(v)
  BY <1>1 DEF OnceInv
<1>9. Call.node = NodeAt(w, n) /\ SameUpTo(w, steps, n-1)
  BY <1>1, <1>4, <1>5, <1>7, <1>8, AlongCalls
<1>10. Len(w) \in Nat /\ DOMAIN w = 1 .. Len(w)
  BY <1>7, WalkNodes
<1>11. Len(w) >= n - 1
  <2>1. CASE n = 1
    BY <1>10, <2>1
  <2>2. CASE n # 1
    <3>1. n - 1 \in 1 .. n - 1
      BY <1>5, <2>2
    <3>2. n - 1 \in DOMAIN w
      BY <1>9, <3>1 DEF SameUpTo
    <3> QED  BY <1>10, <3>2
  <2> QED  BY <2>1, <2>2
<1>12. CASE Len(w) = n - 1
  <2>1. EndsHere(w, n)
    BY <1>9, <1>12 DEF EndsHere
  <2>2. EndOf(w) = Call.node
    <3>1. n - 1 + 1 = n
      BY <1>5
    <3> QED  BY <1>7, <1>9, <1>12, <3>1, WalkNodes
  <2>3. ASSUME NEW a \in ToSet(algorithms[Call.node]) \ excluded_algorithms PROVE HasPlan(w, a)
    <3>1. PICK k \in DOMAIN algorithms[Call.node] : a = algorithms[Call.node][k]
      BY DEF ToSet
    <3>2. Emitted(n, a)
      BY <1>5, <1>6, <3>1 DEF Emitted
    <3> QED  BY <1>5, <2>1, <3>2 DEF OnceInv, AlgorithmsDone
  <2>4. Len(w) <= running_reduction_id
    BY <1>5, <1>12 DEF OnceInv
  <2> QED  BY <2>2, <2>3, <2>4 DEF AllFound
<1>13. CASE Len(w) # n - 1
  <2>1. n \in DOMAIN w
    BY <1>5, <1>10, <1>11, <1>13
  <2>2. w[n] \in Usable(Call.node)
    BY <1>9, <2>1 DEF IsWalk
  <2>3. PICK k \in DOMAIN edges[Call.node] : w[n] = edges[Call.node][k]
    BY <1>3, <2>2, UsableFacts
  <2>4. w[n].reduction \in Behind(Call)
    BY <1>6, <2>3 DEF Behind
  <2>5. LeavesHere(w, n)
    BY <1>5, <1>9, <2>1, <2>4 DEF LeavesHere
  <2> QED  BY <1>5, <2>5 DEF OnceInv, EdgesDone
<1> QED  BY <1>12, <1>13

LEMMA OnceReturn == PathInv /\ OnceInv /\ Return => OnceInv'
<1> SUFFICES ASSUME PathInv, OnceInv, Return PROVE OnceInv'
  OBVIOUS
<1>1. /\ Enumerating /\ UNCHANGED configVars /\ plans' = plans
      /\ running_reduction_id' = running_reduction_id
      /\ stack' = Front(stack) /\ steps' = Backtracked(steps)
  BY DEF Return, Popped
<1>2. /\ stack \in Seq(Frames) /\ stack # <<>> /\ steps \in Seq(Steps) /\ running_reduction_id \in Nat
  BY <1>1, CallFacts DEF Enumerating
<1>3. PICK n : n = Len(stack)
  OBVIOUS
<1>4. /\ n \in Nat \ {0} /\ Len(steps) = n - 1 /\ DOMAIN steps = 1 .. n - 1 /\ DOMAIN stack = 1 .. n
      /\ Len(stack') = n - 1 /\ DOMAIN stack' = 1 .. n - 1 /\ stack' \in Seq(Frames)
      /\ \A d \in 1 .. n - 1 : stack'[d] = stack[d] /\ d \in 1 .. n /\ d < n
  <2>1. Len(steps) = n - 1 /\ DOMAIN steps = 1 .. Len(steps) /\ DOMAIN stack = 1 .. Len(stack)
    BY <1>1, <1>2, <1>3, CallFacts
  <2>2. /\ n \in Nat \ {0} /\ stack' \in Seq(Frames) /\ Len(stack') = n - 1
        /\ \A d \in 1 .. n - 1 : stack'[d] = stack[d]
    BY <1>1, <1>2, <1>3, FrontFacts
  <2> QED  BY <1>3, <2>1, <2>2
<1>5. /\ start \in Nodes /\ start' = start /\ excluded_algorithms' = excluded_algorithms
      /\ \A w, i : NodeAt(w, i)' = NodeAt(w, i)
      /\ \A w : EndOf(w)' = EndOf(w) /\ IsWalk(w)' = IsWalk(w)
      /\ \A w, a : HasPlan(w, a)' <=> HasPlan(w, a)
      /\ \A w : IsWalk(w) /\ AllFound(w) => AllFound(w)'
      /\ PlansAreOfWalks' /\ NoPlanTwice'
  BY <1>1, <1>2, PlansKept
<1>6. \A w : IsWalk(w) /\ SameUpTo(w, steps, n-1) => AllFound(w)
  BY <1>3, CallHasAll
<1>7. CASE n = 1
  <2>1. ~Enumerating'
    <3>1. stack' = <<>>
      BY <1>4, <1>7, EmptySeq
    <3> QED  BY <3>1 DEF Enumerating
  <2>2. DOMAIN stack' = {}
    BY <1>4, <1>7
  <2>3. \A w : IsWalk(w) => AllFound(w)'
    BY <1>5, <1>6, <1>7 DEF SameUpTo
  <2>4. Len(steps') <= running_reduction_id
    <3>1. steps = <<>>
      BY <1>2, <1>4, <1>7, EmptySeq
    <3>2. steps' = <<>> /\ Len(<<>>) = 0
      BY <1>1, <3>1 DEF Backtracked
    <3> QED  BY <1>2, <3>2
  <2> QED
    BY <1>1, <1>5, <2>1, <2>2, <2>3, <2>4 DEF OnceInv, OuterPassed, AlgorithmsDone, EdgesDone
<1>8. CASE n # 1
  <2>1. /\ Len(steps') = n - 2 /\ DOMAIN steps' = 1 .. n - 2 /\ steps' \in Seq(Steps)
        /\ \A d \in 1 .. n - 2 : steps'[d] = steps[d]
    <3>1. steps # <<>>
      <4>1. Len(<<>>) = 0 /\ n - 1 # 0
        BY <1>4, <1>8
      <4> QED  BY <1>4, <4>1
    <3>2. /\ steps' \in Seq(Steps) /\ Len(steps') = Len(steps) - 1
          /\ \A i \in 1 .. Len(steps) - 1 : steps'[i] = steps[i]
      BY <1>1, <1>2, <3>1, FrontFacts DEF Backtracked
    <3>3. Len(steps) - 1 = n - 2
      BY <1>4
    <3> QED  BY <3>2, <3>3
  <2>2. PICK r : r = n - 1
    OBVIOUS
  <2>3. /\ r \in Nat \ {0} /\ n - 1 = r /\ n - 2 = r - 1 /\ r \in 1 .. r /\ r \notin 1 .. r - 1
        /\ \A d \in 1 .. r : \A i \in 1 .. d - 1 : i \in 1 .. r - 1 /\ i \in 1 .. r
        /\ \A i \in 1 .. r : i \in 1 .. r - 1 \/ i = r
    BY <1>4, <1>8, <2>2
  <2>4. Enumerating'
    <3>1. Len(<<>>) = 0 /\ n - 1 # 0
      BY <1>4, <1>8
    <3>2. stack' # <<>>
      BY <1>4, <3>1
    <3> QED  BY <3>2 DEF Enumerating
  <2>5. \A d \in 1 .. r : \A w : SameUpTo(w, steps', d-1) <=> SameUpTo(w, steps, d-1)
    BY <1>4, <2>1, <2>3 DEF SameUpTo
  <2>6. PICK v : CallsWalk(v)
    BY <1>1 DEF OnceInv
  <2>7. /\ IsWalk(v) /\ Len(v) = r /\ DOMAIN v = 1 .. r
        /\ \A d \in 1 .. n : stack[d].node = NodeAt(v, d)
        /\ \A d \in 1 .. r : v[d].reduction = steps[d].reduction
    <3>1. /\ IsWalk(v) /\ Len(v) = r /\ SameUpTo(v, steps, r)
          /\ \A d \in 1 .. n : stack[d].node = NodeAt(v, d)
      BY <1>4, <2>3, <2>6 DEF CallsWalk
    <3> QED  BY <1>5, <3>1, WalkNodes DEF SameUpTo
  <2>8. PICK u : u = Front(v)
    OBVIOUS
  <2>9. /\ IsWalk(u) /\ Len(u) = r - 1 /\ DOMAIN u = 1 .. r - 1 /\ \A i \in 1 .. r - 1 : u[i] = v[i]
        /\ \A i \in 1 .. r : NodeAt(u, i) = NodeAt(v, i)
    <3>1. v # <<>>
      <4>1. Len(<<>>) = 0 /\ r # 0
        BY <2>3
      <4> QED  BY <2>7, <4>1
    <3>2. /\ IsWalk(u) /\ Len(u) = r - 1 /\ \A i \in 1 .. r - 1 : u[i] = v[i]
          /\ \A i \in 1 .. r : NodeAt(u, i) = NodeAt(v, i)
      BY <1>5, <2>7, <2>8, <3>1, ShorterWalk
    <3> QED  BY <1>5, <3>2, WalkNodes
  <2>10. CallsWalk(u)'
    <3>1. \A d \in 1 .. r : stack'[d].node = NodeAt(u, d)
      BY <1>4, <2>3, <2>7, <2>9
    <3>2. \A d \in 1 .. r - 1 : d \in DOMAIN u /\ d \in DOMAIN steps' /\ u[d].reduction = steps'[d].reduction
      BY <1>4, <2>1, <2>3, <2>7, <2>9
    <3> QED  BY <1>4, <1>5, <2>1, <2>3, <2>9, <3>1, <3>2 DEF CallsWalk, SameUpTo
  <2>11. OuterPassed'
    <3>1. \A d \in 1 .. n - 1 : Len(algorithms[stack'[d].node]) < stack'[d].algorithm
      BY <1>3, <1>4 DEF OnceInv, OuterPassed
    <3> QED  BY <1>4, <3>1 DEF OuterPassed
  <2>12. AlgorithmsDone'
    <3>1. ASSUME NEW d \in 1 .. r, NEW w, NEW a, EndsHere(w, d)', Emitted(d, a)',
                 a \notin excluded_algorithms
          PROVE  HasPlan(w, a)
      <4>1. Emitted(d, a)
        BY <1>4, <2>3, <3>1 DEF Emitted
      <4>2. IsWalk(w) /\ SameUpTo(w, steps', d-1) /\ Len(w) = d-1
        BY <1>5, <3>1 DEF EndsHere, SameUpTo
      <4>3. EndsHere(w, d)
        BY <2>5, <4>2 DEF EndsHere
      <4> QED  BY <1>4, <2>3, <3>1, <4>1, <4>3 DEF OnceInv, AlgorithmsDone
    <3> QED  BY <1>4, <1>5, <2>3, <3>1 DEF AlgorithmsDone
  <2>13. EdgesDone'
    <3>1. ASSUME NEW d \in 1 .. r, NEW w, LeavesHere(w, d)' PROVE IsWalk(w) /\ AllFound(w)
      <4>1. /\ IsWalk(w) /\ SameUpTo(w, steps', d-1) /\ d \in DOMAIN w
            /\ w[d].reduction \in Behind(stack'[d])
            /\ ~(d \in DOMAIN steps' /\ w[d].reduction = steps'[d].reduction)
        BY <1>5, <3>1 DEF LeavesHere, SameUpTo, Behind
      <4>2. SameUpTo(w, steps, d-1) /\ w[d].reduction \in Behind(stack[d]) /\ d \in DOMAIN stack
        BY <1>4, <2>3, <2>5, <4>1
      <4>3. CASE ~(d \in DOMAIN steps /\ w[d].reduction = steps[d].reduction)
        <5>1. LeavesHere(w, d)
          BY <4>1, <4>2, <4>3 DEF LeavesHere
        <5> QED  BY <4>1, <4>2, <5>1 DEF OnceInv, EdgesDone
      <4>4. CASE d \in DOMAIN steps /\ w[d].reduction = steps[d].reduction
        <5>1. d = r
          BY <2>1, <2>3, <4>1, <4>4
        <5>2. SameUpTo(w, steps, r)
          BY <2>3, <4>1, <4>2, <4>4, <5>1 DEF SameUpTo
        <5> QED  BY <1>6, <2>3, <4>1, <5>2
      <4> QED  BY <4>3, <4>4
    <3> QED  BY <1>4, <1>5, <2>3, <3>1 DEF EdgesDone
  <2>14. ASSUME NEW a, HasPlan(steps, a)' PROVE Emitted(r, a)'
    <3>1. PICK m \in DOMAIN plans : Found(m)' = <<Taken(steps'), a>>
      BY <1>1, <2>14 DEF HasPlan, Taken
    <3>2. Found(m)' = Found(m)
      BY <1>1 DEF Found
    <3>3. PICK w, b : /\ IsWalk(w) /\ Found(m) = <<Taken(w), b>>
                      /\ b \in ToSet(algorithms[EndOf(w)]) \ excluded_algorithms
      BY DEF OnceInv, PlansAreOfWalks
    <3>4. Taken(w) = Taken(steps') /\ a = b
      BY <3>1, <3>2, <3>3
    <3>5. DOMAIN w = 1 .. r - 1 /\ \A i \in 1 .. r - 1 : w[i].reduction = steps'[i].reduction
      BY <2>1, <2>3, <3>4, SameTaken
    <3>6. SameUpTo(w, steps, r-1)
      BY <2>1, <2>3, <2>5, <3>5 DEF SameUpTo
    <3>7. stack[r].node = NodeAt(w, r)
      BY <1>1, <1>4, <1>5, <2>3, <2>6, <3>3, <3>6, AlongCalls
    <3>8. EndOf(w) = stack[r].node
      <4>1. Len(w) \in Nat /\ DOMAIN w = 1 .. Len(w) /\ EndOf(w) = NodeAt(w, Len(w) + 1)
        BY <1>5, <3>3, WalkNodes
      <4>2. Len(w) = r - 1
        BY <2>3, <3>5, <4>1
      <4>3. Len(w) + 1 = r
        BY <2>3, <4>2
      <4> QED  BY <3>7, <4>1, <4>3
    <3>9. PICK k \in DOMAIN algorithms[stack[r].node] : a = algorithms[stack[r].node][k]
      BY <3>3, <3>4, <3>8 DEF ToSet
    <3>10. r \in DOMAIN stack /\ r < n /\ stack'[r] = stack[r]
      BY <1>4, <2>3
    <3>11. stack[r].node \in Nodes /\ stack[r].algorithm \in Nat
      <4>1. stack[r] \in Frames
        BY <1>2, <1>4, <3>10, ElementOfSeq
      <4> QED  BY <4>1 DEF Frames
    <3>12. k < stack[r].algorithm
      <4>1. algorithms[stack[r].node] \in Seq(Algorithms)
        BY <3>11, GraphAssumption
      <4>2. Len(algorithms[stack[r].node]) < stack[r].algorithm
        BY <1>3, <3>10 DEF OnceInv, OuterPassed
      <4> QED  BY <3>9, <3>11, <4>1, <4>2
    <3> QED  BY <3>9, <3>10, <3>12 DEF Emitted
  <2>15. StillNew'
    BY <1>4, <2>3, <2>14 DEF StillNew, Emitted
  <2>16. Len(steps') <= running_reduction_id
    BY <1>2, <1>4, <2>1 DEF OnceInv
  <2> QED
    BY <1>1, <1>5, <2>4, <2>10, <2>11, <2>12, <2>13, <2>15, <2>16 DEF OnceInv
<1> QED  BY <1>7, <1>8

LEMMA OnceStep == PathInv /\ WalkInv /\ OnceInv /\ [Next]_plannerVars => OnceInv'
<1> SUFFICES ASSUME PathInv, WalkInv, OnceInv, [Next]_plannerVars PROVE OnceInv'
  OBVIOUS
<1>1. CASE UNCHANGED plannerVars
  <2>1. /\ UNCHANGED configVars /\ stack' = stack /\ steps' = steps /\ plans' = plans
        /\ running_reduction_id' = running_reduction_id /\ running_reduction_id \in Nat
    BY <1>1, CallFacts DEF plannerVars
  <2>2. /\ start \in Nodes /\ start' = start /\ excluded_algorithms' = excluded_algorithms
        /\ \A w, i : NodeAt(w, i)' = NodeAt(w, i)
        /\ \A w : EndOf(w)' = EndOf(w) /\ IsWalk(w)' = IsWalk(w)
        /\ \A w, a : HasPlan(w, a)' <=> HasPlan(w, a)
        /\ \A w : IsWalk(w) /\ AllFound(w) => AllFound(w)'
        /\ PlansAreOfWalks' /\ NoPlanTwice'
    BY <2>1, PlansKept
  <2>3. /\ \A d, a : Emitted(d, a)' = Emitted(d, a)
        /\ \A w, d : EndsHere(w, d)' = EndsHere(w, d)
        /\ \A w, d : LeavesHere(w, d)' = LeavesHere(w, d)
    BY <2>1, <2>2 DEF Emitted, EndsHere, LeavesHere, SameUpTo, Behind
  <2>4. OuterPassed'
    BY <2>1 DEF OnceInv, OuterPassed
  <2>5. AlgorithmsDone'
    BY <2>1, <2>2, <2>3 DEF OnceInv, AlgorithmsDone
  <2>6. EdgesDone'
    <3>1. \A d \in DOMAIN stack : \A w : LeavesHere(w, d) => IsWalk(w) /\ AllFound(w)
      BY DEF OnceInv, EdgesDone, LeavesHere
    <3> QED  BY <2>1, <2>2, <2>3, <3>1 DEF EdgesDone
  <2>7. Enumerating' = Enumerating
    BY <2>1 DEF Enumerating
  <2>8. Enumerating => StillNew'
    BY <2>1 DEF OnceInv, StillNew, HasPlan, Found, Emitted, Taken
  <2>9. \A v : CallsWalk(v) => CallsWalk(v)'
    BY <2>1, <2>2 DEF CallsWalk, SameUpTo
  <2>10. Enumerating => (\E v : CallsWalk(v))'
    BY <2>9 DEF OnceInv
  <2>11. ~Enumerating => \A w : IsWalk(w) => AllFound(w)'
    BY <2>2 DEF OnceInv
  <2> QED
    BY <2>1, <2>2, <2>4, <2>5, <2>6, <2>7, <2>8, <2>10, <2>11 DEF OnceInv
<1> QED  BY <1>1, OnceEmit, OnceSkip, OnceFollow, OnceReturn DEF Next

(* Once the first call has ended: every walk has its plans and no other,   *)
(* and since the ids bound the lengths of walks, no walk passes a node     *)
(* twice and Walks are all of them.                                        *)
LEMMA EndedOnce == PathInv /\ OnceInv => (~Enumerating => EachOnce)
<1> SUFFICES ASSUME PathInv, OnceInv, ~Enumerating PROVE EachOnce
  OBVIOUS
<1>1. start \in Nodes /\ running_reduction_id \in Nat /\ \A w : IsWalk(w) => AllFound(w)
  BY CallFacts DEF OnceInv
<1>2. \A w : IsWalk(w) => Len(w) <= Cardinality(Nodes)
  <2>1. \A w : IsWalk(w) => Len(w) <= running_reduction_id
    BY <1>1 DEF AllFound
  <2> QED  BY <1>1, <2>1, WalksAreShort
<1>3. \A w : w \in Walks <=> IsWalk(w)
  BY <1>1, <1>2, WalksFacts DEF IsWalk
<1>4. Expected = UNION {{<<Taken(w), a>> : a \in ToSet(algorithms[EndOf(w)]) \ excluded_algorithms}
                          : w \in Walks}
  BY DEF Expected, Taken
<1>5. ASSUME NEW m \in DOMAIN plans PROVE Found(m) \in Expected
  <2>1. PICK w, a : /\ IsWalk(w) /\ Found(m) = <<Taken(w), a>>
                    /\ a \in ToSet(algorithms[EndOf(w)]) \ excluded_algorithms
    BY DEF OnceInv, PlansAreOfWalks
  <2> QED  BY <1>3, <1>4, <2>1
<1>6. ASSUME NEW x \in Expected PROVE \E m \in DOMAIN plans : Found(m) = x
  <2>1. PICK w \in Walks :
          \E a \in ToSet(algorithms[EndOf(w)]) \ excluded_algorithms : x = <<Taken(w), a>>
    BY <1>4
  <2>2. PICK a \in ToSet(algorithms[EndOf(w)]) \ excluded_algorithms : x = <<Taken(w), a>>
    BY <2>1
  <2>3. AllFound(w)
    BY <1>1, <1>3
  <2> QED  BY <2>2, <2>3 DEF AllFound, HasPlan
<1>7. {Found(m) : m \in DOMAIN plans} = Expected
  BY <1>5, <1>6
<1> QED  BY <1>7 DEF EachOnce, OnceInv, NoPlanTwice

(* Whatever the graph, the exclusions and the similarity that is planned   *)
(* for: when enumerate_plans returns, it has one plan for every path that  *)
(* is not excluded and every algorithm at its end, and no other.           *)
THEOREM PlansAlwaysOnce == Spec => AllPlansOnce
<1> DEFINE Inv == PathInv /\ WalkInv /\ OnceInv
<1>1. Init => Inv
  BY InitOK, WalkInit, OnceInit
<1>2. Inv /\ [Next]_plannerVars => Inv'
  BY StepOK, WalkStep, OnceStep
<1>3. Inv => (~Enumerating => EachOnce)
  BY EndedOnce
<1> HIDE DEF Inv
<1>4. Inv' => (~Enumerating' => EachOnce')
  BY <1>3, PTL
<1> QED  BY <1>1, <1>2, <1>4, PTL DEF Spec, AllPlansOnce
==============================================================================
