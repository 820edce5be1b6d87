---------------------------- MODULE ReductionCache ----------------------------
(***************************************************************************)
(* join::ReductionCache (execution_cache.hh): the batches of a dataset,    *)
(* reduced along the steps of the query plans, in an LRU cache.            *)
(*                                                                         *)
(* A plan is the sequence of the ids of its reduction steps; level 0 of it *)
(* is the data after its last step and level Len(plan)-1 the data after    *)
(* its first.  reduce_data_to_level looks for the lowest step at or above  *)
(* the level whose data is cached and reduces from there, one step at a    *)
(* time, emplacing every result.  One lookup or one reduction is a step    *)
(* here; every emplace may evict data of any plan and any batch, including *)
(* the data that is being reduced.                                         *)
(*                                                                         *)
(* Data is what it was computed from: the batch and the path of the steps  *)
(* that were applied to it.                                                *)
(***************************************************************************)
EXTENDS LRUCache

CONSTANTS
  Batches,   \* the ids of the batches
  Plans,     \* the query plans, sequences of step ids
  Steps,     \* the step ids
  None       \* no value

(* The planner enumerates the plans by a walk through a tree, and a step   *)
(* id names one edge of it: plans with a common step have a common path to *)
(* it.  Plans without reductions do not use the cache.                     *)
ASSUME PlanAssumption ==
  /\ Plans \subseteq Seq(Steps) \ {<<>>}
  /\ \A p, q \in Plans : \A i \in 1 .. Len(p), j \in 1 .. Len(q) :
       p[i] = q[j] => i = j /\ \A h \in 1 .. i : p[h] = q[h]

Key(b, s) == [batch_id |-> b, reduction_id |-> s]

Data(b, path) == [batch |-> b, path |-> path]

ASSUME KeyAssumption == Keys = [batch_id : Batches, reduction_id : Steps]

ASSUME ValueAssumption ==
  Values = UNION {{Data(b, SubSeq(p, 1, i)) : b \in Batches, i \in 1 .. Len(p)} : p \in Plans}

VARIABLES
  request,  \* the arguments of the running call, None between calls
  rit,      \* position in the plan of the step that is looked at
  result,   \* the data found or reduced so far
  answer    \* what the last call returned

requestVars == <<request, rit, result, answer>>
vars == <<cacheVars, requestVars>>

Requests ==
  UNION {[batch : Batches, plan : {p}, level : 0 .. Len(p)-1] : p \in Plans}

ASSUME NoneAssumption == None \notin Requests \cup Values

(* Faulty forms: a call that ignores its level, does not get on while it   *)
(* searches or after a step, or keys data by the step alone.               *)
Target_EndOfPlan(r) == Len(r.plan)

WalkUp_Stays(i) == i

WalkDown_Stays(i) == i

StepKey_AnyBatch(r, i) == Key(CHOOSE b \in Batches : TRUE, r.plan[i])

(* The step the call ends with, the steps above and below a given one, the *)
(* cache key of a step, and its reduction.                                 *)
Target(r) == Len(r.plan) - r.level

WalkUp(i) == i - 1

WalkDown(i) == i + 1

StepKey(r, i) == Key(r.batch, r.plan[i])

reduce_data(d, s) == [d EXCEPT !.path = Append(@, s)]

Init ==
  /\ CacheInit
  /\ request = None /\ rit = 0 /\ result = None /\ answer = None

(* reduce_data_to_level(batch, plan, level).                               *)
Call(r) ==
  /\ request = None
  /\ request' = r
  /\ rit' = Target(r)
  /\ result' = None
  /\ answer' = None
  /\ UNCHANGED cacheVars

Searching == request # None /\ result = None /\ rit > 0

(* Upwards through the plan until a step's data is cached.                 *)
Search ==
  /\ Searching
  /\ get(StepKey(request, rit))
  /\ IF contains(StepKey(request, rit))
     THEN /\ result' = values[StepKey(request, rit)]
          /\ rit' = WalkDown(rit)
     ELSE rit' = WalkUp(rit) /\ UNCHANGED result
  /\ UNCHANGED <<request, answer>>

(* Nothing was found, or there is a step left: reduce and emplace.         *)
Reducing == request # None /\ ~Searching /\ (result = None \/ rit <= Target(request))

Reduce ==
  /\ Reducing
  /\ \E i \in {IF result = None THEN 1 ELSE rit} :
       LET from == IF result = None THEN Data(request.batch, <<>>) ELSE result
           data == reduce_data(from, request.plan[i])
       IN  /\ emplace(StepKey(request, i), data)
           /\ result' = emplaced(StepKey(request, i), data)
           /\ rit' = WalkDown(i)
  /\ UNCHANGED <<request, answer>>

Return ==
  /\ request # None /\ ~Searching /\ ~Reducing
  /\ answer' = result
  /\ request' = None
  /\ rit' = 0
  /\ result' = None
  /\ UNCHANGED cacheVars

Next == (\E r \in Requests : Call(r)) \/ Search \/ Reduce \/ Return

(* A call runs to its end; whether there is another is up to the join.     *)
Spec == Init /\ [][Next]_vars /\ WF_vars(Search \/ Reduce \/ Return)

------------------------------------------------------------------------------
(* Properties.                                                             *)

(* Every variable has the type the code declares for it.                   *)
TypeOK ==
  /\ CacheTypeOK
  /\ request \in Requests \cup {None}
  /\ rit \in Nat
  /\ result \in Values \cup {None}
  /\ answer \in Values \cup {None}

(* What is cached under a batch and a step is that batch, reduced along    *)
(* the path to that step of every plan that has it, though another plan    *)
(* may have put it there, and whatever was evicted in between.             *)
CachedDataIsReduced ==
  \A k \in DOMAIN values : \A p \in Plans : \A i \in 1 .. Len(p) :
    p[i] = k.reduction_id => values[k] = Data(k.batch_id, SubSeq(p, 1, i))

(* A call never computes what is cached: from the step it has reached on,  *)
(* nothing down to its level is in the cache, although it emplaces and     *)
(* evicts on the way.                                                      *)
NothingReducedTwice ==
  request # None /\ result # None =>
    \A i \in rit .. Target(request) : ~contains(StepKey(request, i))

(* The cache answers like one that keeps nothing.                          *)
Fresh(r) == Data(r.batch, SubSeq(r.plan, 1, Len(r.plan) - r.level))

Oracle == INSTANCE ReductionOracle

ImplementsOracle == Oracle!Spec

(* Every call returns.                                                     *)
CallsReturn == request # None ~> request = None
==============================================================================
