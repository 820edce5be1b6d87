------------------------------ MODULE BlockSlice ------------------------------
(***************************************************************************)
(* join::PlanExecutor and its AlgorithmCache (blockslice.hh): the join in  *)
(* block mode.  The dataset is split into batches; every batch is indexed  *)
(* once and probed by itself and all later ones, alternately from left to  *)
(* right and back.  The bandit selects a plan for every pair of batches.   *)
(*                                                                         *)
(* The algorithms and what they share live as long as their index batch,   *)
(* the prepared probe batches as long as the join.  Both are modelled for  *)
(* the plan that ends in the prefix join: index batch k is instance k of   *)
(* PrefixJoin and has shared state k.                                      *)
(***************************************************************************)
EXTENDS PrefixJoin

CONSTANTS
  Inputs,      \* [count, batch_count]: the dataset and the command line
  plans,       \* the plans, a sequence
  PrefixPlan,  \* the one with the prefix join
  None

(* There is a record and a batch: get_batch_size divides by their number.  *)
ASSUME InputAssumption ==
  \A input \in Inputs :
    input.count \in Nat \ {0} /\ input.batch_count \in Nat \ {0}

VARIABLES
  count, batch_count,
  index_batch_idx, i,          \* the two loops
  selected,                    \* the plan of this pair of batches
  initialized,                 \* the plans that have an algorithm for the index batch
  remaining_all_batch_pairs,
  emitted, repeated            \* the pairs that were compared, those compared again

inputVars == <<count, batch_count>>
loopVars  == <<index_batch_idx, i, selected, initialized, remaining_all_batch_pairs>>
blockVars == <<inputVars, loopVars, emitted, repeated, prefixVars>>

(* Faulty forms: a size that is rounded down, a self-join that is not      *)
(* recognised.                                                             *)
get_batch_size_Down(b, n) == n \div b

IsSelfJoin_Never(ib, pb) == FALSE

get_batch_size(b, n) == n \div b + (IF n % b = 0 THEN 0 ELSE 1)

get_allpairs_batches(b) == (b * (b-1)) \div 2

size == get_batch_size(batch_count, count)

Start(k) == k * size

End(k) == IF Start(k) + size < count THEN Start(k) + size ELSE count

Batch(k) == [j \in 1 .. End(k) - Start(k) |-> Start(k) + j - 1]

Ids(k) == Start(k) .. End(k)-1

Backward == batch_count + index_batch_idx - i - 1

(* Even rounds go from left to right, odd ones from right to left.         *)
probe_batch_idx == IF index_batch_idx % 2 = 0 THEN i ELSE Backward

IsSelfJoin(ib, pb) == ib = pb

(* The id filters: a batch with itself, or all records of two batches.     *)
PairsOf(ib, pb) ==
  {p \in Ids(ib) \X Ids(pb) : IsSelfJoin(ib, pb) => p[1] < p[2]}

------------------------------------------------------------------------------
BlockInit ==
  /\ Init
  /\ \E input \in Inputs :
       /\ count = input.count
       /\ batch_count = IF input.count < input.batch_count
                        THEN input.count ELSE input.batch_count
  /\ index_batch_idx = 0 /\ i = 0
  /\ selected = None /\ initialized = {}
  /\ remaining_all_batch_pairs = get_allpairs_batches(batch_count)
  /\ emitted = {} /\ repeated = {}

Running == index_batch_idx < batch_count

(* get_batch_by_id for a batch that starts behind the dataset is a range   *)
(* with its end before its beginning: what the code does with it is        *)
(* undefined.                                                              *)
Defined(k) == Start(k) <= count

(* select_arm.  The learning rate has a factor log(trials); for 0 trials   *)
(* it is not a number, neither are the weights, and the last arm is taken. *)
SelectArm ==
  /\ Running /\ i < batch_count /\ selected = None
  /\ Defined(index_batch_idx) /\ Defined(probe_batch_idx)
  /\ IF get_allpairs_batches(batch_count) = 0
     THEN selected' = Last(plans)
     ELSE selected' \in ToSet(plans)
  /\ UNCHANGED <<inputVars, index_batch_idx, i, initialized,
                 remaining_all_batch_pairs, emitted, repeated, prefixVars>>

(* probe_using_plan, first part: the index of the plan.                    *)
BuildAlgorithm ==
  /\ selected # None /\ selected \notin initialized
  /\ initialized' = initialized \cup {selected}
  /\ IF selected = PrefixPlan
     THEN \E n \in TokenCounts : Insert(index_batch_idx, Batch(index_batch_idx), n)
     ELSE UNCHANGED prefixVars
  /\ UNCHANGED <<inputVars, index_batch_idx, i, selected,
                 remaining_all_batch_pairs, emitted, repeated>>

(* ... second part: join with the cached signatures of the probe batch,    *)
(* except for a batch with itself, where the index has the probing sets.   *)
JoinPrefix(ib, pb) ==
  /\ update_index(ib)
  /\ \E signatures \in {probing_signatures(pb, shared_state[ib])} :
       /\ Store(pb, signatures)
       /\ IF IsSelfJoin(ib, pb) THEN UNCHANGED compared ELSE Compare(ib, signatures.mapping)
  /\ UNCHANGED <<sharedVars, indexed_data>>

JoinBatches ==
  /\ selected \in initialized
  /\ \E ib \in {index_batch_idx}, pb \in {probe_batch_idx} :
       /\ IF selected = PrefixPlan THEN JoinPrefix(ib, pb) ELSE UNCHANGED prefixVars
       /\ emitted' = emitted \cup PairsOf(ib, pb)
       /\ repeated' = repeated \cup (emitted \cap PairsOf(ib, pb))
  /\ selected' = None
  /\ i' = i + 1
  /\ remaining_all_batch_pairs' = remaining_all_batch_pairs - 1
  /\ UNCHANGED <<inputVars, index_batch_idx, initialized>>

(* The next index batch has a new AlgorithmCache.                          *)
NextIndexBatch ==
  /\ Running /\ i = batch_count
  /\ index_batch_idx' = index_batch_idx + 1
  /\ i' = index_batch_idx + 1
  /\ initialized' = {}
  /\ UNCHANGED <<inputVars, selected, remaining_all_batch_pairs,
                 emitted, repeated, prefixVars>>

EvictSignatures ==
  /\ \E b \in ProbeBatches : Evict(b)
  /\ UNCHANGED <<inputVars, loopVars, emitted, repeated>>

BlockNext ==
  \/ SelectArm \/ BuildAlgorithm \/ JoinBatches \/ NextIndexBatch
  \/ EvictSignatures

BlockSpec == BlockInit /\ [][BlockNext]_blockVars

------------------------------------------------------------------------------
(* Properties.                                                             *)

AllPairs == {p \in (0 .. count-1) \X (0 .. count-1) : p[1] < p[2]}

(* Whatever the order of the rounds, the sizes of the batches and the      *)
(* selected plans, no pair of records is compared twice, all pairs of a    *)
(* finished index batch have been, and in the end all pairs.               *)
EveryPairOnce ==
  /\ repeated = {}
  /\ \A p \in AllPairs : p[1] \div size < index_batch_idx => p \in emitted
==============================================================================
