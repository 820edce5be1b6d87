--------------------------- MODULE StaticTimeslicing ---------------------------
(***************************************************************************)
(* join::execute_timeslice_prebuilt (timeslice_static.hh): the time-static *)
(* join.  Every plan indexes the whole dataset first.  Then the records    *)
(* are probed in batches, alternately from the left and from the right     *)
(* end, by the plan of the time slice, until the two ends meet.            *)
(*                                                                         *)
(* A plan with reductions reads its batches from the reduction cache,      *)
(* where the first record of a batch is its id: what comes back is any     *)
(* range that was ever reduced under the id.  Its pairs are verified by    *)
(* their positions in the reduced dataset and in the reduced batch.        *)
(***************************************************************************)
EXTENDS Integers, Sequences

CONSTANTS
  Counts,      \* the sizes of the dataset
  HALFBATCH,   \* 8 in the code
  Plans,       \* the number of plans
  Reducing     \* those that have reduction steps

ASSUME StaticAssumption ==
  /\ Counts \subseteq Nat
  /\ HALFBATCH \in Nat \ {0}
  /\ Plans \in Nat \ {0}
  /\ Reducing \subseteq 1 .. Plans

VARIABLES
  count,
  plan, offset,       \* the two loops that build the indexes
  owned_data,         \* by plan: the reduced records, one of its levels
  lp_id, rp_id,       \* what is left to probe
  action,             \* the plan of the time slice, 0 between two slices
  side,               \* what comes next in it: "left", "right" or "clock"
  extents,            \* <<id, batch>> for all batches that were reduced
  emitted, repeated,  \* the pairs that were found, those found again
  misread             \* pairs that were verified with other records

buildVars  == <<count, plan, offset, owned_data>>
sliceVars  == <<lp_id, rp_id, action, side>>
resultVars == <<emitted, repeated, misread>>
staticVars == <<buildVars, sliceVars, extents, resultVars>>

Lower(a, b) == IF a < b THEN a ELSE b

(* Faulty forms: the right end is where the dataset ends, a right batch is *)
(* as long as the others, a batch is put before the others, the ends are   *)
(* apart when they have met.                                               *)
Aligned_Not(n) == n

EndOfRight_Short(id) == Lower(id + HALFBATCH-1, count)

Appended_Before(p, batch) ==
  [j \in 1 .. batch.end - batch.start |-> batch.start + j - 1] \o owned_data[p]

StillApart_Touching == lp_id <= rp_id

(* get_batch_by_offset(data, start, end).                                  *)
Batch(start, end) == [start |-> start, end |-> Lower(end, count)]

Ids(batch) == batch.start .. batch.end-1

Aligned(n) == IF n % HALFBATCH = 0 THEN n ELSE (n \div HALFBATCH + 1) * HALFBATCH

EndOfRight(id) == Lower(id + HALFBATCH, count)

NextLeft == lp_id + HALFBATCH

StillApart == lp_id < rp_id

Appended(p, batch) ==
  owned_data[p] \o [j \in 1 .. batch.end - batch.start |-> batch.start + j - 1]

(* What reduce_data_to_level returns for a batch: it may be cached.        *)
Reduced(id, batch) == {e[2] : e \in {x \in extents : x[1] = id}} \cup {batch}

Note(id, batch) == extents' = extents \cup {<<id, batch>>}

------------------------------------------------------------------------------
Init ==
  /\ count \in Counts
  /\ plan = 1 /\ offset = 0
  /\ owned_data = [p \in Reducing |-> <<>>]
  /\ lp_id = 0 /\ rp_id = Aligned(count)
  /\ action = 0 /\ side = "left"
  /\ extents = {} /\ emitted = {} /\ repeated = {} /\ misread = {}

(* The dataset of a plan with steps is reduced batch by batch ...          *)
ReduceBatch ==
  /\ plan \in Reducing /\ offset < count
  /\ \E own \in {Batch(offset, Lower(offset + HALFBATCH, count))} :
     \E batch \in Reduced(offset, own) :
       /\ owned_data' = [owned_data EXCEPT ![plan] = Appended(plan, batch)]
       /\ Note(offset, own)
  /\ offset' = offset + HALFBATCH
  /\ UNCHANGED <<count, plan, sliceVars, resultVars>>

(* ... and indexed as a whole.                                             *)
BuildIndex ==
  /\ plan <= Plans
  /\ plan \in Reducing => offset >= count
  /\ plan' = plan + 1
  /\ offset' = 0
  /\ UNCHANGED <<count, owned_data, sliceVars, extents, resultVars>>

SelectPlan ==
  /\ plan > Plans /\ action = 0 /\ StillApart
  /\ action' \in 1 .. Plans
  /\ side' = "left"
  /\ UNCHANGED <<buildVars, lp_id, rp_id, extents, resultVars>>

(* The indexed records of the plan, and their positions, from 0.           *)
Indexed ==
  IF action \in Reducing
  THEN {owned_data[action][j] : j \in DOMAIN owned_data[action]} ELSE 0 .. count-1

(* The pairs of a probe batch: an index record before a probe record.      *)
Found(batch) == {p \in Indexed \X Ids(batch) : p[1] < p[2]}

(* _offset_verify reads the pair by its offsets 0 and id.                  *)
Misread(p, batch, id) ==
  \/ owned_data[action][p[1] + 1] # p[1]
  \/ batch.start + (p[2] - id) # p[2]

(* evaluate_microbatch for the batch that starts at id.                    *)
Probe(id, own) ==
  \E batch \in IF action \in Reducing THEN Reduced(id, own) ELSE {own} :
  \E found \in {Found(batch)} :
    /\ emitted' = emitted \cup found
    /\ repeated' = repeated \cup (emitted \cap found)
    /\ IF action \in Reducing
       THEN /\ misread' = misread \cup {p \in found : Misread(p, batch, id)}
            /\ Note(id, own)
       ELSE UNCHANGED <<misread, extents>>

LeftBatch ==
  /\ action # 0 /\ side = "left"
  /\ Probe(lp_id, Batch(lp_id, Lower(lp_id + HALFBATCH, rp_id)))
  /\ lp_id' = NextLeft
  /\ side' = IF lp_id' < rp_id THEN "right" ELSE "clock"
  /\ UNCHANGED <<buildVars, rp_id, action>>

RightBatch ==
  /\ action # 0 /\ side = "right"
  /\ rp_id' = rp_id - HALFBATCH
  /\ Probe(rp_id', Batch(rp_id', EndOfRight(rp_id')))
  /\ side' = "clock"
  /\ UNCHANGED <<buildVars, lp_id, action>>

(* The slice goes on, or it ends: because its time is over, or because     *)
(* everything has been probed.                                             *)
GoOn ==
  /\ action # 0 /\ side = "clock" /\ StillApart
  /\ side' = "left"
  /\ UNCHANGED <<buildVars, lp_id, rp_id, action, extents, resultVars>>

EndSlice ==
  /\ action # 0 /\ side = "clock"
  /\ action' = 0
  /\ UNCHANGED <<buildVars, lp_id, rp_id, side, extents, resultVars>>

Next ==
  \/ ReduceBatch \/ BuildIndex
  \/ SelectPlan \/ LeftBatch \/ RightBatch \/ GoOn \/ EndSlice

(* One thread runs the join: it keeps taking steps.                        *)
Spec == Init /\ [][Next]_staticVars /\ WF_staticVars(Next)

------------------------------------------------------------------------------
(* Properties.                                                             *)

(* The pairs found are those of the records left of lp_id and from rp_id   *)
(* on, each with every record before it: once, whatever plans were         *)
(* selected, wherever the slices ended, and whatever was cached.  The ends *)
(* do not cross and stay on borders of batches.                            *)
ProbedRecords == {r \in 0 .. count-1 : r < lp_id \/ r >= rp_id}

PairsOfProbed ==
  /\ lp_id <= rp_id /\ lp_id % HALFBATCH = 0 /\ rp_id % HALFBATCH = 0
  /\ repeated = {}
  /\ emitted = {p \in (0 .. count-1) \X ProbedRecords : p[1] < p[2]}

(* Verification reads the records of the pair: the reduced dataset is in   *)
(* the order of the dataset, and batches start at their offsets.           *)
VerifiesThePair == misread = {}

(* The two ends meet, in the middle of a slice or at its end.              *)
JoinEnds == <>(plan > Plans /\ lp_id = rp_id /\ action = 0)
==============================================================================
