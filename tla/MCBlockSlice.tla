----------------------------- MODULE MCBlockSlice -----------------------------
(* Up to five batches of up to nine records.                               *)
EXTENDS BlockSlice

CONSTANTS prefix, other, MaxBatches

MCBatchIds == 0 .. MaxBatches-1

MCShared == [k \in MCBatchIds |-> k]

MCPlans == <<prefix, other>>

MCRecords == 0 .. 8

(* All inputs whose batches start within the dataset.                      *)
MCInputs ==
  {input \in [count : 1 .. 9, batch_count : 1 .. MaxBatches] :
     LET b == IF input.count < input.batch_count THEN input.count ELSE input.batch_count
     IN  (b-1) * get_batch_size(b, input.count) <= input.count}

MCThreeBatches == {[count |-> 3, batch_count |-> 3]}
==============================================================================
