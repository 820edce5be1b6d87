--------------------------- MODULE MCReductionCache ---------------------------
(***************************************************************************)
(* The reduction steps of tree data with one additional q-gram length: a   *)
(* traversal string (0), its two sets of q-grams (1, 2) and the label set  *)
(* (3).  The plans are those of enumerate_plans without their algorithms.  *)
(***************************************************************************)
EXTENDS ReductionCache

CONSTANTS b1, b2

MCBatches == {b1, b2}
MCSteps   == 0 .. 3
MCPlans   == {<<0>>, <<0, 1>>, <<0, 2>>, <<3>>}
MCKeys    == [batch_id : MCBatches, reduction_id : MCSteps]

MCValues ==
  UNION {{Data(b, SubSeq(p, 1, i)) : b \in MCBatches, i \in 1 .. Len(p)} : p \in MCPlans}

(* Between two calls the cache may also be told to make room for n keys,   *)
(* or be cleared.                                                          *)
MakeRoom(n) == request = None /\ reserve(n) /\ UNCHANGED requestVars

ClearCache == request = None /\ clear /\ UNCHANGED requestVars

MCNext == Next \/ (\E n \in 0 .. Capacity-1 : MakeRoom(n)) \/ ClearCache

MCSpec == Init /\ [][MCNext]_vars /\ WF_vars(Search \/ Reduce \/ Return)
==============================================================================
