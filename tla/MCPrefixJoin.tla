----------------------------- MODULE MCPrefixJoin -----------------------------
(* Two indexes of one plan in the time-dynamic join: one shared state.     *)
EXTENDS PrefixJoin

CONSTANTS shared, a1, a2

MCShared == [a \in {a1, a2} |-> shared]

MCBatches == {<<1>>, <<2, 3>>}
==============================================================================
