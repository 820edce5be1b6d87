------------------------------ MODULE PairOffer ------------------------------
(***************************************************************************)
(* What a scheduler of candidate pairs promises to the join that consumes  *)
(* its blocks, with no block geometry in it.  `todo' are the pairs nobody  *)
(* has accounted for, `offered' the pairs of the block get_block() returns *)
(* and `finished' the answer of is_finished().  A caller only ever         *)
(* completes pairs of the block it was offered, everything offered is      *)
(* still to be done, and the scheduler reports the end only when nothing   *)
(* is left.                                                                *)
(***************************************************************************)
CONSTANT Pairs    \* the candidate pairs of one join

VARIABLES todo, offered, finished

vars == <<todo, offered, finished>>

Init ==
  /\ todo = Pairs
  /\ offered = Pairs
  /\ finished = FALSE

(* Complete some of the offered pairs (possibly none: the offer is only    *)
(* withdrawn or narrowed then) and offer others.                           *)
Advance ==
  /\ ~finished
  /\ todo' \subseteq todo
  /\ todo \ todo' \subseteq offered
  /\ offered' \subseteq todo'
  /\ finished' \in BOOLEAN
  /\ finished' => todo' = {}

Next == Advance

Spec == Init /\ [][Next]_vars
==============================================================================
