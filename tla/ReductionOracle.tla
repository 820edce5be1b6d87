--------------------------- MODULE ReductionOracle ---------------------------
(***************************************************************************)
(* What the joins expect of the reduction cache: asked for a batch at a    *)
(* level of a plan it answers with the data a fresh reduction of the batch *)
(* along the plan's steps would give, whatever was asked before.           *)
(***************************************************************************)
CONSTANTS
  Requests,    \* what can be asked
  Fresh(_),    \* the answer of a cache that keeps nothing
  None         \* no request, no answer

VARIABLES request, answer

vars == <<request, answer>>

Init == request = None /\ answer = None

Ask ==
  /\ request = None
  /\ request' \in Requests
  /\ answer' = None

Answer ==
  /\ request # None
  /\ answer' = Fresh(request)
  /\ request' = None

Next == Ask \/ Answer

Spec == Init /\ [][Next]_vars
==============================================================================
