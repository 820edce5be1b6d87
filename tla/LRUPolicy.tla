------------------------------ MODULE LRUPolicy ------------------------------
(***************************************************************************)
(* What the users of a least-recently-used cache rely on, without lists    *)
(* and iterators: a bounded set of keys and the relation `older' between   *)
(* them, in which <<k, l>> says that l was used after k.  Only a key       *)
(* without an older one is ever evicted, and only from a full cache.       *)
(***************************************************************************)
EXTENDS Naturals, FiniteSets

CONSTANTS Keys, Capacity

VARIABLES entries, older

vars == <<entries, older>>

Init == entries = {} /\ older = {}

UsedLast(E, R, k) ==
  {q \in R : q[1] \in E /\ q[2] \in E /\ k \notin {q[1], q[2]}}
    \cup (E \ {k}) \X {k}

Use(k) ==
  /\ k \in entries
  /\ entries' = entries
  /\ older' = UsedLast(entries, older, k)

Put(k) ==
  /\ k \notin entries
  /\ Cardinality(entries) < Capacity
  /\ entries' = entries \cup {k}
  /\ older' = UsedLast(entries', older, k)

(* The oldest entry makes room for a new one.                              *)
Replace(k, oldest) ==
  /\ k \notin entries /\ oldest \in entries
  /\ Cardinality(entries) >= Capacity
  /\ \A l \in entries : <<l, oldest>> \notin older
  /\ entries' = (entries \ {oldest}) \cup {k}
  /\ older' = UsedLast(entries', older, k)

(* Entries go, but none before an older one.                               *)
Forget ==
  /\ entries' \subseteq entries
  /\ \A k \in entries', l \in entries \ entries' : <<l, k>> \in older
  /\ older' = {q \in older : q[1] \in entries' /\ q[2] \in entries'}

Next ==
  \/ \E k \in Keys : Use(k) \/ Put(k) \/ \E l \in Keys : Replace(k, l)
  \/ Forget

Spec == Init /\ [][Next]_vars
==============================================================================
