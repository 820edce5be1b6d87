------------------------------- MODULE MCStrings -------------------------------
(***************************************************************************)
(* Strings for TLC: PassJoin with many pairs of strings and with many      *)
(* calls, and Reductions with edits of strings and trees.  Only one of the *)
(* two runs at a time.                                                     *)
(***************************************************************************)
EXTENDS PassJoin, Reductions

CONSTANTS a1, a2

Filter(type, from, to) == [type |-> type, index_start |-> from, index_end |-> to]

Strings(n) == UNION {[1..k -> Alphabet] : k \in 0..n}

(* One string is indexed, another probes.                                  *)
Pair(indexed, probing, threshold) ==
  [algorithm |-> "PASS_JOIN", data |-> <<indexed, probing>>, threshold |-> threshold, PRESORTED |-> FALSE,
   starts |-> [a \in {a1, a2} |-> IF a = a1 THEN {1} ELSE {}],
   batches |-> {1}, probes |-> {2}, filters |-> {[type |-> "NOP"]}]

Pairs ==
  {Pair(r, s, t) : r \in Strings(4), s \in Strings(5), t \in 0..2} \cup
  {Pair(r, s, 3) : r \in Strings(3), s \in Strings(4)}

(* Two instances get batches, are merged and are probed again and again.   *)
Calls ==
  {[algorithm |-> "PASS_JOIN", data |-> << <<1>>, <<1, 2>>, <<1, 2, 1>> >>, threshold |-> threshold,
    PRESORTED |-> presorted,
    starts |-> [a \in {a1, a2} |-> IF a = a1 THEN {1} ELSE {1, 2}],
    batches |-> {1, 2}, probes |-> {2, 3},
    filters |-> {[type |-> "SIMPLE_SELFJOIN"], [type |-> "SYMMETRIC_PAIRS"],
                 Filter("CUTOFF", 2, 3), Filter("CUTOFF_SELFJOIN", 1, 2)}] :
     threshold \in {1, 2}, presorted \in BOOLEAN}

AllSettings == Pairs \cup Calls \cup {[algorithm |-> "NONE"]}

Leaf(l) == [label |-> l, children |-> <<>>]
Node(l, f) == [label |-> l, children |-> f]

Trees ==
  {Leaf(1),
   Node(1, <<Leaf(1), Node(2, <<Leaf(1), Leaf(2)>>)>>),
   Node(1, <<Leaf(1), Node(1, <<Leaf(2)>>), Leaf(2)>>),
   Node(1, <<Node(1, <<Node(1, <<Leaf(1)>>)>>)>>)}

AllOriginals == {[string |-> s] : s \in Strings(4)} \cup {[tree |-> t] : t \in Trees}

(* Without a join, something is edited.                                    *)
MCInit ==
  /\ PassInit /\ EditInit
  /\ setting.algorithm = "NONE" \/ original = [string |-> <<>>]

MCNext ==
  \/ setting.algorithm = "PASS_JOIN" /\ PassNext /\ UNCHANGED editVars
  \/ setting.algorithm = "NONE" /\ EditNext /\ UNCHANGED passVars

MCSpec == MCInit /\ [][MCNext]_<<passVars, editVars>>
==============================================================================
