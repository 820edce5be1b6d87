------------------------------ MODULE MCSetJoins ------------------------------
(***************************************************************************)
(* PallocJoin and PrefixSearch for TLC: two records with many datasets and *)
(* similarities, and three records with many calls.                        *)
(***************************************************************************)
EXTENDS PallocJoin, PrefixSearch

CONSTANTS a1, a2, s1, s2

Jaccard(n, d)    == [kind |-> "jaccard", num |-> n, den |-> d]
Jaro(n, d)       == [kind |-> "jaro_overlap", num |-> n, den |-> d]
Structural(t, q) == [kind |-> "structural", t |-> t, q |-> q]
Hamming(t)       == [kind |-> "hamming", t |-> t]

Filter(type, from, to) == [type |-> type, index_start |-> from, index_end |-> to]

Universe == 1..5
OneState  == [a \in {a1, a2} |-> s1]
TwoStates == [a \in {a1, a2} |-> IF a = a1 THEN s1 ELSE s2]

(* One record is indexed, another probes.                                  *)
Pair(indexed, probing, similarity, algorithm, hash, heavy) ==
  [data |-> <<indexed, probing>>, similarity |-> similarity, algorithm |-> algorithm,
   PRESORTED |-> FALSE, partition |-> hash, heavy |-> heavy, shared_state |-> OneState,
   starts |-> [a \in {a1, a2} |-> IF a = a1 THEN {1} ELSE {}],
   batches |-> {1}, probes |-> {2}, filters |-> {[type |-> "NOP"]}]

Ascending(S) == SetToSortSeq(S, <)

PallocPairs ==
  {Pair(Ascending(1..n), Ascending(S), similarity, algorithm, hash, <<>>) :
     n \in {2, 3, 5}, S \in SUBSET Universe \ {{}},
     similarity \in {Jaccard(1, 2), Jaro(9, 10), Structural(1, 2), Structural(2, 1), Hamming(2)},
     algorithm \in {"PALLOC", "PARTITION"},
     hash \in {[t \in Universe |-> t], [t \in Universe |-> t \div 2]}}

PrefixPairs ==
  {Pair(Ascending(1..n), Ascending(S), similarity, "PREFIX", <<>>, heavy) :
     n \in {2, 3, 5}, S \in SUBSET Universe \ {{}},
     similarity \in {Jaccard(1, 2), Jaccard(3, 4), Jaro(4, 5), Structural(1, 2), Structural(2, 1),
                     Structural(2, 2), Hamming(2), Hamming(3)},
     heavy \in {<<>>, <<2, 1>>}}

(* Two instances get batches, are merged and are probed again and again.   *)
(* Presorted ones have a state each.                                       *)
Calls(similarities, algorithms, states) ==
  {[data |-> << <<1>>, <<1, 2>>, <<1, 2, 3>> >>,
    similarity |-> similarity, algorithm |-> algorithm, PRESORTED |-> states = TwoStates,
    partition |-> [t \in Universe |-> t], heavy |-> IF states = TwoStates THEN <<>> ELSE <<1>>,
    shared_state |-> states,
    starts |-> [a \in {a1, a2} |-> IF a = a1 THEN {1} ELSE {1, 2}],
    batches |-> {1, 2}, probes |-> {2, 3},
    filters |-> {[type |-> "SIMPLE_SELFJOIN"], Filter("CUTOFF", 2, 3),
                 Filter("CUTOFF_SELFJOIN", 1, 2)}] :
     similarity \in similarities, algorithm \in algorithms}

(* Sets whose tokens are not sorted.                                       *)
Unsorted ==
  {Pair(<<3, 1, 2>>, <<2, 3, 1>>, similarity, algorithm, [t \in Universe |-> t], heavy) :
     similarity \in {Jaccard(1, 2), Structural(1, 1)},
     algorithm \in {"PALLOC", "PARTITION", "PREFIX"}, heavy \in {<<>>, <<2, 1>>}}

(* Presorted prefix joins, of sets in the order of their sizes and not all *)
(* in that of their tokens: all are indexed, and each of them probes.      *)
Orders == {<<1, 2, 3>>, <<3, 1, 2>>, <<2, 3, 1>>, <<2, 1>>}

PresortedPairs ==
  {[pair EXCEPT !.PRESORTED = TRUE, !.batches = {2}, !.probes = {1, 2},
                !.filters = {[type |-> "NOP"], [type |-> "SIMPLE_SELFJOIN"]}] :
     pair \in {p \in PrefixPairs \cup
                      {Pair(s[1], s[2], similarity, "PREFIX", <<>>, <<>>) :
                         s \in Orders \X Orders,
                         similarity \in {Jaccard(1, 2), Jaro(9, 10), Structural(1, 1), Hamming(1)}} :
                p.heavy = <<>> /\ Len(p.data[1]) <= Len(p.data[2])}}

(* Empty sets, which with JaroOverlapSimilarity have no prefix.            *)
Empties ==
  {Pair(Ascending(1..n[1]), Ascending(1..n[2]), similarity, "PREFIX", <<>>, <<>>) :
     n \in {0} \X (0..3) \cup (0..3) \X {0},
     similarity \in {Jaccard(1, 2), Structural(0, 1), Structural(1, 2), Structural(2, 1), Hamming(0),
                     Hamming(2)}}

AllSettings ==
  PallocPairs \cup PrefixPairs \cup PresortedPairs \cup Unsorted \cup Empties \cup
  Calls({Structural(1, 1)}, {"PALLOC", "PARTITION", "PREFIX"}, OneState) \cup
  Calls({Jaccard(1, 2)}, {"PALLOC", "PREFIX"}, TwoStates)

MCInit == Init /\ PrefixInit

MCNext ==
  \/ setting.algorithm # "PREFIX" /\ Next /\ UNCHANGED prefixOwnVars
  \/ setting.algorithm = "PREFIX" /\ PrefixNext /\ UNCHANGED pallocOwnVars

MCSpec == MCInit /\ [][MCNext]_<<pallocVars, prefixOwnVars>>
==============================================================================
