---------------------------- MODULE SetSimilarity ----------------------------
(***************************************************************************)
(* The similarities of sets (similarity.hh) and the bounds the joins take  *)
(* from them.  A similarity is a record: jaccard and jaro_overlap with the *)
(* threshold num/den, hamming with an integer threshold t, structural with *)
(* t and the number q of tokens that one edit may change.                  *)
(*                                                                         *)
(* Thresholds are exact fractions: what the code rounds from a double is   *)
(* rounded here from the number that the double stands for.                *)
(***************************************************************************)
EXTENDS Integers, Sequences, FiniteSets

lesser(a, b) == IF a <= b THEN a ELSE b
greater(a, b) == IF a <= b THEN b ELSE a

ceil(n, d) == -((-n) \div d)
floor(n, d) == n \div d
truncate(n, d) == IF n >= 0 THEN n \div d ELSE -((-n) \div d)

(* The similarities the program makes.  With a jaro_overlap threshold of   *)
(* 2/3 or less there is no bound for the length of a similar set.          *)
IsSimilarity(sim) ==
  \/ /\ sim.kind = "jaccard"
     /\ sim.num \in Nat \ {0} /\ sim.den \in Nat /\ sim.num <= sim.den
  \/ sim.kind = "structural" /\ sim.t \in Nat /\ sim.q \in Nat \ {0}
  \/ sim.kind = "hamming" /\ sim.t \in Nat
  \/ /\ sim.kind = "jaro_overlap"
     /\ sim.num \in Nat /\ sim.den \in Nat \ {0}
     /\ 2 * sim.den < 3 * sim.num /\ sim.num <= sim.den

(* equivalent_fractional_overlap(s1, s2), as numerator and denominator.    *)
fractional_overlap(sim, s1, s2) ==
  CASE sim.kind = "jaccard"      -> <<sim.num * (s1 + s2), sim.num + sim.den>>
    [] sim.kind = "structural"   -> <<greater(s1, s2) - sim.q * sim.t, 1>>
    [] sim.kind = "hamming"      -> <<s1 + s2 - sim.t, 2>>
    [] sim.kind = "jaro_overlap" -> <<(3 * sim.num - sim.den) * s1 * s2, sim.den * (s1 + s2)>>

equivalent_overlap(sim, s1, s2) ==
  LET f == fractional_overlap(sim, s1, s2) IN ceil(f[1], f[2])

(* The largest symmetric difference of two similar sets.                   *)
equivalent_hd(sim, s1, s2) ==
  LET f == fractional_overlap(sim, s1, s2)
  IN  truncate((s1 + s2) * f[2] - 2 * f[1], f[2])

minimum_length_bound(sim, n) ==
  CASE sim.kind = "jaccard"      -> ceil(n * sim.num, sim.den)
    [] sim.kind = "structural"   -> n - sim.t
    [] sim.kind = "hamming"      -> greater(0, n - sim.t)
    [] sim.kind = "jaro_overlap" -> greater(0, ceil(n * (3 * sim.num - 2 * sim.den), sim.den))

maximum_length_bound(sim, n) ==
  CASE sim.kind = "jaccard"      -> floor(n * sim.den, sim.num)
    [] sim.kind = "structural"   -> n + sim.t
    [] sim.kind = "hamming"      -> n + sim.t
    [] sim.kind = "jaro_overlap" -> floor(n * sim.den, 3 * sim.num - 2 * sim.den)

(* The longest set whose first token in common with a probing set of n     *)
(* tokens is the one at pos, counted from 0.                               *)
maximum_length_pel(sim, n, pos) ==
  CASE sim.kind = "jaccard"      -> floor(n * sim.den - (sim.den + sim.num) * pos, sim.num)
    [] sim.kind = "structural"   -> lesser(n + sim.t, n + sim.t - pos \div sim.q)
    [] sim.kind = "hamming"      -> maximum_length_bound(sim, n)
    [] sim.kind = "jaro_overlap" ->
         floor((n * n - pos * n) * sim.den, pos * sim.den + n * (3 * sim.num - 2 * sim.den))

(* max_hd_to: the largest equivalent_hd over a range of sizes of indexed   *)
(* sets and one of probing sets.                                           *)
max_hd_to(sim, index_lower, index_upper, probe_lower, probe_upper) ==
  CASE sim.kind \in {"jaccard", "hamming"} -> equivalent_hd(sim, index_upper, probe_upper)
    [] sim.kind = "jaro_overlap" ->
         equivalent_hd(sim, lesser(index_lower, probe_lower), greater(index_upper, probe_upper))
    [] sim.kind = "structural" /\ probe_upper < index_lower ->
         equivalent_hd(sim, index_lower, probe_upper)
    [] sim.kind = "structural" /\ index_upper < probe_lower ->
         equivalent_hd(sim, index_upper, probe_lower)
    [] OTHER -> equivalent_hd(sim, probe_upper, probe_upper)

(* Sets up to this size are similar to one of n tokens whatever they hold. *)
always_similar_below_size(sim, n) ==
  CASE sim.kind = "structural" -> IF n <= sim.q * sim.t THEN sim.q * sim.t ELSE 0
    [] sim.kind = "hamming"    -> IF n < sim.t THEN sim.t - n ELSE 0
    [] OTHER -> 0

max_asbs(sim) ==
  CASE sim.kind = "structural" -> sim.q * sim.t
    [] sim.kind = "hamming"    -> sim.t
    [] OTHER -> 0

(* indexing_prefix_size and probing_prefix_size.                           *)
prefix_size(sim, n) == n - equivalent_overlap(sim, minimum_length_bound(sim, n), n) + 1

(* overlap_at_least: a merge of two token lists from positions i and j     *)
(* with ovlp common tokens behind it, which stops when one list is too     *)
(* short for what is still required.  No position past an end is read.     *)
MergeFrom(place, r, s, required, merge) ==
  LET i == place[1]  j == place[2]  ovlp == place[3]
  IN  IF \/ Len(r) - (i - 1 - ovlp) < required
         \/ Len(s) - (j - 1 - ovlp) < required
         \/ ovlp >= required
      THEN ovlp >= required
      ELSE CASE r[i] = s[j] -> merge[<<i + 1, j + 1, ovlp + 1>>]
             [] r[i] < s[j] -> merge[<<i + 1, j, ovlp>>]
             [] r[i] > s[j] -> merge[<<i, j + 1, ovlp>>]

Places(r, s) ==
  {p \in (1..Len(r) + 1) \X (1..Len(s) + 1) \X (0..Len(r)) : p[3] < p[1] /\ p[3] < p[2]}

overlap_at_least(r, s, required) ==
  LET merge[place \in Places(r, s)] == MergeFrom(place, r, s, required, merge)
  IN  merge[<<1, 1, 0>>]

is_in_threshold(sim, r, s) ==
  overlap_at_least(r, s, equivalent_overlap(sim, Len(r), Len(s)))

(* What similarity means, without a bound: of sets of tokens.              *)
Similar(sim, r, s) ==
  LET nr   == Cardinality(r)
      ns   == Cardinality(s)
      both == Cardinality(r \cap s)
  IN  CASE sim.kind = "jaccard" -> sim.den * both >= sim.num * Cardinality(r \cup s)
        [] sim.kind = "hamming" -> Cardinality((r \ s) \cup (s \ r)) <= sim.t
        [] sim.kind = "structural" ->
             /\ greater(nr, ns) - both <= sim.q * sim.t
             /\ greater(nr, ns) - lesser(nr, ns) <= sim.t
        [] sim.kind = "jaro_overlap" ->
             sim.den * (both * (nr + ns) + nr * ns) >= 3 * sim.num * nr * ns
==============================================================================
