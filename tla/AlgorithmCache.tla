---------------------------- MODULE AlgorithmCache ----------------------------
(***************************************************************************)
(* join::timeslice::BlockAlgorithmCache (timeslice_dynamic.hh): the        *)
(* indexes one query plan has built, in the order in which they were       *)
(* emplaced.  An index is its range of records, start <= id < end.         *)
(*                                                                         *)
(* Pure operators on one plan's list: the two lookups and consolidate(),   *)
(* which is called when a join has ended and prepares the list for the     *)
(* next join over the same data.                                           *)
(***************************************************************************)
EXTENDS Integers, Sequences, SequencesExt, FiniteSets

Least(a, b) == IF a <= b THEN a ELSE b
Most(a, b)  == IF a <= b THEN b ELSE a

Ids(lo, hi) == lo .. hi-1

Size(a) == a.end - a.start

RangeOf(a) == Ids(a.start, a.end)

AllRanges(c) == UNION {RangeOf(c[i]) : i \in DOMAIN c}

------------------------------------------------------------------------------
(* Lookups.  Among the candidates the first with the largest overlap,      *)
(* relative to both sizes, wins; without overlap there is no hit.  A       *)
(* lookup returns the set of its hits: empty, or one position.             *)

Overlap(a, lo, hi) == Least(hi, a.end) - Most(lo, a.start)

FitsBetter(a, b, lo, hi) ==
  Overlap(a, lo, hi) * (hi - lo + Size(b)) > Overlap(b, lo, hi) * (hi - lo + Size(a))

BestFit(candidates, c, lo, hi) ==
  {i \in candidates :
     /\ Overlap(c[i], lo, hi) > 0
     /\ \A j \in candidates :
          /\ ~FitsBetter(c[j], c[i], lo, hi)
          /\ j < i => FitsBetter(c[i], c[j], lo, hi)}

Covered(a, lo, hi) == a.start <= lo /\ hi <= a.end

find_covered_instance(c, lo, hi) ==
  BestFit({i \in DOMAIN c : Covered(c[i], lo, hi)}, c, lo, hi)

find_starting_instance(c, lo, hi) ==
  BestFit({i \in DOMAIN c : c[i].start = lo}, c, lo, hi)

------------------------------------------------------------------------------
(* consolidate().                                                          *)

(* A faulty form: the last range first.                                    *)
SortsBefore_Descending(a, b) ==
  a.start > b.start \/ (a.start = b.start /\ a.end > b.end)

SortsBefore(a, b) == a.start < b.start \/ (a.start = b.start /\ a.end > b.end)

(* The n-th range has n-1 others before it.                                *)
ByStart(c) ==
  LET before(i, j) == SortsBefore(c[i], c[j]) \/ (c[i] = c[j] /\ i < j)
  IN  [n \in DOMAIN c |->
         c[CHOOSE i \in DOMAIN c : Cardinality({j \in DOMAIN c : before(j, i)}) = n-1]]

(* Positions of a list, in their order.                                    *)
AsListed(positions) ==
  [n \in 1 .. Cardinality(positions) |->
     CHOOSE i \in positions : Cardinality({j \in positions : j < i}) = n-1]

(* Of a sorted list, the ranges that reach beyond every earlier one.       *)
KeepUncovered(c) ==
  LET order == AsListed({i \in DOMAIN c : \A j \in 1 .. i-1 : c[j].end < c[i].end})
  IN  [n \in DOMAIN order |-> c[order[n]]]

(* The larger of mean and median size, and a tenth.                        *)
merge_threshold(c) ==
  LET sizes  == SortSeq([i \in DOMAIN c |-> Size(c[i])], <)
      total  == FoldLeft(+, 0, sizes)
      middle == Most(total \div Len(c), sizes[Len(c) \div 2 + 1])
  IN  middle + middle \div 10

(* One pass over the list: every range that was not itself taken by an     *)
(* earlier one takes in the range that starts where it ends, if the two    *)
(* are small enough together.                                              *)
MergePass(c, threshold) ==
  LET takes(i, j) == c[i].end = c[j].start /\ Size(c[i]) + Size(c[j]) <= threshold
      taken[j \in DOMAIN c] == \E i \in 1 .. j-1 : takes(i, j) /\ ~taken[i]
      merged(i) == IF \E j \in DOMAIN c : takes(i, j)
                   THEN [start |-> c[i].start,
                         end   |-> c[CHOOSE j \in DOMAIN c : takes(i, j)].end]
                   ELSE c[i]
      order == AsListed({i \in DOMAIN c : ~taken[i]})
  IN  [n \in DOMAIN order |-> merged(order[n])]

(* Passes until one merges nothing; each pass that merges shortens the     *)
(* list.  after[n] holds the one list there is after n passes.             *)
MergePasses(c, threshold) ==
  LET after[n \in 0 .. Len(c)] ==
        IF n = 0 THEN {c} ELSE {MergePass(d, threshold) : d \in after[n-1]}
  IN  CHOOSE d \in after[Len(c)] : TRUE

consolidate(c, supports_merge) ==
  IF Len(c) < 2 THEN c
  ELSE LET kept == KeepUncovered(ByStart(c))
       IN  IF supports_merge THEN MergePasses(kept, merge_threshold(c)) ELSE kept
==============================================================================
