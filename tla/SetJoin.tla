------------------------------- MODULE SetJoin -------------------------------
(***************************************************************************)
(* What the joins of sets add to SignatureJoin: sets that are similar by   *)
(* their size alone, and have a small index of their own (signature_join.  *)
(* hh, palloc_join.cc, prefix_join.cc).                                    *)
(***************************************************************************)
EXTENDS SetSimilarity, SignatureJoin

ASSUME SetAssumption == \A st \in Settings : IsSimilarity(st.similarity)

(* The records that are indexed and that probe are those of a dataset, in  *)
(* which no record has a token twice.  Filters cut off at records.         *)
(* Presorted indexes are for one that is sorted by size.                   *)
ASSUME DatasetAssumption ==
  \A st \in Settings :
    /\ st.data \in Seq(Seq(Int))
    /\ st.batches \subseteq Nat \ {0}
    /\ \A a \in Instances : st.starts[a] \subseteq 1..Len(st.data)
    /\ st.probes \subseteq 1..Len(st.data)
    /\ \A r \in 1..Len(st.data) : \A i, j \in 1..Len(st.data[r]) :
         st.data[r][i] = st.data[r][j] => i = j
    /\ \A f \in st.filters : f.type \in {"CUTOFF", "CUTOFF_SELFJOIN"} =>
         f.index_start \in Int /\ f.index_end \in Int
    /\ st.PRESORTED =>
         \A i, j \in 1..Len(st.data) : i < j => Len(st.data[i]) <= Len(st.data[j])

VARIABLE small_index   \* by instance: the sizes and ids of small sets

setVars == <<joinVars, small_index>>

sim == setting.similarity

tokens(r) == setting.data[r]
TokenSet(r) == Range(tokens(r))

Sorted(s) == \A i, j \in DOMAIN s : i < j => s[i] < s[j]

minimum_size == minimum_length_bound(sim, size(probe))
maximum_size == maximum_length_bound(sim, size(probe))

(* The entry for the record that is inserted.                              *)
SmallEntries(r, id) == IF size(r) <= max_asbs(sim) THEN {<<size(r), id>>} ELSE {}

(* add_small_results: the entries are in the order of their sizes, so what *)
(* follows the first one that is too large is too large.                   *)
small_results(a) ==
  {entry[2] : entry \in
     {e \in small_index[a] :
        /\ e[1] <= always_similar_below_size(sim, size(probe))
        /\ minimum_size <= e[1] /\ e[1] <= maximum_size
        /\ ~scan_skip_cond(Record(a, e[2]))
        /\ ~scan_break_cond(Record(a, e[2]))}}

InitSets == InitJoin /\ small_index = [a \in Instances |-> {}]

InsertSet ==
  /\ InsertNext
  /\ small_index' =
       [small_index EXCEPT ![caller] = @ \cup SmallEntries(Inserting, next_id[caller])]

AddSmallResults ==
  /\ FindMore("small", "search", small_results(caller))
  /\ UNCHANGED small_index

MergeSets(a, b) ==
  /\ MergeInto(a, b)
  /\ small_index' =
       [small_index EXCEPT
          ![a] = @ \cup {<<e[1], next_id[a] + e[2]>> : e \in small_index[b]}, ![b] = {}]

------------------------------------------------------------------------------
(* The records the running call has to find.                               *)
Expected ==
  {r \in Indexed(caller) : Admitted(r) /\ Similar(sim, TokenSet(r), TokenSet(probe))}

(* Property: whatever was inserted, merged and cached before, a call finds *)
(* no set twice and none that is not similar or that its filter keeps out, *)
(* be the tokens sorted or not.                                            *)
FindsOnlySimilar ==
  pc = "return" => emitted \subseteq Expected /\ repeated = {}
==============================================================================
