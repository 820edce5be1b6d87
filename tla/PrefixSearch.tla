---------------------------- MODULE PrefixSearch ----------------------------
(***************************************************************************)
(* What a prefix join finds (prefix_join.cc): a set is indexed by each of  *)
(* its first tokens, and its size, and probes with its first tokens, one   *)
(* position after the other; the further the position, the shorter a set   *)
(* has to be for this to be the first token in common.  Frequent tokens    *)
(* are replaced by tokens above all others (SetQuasiSuffix) before a set   *)
(* is sorted, so that they seldom are among the first.                     *)
(*                                                                         *)
(* Which tokens are frequent does not change here: PrefixJoin is about     *)
(* that.  A presorted join counts no tokens, so it has no frequent ones;   *)
(* it indexes sets as they are and sorts only what probes.  An instance of *)
(* this join is not merged.                                                *)
(***************************************************************************)
EXTENDS SetJoin

CONSTANT MaxToken   \* std::numeric_limits<int64_t>::max()

ASSUME PrefixSearchAssumption ==
  /\ MaxToken \in Nat
  /\ \A st \in Settings :
       /\ st.heavy \in Seq(Int) /\ (st.PRESORTED => st.heavy = <<>>)
       /\ \A r \in 1..Len(st.data) : \A n \in 1..Len(st.data[r]) :
            st.data[r][n] + Len(st.heavy) <= MaxToken

VARIABLES
  prefix_index,   \* by instance: the ids, by token and size
  position        \* the position of the probing set that is next, from 0

prefixOwnVars == <<prefix_index, position>>
prefixVars    == <<setVars, prefixOwnVars>>

------------------------------------------------------------------------------
(* Faulty form: sizes that do not go beyond that of the probing set.       *)
sizes_Shorter(n, pos) == minimum_length_bound(sim, n)..n

(* heavy_tokens: the most frequent token first.                            *)
convert(token) ==
  IF \E n \in DOMAIN setting.heavy : setting.heavy[n] = token
  THEN MaxToken + 1 - CHOOSE n \in DOMAIN setting.heavy : setting.heavy[n] = token
  ELSE token

(* The tokens of a set in their order, each by the number of smaller ones  *)
(* (no token is there twice).                                              *)
Ascend(T) ==
  [n \in 1..Cardinality(T) |->
     CHOOSE token \in T : Cardinality({other \in T : other < token}) = n - 1]

converted(r) == Ascend({convert(token) : token \in TokenSet(r)})

(* preprocessed_sets: what is indexed and verified.                        *)
preprocessed(r) == IF setting.PRESORTED THEN tokens(r) ELSE converted(r)

(* The one of probing_sets: a simple self-join probes with what is indexed.*)
probing_set == IF literally_selfjoin THEN preprocessed(probe) ELSE converted(probe)

(* Up to end_indexing_signatures and end_probing_signatures.               *)
prefix(set) == SubSeq(set, 1, lesser(prefix_size(sim, Len(set)), Len(set)))

sizes(n, pos) == minimum_length_bound(sim, n)..maximum_length_pel(sim, n, pos)

Ids_at(ix, key) == IF key \in DOMAIN ix THEN ix[key] ELSE {}

------------------------------------------------------------------------------
PrefixInit ==
  /\ prefix_index = [a \in Instances |-> <<>>]
  /\ position = 0

PrefixConstruct(a, r) == ConstructFor(a, r) /\ UNCHANGED <<small_index, prefixOwnVars>>

PrefixInsertBatch(a, n) == CallInsert(a, n) /\ UNCHANGED <<small_index, prefixOwnVars>>

(* insert_into_index, for the next set.                                    *)
InsertIntoIndex ==
  LET ix   == prefix_index[caller]
      keys == Range(prefix(preprocessed(Inserting))) \X {size(Inserting)}
  IN  /\ InsertSet
      /\ prefix_index' =
           [prefix_index EXCEPT ![caller] =
              [k \in DOMAIN ix \cup keys |->
                 Ids_at(ix, k) \cup (IF k \in keys THEN {next_id[caller]} ELSE {})]]
      /\ UNCHANGED position

PrefixInsertDone == EndInsert /\ UNCHANGED <<small_index, prefixOwnVars>>

PrefixJoinBatch(a, r, f) == CallJoin(a, r, f) /\ UNCHANGED <<small_index, prefixOwnVars>>

(* The probing set is converted, and _join_batch begins.                   *)
BeginProbe == GoOn("prepare", "small") /\ UNCHANGED <<small_index, prefixOwnVars>>

PrefixSmallResults == AddSmallResults /\ UNCHANGED prefixOwnVars

(* One position of the probing prefix.  A filter keeps records out, but    *)
(* here it never ends the scan of a list.                                  *)
ProbePosition ==
  LET keys  == {prefix(probing_set)[position + 1]} \X sizes(size(probe), position)
      found == UNION {Ids_at(prefix_index[caller], k) : k \in keys}
  IN  /\ position < Len(prefix(probing_set))
      /\ position' = position + 1
      /\ FindMore("search", "search",
                  {id \in found \ already_seen[caller] :
                     /\ ~scan_break_cond(Record(caller, id))
                     /\ ~scan_skip_cond(Record(caller, id))})
      /\ UNCHANGED <<small_index, prefix_index>>

PrefixDone ==
  /\ GoOn("search", "verify")
  /\ position = Len(prefix(probing_set))
  /\ position' = 0
  /\ UNCHANGED <<small_index, prefix_index>>

PrefixVerify ==
  /\ Verify({r \in Compared : is_in_threshold(sim, preprocessed(r), probing_set)})
  /\ UNCHANGED <<small_index, prefixOwnVars>>

PrefixReturn == Return /\ UNCHANGED <<small_index, prefixOwnVars>>

PrefixNext ==
  \/ \E a \in Instances :
       \/ \E r \in setting.starts[a] : PrefixConstruct(a, r)
       \/ \E n \in setting.batches : PrefixInsertBatch(a, n)
       \/ \E r \in setting.probes, f \in setting.filters : PrefixJoinBatch(a, r, f)
  \/ InsertIntoIndex \/ PrefixInsertDone
  \/ BeginProbe \/ PrefixSmallResults \/ ProbePosition \/ PrefixDone
  \/ PrefixVerify \/ PrefixReturn

PrefixSpec == InitSets /\ PrefixInit /\ [][PrefixNext]_prefixVars

------------------------------------------------------------------------------
(* Properties.                                                             *)

(* A call of a prefix join finds every similar record whatever the order   *)
(* of the tokens - but with StructuralSetSimilarity, when one edit changes *)
(* several tokens and several edits are allowed, not always a longer one:  *)
(* maximum_length_pel takes one from the length for q positions, as if all *)
(* t edits had to be insertions; and a presorted join not always one for   *)
(* which it compares tokens that it did not sort and that are not sorted.  *)
(* The overlap that JaroOverlapSimilarity requires of two empty sets is    *)
(* 0 / 0, so with it no set is empty.                                      *)
PrefixSizesDefined ==
  sim.kind = "jaro_overlap" => \A r \in DOMAIN setting.data : tokens(r) # <<>>

LeftUnsorted(r) ==
  /\ setting.PRESORTED
  /\ ~Sorted(tokens(r)) \/ (literally_selfjoin /\ ~Sorted(tokens(probe)))

LosesOnlyLonger ==
  (pc = "return" /\ setting.algorithm = "PREFIX" /\ PrefixSizesDefined) =>
     \A r \in Expected \ emitted :
       \/ LeftUnsorted(r)
       \/ /\ sim.kind = "structural" /\ sim.q > 1 /\ sim.t > 1
          /\ size(r) > size(probe)
=============================================================================
