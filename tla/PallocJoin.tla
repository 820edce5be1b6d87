------------------------------ MODULE PallocJoin ------------------------------
(***************************************************************************)
(* join::PallocJoin (palloc_join.cc, palloc_join.hh): sets are indexed by  *)
(* groups of sizes.  A set of a group is cut into as many partitions as    *)
(* the group says and has one signature for each; with deletion, one more  *)
(* for each token, of its partition without the token.  A probing set      *)
(* spends its budget, one more than the largest distance that still is     *)
(* similar, on the cheapest lookups of its partitions: an indexed set that *)
(* none of them finds differs in so many tokens that it is not similar.    *)
(*                                                                         *)
(* The groups belong to a state that instances share, and are appended     *)
(* when an inserted or a probing set needs them.  The signatures of a      *)
(* probing set are cached, and used for instances of other shared states.  *)
(*                                                                         *)
(* A signature is what it is the hash of: partition, tokens, and whether a *)
(* token was deleted.  The groups are counted from 1.                      *)
(***************************************************************************)
EXTENDS SetJoin

CONSTANT SharedStates

ASSUME PallocAssumption ==
  \A st \in Settings : st.shared_state \in [Instances -> SharedStates]

VARIABLES
  size_groups,         \* by shared state: lower, upper and partition count of the groups
  index,               \* by instance: lists of ids, by group and signature
  cached_signatures,   \* by probing record: the partition counts, by group
  group,               \* the group that is probed, or was probed last
  costs,               \* the heap: partitions with the lookup that is next
  remaining            \* what is left of the budget

searchVars == <<group, costs, remaining>>
pallocOwnVars == <<size_groups, index, cached_signatures, searchVars>>
pallocVars    == <<setVars, pallocOwnVars>>

ENABLE_DELETION == setting.algorithm = "PALLOC"

shared_state(a) == setting.shared_state[a]

------------------------------------------------------------------------------
(* Faulty forms: a budget without the one more, too few partitions, as     *)
(* many as the smallest set of a group needs, groups that overlap.         *)
Budget_Short(lower, upper) ==
  max_hd_to(sim, greater(lower, minimum_size), lesser(upper, maximum_size),
            size(probe), size(probe))

get_partition_count_Short(lower, upper) ==
  LET hd == max_hd_to(sim, lower, upper,
                      minimum_length_bound(sim, lower), maximum_length_bound(sim, upper))
  IN  (IF ENABLE_DELETION THEN hd \div 2 ELSE hd - 1) + 1

get_partition_count_OfLower(lower, upper) ==
  LET hd == max_hd_to(sim, lower, lower,
                      minimum_length_bound(sim, lower), maximum_length_bound(sim, lower))
  IN  (IF ENABLE_DELETION THEN hd \div 2 ELSE hd) + 1

GroupFrom_Overlapping(lower) ==
  [lower |-> greater(1, lower - 1), upper |-> maximum_length_bound(sim, lower),
   partition_count |-> get_partition_count_OfLower(lower, lower)]

(* max_hd_to for what a group and the probing set have in common, plus 1.  *)
Budget(lower, upper) ==
  max_hd_to(sim, greater(lower, minimum_size), lesser(upper, maximum_size),
            size(probe), size(probe)) + 1

get_partition_count(lower, upper) ==
  LET hd == max_hd_to(sim, lower, upper,
                      minimum_length_bound(sim, lower), maximum_length_bound(sim, upper))
  IN  (IF ENABLE_DELETION THEN hd \div 2 ELSE hd) + 1

next_size_lb(n) == n + (maximum_length_bound(sim, n) - n) + 1

GroupFrom(lower) ==
  LET upper == next_size_lb(lower) - 1
  IN  [lower |-> lower, upper |-> upper,
       partition_count |-> get_partition_count(lower, upper)]

append_next_size_group(s) ==
  size_groups' =
    [size_groups EXCEPT ![s] = Append(@, GroupFrom(@[Len(@)].upper + 1))]

Back(s) == size_groups[s][Len(size_groups[s])]

(* std::lower_bound by upper: the first group that is not too small.       *)
GroupOf(s, n) ==
  CHOOSE g \in DOMAIN size_groups[s] :
    /\ n <= size_groups[s][g].upper
    /\ \A h \in 1..g - 1 : size_groups[s][h].upper < n

------------------------------------------------------------------------------
(* Signatures (PallocSignature).                                           *)
partition(token, count) == setting.partition[token] % count

Part(r, p, count) == {t \in TokenSet(r) : partition(t, count) = p}

normal_signature(r, p, count) ==
  [partition |-> p, tokens |-> Part(r, p, count), deletion |-> FALSE]

without(r, t, count, deletion) ==
  LET p == partition(t, count)
  IN  [partition |-> p, tokens |-> Part(r, p, count) \ {t}, deletion |-> deletion]

indexing_signatures(r, count) ==
  {normal_signature(r, p, count) : p \in 0..count - 1} \cup
  (IF ENABLE_DELETION THEN {without(r, t, count, TRUE) : t \in TokenSet(r)} ELSE {})

(* get(group): a presorted index takes the next group it has when it does  *)
(* not have the group.                                                     *)
GetGroup(ix, g) ==
  IF setting.PRESORTED /\ \E h \in Groups(ix) : h >= g
  THEN CHOOSE h \in Groups(ix) : h >= g /\ \A k \in Groups(ix) : k >= g => h <= k
  ELSE g

------------------------------------------------------------------------------
Init ==
  /\ InitSets
  /\ size_groups = [s \in SharedStates |-> <<>>]
  /\ index = [a \in Instances |-> <<>>]
  /\ cached_signatures = <<>>
  /\ group = 0 /\ costs = {} /\ remaining = 0

(* The constructor makes the first group of its shared state.              *)
Construct(a, r) ==
  LET s == shared_state(a)
  IN  /\ ConstructFor(a, r)
      /\ size_groups' = [size_groups EXCEPT ![s] = IF @ = <<>> THEN <<GroupFrom(1)>> ELSE @]
      /\ UNCHANGED <<small_index, index, cached_signatures, searchVars>>

InsertBatch(a, n) == CallInsert(a, n) /\ UNCHANGED <<small_index, pallocOwnVars>>

(* The loops of insert_batch: groups up to the size of the next record,    *)
(* and the record itself.                                                  *)
AppendGroupForInsert ==
  /\ pc = "insert" /\ Inserting <= last
  /\ Back(shared_state(caller)).upper < size(Inserting)
  /\ append_next_size_group(shared_state(caller))
  /\ UNCHANGED <<setVars, index, cached_signatures, searchVars>>

InsertRecord ==
  LET s == shared_state(caller)
      g == GroupOf(s, size(Inserting))
      signatures == indexing_signatures(Inserting, size_groups[s][g].partition_count)
  IN  /\ InsertSet
      /\ ~(Back(s).upper < size(Inserting))
      /\ index' =
           [index EXCEPT
              ![caller] = Inserted(@, GetGroup(@, g), signatures, next_id[caller])]
      /\ UNCHANGED <<size_groups, cached_signatures, searchVars>>

InsertDone == EndInsert /\ UNCHANGED <<small_index, pallocOwnVars>>

JoinBatch(a, r, f) == CallJoin(a, r, f) /\ UNCHANGED <<small_index, pallocOwnVars>>

(* get_probing_signatures, unless they are cached.                         *)
AppendGroupForProbe ==
  /\ pc = "prepare" /\ probe \notin DOMAIN cached_signatures
  /\ Back(shared_state(caller)).lower < maximum_size
  /\ append_next_size_group(shared_state(caller))
  /\ UNCHANGED <<setVars, index, cached_signatures, searchVars>>

ProbingSignatures(s) ==
  [g \in {g \in DOMAIN size_groups[s] : /\ GroupOf(s, minimum_size) <= g
                                       /\ size_groups[s][g].lower <= maximum_size} |->
     size_groups[s][g].partition_count]

GetProbingSignatures ==
  /\ pc = "prepare" /\ probe \notin DOMAIN cached_signatures
  /\ ~(Back(shared_state(caller)).lower < maximum_size)
  /\ cached_signatures' =
       [r \in DOMAIN cached_signatures \cup {probe} |->
          IF r = probe THEN ProbingSignatures(shared_state(caller)) ELSE cached_signatures[r]]
  /\ UNCHANGED <<setVars, size_groups, index, searchVars>>

(* Signatures in hand, _join_batch begins.                                 *)
BeginSearch ==
  /\ GoOn("prepare", "small")
  /\ probe \in DOMAIN cached_signatures
  /\ UNCHANGED <<small_index, pallocOwnVars>>

SmallResults == AddSmallResults /\ UNCHANGED pallocOwnVars

(* The groups that are both in the index and in the signatures.            *)
GroupsToProbe ==
  {g \in Groups(index[caller]) : g \in DOMAIN cached_signatures[probe] /\ group < g}

(* _probe_size_group begins: every partition is in the heap.               *)
ProbeSizeGroup ==
  /\ GoOn("search", "probe")
  /\ \E g \in GroupsToProbe :
       LET size_group == size_groups[shared_state(caller)][g]
       IN  /\ \A h \in GroupsToProbe : g <= h
           /\ group' = g
           /\ costs' = [partition_id : 0..size_group.partition_count - 1, is_normal : {TRUE}]
           /\ remaining' = Budget(size_group.lower, size_group.upper)
  /\ UNCHANGED <<small_index, size_groups, index, cached_signatures>>

(* The lists that the next lookup of a partition reads: that of the normal *)
(* signature; then, of the indexed sets that have one token more or one    *)
(* less in the partition.  When no set has one more, the code reads the    *)
(* first list again.                                                       *)
Lists(entry) ==
  LET count == cached_signatures[probe][group]
      p     == entry.partition_id
      At(signature) == Find(index[caller], group, signature)
      normal == At(normal_signature(probe, p, count))
      more   == At([normal_signature(probe, p, count) EXCEPT !.deletion = TRUE])
  IN  IF entry.is_normal THEN {normal}
      ELSE {IF more # <<>> THEN more ELSE normal} \cup
           {At(without(probe, t, count, FALSE)) : t \in Part(probe, p, count)}

(* What the heap is ordered by.                                            *)
cost(entry) ==
  LET count == cached_signatures[probe][group]
      p     == entry.partition_id
      Length(signature) == Len(Find(index[caller], group, signature))
      normal == normal_signature(probe, p, count)
  IN  IF entry.is_normal THEN Length(normal)
      ELSE Length([normal EXCEPT !.deletion = TRUE]) +
           MapThenSumSet(LAMBDA t : Length(without(probe, t, count, FALSE)),
                         Part(probe, p, count))

(* candidate_handler, for what read_filtered lets through.                 *)
Handled(ids) ==
  {id \in ids : /\ id \notin already_seen[caller]
                /\ minimum_size <= size(Record(caller, id))
                /\ size(Record(caller, id)) <= maximum_size}

NextLookup(entry) ==
  IF entry.is_normal /\ ENABLE_DELETION THEN {[entry EXCEPT !.is_normal = FALSE]} ELSE {}

(* One iteration of the loop that spends the budget.                       *)
ProbePartition ==
  /\ remaining > 0
  /\ remaining' = remaining - 1
  /\ \E entry \in costs :
       /\ \A other \in costs : cost(entry) <= cost(other)
       /\ FindMore("probe", "probe",
                   Handled(UNION {read_filtered(caller, list) : list \in Lists(entry)}))
       /\ costs' = (costs \ {entry}) \cup NextLookup(entry)
  /\ UNCHANGED <<small_index, size_groups, index, cached_signatures, group>>

GroupDone ==
  /\ GoOn("probe", "search")
  /\ ~(remaining > 0)
  /\ costs' = {} /\ remaining' = 0
  /\ UNCHANGED <<small_index, size_groups, index, cached_signatures, group>>

SearchDone ==
  /\ GoOn("search", "verify")
  /\ GroupsToProbe = {}
  /\ group' = 0
  /\ UNCHANGED <<small_index, size_groups, index, cached_signatures, costs, remaining>>

VerifyCandidates ==
  /\ Verify({r \in Compared : is_in_threshold(sim, tokens(r), tokens(probe))})
  /\ UNCHANGED <<small_index, pallocOwnVars>>

ReturnResults == Return /\ UNCHANGED <<small_index, pallocOwnVars>>

Merge(a, b) ==
  /\ shared_state(a) = shared_state(b)
  /\ MergeSets(a, b)
  /\ index' = [index EXCEPT ![a] = Merged(@, index[b], next_id[a]), ![b] = <<>>]
  /\ UNCHANGED <<size_groups, cached_signatures, searchVars>>

(* The cache of signatures is bounded: whatever is in it may be evicted.   *)
Evict(r) ==
  /\ pc = "idle" /\ r \in DOMAIN cached_signatures
  /\ cached_signatures' =
       [q \in DOMAIN cached_signatures \ {r} |-> cached_signatures[q]]
  /\ UNCHANGED <<setVars, size_groups, index, searchVars>>

Next ==
  \/ \E a \in Instances :
       \/ \E r \in setting.starts[a] : Construct(a, r)
       \/ \E n \in setting.batches : InsertBatch(a, n)
       \/ \E r \in setting.probes, f \in setting.filters : JoinBatch(a, r, f)
       \/ \E b \in Instances : Merge(a, b)
  \/ AppendGroupForInsert \/ InsertRecord \/ InsertDone
  \/ AppendGroupForProbe \/ GetProbingSignatures \/ BeginSearch
  \/ SmallResults \/ ProbeSizeGroup \/ ProbePartition \/ GroupDone
  \/ SearchDone \/ VerifyCandidates \/ ReturnResults
  \/ \E r \in setting.probes : Evict(r)

Spec == Init /\ [][Next]_pallocVars

------------------------------------------------------------------------------
(* Properties.                                                             *)

(* A call finds every similar record among those its instance has, when    *)
(* the tokens of the sets are sorted (Verify relies on it) and no set is   *)
(* empty (no group has one).                                               *)
SortedData == \A r \in DOMAIN setting.data : Sorted(tokens(r)) /\ tokens(r) # <<>>

FindsAllSimilar ==
  (pc = "return" /\ setting.algorithm # "PREFIX" /\ SortedData) => Expected \subseteq emitted

(* The budget never exceeds the lookups that are left: the heap is not     *)
(* empty when an entry is taken, and the assertion before the loop holds.  *)
LookupsLeft ==
  Cardinality(costs) +
  (IF ENABLE_DELETION THEN Cardinality({e \in costs : e.is_normal}) ELSE 0)

BudgetIsCovered == pc = "probe" => remaining <= LookupsLeft

(* The groups of all shared states follow one another from size 1 and are  *)
(* the same as far as they reach: signatures made with the groups of one   *)
(* state are right for the indexes of another.                             *)
GroupsAgree ==
  /\ \A s \in SharedStates : \A g \in DOMAIN size_groups[s] :
       /\ size_groups[s][g].lower = (IF g = 1 THEN 1 ELSE size_groups[s][g - 1].upper + 1)
       /\ size_groups[s][g].lower <= size_groups[s][g].upper
  /\ \A r \in DOMAIN cached_signatures, s \in SharedStates :
       \A g \in DOMAIN cached_signatures[r] \cap DOMAIN size_groups[s] :
         cached_signatures[r][g] = size_groups[s][g].partition_count

(* An index is what inserting its records one after the other would make   *)
(* of it, however often it was merged: every list has its ids in ascending *)
(* order, which giving up the rest of a list relies on.  The bitmap of the *)
(* instance has a bit for each of the records.                             *)
Keys(s, r) ==
  LET g == GroupOf(s, size(r))
  IN  {g} \X indexing_signatures(r, size_groups[s][g].partition_count)

IndexIsRebuild ==
  \A a \in Instances :
    /\ next_id[a] <= bitmap_size[a]
    /\ setting.algorithm # "PREFIX" =>
         IsRebuild(index[a], a, LAMBDA r : Keys(shared_state(a), r))
==============================================================================
