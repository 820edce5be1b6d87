# Verification of the adaptive similarity join

The program joins a dataset with itself: it reports all pairs of records whose
similarity passes a threshold. For one input there are several *query plans*
(a path of reductions, e.g. tree → string → set, and a join algorithm at its
end), and the program decides while it runs which of them to use for which part
of the join matrix. It is a single-threaded program: what is hard about it is
not the interleaving of threads but that measured time, the choices of a
learning planner, and caches filled by earlier work decide the order and the
extent of every piece of work, so that no two runs take the same path and no
test of the repository can drive the paths that matter.

## 1. The system

| part | source | state | operations |
|---|---|---|---|
| block scheduler | `join/timeslice_dynamic.hh` 22–237 | stack of nested blocks, each with the subblocks still to do | `get_block`, `advance_block`, `next_larger_fitting`, `next_smaller_fitting`, `is_finished` |
| index cache | `join/timeslice_dynamic.hh` 239–482 | per plan a list of indexes with their ranges of records | `emplace`, `find_covered_instance`, `find_starting_instance`, `consolidate` |
| dynamic time slicing | `join/timeslice_dynamic.hh` 486–1040 | scheduler, caches, plan of the slice, progress in the block, clock | `execute_join` |
| static time slicing | `join/timeslice_static.hh` | one index per plan, two probe ids that close in from both ends | `execute_timeslice_prebuilt` |
| block-mode executor | `join/blockslice.hh` | index batch, its algorithms, probe batch, bandit | `execute_plans`, `probe_using_plan` |
| execution caches | `util/lru_cache.hh`, `join/execution_cache.hh` | LRU list and table of reduced batches / probing signatures | `reduce_data_to_level`, `get_all_reduced_data`, `get_cached_probing_signatures` |
| planner | `ontology/planner.hh` | graph of data types, plans, running step id | `enumerate_plans` |
| UCT, bandit | `ontology/uct.hh`, `ontology/bandit.hh` | tree of plans with rewards; weights | `from_query_plans`, `select_action`, `update`; `select_arm`, `update_weights` |
| building blocks of the joins | `join/join_algorithm.hh`, `join/signature_join.hh`, `indexing/index.hh` | filter; bitmap of marked ids; lists of ids by size (group) and key | `scan_skip_cond`, `scan_break_cond`, `read_filtered`, `insert`, `query`, `merge` |
| palloc and partition join | `join/palloc_join.*`, `similarity/signature.hh` | size groups shared by instances, index, cached probing signatures, budget heap | `insert_batch`, `join_batch`, `get_probing_signatures`, `merge` |
| prefix join | `join/prefix_join.*` | shared token mapping with a version, indexes, cached probe batches | `insert_batch`, `join_batch`, `update_index`, `get_probing_signatures` |
| pass join | `join/pass_join.*`, `similarity/signature.hh` | index by length and part of a string | `insert_batch`, `join_batch`, `merge` |
| similarities | `similarity/similarity.hh` | none | overlap, length and distance bounds of four set similarities; edit distance, banded test, Jaro |
| reductions | `ontology/reduction.hh` | none | string to q-grams or Jaro set, tree to traversal string or label set; `reduce_similarity` |
| tree join | `join/tree_join.*` | index of a submodule | wraps a vendored join |
| command line, data, statistics, timing | `cmdline/*`, `data/*`, `statistics/*`, `timing/*` | configuration, counters | parsing, reporting |

How they interact. `main` parses the data, lets the planner enumerate the plans
and starts one of three executors. Each executor takes a piece of work (a batch
pair, two probe batches, a block), asks its learner for a plan, reduces the
records along the plan's steps through the `ReductionCache`, builds or reuses a
join algorithm, probes it, verifies the candidates with the similarities of the
steps and reports cost and reward to the learner. The dynamic executor in
addition gets its work from the block scheduler and keeps all indexes it builds
in the `BlockAlgorithmCache`, across slices and, with `--warmup`, across two
whole joins. Below that, every join instance turns similarity bounds into an
index: the sizes it looks at, the signatures it looks up and the candidates it
marks decide whether a pair is ever verified, so a bound that is off by one
loses pairs without a trace.

Hard behaviours: a slice may run out of time after any microbatch, and its
block is then reported as done in part only; the part must be one the scheduler
can drop; an index built for one block serves blocks of any other extent; cached
data is known by the first record of its batch alone; evictions can hit any
step of any plan; the plan of a slice is chosen by measured rewards; indexes are
merged, filtered and probed in any order with signatures that were made for
another index; and a plan is only right if each of its reductions keeps similar
records similar.

## 2. Modules

### BlockScheduler (with PairOffer)

`nested_blocks` is the code's stack; a block is a rectangle and the sequence of
its missing subblocks. `advance_block(last_x, last_y)` has three cases, and two
of them loop. One iteration of a loop is one step: `AdvanceComplete`
(`PopFinished`)* `PopStop` is case 1, `AdvanceStrip` is case 2, `AdvancePartial`
`Descend`* `DescendStop` is case 3; `pc` and `last` hold what the program
counter and the arguments of the call hold, and no other operation starts while
`pc` is not `"idle"`. Steps of this size change at most the two innermost blocks
of the stack, which is what makes the invariants provable. `done` is a history
variable: the pairs of records that the scheduler took for processed when it
dropped or narrowed a block.

The caller is any caller that keeps to `Reportable`: it reports an end inside
the block, past its start on both sides, in whole batches unless a side is
complete, the same on both sides on the diagonal. That the real caller keeps to
it is the property `ReportsWithinContract` of `DynamicTimeslicing`.

`PairOffer` is the abstract specification: a set of pairs to do, a set of
offered pairs, and an end that is reported only when nothing is left.

### AlgorithmCache

Operators on one plan's list of indexed ranges: the lookups, with the relative
overlap compared by cross-multiplication instead of in floating point, and
`consolidate()`.

### DynamicTimeslicing

Extends both with `execute_join`. One action per branch of its loops:
`SelectPlan`, `ComputeWithIndex` (lookup hit: compute one-sidedly, report the
part that the index serves), `StopFragmentation`, `StartProbing`,
`ProbeMicrobatches` (one iteration of the two-sided loop), `ProbeDone`,
`EndSlice`, `Consolidate`, `JoinAgain` (the join after the warmup). The plan of
a slice and the moment at which time is up are free choices, so every order the
UCT tree and the clock can produce is included. `emitted` and `repeated` are
history: the pairs the result handler was given, and those it got twice. A pair
counts as given when it passes the id filters; similarity can only remove pairs.


### LRUCache, LRUPolicy, ReductionCache, ReductionOracle

`LRUCache` has the list of keys and the table; the iterator that the table keeps
is the position of the key in the list. Its policy - only the least recently
used entry is evicted, and only from a full cache - is `LRUPolicy`, a relation
between keys without a list.

`ReductionCache` extends it with `reduce_data_to_level`: `Call`, `Search` (one
iteration upwards through the plan), `Reduce` (one reduction and its `emplace`)
and `Return`. Data is what it was computed from, a batch and a path of steps, so
that wrong data is visible. `ReductionOracle` answers every call with a fresh
reduction; the cache must not be distinguishable from it. `MCReductionCache` adds
`reserve`, for any number of keys, and `clear` between any two calls, although the
program uses neither.

### Planner, StandardGraph, PlanTree

`Planner` is the recursion of `enumerate_plans` as a stack of frames, with the
one `current_plan` that all levels share and the counter of step ids;
`StandardGraph` is the program's graph with one additional q-gram length.
`PlanTree` extends it with `from_query_plans` - a pointer is a node with the size
of its parent's vector when it was taken, so that a pointer into a vector that
has grown is visible - and with selections and updates. Rewards are abstracted:
when every child has been tried, any may be the best.

### SetSimilarity

The four similarities of sets as records of a kind and a threshold, the bounds
computed from them (`equivalent_overlap`, `equivalent_hd`, the bounds of lengths
and prefixes, `max_hd_to`) and `is_in_threshold`, with its merge loop and early
end. A threshold is an exact fraction, and what the code rounds from a double is
rounded from the fraction in the same direction. `Similar` is the definition the
joins are checked against: it counts common tokens and uses no bound.

### SignatureJoin, SetJoin

What all index-based joins share. Instances are constructed for a position of
the dataset, inserted into batch by batch, probed with a filter, and merged.
`read_filtered` goes down a list of ids as the filter says, skipping and breaking;
`already_seen` is the instance's bitmap, which outlives the call, `candidates` the
list of the running call. The index is a function from group and signature to
lists of ids. A call is `CallInsert`/`CallJoin`, the parts of the join, `Verify`
and `Return`; the call's arguments are variables, since every list it reads
depends on them. `SetJoin` adds the small index: sets so small that they are
similar to others without sharing a token.

### PallocJoin

`AppendGroupForInsert`/`AppendGroupForProbe` grow the size groups of the shared
state, as many as the record needs, `InsertRecord` indexes with the signatures of
its group, `GetProbingSignatures` takes the signatures from the cache or makes
and caches them, `ProbeSizeGroup` starts with a budget and a heap of costs,
`ProbePartition` pops the cheapest lookup until the budget is spent, and
`VerifyCandidates` is the loop at the end. `Merge` and `Evict` may come between
any two calls. A signature is what it is the hash of; the partition of a token
is given by the setting. `algorithm` tells the palloc join (deletion signatures)
from the partition join, `PRESORTED` the indexes that expect growing groups.

### PrefixSearch

What the prefix join finds for a mapping that stays: records under each token of
their index prefix and their size, and a probe that goes through its prefix with
a bound of lengths that falls with the position (`maximum_length_pel`). What probes
has its tokens replaced and sorted as `SetQuasiSuffix` does (`converted`); sorted is
each token at the place that the number of smaller ones gives it (`Ascend`). What is
indexed and verified is `preprocessed`: the same in a join that counts tokens, and
the tokens as they are in a presorted one (`prefix_join.cc` l. 33-39). A simple
self-join probes with what is indexed (`probing_set`, l. 147). A presorted join never
calls `update_frequencies`, so its `heavy` is empty (`PrefixSearchAssumption`).
`PrefixJoin` is the other half: which mapping is used when, in a join that counts.

### PassJoin, EditDistance, JaroDistance

`PassJoin` cuts an indexed string into threshold + 1 parts and looks the parts of
a probing string up at the positions `probe_start_pos` to `probe_end_pos`, length
by length. `EditDistance` has the column-by-column distance that is reported and
the banded test that decides, over an array of diagonals with one cell beyond
either end; `JaroDistance` has the matching with its window, its early end and the
transpositions.

### Reductions

`generate_qgrams` with its two loops, the Jaro set, both traversals with a stack,
and the numbering of duplicates with a counter that wraps. `EditString` and
`EditTree` apply one edit after the other (for a tree: a node deleted, renamed,
or inserted around a run of siblings); the properties compare the reduction of
the result with that of the original, under the similarity that
`reduce_similarity` makes of the number of edits. Fingerprints and label hashes
are injective here; in the program a collision can make two tokens equal.

### PrefixJoin

Instances of the prefix join with the shared state that maps frequent tokens.
A set is its record and the mapping that converted it. `Insert` is
`insert_batch` with its rebuild, `Probe` and `ProbeUncached` are `join_batch`
with and without cached probing signatures, both with `update_index`; `Evict` is
what the bounded cache may do at any time. `compared` notes how index and probe
batch of the last join were converted.

### BlockSlice

Extends `PrefixJoin` with the executor of block mode, for the self-join of one
dataset, which is all it is written for: `SelectArm`,
`BuildAlgorithm`, `JoinBatches` and `NextIndexBatch` are the parts of the two
loops of `execute_plans`. Every index batch has an `AlgorithmCache`, hence an
instance and a shared state, of its own; the cache of probing signatures
outlives them all. The bandit's choice is free. A behaviour stops at a batch that
starts behind the dataset, whose range is undefined in the code (`Defined`).

### StaticTimeslicing

`ReduceBatch` and `BuildIndex` are the loop that builds the indexes,
`SelectPlan`, `LeftBatch`, `RightBatch`, `GoOn` and `EndSlice` the two nested
probe loops. What the reduction cache returns is any range that was ever reduced
under the id of the batch (more than the cache can do, and justified by
`ImplementsOracle` for what it does). Pairs are verified with the records that
`_offset_verify` reads.

### MCSetJoins, MCStrings

Compose the joins of sets, and the strings, for TLC: a setting names the algorithm
that a behaviour runs, with its data, threshold, batches, probes and filters.

## 3. What makes each part correct

| part | properties |
|---|---|
| block scheduler | The stack holds exactly the pairs that were not reported (`PlanIsExact`); on the diagonal only processed blocks are dropped (`DiagonalDescent`); blocks are aligned (`BlocksAligned`); it implements `PairOffer` and comes to an end (`ImplementsOffer`, `EventuallyAllDone`). |
| dynamic time slicing | What a probe emits is the part it reports (`ComputesReportedPart`); no pair is retired without having been emitted except by the known descent (`LossOnlyAtDescent`); every report is one the scheduler can handle (`ReportsWithinContract`); indexes serve only what they hold (`IndexCoversRange`); a batch id means one extent (`BatchIdFixesExtent`); the join completes (`JoinCompletes`). |
| index cache | An index never promises a record it was not given (`IndexCoversRange`); consolidation keeps the indexed records (`ConsolidationKeepsRecords`). |
| LRU cache | List and table agree (`ListMatchesTable`), eviction is by age (`ImplementsPolicy`). |
| reduction cache | Cached data is what any plan with that step would compute (`CachedDataIsReduced`), nothing is reduced twice in a call (`NothingReducedTwice`), answers are those of the oracle (`ImplementsOracle`), calls return (`CallsReturn`). |
| planner, UCT | A step id stands for a path (`StepNamesPath`), all allowed plans are found once (`AllPlansOnce`); the tree branches where plans do, and no pointer that is followed dangles (`TreeMirrorsPlans`); untried children and counts fit each other (`CountsFit`). |
| prefix join | An index has all its records (`IndexIsComplete`) in one mapping, and only meets probe batches that were converted alike (`ComparedInOneMapping`). |
| block mode | Every pair of records once, whatever the split into batches that start within the dataset (`EveryPairOnce`). |
| time-static join | Every pair once and completely (`PairsOfProbed`), verified with its own records (`VerifiesThePair`), and the two ends meet (`JoinEnds`). |
| joins of sets | Nothing is found that is not similar, and nothing twice, with or without sorted tokens (`FindsOnlySimilar`); the palloc and partition joins find every similar set (`FindsAllSimilar`), the prefix join all but what one bound excludes and sets a presorted join indexed unsorted (`LosesOnlyLonger`); the budget never exceeds the lookups that are left (`BudgetIsCovered`); shared states have the same groups as far as they reach (`GroupsAgree`); an index is what inserting its records anew would make, after any merges (`IndexIsRebuild`). |
| pass join | Exactly what is within the distance (`FindsExactly`). |
| reductions | t edits leave q-gram sets, and label sets and traversal strings, as similar as `reduce_similarity` says (`QgramsSurvive`, `TreesSurvive`). |
| similarities of strings | The distance is the number of edits (`DistanceIsEdits`), the band decides like the whole matrix (`BandDecides`), Jaro is symmetric and what passes it passes its reduction (`JaroSurvives`). |

## 4. Runs

| run | configuration | instance and why it is enough | shows |
|---|---|---|---|
| `scheduler` | `MCBlockScheduler.cfg` | 19 records, alignment 2: halves of 10 and 9, sides that are odd, shorter than a batch or not whole batches, at three depths of nesting; any legal progress | section 3, block scheduler |
| `dynamic_join` | `MCDynamicTimeslicing.cfg` | 9 records, alignment 2, two plans (one mergeable), two joins (the warmup): four whole batches and a short one, blocks of one to three batches a side, indexes larger and smaller than the block | section 3, dynamic time slicing and index cache |
| `reduction_cache` | `MCReductionCache.cfg` | two batches, four plans that share steps, three places for eight datasets: a call evicts what it has emplaced itself; `clear` and `reserve` between calls | section 3, reduction cache and LRU cache |
| `plan_tree` | `MCPlanTree.cfg` | the program's graph, four starting nodes, 32 sets of exclusions; ten selections, more than the children of any two nodes on a path | section 3, planner and UCT |
| `prefix_join` | `MCPrefixJoin.cfg` | two instances, two probe batches, batches of 1 or 3 tokens with the first rebuild after 2: versions 0 to 2 | section 3, prefix join |
| `block_mode` | `MCBlockSlice.cfg` | all splits of 1 to 9 records into 1 to 4 batches that start within the dataset: even and odd numbers of batches and rounds, last batches that are short or empty | section 3, block mode |
| `time_static` | `MCStaticTimeslicing.cfg` | 0 to 13 records, batches of three, two plans with and one without reductions: every remainder, and ends that meet after a left and after a right batch | section 3, time-static join |
| `set_joins` | `MCSetJoins.cfg` | an indexed set of 2, 3 or 5 tokens with every non-empty subset of five that probes, five to eight thresholds of the four similarities, tokens that fall into partitions of their own or share them, with and without frequent tokens; unsorted sets; presorted prefix joins over sorted and unsorted sets, probed by others and by themselves; empty sets for the prefix join; three records in two instances with any batches, merges, probes, filters and evictions, one shared state or two | section 3, joins of sets |
| `strings` | `MCStrings.cfg` | all pairs of strings of up to 4 and 5 characters over two letters with thresholds 0 to 3; calls as above; strings and trees of up to 6 characters or nodes, edited up to three times, q of 1 and 2, a counter that wraps after two | section 3, pass join, reductions, similarities of strings |
| `last_block` | `LastBlock.cfg` | 19 records: the smallest blocks of unequal sides that are split | violated: `LastBlockProcessed` |
| `stale_signatures` | `StaleSignatures.cfg` | three batches, each with tokens enough for a mapping | violated: `ComparedInOneMapping` |
| `qgram_tail` | `QGramTail.cfg` | q = 3, one edit, strings of up to five characters | violated: `QgramsSurvive` |

`CHECK_DEADLOCK FALSE` appears wherever the modelled program ends: a join that is
finished, a prefix join that has reached a bound, a string that had all its edits. Bounds that are not
the program's: `Joins`, `MaxSelections`, `MaxIndexed`, `MaxEdits`, `MaxLength` and the
sizes above. 8 (`HALFBATCH`), 50000 (`FirstReindexing`), 128 and 8 (`Counters`, of
q-grams and of labels), and the largest token (`MaxToken`) are constants of the
code that the instances make smaller. Sets of five tokens are enough for three
size groups with two or more partitions each, for a budget that takes normal and
deletion signatures, and for a prefix with positions at which the length bound
excludes some of the sizes.

A definition `X_Y` is a faulty form of `X` that a plausible slip would produce;
each property has one that violates it.

### Fairness

The program is one thread that keeps running, so weak fairness of the whole
next-state relation is justified for `DynamicTimeslicing` and
`StaticTimeslicing`: it asks only that some step is taken while one is possible,
not that a slice is long, that a plan is ever selected or that time does not run
out. `CallsReturn` needs weak fairness of the steps of a call, not of the arrival
of calls. `FairSpec` of the scheduler adds that its caller goes on reporting. No
other specification has fairness, and no safety property uses any.

### Where code and documentation disagree

* `last_block`: `advance_block` leaves its descent when *one* side of the subblock
  ends within the processed part (l. 188, `&&` in a loop condition), drops the
  block and loses its pairs; the comments speak of the largest processed block.
* `stale_signatures`: in block mode a probe batch that was converted for one index
  batch is reused for another one with the same version number and a different
  mapping of tokens. The run needs index batches of more than 50000 tokens
  in the real program.
* `qgram_tail`: the q-grams that end in padding are made by rolling the fingerprint
  with the padding in, instead of the padding (`reduction.hh` l. 153); each of them
  then depends on all of the last q - 1 characters, so that one edit may change
  more than q q-grams. For q = 3, which the standard graph always has
  (`planner.hh` l. 198), a pair one edit apart is not similar as sets of q-grams,
  while `ontology.tex` (l. 82, 88) allows q q-grams per edit. For q of 1 and 2 the
  property holds (run `strings`): there is no such q-gram, or one.

Seen while reading, not stated as runs:

* `CutoffFilter` compares with an exclusive end by `>` (`join_algorithm.hh` l. 109): the
  record at the cut is compared, once too often or with itself.
  `ComputesReportedPart` and `LossOnlyAtDescent` allow for it.
* In block mode the rounded-up batch size can leave trailing batches that start
  behind the dataset (`blockslice.hh` l. 235), as with 5 records in 4 batches; their
  range ends before it begins and is undefined. `EveryPairOnce` is checked, and
  proved, for the inputs where this does not happen; no property covers the others.
* `maximum_length_pel` of the structural similarity (`similarity.hh` l. 302) takes one
  from the length for q positions as if all edits had to be insertions: with
  q > 1 and several edits the prefix join loses some longer sets.
  `LosesOnlyLonger` says that it loses nothing else, but for the next item.
* A presorted prefix join indexes the tokens of a set as they are, "tokens are
  already correct" (`prefix_join.cc` l. 34), but sorts those of a set that probes
  (l. 75). If the dataset's tokens are not sorted it looks for them in other prefixes
  than they are in, and merges a sorted list with an unsorted one: similar sets are
  lost. `LosesOnlyLonger` allows it for just these (`LeftUnsorted`): the indexed set
  is unsorted or, in a simple self-join, the probing one is.
* The merge that counts the overlap needs sorted tokens (`similarity.hh` l. 72), and
  nothing sorts those of a dataset; the example of the repository's README has a
  set that is not sorted. `FindsAllSimilar` is stated for sorted ones.
* For an empty set the first of no size groups is taken (`palloc_join.cc` l. 162).
  The proof of `FindsAllSimilar` fails for empty sets for this reason: no group
  contains size 0, yet two empty sets are similar. The property excludes them;
  short strings are read before their first character (`reduction.hh` l. 158, 112);
  with a Jaro threshold of 2/3 or less the loop that appends groups does not
  terminate (`palloc_join.hh` l. 114), since every length is possible.
* `computed_pairs` (`timeslice_dynamic.hh` l. 1018) rewards blocks off the diagonal with too
  few pairs; with one batch the bandit's learning rate is not a number and the
  last plan is always selected; `get_all_reduced_similarities` would be wrong for
  three reductions, which no plan of the program has; `LRUCache::reserve`, which nothing calls,
  leaves one more place than asked for; the mapping
  of a dataset without tokens divides by zero (`signature.hh` l. 37).

## 5. Proofs

Proved by TLAPS for every value of the constants; the assumptions are named
`ASSUME`s of the modules and are evaluated by TLC in every run.

* `BlockScheduler_proofs`, for all N and ALIGNMENT >= 1. The inductive invariant is
  `IInv` = `TypeOK` /\ `Shape` /\ `PlanIsExact`. Exactness alone is not inductive:
  dropping the innermost block is right only if its parent's missing subblocks
  do not contain it (the blocks of the stack tile their parents), and replacing a
  block by the strips of case 2 is right only if the reported end lies inside it;
  `Shape` says both. A step is one iteration of a loop of `advance_block`, so a
  proof never looks at more than two levels of the stack. From it follow
  `TypeCorrect`, `PlanAlwaysExact`, `FinishedMeansAll`, `OfferRefinement` (every
  step is a step of `PairOffer` or a stutter) and `DiagonalDescentExact`, which
  needs one more invariant: the ends of a report on the diagonal are equal and
  stay so while the descent remains on it. `AlwaysAligned` adds to `IInv` that the
  stack and the ends of the report are aligned: a half is the sum of multiples of
  the alignment, and the strip of case 2 begins at an end that is one.
* `ReductionCache_proofs`, first part, the LRU cache it is built on, for all keys, values and
  capacities >= 1: `ListAndTableAgree`,
  by the invariant `CacheInv`; every key has one position, so erasing at it and
  putting it in front, or keeping a prefix, keeps the two sets of keys equal.
  `PolicyRefinement` maps the order of the list to the relation `older`: a list that
  begins with a key and goes on with entries of the old one in their order is the
  old relation with that key used last (`MovedToFront`), which is what `get` and
  `emplace` make, full or not.
* `ReductionCache_proofs`, second part, the cache of reductions, for all batches and all plans of which those with a
  common step have a common path to it (`PlanAssumption`, which is what
  `StepIdNamesPath` proves of the planner): `CachedDataCorrect`,
  `NothingIsReducedTwice`, `AnswersLikeFresh`. `CallInv` adds that the running
  call's `result` is the batch reduced up to `rit`, and that nothing from there
  down to the level is cached.
* `Planner_proofs`, for all graphs, also cyclic ones, and all exclusions:
  `StepIdNamesPath`. `PathInv` relates the running plan to all finished ones: a
  finished plan shares with it exactly a prefix, and ids beyond are new.
  `TreeAlwaysMirrors` (the tree of `PlanTree`, also after plans of the tree join were
  erased) rests on two facts about the order of the plans (`WalkInv`): plans that
  take the same reductions up to a step have the same id there, since a call passes
  each of its edges once, and plans that share an id are neighbours, since what
  stands between them was emitted before the step was taken back. The first needs
  the assumption that no two edges of a node have the same reduction; the program
  makes an object for each, and `Reductions` are the objects. Erasing plans keeps
  both. `BuildInv` is then inductive: the ids in the tree are those of the inserted
  steps, each with a node of its own below that of the step before, and of the plan
  at hand every id that is in the tree has the pointer that is the latest of its
  vector. A plan's leaf is appended below nodes of that plan only, so for the next
  plan it moves no pointer that this one shares with it. The paths to the leaves
  follow by induction over the steps (`StepPaths`); that the recursion of `PathTo`
  has a solution is proved once for all recursions along a rank (`PredRecursion`).
  `CountsAlwaysFit`: `CountInv` adds that the path of a selection goes down from child to
  child, so that a node is on it at most once and has one child on it, or none; a child is
  untried if and only if it counts nothing and is not on the path. An update then
  raises the sum over the children of a node on the path by one (`TotalRaised`), of
  any other by nothing.
  `PlansAlwaysOnce` proves `AllPlansOnce`, assuming that a node lists each of its algorithms once
  (`ListingAssumption`, lines 241-252 of `planner.hh`). `OnceInv` speaks of paths of any length: a call at depth
  `d` has the plans of the paths that end there for the algorithms its first loop
  has passed, and of those that leave there by an edge its second loop has passed,
  but for the edge that the next call is at (`LeavesHere`). With the last edge
  passed, all that goes on along the steps of the call is found (`CallHasAll`), which
  is the caller's edge gone over. That a plan is new when it is emitted follows
  from the ids, by `WalkInv` (`StillNew`). `Walks` is bounded by the number of nodes: the
  number of ids bounds the length of the paths that were found, a longest path
  cannot pass a node twice, since what lies between could be repeated
  (`NoNodeTwice`), and so it has no more edges than there are nodes (`WalksAreShort`). A
  graph with a cycle needs no assumption: its enumeration has no end.
* `BlockSlice_proofs`, first part, the shared mapping of the prefix join, for all
  instances, shared states, batches and limits: `IndexesFollow`, by the invariant that an index *is* its data converted by the
  mapping of the version it has noted; extending it without a rebuild is right
  because conversion distributes over concatenation (`ConvertConcat`) and because
  an index that is not behind has the current version (`NoneAhead`).
  `OneMappingCompared` assumes that there is one shared state (`OneState`): true
  of the time-dynamic join, where state and cache have the same lifetime even
  across the warmup; block mode violates it, and `stale_signatures` shows what
  follows.

* `PallocJoin_proofs`, for all instances, shared states, datasets and all set
  similarities: `GroupsAlwaysAgree`. The inductive invariant `GroupsInv` says that
  the groups of a state follow one another from size 1, each the group that its
  lower end determines (so two states agree as far as both reach), that cached
  signatures have the partition counts of such groups, and that only a state with
  a group is ever appended to.
  `IndexesAreRebuilds` adds (`IndexInv`, under `DatasetAssumption`: records of the
  dataset, without repeated tokens, which the reductions number, and sorted by size
  where indexes are presorted): every inserted record has a
  group, which stays the first one that reaches its size when groups are appended;
  ids count records of the dataset; the bitmap has room for them and for the rest
  of a batch; every list has the ids of the records with its key, ascending. That
  an index takes the next group it has when it is presorted is harmless only since
  sizes ascend. A merge moves ids, and the lists it appends begin above those it
  appends to (`BuiltMerge`).
  `BudgetsAreCovered` adds (`SearchInv`): what is cached for a record are groups
  between its bounds; a partition is in the heap once; the budget is at most the
  lookups that are left, and an iteration takes one of each. At the start of a group
  this is arithmetic (`SharedDistance`): the distance allowed for what a group and
  the probing set have in common is at most the one the group was partitioned for.
  For the Jaro overlap it is a quotient of products, which grows with the longer
  set (`JaroHdGrows`) but with a shorter one only while the longer one is long
  enough (`JaroHdShrinks`); the rounded bounds of a group see to that, or the
  group has one size only.
  `OnlySimilarFound` adds (`FoundInv`): the marks in `already_seen` are exactly the
  candidates of the running call, all false between calls, so no id is taken twice;
  every candidate is a record of the instance that called, between the two sizes of
  the call and admitted by its filter; the entries of the small index are records of
  their instance with their size, which inserting and merging keep. That a verified
  candidate is similar then rests on the merge of two token lists: `overlap_at_least`
  is a function defined by recursion over the places of both lists, which exists
  because each step leaves less to read (`MergeExists`, by induction over what is
  left), and when it says yes it has counted the required number of common tokens
  (`MergeFinds`). This half holds for lists without repeated tokens in any order.
  `AllSimilarFound` is the other half, for sorted sets that are not empty
  (`SortedData`). `AllInv` follows a similar record (`Wanted`) through a call. The
  group of its size is among those of the probing set's cached signatures, whichever
  shared state they were made with (`CachedComplete`, `FittingIsCached`), and groups
  are searched in order: once the call is past the group, the record is a candidate
  (`Progress`). Within the search of its group it is a candidate, or the tokens in
  which the two sets differ include one more for each lookup that was spent
  (`Witnesses`, `Shown`): a lookup in a partition fails only if the sets differ there,
  and with deletions the second one fails only if they differ there in a second token
  (`LookupMisses`). The budget is one more than the tokens in which similar sets of
  the group may differ (`BudgetSuffices`), so by the pigeonhole principle the record
  is found. In the end the merge of two sorted lists counts all tokens they
  share, since a token it leaves behind in one list is smaller than what is left of
  the other, and gives up only when too few are left (`MergeMissesNone`).
* `PrefixSearch_proofs`, for all instances, datasets without repeated tokens, set
  similarities and frequent tokens: `PrefixSimilarOnly` and `OnlyLongerLost`, theorems
  of `PrefixSpec`, which is what `MCSetJoins` does for a setting of this join. `ListInv`
  says that both indexes are exact: every record in the small index that belongs there,
  and under each token of its prefix with its size. `PrefixFound` is what `FoundInv` is
  for the palloc join, and `PrefixProgress` follows a similar record (`Sought`) through
  a call: it is a candidate, or a position of the probing prefix that is still to come
  has a token of its prefix and sizes that include its own (`FoundAt`).
  That there is such a position is about the bounds only (`PrefixesMeet`). Replacing
  frequent tokens keeps sets as similar as they were (`ConvertedSimilar`). From the
  first token two sorted lists share, neither has fewer tokens left than they share
  (`FirstCommon`). A prefix is as long as the smallest similar set requires, and
  that one needs no more common tokens than any other (`OverlapShrinks`). The bound
  of sizes at the position lies above every set that shares nothing before it
  (`SizeInReach`): here the proof needs, and `LosesOnlyLonger` allows, the exception
  for structural similarity. All this is about sorted lists. A join that is not
  presorted sorts both; of a presorted one the proof speaks where what it indexed
  was sorted already (`PreprocessedFacts`), since then `preprocessed` and `converted` are
  the same list, and the rest is `LeftUnsorted`. Sets that are similar without sharing a token are small
  (`NothingShared`).
  The proof found the one premise of both theorems, `PrefixSizesDefined`: for two
  empty sets `JaroOverlapSimilarity` requires an overlap of 0 / 0, which is then
  converted to an integer (`similarity.hh` l. 101, `signature.hh` l. 124-134). With the
  other similarities empty sets are found like others (`EmptyIsSmall`), and
  `set_joins` has them too.
  What is sorted is defined by counting (`Ascend`), since the prover cannot expand
  TLC's sort.
* `StaticTimeslicing_proofs`, for every size of the dataset, length of a batch and
  set of plans: `PairsExact` and `ReadsThePair`. `IInv` adds to the two properties
  that every id has one extent in the cache (`OneExtent`: `HALFBATCH` records, or
  up to the end of the dataset), that what a plan has reduced so far is in the
  order of the dataset (`InOrder`), and that the two ends are borders of batches;
  then a batch at either end lies between them (`Borders`), so that its pairs are
  new, and what the cache returns for its id is this batch.

* `DynamicTimeslicing_proofs`, for all N, ALIGNMENT >= 1, sets of plans and timeouts,
  on top of `BlockScheduler_proofs`. The inductive invariant `JInv` has five parts:
  `PlanOK` (the blocks of the plan are shaped, exact and aligned, and end at ends of
  microbatches), `SliceOK` (which mode goes with which place in `advance_block`),
  `CacheOK` (every cached index is a range of whole microbatches), `ProbeOK` (the
  probe stands at ends of microbatches of both sides, past the start in both or in
  neither, equally far on the diagonal, and everything behind it was compared) and
  `DescentOK` (the part a descent reports was compared). The
  contract of `advance_block` is not inductive without them: that an end
  is one where a subblock at the corner ends follows from how it came about, from the
  size of an index or from the rounds of the probe loop, steps before the report. The
  lemmas in front are the geometry (an end that is a multiple of the alignment or
  the end of a side cuts a corner subblock off a block) and `consolidate()`, whose
  three loops are operators on lists of ranges and are treated by induction over
  the length of the list, from the library's theorem on least elements.
  `JoinInvariant` is `Spec => []JInv`; `ReportsAlwaysWithinContract`,
  `NoLossButAtDescent`, `BatchesHaveOneExtent`, `IndexesCoverRanges`,
  `ReportedPartsAreCompared` and `ConsolidationAlwaysKeepsRecords` are the
  properties of the run; `NoLossOnDiagonal` and `FinishedJoinIsComplete` say more
  than the run asks.
* `BlockSlice_proofs`, second part, the self-join in block mode, for all inputs of at
  least one record and one batch (`InputAssumption`; `get_batch_size` divides by their
  number), any plans and any choice of the bandit: `PairsExact`, `PairsComparedOnce`
  and `EndedMeansAll`. `PairsInv` says which pairs have been compared at a place of
  the two loops over batches, as a set of pairs of batches: in even rounds those up to
  `i`, in odd rounds the mirrored ones. A record is in one batch (`DivIs`), so a pair
  of batches that is new brings only new pairs: none is compared twice. When the loops
  have ended, every pair has been compared. These are safety theorems: that the loops
  end is not among them, and for an input with a batch behind the dataset
  (`Defined`) they do not in the model, so there the last theorem says nothing.

Model-checked only: all liveness (out of the prover's reach); the strings and
trees, whose reductions are recursive.

## 6. Not modelled

* Parsing, options, output, statistics and timing: no property depends on them;
  every measured time may be on either side of its limit.
* Rewards, weights, qualities (`uct.hh` l. 22, `bandit.hh` l. 87, `timeslice_dynamic.hh`
  l. 1018): floating point. Their effect, the choice of a plan, is free
  everywhere, so the properties hold for any learner.
* The rounding of double thresholds: a threshold is the fraction it stands for.
* The tree join and the tree edit distance: submodules that are not part of the
  repository.
* The dispatch of a plan to a join and a verification by types
  (`get_all_reduced_similarities`, the variants): each kind is modelled on its own.

## 7. Plan

In this order, the state machines first:

1. `BlockScheduler` with `PairOffer`, `AlgorithmCache`, `DynamicTimeslicing` - done.
2. `LRUCache`, `ReductionCache` with `LRUPolicy`, `ReductionOracle` - done.
3. `Planner`, `PlanTree` - done.
4. `PrefixJoin`, composed by `BlockSlice` with the executor of block mode - done.
5. `StaticTimeslicing` - done.
6. `SetSimilarity`, `SignatureJoin`, `SetJoin`, `PallocJoin` with merging, filters,
   shared groups and cached signatures; `PrefixSearch` - done.
7. `PassJoin` with `EditDistance` - done.
8. `Reductions`, `JaroDistance` - done.
9. Proofs: `GroupsAgree`, `PairsOfProbed`, `VerifiesThePair`, `BlocksAligned`,
   `ImplementsPolicy`, all safety properties of the dynamic join, `EveryPairOnce` of
   block mode - done. The indexes and budgets of the palloc join, and that it finds
   only similar sets and all of them; that the prefix join finds only similar sets and
   loses none but `LosesOnlyLonger`; `AllPlansOnce`, `TreeMirrorsPlans` and
   `CountsFit` - done.
