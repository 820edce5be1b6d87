-------------------------- MODULE DynamicTimeslicing --------------------------
(***************************************************************************)
(* join::timeslice::DynamicTimeslicing::execute_join, the time-sliced      *)
(* self join that explores several query plans on one dataset.             *)
(*                                                                         *)
(* In every slice one plan works on the blocks of the BlockScheduler until *)
(* the slice's time is used up.  A block whose records the plan has        *)
(* indexed in an earlier slice is computed by probing that index           *)
(* (one-sided); otherwise the plan builds two new indexes microbatch by    *)
(* microbatch and probes each with the batches of the other (two-sided).   *)
(* New indexes stay in the plan's part of the BlockAlgorithmCache.  When   *)
(* the join has ended the cache is consolidated, and with --warmup a       *)
(* second join over the same data starts with it (cmdline.cc).             *)
(*                                                                         *)
(* Records are their ids 0 .. N-1 and every candidate pair that passes the *)
(* id filters counts as emitted: similarity only ever removes pairs.  The  *)
(* plan of a slice (UCT) and the moment the clock runs out are free.       *)
(***************************************************************************)
EXTENDS BlockScheduler, AlgorithmCache

CONSTANTS
  Plans,           \* the query plans
  MergeablePlans,  \* those whose join algorithm supports_merge()
  Joins            \* bound: how often execute_join is called, 2 with a warmup

ASSUME PlanAssumption == MergeablePlans \subseteq Plans /\ Joins \in 1 .. 2

VARIABLES
  join,        \* which call of execute_join
  mode,        \* "finished", or its loop that is running: "select", "block"
               \* or "probe"
  plan,        \* the plan of the slice
  usedCache,   \* has_started_using_cache
  exceeded,    \* time_exceeded
  probe,       \* left_id, right_id and their targets while probing
  algorithms,  \* BlockAlgorithmCache: per plan the ranges that are indexed
  emitted,     \* history: pairs this join gave to the result handler
  repeated     \* history: pairs given to it more than once

sliceVars == <<join, mode, plan, usedCache, exceeded>>
vars == <<schedVars, sliceVars, probe, algorithms, emitted, repeated>>

NoProbe == [left |-> 0, right |-> 0, leftTarget |-> 0, rightTarget |-> 0]

------------------------------------------------------------------------------
(* Where a traversal may stop inside a block: the ends of the block's      *)
(* first subblock, of that one's first subblock and so on.                 *)

FirstSubblock == [r \in Rects |-> get_current_subblock(PlanBlock(r)).rect]

FirstSubblocks(r) ==
  LET f[i \in 0 .. N] == IF i = 0 THEN r ELSE FirstSubblock[f[i-1]]
  IN  f

End(r) == [x |-> r.ex, y |-> r.ey]

(* The first of these blocks that ends within the processed part.          *)
FirstWithin(r, x, y) ==
  LET f == FirstSubblocks(r)
  IN  CHOOSE i \in 1 .. N :
        /\ f[i].ex <= x /\ f[i].ey <= y
        /\ \A j \in 1 .. i-1 : f[j].ex > x \/ f[j].ey > y

(* Faulty forms of definitions below, one property breaks with each: a     *)
(* fitting end that lies behind the progress, or is none; ...              *)
next_larger_fitting_Behind(r, x, y) == End(FirstSubblocks(r)[FirstWithin(r, x, y)])

next_smaller_fitting_Anywhere(r, x, y) == [x |-> x, y |-> y]

next_larger_fitting(r, x, y) ==
  IF End(r) = [x |-> x, y |-> y] THEN End(r)
  ELSE End(FirstSubblocks(r)[FirstWithin(r, x, y) - 1])

next_smaller_fitting(r, x, y) ==
  IF End(r) = [x |-> x, y |-> y] THEN End(r)
  ELSE End(FirstSubblocks(r)[FirstWithin(r, x, y)])

------------------------------------------------------------------------------
(* The result handler.                                                     *)

Pair(i, j) == <<Most(i, j), Least(i, j)>>

Emit(pairs) ==
  /\ emitted' = emitted \cup pairs
  /\ repeated' = repeated \cup (emitted \cap pairs)

(* ... filters that start one record late, or never stop.                  *)
cutoff_skip_Late(index, range) == index <= range.start

cutoff_break_Never(index, range) == FALSE

(* Filters of a probe: SYMMETRIC_PAIRS inside a diagonal block while it is *)
(* indexed, CUTOFF and CUTOFF_SELFJOIN when an existing index is probed    *)
(* for the range index_start, index_end.                                   *)
symmetric_skip(index, probeId) == ~(index < probeId)

cutoff_skip(index, range) == index < range.start

cutoff_break(index, range) == index > range.end

cutoff_self_break(index, probeId, range) ==
  ~(index < probeId) \/ cutoff_break(index, range)

------------------------------------------------------------------------------
(* Slices.                                                                 *)

SliceInit ==
  /\ Init
  /\ join = 1 /\ mode = "select"
  /\ plan = CHOOSE p \in Plans : TRUE
  /\ usedCache = FALSE /\ exceeded = FALSE
  /\ probe = NoProbe
  /\ algorithms = [p \in Plans |-> <<>>]
  /\ emitted = {} /\ repeated = {}

SelectPlan ==
  /\ pc = "idle" /\ mode = "select" /\ ~is_finished
  /\ plan' \in Plans
  /\ mode' = "block"
  /\ usedCache' = FALSE /\ exceeded' = FALSE
  /\ UNCHANGED <<schedVars, join, probe, algorithms, emitted, repeated>>

EndSlice ==
  /\ pc = "idle" /\ mode = "block"
  /\ is_finished \/ exceeded
  /\ mode' = "select"
  /\ usedCache' = FALSE /\ exceeded' = FALSE
  /\ UNCHANGED <<schedVars, join, plan, probe, algorithms, emitted, repeated>>

AtBlock == pc = "idle" /\ mode = "block" /\ ~is_finished /\ ~exceeded

(* The cached indexes for a block, by its left side and by its right side: *)
(* one that covers the side, or else one that starts with it.              *)
Lookup(c, g) ==
  LET left  == find_covered_instance(c, g.sx, g.ex)
      right == find_covered_instance(c, g.sy, g.ey)
  IN  IF left = {} /\ right = {}
      THEN [left  |-> find_starting_instance(c, g.sx, g.ex),
            right |-> find_starting_instance(c, g.sy, g.ey)]
      ELSE [left |-> left, right |-> right]

(* The better of the two, the left one only if it is the smaller.          *)
BestAlg(c, hits) ==
  LET left_smaller(i, j) == Size(c[i]) < Size(c[j])
  IN  {[alg |-> c[i], is_left |-> TRUE] :
         i \in {i \in hits.left : \A j \in hits.right : left_smaller(i, j)}}
      \cup
      {[alg |-> c[j], is_left |-> FALSE] :
         j \in {j \in hits.right : \A i \in hits.left : ~left_smaller(i, j)}}

(* ... an index taken to serve the whole block;                            *)
computed_until_WholeBlock(g, best) == End(g)

(* How far a block is computed with it: to its end, or to a block end that *)
(* an index of this size serves completely.                                *)
computed_until(g, best) ==
  LET a == best.alg
  IN  IF best.is_left
      THEN IF Covered(a, g.sx, g.ex) THEN End(g)
           ELSE next_smaller_fitting(g, a.end, g.sy + Size(a))
      ELSE IF Covered(a, g.sy, g.ey) THEN End(g)
           ELSE next_smaller_fitting(g, g.sx + Size(a), a.end)

(* The computation with an existing index, if there is one; the range of   *)
(* the indexed records it is about, and that of the records it probes.     *)
Jobs ==
  {[best |-> best, until |-> computed_until(get_block, best)] :
     best \in UNION {BestAlg(algorithms[plan], hits) :
                       hits \in {Lookup(algorithms[plan], get_block)}}}

Hit == Jobs # {}

LeftRange(job)  == [start |-> get_block.sx, end |-> job.until.x]
RightRange(job) == [start |-> get_block.sy, end |-> job.until.y]

index_range(job) == IF job.best.is_left THEN LeftRange(job) ELSE RightRange(job)
probe_range(job) == IF job.best.is_left THEN RightRange(job) ELSE LeftRange(job)

(* compute_with_index: all microbatches of the probe range.                *)
OneSidedPairs(job, self) ==
  {Pair(q[1], q[2]) : q \in
     {q \in RangeOf(job.best.alg) \X RangeOf(probe_range(job)) :
        /\ ~cutoff_skip(q[1], index_range(job))
        /\ IF self THEN ~cutoff_self_break(q[1], q[2], index_range(job))
                   ELSE ~cutoff_break(q[1], index_range(job))}}

ComputeWithIndex ==
  /\ AtBlock
  /\ \E job \in Jobs :
       /\ Emit(OneSidedPairs(job, self_join(get_block)))
       /\ advance_block(job.until.x, job.until.y)
  /\ usedCache' = TRUE
  /\ exceeded' \in BOOLEAN
  /\ UNCHANGED <<join, mode, plan, probe, algorithms>>

(* ... a slice that is meant to end and does not;                          *)
StopFragmentation_GoesOn ==
  /\ AtBlock /\ ~Hit /\ usedCache
  /\ UNCHANGED vars

(* No index after some blocks were computed with one: end the slice.       *)
StopFragmentation ==
  /\ AtBlock /\ ~Hit /\ usedCache
  /\ exceeded' = TRUE
  /\ UNCHANGED <<schedVars, join, mode, plan, usedCache, probe, algorithms, emitted, repeated>>

StartProbing ==
  /\ AtBlock /\ ~Hit /\ ~usedCache
  /\ mode' = "probe"
  /\ probe' = [left |-> get_block.sx, right |-> get_block.sy,
               leftTarget |-> get_block.ex, rightTarget |-> get_block.ey]
  /\ UNCHANGED <<schedVars, join, plan, usedCache, exceeded, algorithms, emitted, repeated>>

(* ... and batches that are not cut.                                       *)
BatchEnd_WholeSide(id, target) == IF id < target THEN target ELSE id

BatchEnd(id, target) ==
  IF id < target THEN Least(id + ALIGNMENT, target) ELSE id

Probing == mode = "probe" /\ (probe.left < probe.leftTarget \/ probe.right < probe.rightTarget)

(* Index a batch on each side and probe it against the other side; on the  *)
(* diagonal both sides are one index.                                      *)
TwoSidedPairs(left, right) ==
  LET g == get_block
  IN  IF self_join(g)
      THEN {Pair(q[1], q[2]) : q \in
              {q \in Ids(g.sx, left) \X Ids(probe.left, left) :
                 ~symmetric_skip(q[1], q[2])}}
      ELSE {Pair(i, j) : i \in Ids(probe.left, left), j \in Ids(g.sy, probe.right)}
           \cup {Pair(i, j) : i \in Ids(g.sx, left), j \in Ids(probe.right, right)}

NextLeft == BatchEnd(probe.left, probe.leftTarget)

NextRight ==
  IF self_join(get_block) THEN NextLeft ELSE BatchEnd(probe.right, probe.rightTarget)

ProbeMicrobatches ==
  /\ Probing
  /\ \E left \in {NextLeft}, right \in {NextRight} :
       /\ Emit(TwoSidedPairs(left, right))
       /\ \/ /\ probe' = [probe EXCEPT !.left = left, !.right = right]
             /\ UNCHANGED exceeded
          \/ /\ ~exceeded
             /\ exceeded' = TRUE
             /\ LET target == next_larger_fitting(get_block, left, right)
                IN  probe' = [left |-> left, right |-> right,
                              leftTarget |-> target.x, rightTarget |-> target.y]
    /\ UNCHANGED <<schedVars, join, mode, plan, usedCache, algorithms>>

(* Report the progress and keep the new indexes.                           *)
ProbeDone ==
  /\ mode = "probe" /\ ~Probing
  /\ advance_block(probe.left, probe.right)
  /\ LET l == [start |-> get_block.sx, end |-> probe.left]
         r == [start |-> get_block.sy, end |-> probe.right]
         new == IF self_join(get_block) THEN <<l>> ELSE <<l, r>>
     IN  algorithms' = [algorithms EXCEPT ![plan] = @ \o new]
  /\ mode' = "block"
  /\ probe' = NoProbe
  /\ UNCHANGED <<join, plan, usedCache, exceeded, emitted, repeated>>

(* The join has ended: consolidate the cache.                              *)
Consolidate ==
  /\ pc = "idle" /\ mode = "select" /\ is_finished
  /\ algorithms' = [p \in Plans |-> consolidate(algorithms[p], p \in MergeablePlans)]
  /\ mode' = "finished"
  /\ UNCHANGED <<schedVars, join, plan, usedCache, exceeded, probe, emitted, repeated>>

(* The second join has a scheduler of its own and the caches of the first. *)
NewScheduler ==
  /\ is_finished
  /\ nested_blocks' = <<PlanBlock(Rect(0, 0, N, N))>>
  /\ done' = {}
  /\ UNCHANGED <<pc, last>>

JoinAgain ==
  /\ mode = "finished" /\ join < Joins
  /\ join' = join + 1
  /\ mode' = "select"
  /\ NewScheduler
  /\ emitted' = {} /\ repeated' = {}
  /\ UNCHANGED <<plan, usedCache, exceeded, probe, algorithms>>

SchedulerLoop ==
  /\ AdvanceLoop
  /\ UNCHANGED <<sliceVars, probe, algorithms, emitted, repeated>>

JoinNext ==
  \/ SelectPlan \/ EndSlice
  \/ ComputeWithIndex \/ StopFragmentation
  \/ StartProbing \/ ProbeMicrobatches \/ ProbeDone
  \/ Consolidate \/ JoinAgain
  \/ SchedulerLoop

JoinSpec == SliceInit /\ [][JoinNext]_vars /\ WF_vars(JoinNext)

------------------------------------------------------------------------------
(* Properties.                                                             *)

(* A pair leaves the scheduler's plan only after it was compared, by       *)
(* whichever of the two-sided and one-sided computations served its block, *)
(* with whatever index of this or of the previous join; the one exception  *)
(* is a descent that takes a block for processed of which only a part was  *)
(* reported (LastBlockProcessed below).                                    *)
DropsUnprocessed ==
  pc = "descending" /\ ~Inside /\ ~(get_block.ex <= last.x /\ get_block.ey <= last.y)

LossOnlyAtDescent ==
  [][done' \ done \subseteq emitted' \/ DropsUnprocessed]_vars

(* Every report to the scheduler is one advance_block can handle; the      *)
(* partial ends the join computes from index sizes and from timeouts are   *)
(* ends of batches or of sides, and equal on the diagonal.                 *)
ReportsWithinContract == [][Next \/ NewScheduler]_schedVars

(* The reduction and signature caches know a microbatch by the id of its   *)
(* first record only: whatever block it is taken from and wherever that    *)
(* block is cut off, the batch that starts at an id has one extent.        *)
WholeBatch(lo, hi) == lo % ALIGNMENT = 0 /\ hi = Least(lo + ALIGNMENT, N)

BatchIdFixesExtent ==
  /\ Probing =>
       /\ NextLeft # probe.left => WholeBatch(probe.left, NextLeft)
       /\ NextRight # probe.right => WholeBatch(probe.right, NextRight)
  /\ AtBlock => \A job \in Jobs :
       /\ probe_range(job).start % ALIGNMENT = 0
       /\ probe_range(job).end % ALIGNMENT = 0 \/ probe_range(job).end = N

(* An index serves a block, or the part of it that is reported as done,    *)
(* only if it holds every record of that part's side, and the part is not  *)
(* empty.                                                                  *)
IndexCoversRange ==
  AtBlock => \A job \in Jobs :
    /\ Covered(job.best.alg, index_range(job).start, index_range(job).end)
    /\ Size(index_range(job)) > 0 /\ Size(probe_range(job)) > 0

(* Consolidating the cache neither loses nor invents indexed records.      *)
ConsolidationKeepsRecords ==
  [][Consolidate => \A p \in Plans : AllRanges(algorithms'[p]) = AllRanges(algorithms[p])]_vars

(* What a probe gives to the result handler.  An iteration of the probe    *)
(* loop: exactly the pairs by which the finished corner of the block       *)
(* grows.  A computation with an index: all pairs of the part it reports,  *)
(* and others only with the record at which it was cut off.                *)
Part(x, y) == Work(Rect(get_block.sx, get_block.sy, x, y))

ComputesReportedPart ==
  /\ Probing =>
       TwoSidedPairs(NextLeft, NextRight) =
         Part(NextLeft, NextRight) \ Part(probe.left, probe.right)
  /\ AtBlock => \A job \in Jobs :
       LET part  == Part(job.until.x, job.until.y)
           pairs == OneSidedPairs(job, self_join(get_block))
       IN  /\ part \subseteq pairs
           /\ \A p \in pairs \ part : index_range(job).end \in {p[1], p[2]}

(* Whatever plans are selected and whenever the time runs out, every call  *)
(* of execute_join ends, with every pair retired.                          *)
JoinCompletes == <>[](mode = "finished" /\ done = Total)

------------------------------------------------------------------------------
(* What the code says of itself and does not keep.                         *)

(* "last block was processed completely": when advance_block ends its      *)
(* descent into a partially processed block, the block it drops ends       *)
(* within the part that was processed.                                     *)
LastBlockProcessed ==
  pc = "descending" /\ ~Inside => get_block.ex <= last.x /\ get_block.ey <= last.y
==============================================================================
