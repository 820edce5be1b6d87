---------------------------- MODULE BlockScheduler ----------------------------
(***************************************************************************)
(* join::timeslice::BlockScheduler (timeslice_dynamic.hh): the quadtree    *)
(* traversal that hands the lower triangle of an N x N self join to the    *)
(* time-sliced join, one rectangular block at a time.                      *)
(*                                                                         *)
(* The scheduler keeps a stack of nested blocks.  get_block() returns the  *)
(* innermost one; advance_block(last_x, last_y) tells how far the caller   *)
(* got in it.  advance_block contains two loops; each iteration of one is  *)
(* a step here (`pc' says which loop is running and no other operation can *)
(* start before it ends), so a step changes at most the two innermost      *)
(* stack entries.                                                          *)
(*                                                                         *)
(* `done' is a history variable: the candidate pairs that were reported as *)
(* processed, or that a descent took for processed.                        *)
(***************************************************************************)
EXTENDS Integers, Sequences, SequencesExt

CONSTANTS
  N,          \* dataset.statistics->count, the side of the join matrix
  ALIGNMENT   \* template parameter of the scheduler (MINIMAL_BATCH)

ASSUME SizeAssumption == N \in Nat \ {0}
ASSUME AlignmentAssumption == ALIGNMENT \in Nat \ {0}

VARIABLES
  nested_blocks,  \* stack of PlanBlocks, the innermost last
  pc,             \* "idle", or the loop of advance_block that is running
  last,           \* the arguments of the advance_block that is running
  done            \* history: pairs dropped from the plan as processed

schedVars == <<nested_blocks, pc, last, done>>

------------------------------------------------------------------------------
(* Geometry.  A block is a half-open rectangle; x is the left and y the    *)
(* right input of the join.                                                *)

Rect(sx, sy, ex, ey) == [sx |-> sx, sy |-> sy, ex |-> ex, ey |-> ey]

self_join(b) == b.sx = b.sy

Covers(b, x, y) == b.sx <= x /\ x < b.ex /\ b.sy <= y /\ y < b.ey

Total == {p \in (0 .. N-1) \X (0 .. N-1) : p[2] < p[1]}

Work(b) == {p \in Total : Covers(b, p[1], p[2])}

(* The definitions whose names continue another's after a _ are faulty     *)
(* forms of it; some property fails with each of them.  Here: a half that  *)
(* is not rounded to the alignment, and ...                                *)
Half_NotRounded(len) == (len + 1) \div 2

(* ... diagonal blocks that keep their mirrored corner, or lose a corner;  *)
AllSubblocks_Mirrored(r) ==
  IF r.ex - r.sx > ALIGNMENT /\ r.ey - r.sy > ALIGNMENT
  THEN <<"LR", "LL", "UR", "UL">> ELSE <<>>

AllSubblocks_NoCorner(r) ==
  IF r.ex - r.sx > ALIGNMENT /\ r.ey - r.sy > ALIGNMENT
  THEN IF self_join(r) THEN <<"UR", "UL">> ELSE <<"LR", "LL", "UR", "UL">>
  ELSE IF r.ex - r.sx > ALIGNMENT THEN <<"RIGHT", "LEFT">>
  ELSE IF r.ey - r.sy > ALIGNMENT THEN <<"LOWER", "UPPER">>
  ELSE <<>>

(* Half of a side, rounded up to a multiple of the alignment.              *)
Half(len) == ((len + 2*ALIGNMENT - 1) \div (2*ALIGNMENT)) * ALIGNMENT

Subblock == {"UL", "UR", "LL", "LR", "LEFT", "RIGHT", "UPPER", "LOWER"}

(* The subblocks of a new block, the next one last.  Only a side longer    *)
(* than the alignment is split.  The upper right corner of a diagonal      *)
(* block is kept, its mirror image LL is not.                              *)
AllSubblocks(r) ==
  LET wide == r.ex - r.sx > ALIGNMENT
      high == r.ey - r.sy > ALIGNMENT
  IN  IF wide /\ high
      THEN IF self_join(r) THEN <<"LR", "UR", "UL">> ELSE <<"LR", "LL", "UR", "UL">>
      ELSE IF wide THEN <<"RIGHT", "LEFT">>
      ELSE IF high THEN <<"LOWER", "UPPER">>
      ELSE <<>>

PlanBlock(r) == [rect |-> r, missing |-> AllSubblocks(r)]

SubRect(r, q) ==
  LET mx == r.sx + Half(r.ex - r.sx)
      my == r.sy + Half(r.ey - r.sy)
  IN  [sx |-> IF q \in {"UR", "LR", "RIGHT"} THEN mx ELSE r.sx,
       ex |-> IF q \in {"UL", "LL", "LEFT"}  THEN mx ELSE r.ex,
       sy |-> IF q \in {"LL", "LR", "LOWER"} THEN my ELSE r.sy,
       ey |-> IF q \in {"UL", "UR", "UPPER"} THEN my ELSE r.ey]

(* A block with no subblock left yields the empty block at the origin.     *)
get_current_subblock(b) ==
  PlanBlock(IF b.missing = <<>> THEN Rect(0, 0, 0, 0)
                                ELSE SubRect(b.rect, Last(b.missing)))

(* PlanBlock::advance_block.                                               *)
DropSubblock(b) ==
  [b EXCEPT !.missing = IF @ = <<>> THEN <<>> ELSE Front(@)]

Finished(b) == b.missing = <<>>

------------------------------------------------------------------------------
(* The stack.                                                              *)

get_block == Last(nested_blocks).rect

is_finished == nested_blocks = <<>>

(* Pop the innermost block and move its parent to its next subblock.       *)
PopAndDrop(s) ==
  IF Len(s) = 1 THEN <<>>
  ELSE Append(SubSeq(s, 1, Len(s)-2), DropSubblock(s[Len(s)-1]))

(* ... a stack that never loses its last finished block;                   *)
Resumed_KeepsFinished(s) ==
  IF s = <<>> THEN s ELSE Append(s, get_current_subblock(Last(s)))

(* The common tail of cases 1 and 3: remove a finished block, otherwise    *)
(* enter its next subblock.                                                *)
Resumed(s) ==
  IF s = <<>> THEN s
  ELSE IF Finished(Last(s)) THEN Front(s)
  ELSE Append(s, get_current_subblock(Last(s)))

------------------------------------------------------------------------------
NoArguments == [x |-> 0, y |-> 0]

Init ==
  /\ nested_blocks = <<PlanBlock(Rect(0, 0, N, N))>>
  /\ pc = "idle"
  /\ last = NoArguments
  /\ done = {}

(* How far a caller may report to have got: past the start in both         *)
(* directions, in whole batches unless it reached the end of a side, and   *)
(* on the diagonal by the same amount in both.                             *)
Reportable(r, lx, ly) ==
  /\ lx \in r.sx+1 .. r.ex
  /\ ly \in r.sy+1 .. r.ey
  /\ lx # r.ex => lx >= r.sx + ALIGNMENT /\ lx % ALIGNMENT = 0
  /\ ly # r.ey => ly >= r.sy + ALIGNMENT /\ ly % ALIGNMENT = 0
  /\ self_join(r) => lx = ly

(* Case 1 of advance_block, with the first iteration of its loop: the      *)
(* block was completely processed.                                         *)
AdvanceComplete(lx, ly) ==
  /\ pc = "idle" /\ ~is_finished
  /\ lx = get_block.ex /\ ly = get_block.ey
  /\ done' = done \cup Work(get_block)
  /\ nested_blocks' = PopAndDrop(nested_blocks)
  /\ pc' = "popping"
  /\ UNCHANGED last

(* Further iterations: the parent is finished too.                         *)
PopFinished ==
  /\ pc = "popping"
  /\ Len(nested_blocks) > 1 /\ Finished(Last(nested_blocks))
  /\ nested_blocks' = PopAndDrop(nested_blocks)
  /\ UNCHANGED <<pc, last, done>>

PopStop ==
  /\ pc = "popping"
  /\ ~(Len(nested_blocks) > 1 /\ Finished(Last(nested_blocks)))
  /\ nested_blocks' = Resumed(nested_blocks)
  /\ pc' = "idle"
  /\ UNCHANGED <<last, done>>

(* ... a strip cut off at the wrong side.                                  *)
Strip_Swapped(r, lx, ly) ==
  IF r.ex = lx THEN Rect(lx, r.sy, r.ex, r.ey) ELSE Rect(r.sx, ly, r.ex, r.ey)

(* Case 2: completely processed in one direction only; the block is        *)
(* replaced by the strip that remains.                                     *)
Strip(r, lx, ly) ==
  IF r.ex = lx THEN Rect(r.sx, ly, r.ex, r.ey) ELSE Rect(lx, r.sy, r.ex, r.ey)

AdvanceStrip(lx, ly) ==
  /\ pc = "idle" /\ ~is_finished
  /\ (lx = get_block.ex) # (ly = get_block.ey)
  /\ done' = done \cup Work(Rect(get_block.sx, get_block.sy, lx, ly))
  /\ nested_blocks' = Append(Front(nested_blocks), PlanBlock(Strip(get_block, lx, ly)))
  /\ UNCHANGED <<pc, last>>

(* Case 3: partially processed in both directions.  Enter first subblocks  *)
(* until one ends inside the processed part, drop that one.                *)
EnterSubblock ==
  nested_blocks' = Append(nested_blocks, get_current_subblock(Last(nested_blocks)))

AdvancePartial(lx, ly) ==
  /\ pc = "idle" /\ ~is_finished
  /\ lx # get_block.ex /\ ly # get_block.ey
  /\ EnterSubblock
  /\ pc' = "descending"
  /\ last' = [x |-> lx, y |-> ly]
  /\ UNCHANGED done

(* ... a descent that stops a batch too early;                             *)
Inside_StopsEarly ==
  get_block.ex > last.x + ALIGNMENT /\ get_block.ey > last.y + ALIGNMENT

Inside == get_block.ex > last.x /\ get_block.ey > last.y

Descend ==
  /\ pc = "descending" /\ Inside
  /\ EnterSubblock
  /\ UNCHANGED <<pc, last, done>>

DescendStop ==
  /\ pc = "descending" /\ ~Inside
  /\ done' = done \cup Work(get_block)
  /\ nested_blocks' = Resumed(PopAndDrop(nested_blocks))
  /\ pc' = "idle"
  /\ last' = NoArguments

(* advance_block(lx, ly) up to its first loop test, and the rest of it.    *)
advance_block(lx, ly) ==
  AdvanceComplete(lx, ly) \/ AdvanceStrip(lx, ly) \/ AdvancePartial(lx, ly)

AdvanceLoop == PopFinished \/ PopStop \/ Descend \/ DescendStop

Next ==
  \/ \E lx, ly \in 1 .. N :
       ~is_finished /\ Reportable(get_block, lx, ly) /\ advance_block(lx, ly)
  \/ AdvanceLoop

Spec == Init /\ [][Next]_schedVars

FairSpec == Spec /\ WF_schedVars(Next)

------------------------------------------------------------------------------
(* Properties.                                                             *)

Rects == [sx : 0 .. N, ex : 0 .. N, sy : 0 .. N, ey : 0 .. N]

Blocks == [rect : Rects, missing : Seq(Subblock)]

(* Every variable has the type the code declares for it.                   *)
TypeOK ==
  /\ nested_blocks \in Seq(Blocks)
  /\ pc \in {"idle", "popping", "descending"}
  /\ last \in [x : 0 .. N, y : 0 .. N]
  /\ done \subseteq Total

(* The pairs the rest of the traversal will still hand out: those of the   *)
(* innermost block and of the subblocks its ancestors have not entered.    *)
(* While finished blocks are popped the innermost block is one that has    *)
(* been entered, and only its own remaining subblocks count.               *)
Unentered(b, n) == UNION {Work(SubRect(b.rect, b.missing[j])) : j \in 1 .. n}

AheadIn(s, k) ==
  UNION {Unentered(s[i], Len(s[i].missing)-1) : i \in 1 .. k}

LeftOffered(s) ==
  IF s = <<>> THEN {}
  ELSE AheadIn(s, Len(s)-1) \cup Work(Last(s).rect)

LeftPopping(s) ==
  IF s = <<>> THEN {}
  ELSE AheadIn(s, Len(s)-1) \cup Unentered(Last(s), Len(Last(s).missing))

Pending ==
  IF pc = "popping" THEN LeftPopping(nested_blocks) ELSE LeftOffered(nested_blocks)

(* The plan on the stack holds exactly the pairs not yet dropped: with     *)
(* each of its three cases advance_block takes away the one block it drops *)
(* and nothing else, and no pair is left in two blocks, from which it      *)
(* would be computed twice.                                                *)
PlanIsExact == Pending = Total \ done

WellShaped(r) ==
  /\ r.sx < r.ex /\ r.sy < r.ey
  /\ (r.sx = r.sy /\ r.ex = r.ey) \/ r.ey <= r.sx

IsSubblockOf(q, r) ==
  LET wide == r.ex - r.sx > ALIGNMENT
      high == r.ey - r.sy > ALIGNMENT
  IN  \/ wide /\ high /\ q \in {"UL", "UR", "LR"}
      \/ wide /\ high /\ q = "LL" /\ ~self_join(r)
      \/ wide /\ ~high /\ q \in {"LEFT", "RIGHT"}
      \/ ~wide /\ high /\ q \in {"UPPER", "LOWER"}

MissingOK(b) ==
  /\ \A i \in 1 .. Len(b.missing) : IsSubblockOf(b.missing[i], b.rect)
  /\ \A i, j \in 1 .. Len(b.missing) : b.missing[i] = b.missing[j] => i = j

WellFormed(s) ==
  /\ \A k \in 1 .. Len(s) : WellShaped(s[k].rect) /\ MissingOK(s[k])
  /\ \A k \in 1 .. Len(s)-1 : s[k].missing # <<>>

Inner(r, s) == s.sx <= r.sx /\ r.ex <= s.ex /\ s.sy <= r.sy /\ r.ey <= s.ey

Nested(s) ==
  \A k \in 1 .. Len(s) : \A i \in 1 .. k-1 :
    Inner(s[k].rect, SubRect(s[i].rect, Last(s[i].missing)))

(* The shape of the plan: blocks are not empty and lie on the diagonal, as *)
(* squares, or strictly below it; the subblocks left are distinct          *)
(* subblocks of the block; every block lies in the subblock its ancestors  *)
(* are at; the innermost block is untouched; a descent leaves a subblock   *)
(* to go on with, and has one to enter until it stops.                     *)
Shape ==
  /\ WellFormed(nested_blocks)
  /\ Nested(nested_blocks)
  /\ pc # "popping" /\ ~is_finished =>
       Last(nested_blocks).missing = AllSubblocks(get_block)
  /\ pc = "descending" =>
       /\ Len(nested_blocks) > 1
       /\ Len(nested_blocks[Len(nested_blocks)-1].missing) > 1
       /\ last.x >= get_block.sx + ALIGNMENT
       /\ last.y >= get_block.sy + ALIGNMENT

IInv == TypeOK /\ Shape /\ PlanIsExact

(* get_block asserts that a block starts at multiples of the alignment;    *)
(* every caller of the caches relies on it.                                *)
BlocksAligned ==
  pc = "idle" /\ ~is_finished =>
    get_block.sx % ALIGNMENT = 0 /\ get_block.sy % ALIGNMENT = 0

(* On the diagonal a descent drops only what was processed: every block it *)
(* passes is a square there, last_x and last_y are equal, and so the block *)
(* at which it stops ends within the processed part on both sides.         *)
DiagonalDescent ==
  pc = "descending" /\ self_join(get_block) =>
    /\ last.x = last.y
    /\ ~Inside => get_block.ex <= last.x /\ get_block.ey <= last.y

(* The scheduler implements the pair offer: what get_block returns is      *)
(* still to be done, advance_block retires offered pairs only, and         *)
(* is_finished holds only when every pair has been retired.                *)
Offer == INSTANCE PairOffer WITH
  Pairs    <- Total,
  todo     <- Total \ done,
  offered  <- IF pc = "popping" \/ is_finished THEN {} ELSE Work(get_block),
  finished <- pc = "idle" /\ is_finished

ImplementsOffer == Offer!Spec

(* Every sequence of advances that each report some progress ends with the *)
(* whole matrix retired.                                                   *)
EventuallyAllDone == <>[](pc = "idle" /\ is_finished /\ done = Total)
==============================================================================
