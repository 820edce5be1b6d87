------------------------ MODULE BlockScheduler_proofs ------------------------
(***************************************************************************)
(* Theorems about the block scheduler, for every number of records and     *)
(* every alignment.                                                        *)
(*                                                                         *)
(* IInv, the type invariant with the shape of the stack and the exactness  *)
(* of the plan, is inductive.  The geometric facts it rests on: a side     *)
(* longer than the alignment is cut into two non-empty parts (HalfBounds), *)
(* the subblocks of a block are disjoint (SubRectDisjoint) and cover it    *)
(* (SubRectCover).  The facts about the stack: what lies ahead of the      *)
(* innermost block shares no pair with it (AheadDisjoint), and entering,   *)
(* leaving and resuming keep the pairs that are left (EnterNext,           *)
(* LeftAfterPop, ResumedOK).                                               *)
(***************************************************************************)
EXTENDS BlockScheduler, SequenceTheorems, TLAPS

------------------------------------------------------------------------------
(* Geometry.                                                               *)

(* Integer division by a positive divisor.                                 *)
LEMMA DivBounds ==
  ASSUME NEW k \in Nat, NEW d \in Nat \ {0}
  PROVE  /\ k \div d \in Nat
         /\ d * (k \div d) <= k
         /\ k < d * (k \div d) + d
  OBVIOUS

(* A side longer than the alignment is split into two non-empty parts.     *)
LEMMA HalfBounds ==
  ASSUME NEW len \in Nat, len > ALIGNMENT
  PROVE  Half(len) \in 1 .. len-1
<1> DEFINE A == ALIGNMENT
           q == (len + 2*A - 1) \div (2*A)
<1>1. A \in Nat \ {0} /\ 2*A \in Nat \ {0} /\ len + 2*A - 1 \in Nat
  BY AlignmentAssumption
<1>2. q \in Nat /\ (2*A) * q <= len + 2*A - 1 /\ len + 2*A - 1 < (2*A)*q + 2*A
  BY <1>1, DivBounds
<1>3. A * q \in Int /\ (2*A) * q = 2 * (A*q) /\ q * A = A * q
  BY <1>1, <1>2
<1>4. A * q >= 1 /\ A*q <= len - 1
  BY <1>1, <1>2, <1>3
<1>5. Half(len) = A * q
  BY <1>3 DEF Half
<1> HIDE DEF A, q
<1>6. QED  BY <1>3, <1>4, <1>5

(* The subblocks of a block are non-empty, lie inside it and on or below   *)
(* the diagonal again.                                                     *)
LEMMA SubRectShape ==
  ASSUME NEW r \in Rects, WellShaped(r),
         NEW q, IsSubblockOf(q, r)
  PROVE  /\ SubRect(r, q) \in Rects
         /\ WellShaped(SubRect(r, q))
         /\ Inner(SubRect(r, q), r)
<1> DEFINE hx == Half(r.ex - r.sx)
           hy == Half(r.ey - r.sy)
<1>0. N \in Nat /\ ALIGNMENT \in Nat
  BY SizeAssumption, AlignmentAssumption
<1>1. /\ r.sx \in 0..N /\ r.ex \in 0..N /\ r.sy \in 0..N /\ r.ey \in 0..N
      /\ r.ex - r.sx \in Nat /\ r.ey - r.sy \in Nat
  BY <1>0 DEF Rects, WellShaped
<1>2. r.ex - r.sx > ALIGNMENT => hx \in 1 .. (r.ex - r.sx - 1)
  BY <1>1, HalfBounds
<1>3. r.ey - r.sy > ALIGNMENT => hy \in 1 .. (r.ey - r.sy - 1)
  BY <1>1, HalfBounds
<1>4. r.sx = r.sy /\ r.ex = r.ey => hx = hy
  OBVIOUS
<1>5. SubRect(r, q) =
       [sx |-> IF q \in {"UR", "LR", "RIGHT"} THEN r.sx + hx ELSE r.sx,
        ex |-> IF q \in {"UL", "LL", "LEFT"}  THEN r.sx + hx ELSE r.ex,
        sy |-> IF q \in {"LL", "LR", "LOWER"} THEN r.sy + hy ELSE r.sy,
        ey |-> IF q \in {"UL", "UR", "UPPER"} THEN r.sy + hy ELSE r.ey]
  BY DEF SubRect
<1> HIDE DEF hx, hy
<1>6. QED
  BY <1>0, <1>1, <1>2, <1>3, <1>4, <1>5
  DEF IsSubblockOf, WellShaped, Inner, Rects, self_join

(* Different subblocks of a block share no pair.                           *)
LEMMA SubRectDisjoint ==
  ASSUME NEW r \in Rects, WellShaped(r),
         NEW q1, NEW q2, IsSubblockOf(q1, r), IsSubblockOf(q2, r), q1 # q2
  PROVE  Work(SubRect(r, q1)) \cap Work(SubRect(r, q2)) = {}
<1> DEFINE mx == r.sx + Half(r.ex - r.sx)
           my == r.sy + Half(r.ey - r.sy)
<1>0. N \in Nat /\ ALIGNMENT \in Nat
  BY SizeAssumption, AlignmentAssumption
<1>1. mx \in Int \/ ~(r.ex - r.sx > ALIGNMENT)
  BY <1>0, HalfBounds DEF Rects, WellShaped
<1>2. my \in Int \/ ~(r.ey - r.sy > ALIGNMENT)
  BY <1>0, HalfBounds DEF Rects, WellShaped
<1>3. \A q : SubRect(r, q) =
       [sx |-> IF q \in {"UR", "LR", "RIGHT"} THEN mx ELSE r.sx,
        ex |-> IF q \in {"UL", "LL", "LEFT"}  THEN mx ELSE r.ex,
        sy |-> IF q \in {"LL", "LR", "LOWER"} THEN my ELSE r.sy,
        ey |-> IF q \in {"UL", "UR", "UPPER"} THEN my ELSE r.ey]
  BY DEF SubRect
<1> HIDE DEF mx, my
<1>4. SUFFICES ASSUME NEW p \in Total,
                      Covers(SubRect(r, q1), p[1], p[2]),
                      Covers(SubRect(r, q2), p[1], p[2])
               PROVE  FALSE
  BY DEF Work
<1>5. p[1] \in Int /\ p[2] \in Int
  BY <1>0 DEF Total
<1>6. QED
  BY <1>0, <1>1, <1>2, <1>3, <1>4, <1>5 DEF Covers, IsSubblockOf, Rects

(* The subblocks of a block that is split cover its pairs.                 *)
LEMMA SubRectCover ==
  ASSUME NEW r \in Rects, WellShaped(r), AllSubblocks(r) # <<>>,
         NEW p \in Work(r)
  PROVE  \E i \in 1 .. Len(AllSubblocks(r)) :
            p \in Work(SubRect(r, AllSubblocks(r)[i]))
<1> DEFINE mx == r.sx + Half(r.ex - r.sx)
           my == r.sy + Half(r.ey - r.sy)
           wide == r.ex - r.sx > ALIGNMENT
           high == r.ey - r.sy > ALIGNMENT
<1>0. N \in Nat /\ ALIGNMENT \in Nat
  BY SizeAssumption, AlignmentAssumption
<1>1. wide => mx \in Int
  BY <1>0, HalfBounds DEF Rects, WellShaped
<1>2. high => my \in Int
  BY <1>0, HalfBounds DEF Rects, WellShaped
<1>3. /\ Covers(SubRect(r, "UL"), p[1], p[2]) <=>
           r.sx <= p[1] /\ p[1] < mx /\ r.sy <= p[2] /\ p[2] < my
      /\ Covers(SubRect(r, "UR"), p[1], p[2]) <=>
           mx <= p[1] /\ p[1] < r.ex /\ r.sy <= p[2] /\ p[2] < my
      /\ Covers(SubRect(r, "LL"), p[1], p[2]) <=>
           r.sx <= p[1] /\ p[1] < mx /\ my <= p[2] /\ p[2] < r.ey
      /\ Covers(SubRect(r, "LR"), p[1], p[2]) <=>
           mx <= p[1] /\ p[1] < r.ex /\ my <= p[2] /\ p[2] < r.ey
      /\ Covers(SubRect(r, "LEFT"), p[1], p[2]) <=>
           r.sx <= p[1] /\ p[1] < mx /\ r.sy <= p[2] /\ p[2] < r.ey
      /\ Covers(SubRect(r, "RIGHT"), p[1], p[2]) <=>
           mx <= p[1] /\ p[1] < r.ex /\ r.sy <= p[2] /\ p[2] < r.ey
      /\ Covers(SubRect(r, "UPPER"), p[1], p[2]) <=>
           r.sx <= p[1] /\ p[1] < r.ex /\ r.sy <= p[2] /\ p[2] < my
      /\ Covers(SubRect(r, "LOWER"), p[1], p[2]) <=>
           r.sx <= p[1] /\ p[1] < r.ex /\ my <= p[2] /\ p[2] < r.ey
  BY DEF SubRect, Covers
<1>4. r.sx = r.sy /\ r.ex = r.ey => mx = my
  OBVIOUS
<1>5. /\ p \in Total /\ p[1] \in Int /\ p[2] \in Int /\ p[2] < p[1]
      /\ r.sx <= p[1] /\ p[1] < r.ex /\ r.sy <= p[2] /\ p[2] < r.ey
  BY <1>0 DEF Total, Work, Covers
<1> HIDE DEF mx, my
<1>6. CASE wide /\ high /\ self_join(r)
  <2>1. AllSubblocks(r) = <<"LR", "UR", "UL">>
    BY <1>6 DEF AllSubblocks
  <2>2. r.sx = r.sy /\ r.ex = r.ey /\ mx = my /\ mx \in Int
    <3>1. r.sx \in Int /\ r.ex \in Int /\ r.sy \in Int /\ r.ey \in Int
      BY <1>0 DEF Rects
    <3>2. QED  BY <1>1, <1>4, <1>6, <3>1 DEF WellShaped, self_join
  <2>3. \/ Covers(SubRect(r, "LR"), p[1], p[2])
        \/ Covers(SubRect(r, "UR"), p[1], p[2])
        \/ Covers(SubRect(r, "UL"), p[1], p[2])
    BY <1>3, <1>5, <2>2
  <2>4. QED  BY <1>5, <2>1, <2>3 DEF Work
<1>7. CASE wide /\ high /\ ~self_join(r)
  <2>1. AllSubblocks(r) = <<"LR", "LL", "UR", "UL">>
    BY <1>7 DEF AllSubblocks
  <2>2. \E q \in {"LR", "LL", "UR", "UL"} : Covers(SubRect(r, q), p[1], p[2])
    BY <1>1, <1>2, <1>3, <1>5, <1>7
  <2>3. QED  BY <1>5, <2>1, <2>2 DEF Work
<1>8. CASE wide /\ ~high
  <2>1. AllSubblocks(r) = <<"RIGHT", "LEFT">>
    BY <1>8 DEF AllSubblocks
  <2>2. \E q \in {"LEFT", "RIGHT"} : Covers(SubRect(r, q), p[1], p[2])
    BY <1>1, <1>3, <1>5, <1>8
  <2>3. QED  BY <1>5, <2>1, <2>2 DEF Work
<1>9. CASE ~wide /\ high
  <2>1. AllSubblocks(r) = <<"LOWER", "UPPER">>
    BY <1>9 DEF AllSubblocks
  <2>2. \E q \in {"LOWER", "UPPER"} : Covers(SubRect(r, q), p[1], p[2])
    BY <1>2, <1>3, <1>5, <1>9
  <2>3. QED  BY <1>5, <2>1, <2>2 DEF Work
<1>10. CASE ~wide /\ ~high
  BY <1>10 DEF AllSubblocks
<1>11. QED  BY <1>6, <1>7, <1>8, <1>9, <1>10

(* A smaller block has fewer pairs.                                        *)
LEMMA InnerWork ==
  ASSUME NEW r \in Rects, NEW s \in Rects, Inner(r, s)
  PROVE  Work(r) \subseteq Work(s)
<1>1. \A p \in Total : p[1] \in Int /\ p[2] \in Int
  BY SizeAssumption DEF Total
<1>2. QED  BY <1>1, SizeAssumption DEF Work, Covers, Inner, Rects

(* A new block starts with its own subblocks, each once.                   *)
LEMMA PlanBlockFacts ==
  ASSUME NEW r \in Rects
  PROVE  /\ PlanBlock(r) \in Blocks
         /\ PlanBlock(r).rect = r
         /\ PlanBlock(r).missing = AllSubblocks(r)
         /\ MissingOK(PlanBlock(r))
<1> DEFINE wide == r.ex - r.sx > ALIGNMENT
           high == r.ey - r.sy > ALIGNMENT
<1>1. /\ AllSubblocks(r) \in Seq(Subblock)
      /\ \A i \in 1 .. Len(AllSubblocks(r)) : IsSubblockOf(AllSubblocks(r)[i], r)
      /\ \A i, j \in 1 .. Len(AllSubblocks(r)) :
            AllSubblocks(r)[i] = AllSubblocks(r)[j] => i = j
  <2>1. CASE wide /\ high /\ self_join(r)
    <3>1. AllSubblocks(r) = <<"LR", "UR", "UL">>
      BY <2>1 DEF AllSubblocks
    <3>2. QED  BY <2>1, <3>1 DEF Subblock, IsSubblockOf
  <2>2. CASE wide /\ high /\ ~self_join(r)
    <3>1. AllSubblocks(r) = <<"LR", "LL", "UR", "UL">>
      BY <2>2 DEF AllSubblocks
    <3>2. QED  BY <2>2, <3>1 DEF Subblock, IsSubblockOf
  <2>3. CASE wide /\ ~high
    <3>1. AllSubblocks(r) = <<"RIGHT", "LEFT">>
      BY <2>3 DEF AllSubblocks
    <3>2. QED  BY <2>3, <3>1 DEF Subblock, IsSubblockOf
  <2>4. CASE ~wide /\ high
    <3>1. AllSubblocks(r) = <<"LOWER", "UPPER">>
      BY <2>4 DEF AllSubblocks
    <3>2. QED  BY <2>4, <3>1 DEF Subblock, IsSubblockOf
  <2>5. CASE ~wide /\ ~high
    <3>1. AllSubblocks(r) = <<>>
      BY <2>5 DEF AllSubblocks
    <3>2. QED  BY <2>5, <3>1 DEF Subblock, IsSubblockOf
  <2>6. QED  BY <2>1, <2>2, <2>3, <2>4, <2>5
<1>2. QED  BY <1>1 DEF PlanBlock, Blocks, MissingOK

------------------------------------------------------------------------------
(* Stacks.                                                                 *)

(* A prefix of a sequence agrees with it as far as it goes.                *)
LEMMA Prefix ==
  ASSUME NEW S, NEW s \in Seq(S), NEW n \in 0 .. Len(s)
  PROVE  /\ SubSeq(s, 1, n) \in Seq(S)
         /\ Len(SubSeq(s, 1, n)) = n
         /\ \A i \in 1 .. n : SubSeq(s, 1, n)[i] = s[i]
<1> DEFINE u == SubSeq(s, 1, n)
<1>1. n \in Int /\ \A i \in 1 .. n : s[i] \in S
  BY ElementOfSeq, LenProperties
<1>2. /\ u \in Seq(S)
      /\ Len(u) = IF 1 <= n THEN n-1+1 ELSE 0
      /\ \A i \in 1 .. n-1+1 : u[i] = s[1+i-1]
  BY <1>1, SubSeqProperties
<1> HIDE DEF u
<1>3. \A i \in 1 .. n : i \in 1 .. n-1+1 /\ 1+i-1 = i
  BY <1>1
<1>4. n \in Nat
  BY LenProperties
<1>5. u \in Seq(S) /\ Len(u) = n
  BY <1>2, <1>4
<1>6. \A i \in 1 .. n : u[i] = s[i]
  BY <1>2, <1>3
<1>7. QED  BY <1>5, <1>6 DEF u

(* A sequence that is not empty is its front and its last element.         *)
LEMMA FrontLast ==
  ASSUME NEW S, NEW s \in Seq(S), s # <<>>
  PROVE  /\ Len(s) \in Nat \ {0}
         /\ Last(s) = s[Len(s)] /\ Last(s) \in S
         /\ Front(s) \in Seq(S) /\ Len(Front(s)) = Len(s)-1
         /\ \A i \in 1 .. Len(s)-1 : Front(s)[i] = s[i]
<1>1. Len(s) \in Nat \ {0} /\ Len(s)-1 \in 0 .. Len(s) /\ Len(s) \in 1 .. Len(s)
  BY EmptySeq
<1>2. Front(s) = SubSeq(s, 1, Len(s)-1) /\ Last(s) = s[Len(s)]
  BY DEF Front, Last
<1>3. Last(s) \in S
  BY <1>1, <1>2, ElementOfSeq
<1> DEFINE n == Len(s)-1
           u == SubSeq(s, 1, n)
<1>4. u \in Seq(S) /\ Len(u) = n /\ \A i \in 1 .. n : u[i] = s[i]
  BY <1>1, Prefix
<1> HIDE DEF u
<1>5. Front(s) = u
  BY <1>2 DEF u
<1>6. QED  BY <1>1, <1>2, <1>3, <1>4, <1>5

(* PlanBlock::advance_block takes away the last subblock and nothing else. *)
LEMMA DropFacts ==
  ASSUME NEW b \in Blocks, b.missing # <<>>
  PROVE  /\ DropSubblock(b) \in Blocks
         /\ DropSubblock(b).rect = b.rect
         /\ Len(b.missing) \in Nat \ {0}
         /\ Len(DropSubblock(b).missing) = Len(b.missing)-1
         /\ \A j \in 1 .. Len(b.missing)-1 : DropSubblock(b).missing[j] = b.missing[j]
         /\ MissingOK(b) => MissingOK(DropSubblock(b))
<1>1. b.missing \in Seq(Subblock) /\ b.rect \in Rects
  BY DEF Blocks
<1>2. /\ DropSubblock(b) = [rect |-> b.rect, missing |-> Front(b.missing)]
  BY DEF DropSubblock, Blocks
<1> DEFINE f == Front(b.missing)
<1>3. /\ Len(b.missing) \in Nat \ {0} /\ f \in Seq(Subblock)
      /\ Len(f) = Len(b.missing)-1
      /\ \A j \in 1 .. Len(b.missing)-1 : f[j] = b.missing[j]
  BY <1>1, FrontLast
<1> HIDE DEF f
<1>4. DropSubblock(b).missing = f /\ DropSubblock(b).rect = b.rect
  BY <1>2 DEF f
<1>5. DropSubblock(b) \in Blocks
  BY <1>1, <1>2, <1>3 DEF f, Blocks
<1>8. \A i \in 1 .. Len(f) : i \in 1 .. Len(b.missing) /\ f[i] = b.missing[i]
  BY <1>3
<1>6. MissingOK(b) => MissingOK(DropSubblock(b))
  BY <1>4, <1>8 DEF MissingOK
<1>7. QED  BY <1>3, <1>4, <1>5, <1>6

(* Popping a block changes its parent and nothing below that.              *)
LEMMA PopFacts ==
  ASSUME NEW s \in Seq(Blocks), s # <<>>,
         Len(s) > 1 => s[Len(s)-1].missing # <<>>
  PROVE  LET t == PopAndDrop(s)
         IN  /\ t \in Seq(Blocks)
             /\ Len(s) \in Nat \ {0}
             /\ Len(t) = Len(s)-1
             /\ \A i \in 1 .. Len(s)-2 : t[i] = s[i]
             /\ Len(s) > 1 => t[Len(s)-1] = DropSubblock(s[Len(s)-1])
<1>0. Len(s) \in Nat \ {0} /\ \A i \in 1 .. Len(s) : s[i] \in Blocks
  BY EmptySeq, ElementOfSeq
<1>1. CASE Len(s) = 1
  BY <1>0, <1>1 DEF PopAndDrop
<1>2. CASE Len(s) > 1
  <2> DEFINE u == SubSeq(s, 1, Len(s)-2)
             d == DropSubblock(s[Len(s)-1])
             n == Len(s)-2
  <2>1. n \in Nat /\ n \in 0 .. Len(s) /\ n+1 = Len(s)-1
    BY <1>0, <1>2
  <2>5. u \in Seq(Blocks) /\ Len(u) = n /\ \A i \in 1 .. n : u[i] = s[i]
    BY <2>1, Prefix
  <2>2. d \in Blocks
    BY <1>0, <1>2, DropFacts
  <2>3. PopAndDrop(s) = Append(u, d)
    BY <1>0, <1>2 DEF PopAndDrop
  <2> HIDE DEF u, d, n
  <2>6. /\ Append(u, d) \in Seq(Blocks) /\ Len(Append(u, d)) = n+1
        /\ \A i \in 1 .. n : Append(u, d)[i] = s[i]
        /\ Append(u, d)[n+1] = d
    BY <2>1, <2>2, <2>5
  <2>7. \A i \in 1 .. Len(s)-2 : Append(u, d)[i] = s[i]
    BY <2>6 DEF n
  <2>8. Append(u, d)[Len(s)-1] = d /\ Len(Append(u, d)) = Len(s)-1
    BY <2>1, <2>6
  <2> DEFINE w == Append(u, d)
  <2> HIDE DEF w
  <2>9. PopAndDrop(s) = w
    BY <2>3 DEF w
  <2>10. /\ w \in Seq(Blocks) /\ Len(w) = Len(s)-1 /\ w[Len(s)-1] = d
         /\ \A i \in 1 .. Len(s)-2 : w[i] = s[i]
    BY <2>6, <2>7, <2>8 DEF w
  <2>4. QED  BY <1>0, <2>9, <2>10 DEF d
<1> DEFINE m == Len(s)
<1> HIDE DEF m
<1>3. m \in Nat \ {0} => m = 1 \/ m > 1
  OBVIOUS
<1>4. QED  BY <1>0, <1>1, <1>2, <1>3 DEF m

(* Moving the parent on, once its subblock is gone, leaves exactly what    *)
(* was ahead.                                                              *)
LEMMA AheadAfterPop ==
  ASSUME NEW s \in Seq(Blocks), Len(s) > 1,
         s[Len(s)-1].missing # <<>>
  PROVE  LET t == PopAndDrop(s)
         IN  AheadIn(t, Len(t)-1) \cup Unentered(Last(t), Len(Last(t).missing))
               = AheadIn(s, Len(s)-1)
<1> DEFINE t == PopAndDrop(s)
           m == Len(s)
<1>0. m \in Nat /\ m > 1 /\ s # <<>> /\ \A i \in 1 .. m : s[i] \in Blocks
  BY EmptySeq, ElementOfSeq
<1>1. /\ t \in Seq(Blocks) /\ Len(t) = m-1 /\ t # <<>>
      /\ \A i \in 1 .. m-2 : t[i] = s[i]
      /\ t[m-1] = DropSubblock(s[m-1])
  BY <1>0, PopFacts, EmptySeq
<1>2. Last(t) = t[m-1]
  BY <1>1, FrontLast
<1>3. Unentered(t[m-1], Len(t[m-1].missing)) = Unentered(s[m-1], Len(s[m-1].missing)-1)
  <2> DEFINE b == s[m-1]
             d == DropSubblock(b)
  <2>1. b \in Blocks /\ b.missing # <<>>
    BY <1>0
  <2>2. /\ d.rect = b.rect /\ Len(d.missing) = Len(b.missing)-1
        /\ \A j \in 1 .. Len(b.missing)-1 : d.missing[j] = b.missing[j]
    BY <2>1, DropFacts
  <2> HIDE DEF b, d
  <2>3. Unentered(d, Len(d.missing)) = Unentered(b, Len(b.missing)-1)
    BY <2>2 DEF Unentered
  <2>4. QED  BY <1>1, <2>3 DEF b, d
<1>4. AheadIn(t, m-2) = AheadIn(s, m-2)
  BY <1>0, <1>1 DEF AheadIn
<1>5. AheadIn(s, m-1) = AheadIn(s, m-2) \cup Unentered(s[m-1], Len(s[m-1].missing)-1)
  BY <1>0 DEF AheadIn
<1> HIDE DEF t, m
<1>6. Len(t)-1 = m-2
  BY <1>0, <1>1
<1>7. QED  BY <1>1, <1>2, <1>3, <1>4, <1>5, <1>6 DEF t, m

(* Entering a block's next subblock leaves exactly what was ahead.         *)
LEMMA AheadAfterPush ==
  ASSUME NEW s \in Seq(Blocks), s # <<>>, NEW b \in Blocks
  PROVE  /\ Append(s, b) \in Seq(Blocks) /\ Append(s, b) # <<>>
         /\ Len(Append(s, b)) = Len(s)+1 /\ Last(Append(s, b)) = b
         /\ \A i \in 1 .. Len(s) : Append(s, b)[i] = s[i]
         /\ Append(s, b)[Len(s)+1] = b
         /\ AheadIn(Append(s, b), Len(s)) =
              AheadIn(s, Len(s)-1) \cup Unentered(Last(s), Len(Last(s).missing)-1)
<1> DEFINE t == Append(s, b)
<1>0. Len(s) \in Nat \ {0} /\ Last(s) = s[Len(s)]
  BY FrontLast
<1>1. /\ t \in Seq(Blocks) /\ t # <<>> /\ Len(t) = Len(s)+1
      /\ \A i \in 1 .. Len(s) : t[i] = s[i]
      /\ t[Len(s)+1] = b
  BY <1>0
<1>2. Last(t) = b
  BY <1>1, FrontLast
<1>3. AheadIn(t, Len(s)) = AheadIn(s, Len(s))
  BY <1>1 DEF AheadIn
<1>4. AheadIn(s, Len(s)) =
        AheadIn(s, Len(s)-1) \cup Unentered(s[Len(s)], Len(s[Len(s)].missing)-1)
  BY <1>0 DEF AheadIn
<1> HIDE DEF t
<1>5. QED  BY <1>0, <1>1, <1>2, <1>3, <1>4 DEF t

(* The subblocks not entered are the next one and those behind it.         *)
LEMMA UnenteredLast ==
  ASSUME NEW b \in Blocks, b.missing # <<>>
  PROVE  Unentered(b, Len(b.missing)) =
           Unentered(b, Len(b.missing)-1) \cup Work(SubRect(b.rect, Last(b.missing)))
<1>1. Len(b.missing) \in Nat \ {0} /\ Last(b.missing) = b.missing[Len(b.missing)]
  BY FrontLast DEF Blocks
<1>2. QED  BY <1>1 DEF Unentered

------------------------------------------------------------------------------
(* Well-formed, nested stacks.                                             *)

StackOK(s) == s \in Seq(Blocks) /\ WellFormed(s) /\ Nested(s)

(* Lying in a block that lies in another.                                  *)
LEMMA InnerTrans ==
  ASSUME NEW r \in Rects, NEW s \in Rects, NEW t \in Rects,
         Inner(r, s), Inner(s, t)
  PROVE  Inner(r, t)
  BY SizeAssumption DEF Inner, Rects

(* The subblock a block is at.                                             *)
LEMMA CurrentSubblock ==
  ASSUME NEW b \in Blocks, WellShaped(b.rect), MissingOK(b), b.missing # <<>>
  PROVE  LET r == SubRect(b.rect, Last(b.missing))
         IN  /\ r \in Rects /\ WellShaped(r) /\ Inner(r, b.rect)
             /\ get_current_subblock(b) = PlanBlock(r)
<1>1. b.rect \in Rects /\ b.missing \in Seq(Subblock)
  BY DEF Blocks
<1>2. Len(b.missing) \in Nat \ {0} /\ Last(b.missing) = b.missing[Len(b.missing)]
  BY <1>1, FrontLast
<1>3. IsSubblockOf(Last(b.missing), b.rect)
  BY <1>2 DEF MissingOK
<1>4. QED  BY <1>1, <1>3, SubRectShape DEF get_current_subblock

(* What lies ahead at the ancestors shares no pair with the innermost      *)
(* block.                                                                  *)
LEMMA AheadDisjoint ==
  ASSUME NEW s, StackOK(s), s # <<>>
  PROVE  AheadIn(s, Len(s)-1) \cap Work(Last(s).rect) = {}
<1>0. /\ s \in Seq(Blocks) /\ Len(s) \in Nat \ {0} /\ Last(s) = s[Len(s)]
      /\ \A i \in 1 .. Len(s) : s[i] \in Blocks
  BY FrontLast, ElementOfSeq DEF StackOK
<1>1. SUFFICES ASSUME NEW i \in 1 .. Len(s)-1, NEW j \in 1 .. Len(s[i].missing)-1
               PROVE  Work(SubRect(s[i].rect, s[i].missing[j])) \cap Work(Last(s).rect) = {}
  BY DEF AheadIn, Unentered
<1> DEFINE b == s[i]
           q == Last(b.missing)
<1>2. /\ b \in Blocks /\ b.rect \in Rects /\ b.missing \in Seq(Subblock)
      /\ WellShaped(b.rect) /\ MissingOK(b) /\ b.missing # <<>>
      /\ Last(s).rect \in Rects
      /\ Inner(Last(s).rect, SubRect(b.rect, q))
  <2>1. i \in 1 .. Len(s) /\ Len(s) \in 1 .. Len(s)
    BY <1>0
  <2>2. WellShaped(b.rect) /\ MissingOK(b) /\ b.missing # <<>>
    BY <2>1 DEF StackOK, WellFormed
  <2>3. Inner(Last(s).rect, SubRect(b.rect, q))
    BY <1>0, <2>1 DEF StackOK, Nested
  <2>4. b \in Blocks /\ Last(s) \in Blocks
    BY <1>0, <2>1
  <2>5. QED  BY <2>2, <2>3, <2>4 DEF Blocks
<1> HIDE DEF b
<1>3. Len(b.missing) \in Nat \ {0} /\ q = b.missing[Len(b.missing)]
  BY <1>2, FrontLast
<1>4. j \in 1 .. Len(b.missing)-1
  BY DEF b
<1>5. b.missing[j] # q /\ IsSubblockOf(b.missing[j], b.rect) /\ IsSubblockOf(q, b.rect)
  BY <1>2, <1>3, <1>4 DEF MissingOK
<1>6. Work(SubRect(b.rect, b.missing[j])) \cap Work(SubRect(b.rect, q)) = {}
  BY <1>2, <1>5, SubRectDisjoint
<1>7. Work(Last(s).rect) \subseteq Work(SubRect(b.rect, q))
  BY <1>2, CurrentSubblock, InnerWork
<1>8. QED  BY <1>6, <1>7 DEF b

(* Popping keeps a stack well-formed and nested.                           *)
LEMMA PopOK ==
  ASSUME NEW s, StackOK(s), s # <<>>
  PROVE  StackOK(PopAndDrop(s))
<1> DEFINE t == PopAndDrop(s)
           m == Len(s)
<1>0. /\ s \in Seq(Blocks) /\ \A i \in 1 .. m : s[i] \in Blocks
  BY ElementOfSeq DEF StackOK
<1>1. m \in Nat \ {0} /\ (m > 1 => s[m-1].missing # <<>>)
  BY <1>0, EmptySeq DEF StackOK, WellFormed
<1>2. /\ t \in Seq(Blocks) /\ Len(t) = m-1
      /\ \A i \in 1 .. m-2 : t[i] = s[i]
      /\ m > 1 => t[m-1] = DropSubblock(s[m-1])
  BY <1>0, <1>1, PopFacts
<1>3. m > 1 => t[m-1].rect = s[m-1].rect /\ MissingOK(t[m-1])
  BY <1>0, <1>1, <1>2, DropFacts DEF StackOK, WellFormed
<1> HIDE DEF t, m
<1>4. \A k \in 1 .. m-1 : t[k].rect = s[k].rect /\ MissingOK(t[k])
  <2>1. \A k \in 1 .. m-2 : MissingOK(s[k])
    BY <1>1 DEF StackOK, WellFormed, m
  <2>2. SUFFICES ASSUME NEW k \in 1 .. m-1
                 PROVE  t[k].rect = s[k].rect /\ MissingOK(t[k])
    OBVIOUS
  <2>3. CASE k = m-1
    BY <1>1, <1>3, <2>3
  <2>4. CASE k \in 1 .. m-2
    BY <1>2, <2>1, <2>4
  <2>5. QED  BY <1>1, <2>3, <2>4
<1>5. WellFormed(t)
  BY <1>1, <1>2, <1>4 DEF StackOK, WellFormed, m
<1>6. Nested(t)
  <2> SUFFICES ASSUME NEW k \in 1 .. Len(t), NEW i \in 1 .. k-1
               PROVE  Inner(t[k].rect, SubRect(t[i].rect, Last(t[i].missing)))
    BY DEF Nested
  <2>1. k \in 1 .. Len(s) /\ k \in 1 .. m-1 /\ i \in 1 .. m-2
    BY <1>1, <1>2 DEF m
  <2>2. Inner(s[k].rect, SubRect(s[i].rect, Last(s[i].missing)))
    BY <2>1 DEF StackOK, Nested
  <2>3. QED  BY <1>2, <1>4, <2>1, <2>2
<1>7. QED  BY <1>2, <1>5, <1>6 DEF StackOK, t

(* Removing the innermost block does.                                      *)
LEMMA FrontOK ==
  ASSUME NEW s, StackOK(s), s # <<>>
  PROVE  StackOK(Front(s))
<1> DEFINE t == Front(s)
<1>1. /\ t \in Seq(Blocks) /\ Len(s) \in Nat \ {0} /\ Len(t) = Len(s)-1
      /\ \A i \in 1 .. Len(s)-1 : t[i] = s[i]
  BY FrontLast DEF StackOK
<1> HIDE DEF t
<1>2. WellFormed(t)
  BY <1>1 DEF StackOK, WellFormed
<1>3. Nested(t)
  <2> SUFFICES ASSUME NEW k \in 1 .. Len(t), NEW i \in 1 .. k-1
               PROVE  Inner(t[k].rect, SubRect(t[i].rect, Last(t[i].missing)))
    BY DEF Nested
  <2>1. k \in 1 .. Len(s) /\ t[k] = s[k] /\ t[i] = s[i]
    BY <1>1
  <2>2. QED  BY <2>1 DEF StackOK, Nested
<1>4. QED  BY <1>1, <1>2, <1>3 DEF StackOK, t

(* A stack may grow by a block inside the subblock its innermost block is  *)
(* at.                                                                     *)
LEMMA PushOK ==
  ASSUME NEW s, StackOK(s), NEW r \in Rects, WellShaped(r),
         s # <<>> => /\ Last(s).missing # <<>>
                     /\ Inner(r, SubRect(Last(s).rect, Last(Last(s).missing)))
  PROVE  StackOK(Append(s, PlanBlock(r)))
<1> DEFINE b == PlanBlock(r)
           t == Append(s, b)
           m == Len(s)
<1>1. b \in Blocks /\ b.rect = r /\ MissingOK(b)
  BY PlanBlockFacts
<1>2. s \in Seq(Blocks) /\ m \in Nat /\ \A i \in 1 .. m : s[i] \in Blocks
  BY ElementOfSeq, EmptySeq, LenProperties DEF StackOK
<1> HIDE DEF b
<1>3. /\ t \in Seq(Blocks) /\ Len(t) = m+1 /\ t[m+1] = b
      /\ \A i \in 1 .. m : t[i] = s[i]
  BY <1>1, <1>2
<1> HIDE DEF t
<1>4. s # <<>> => m > 0 /\ Last(s) = s[m]
  <2>1. s # <<>> => m \in Nat \ {0} /\ Last(s) = s[m]
    BY <1>2, FrontLast
  <2> HIDE DEF m
  <2>2. QED  BY <2>1
<1>5. m > 0 => s # <<>>
  BY EmptySeq
<1>6. \A i \in 1 .. m : /\ s[i].missing # <<>>
                        /\ Inner(r, SubRect(s[i].rect, Last(s[i].missing)))
  <2> SUFFICES ASSUME NEW i \in 1 .. m
               PROVE  /\ s[i].missing # <<>>
                      /\ Inner(r, SubRect(s[i].rect, Last(s[i].missing)))
    OBVIOUS
  <2>1. s # <<>> /\ m > 0 /\ s[m] = Last(s)
    BY <1>2, <1>4, <1>5
  <2>2. CASE i = m
    BY <2>1, <2>2
  <2>3. CASE i < m
    <3>1. s[i].missing # <<>> /\ Inner(s[m].rect, SubRect(s[i].rect, Last(s[i].missing)))
      BY <1>2, <2>1, <2>3 DEF StackOK, WellFormed, Nested
    <3>2. SubRect(s[i].rect, Last(s[i].missing)) \in Rects
      BY <1>2, <3>1, CurrentSubblock DEF StackOK, WellFormed
    <3>3. /\ s[m] \in Blocks /\ WellShaped(s[m].rect) /\ MissingOK(s[m])
          /\ s[m].missing # <<>> /\ s[m].rect \in Rects
      BY <1>2, <2>1 DEF StackOK, WellFormed, Blocks
    <3>4. /\ SubRect(s[m].rect, Last(s[m].missing)) \in Rects
          /\ Inner(SubRect(s[m].rect, Last(s[m].missing)), s[m].rect)
      BY <3>3, CurrentSubblock
    <3>5. Inner(r, s[m].rect)
      BY <2>1, <3>3, <3>4, InnerTrans
    <3>6. QED  BY <3>1, <3>2, <3>3, <3>5, InnerTrans
  <2>4. i = m \/ i < m
    BY <1>2
  <2>5. QED  BY <2>2, <2>3, <2>4
<1>7. WellFormed(t)
  BY <1>1, <1>2, <1>3, <1>6 DEF StackOK, WellFormed, m
<1>8. Nested(t)
  <2> SUFFICES ASSUME NEW k \in 1 .. Len(t), NEW i \in 1 .. k-1
               PROVE  Inner(t[k].rect, SubRect(t[i].rect, Last(t[i].missing)))
    BY DEF Nested
  <2> HIDE DEF m
  <2>1. i \in 1 .. m /\ (k = m+1 \/ k \in 1 .. m)
    BY <1>2, <1>3
  <2>2. CASE k = m+1
    BY <1>1, <1>3, <1>6, <2>1, <2>2
  <2>3. CASE k \in 1 .. m
    BY <1>3, <2>1, <2>3 DEF StackOK, Nested, m
  <2>4. QED  BY <2>1, <2>2, <2>3
<1>9. QED  BY <1>3, <1>7, <1>8 DEF StackOK, t, b

------------------------------------------------------------------------------
(* What entering, leaving and resuming do to the pairs left.               *)

(* Entering the next subblock keeps the stack in shape and the pairs left. *)
LEMMA EnterNext ==
  ASSUME NEW s, StackOK(s), s # <<>>, Last(s).missing # <<>>
  PROVE  LET t == Append(s, get_current_subblock(Last(s)))
             r == SubRect(Last(s).rect, Last(Last(s).missing))
         IN  /\ StackOK(t) /\ t # <<>> /\ Len(t) = Len(s)+1
             /\ t[Len(s)] = Last(s)
             /\ Last(t) = PlanBlock(r)
             /\ Last(t).rect = r /\ r \in Rects
             /\ Last(t).missing = AllSubblocks(r)
             /\ LeftOffered(t) = LeftPopping(s)
<1> DEFINE b == Last(s)
           r == SubRect(b.rect, Last(b.missing))
           t == Append(s, PlanBlock(r))
<1>1. s \in Seq(Blocks) /\ b \in Blocks /\ Len(s) \in Nat \ {0} /\ b = s[Len(s)]
  BY FrontLast DEF StackOK
<1>2. WellShaped(b.rect) /\ MissingOK(b) /\ b.missing # <<>>
  BY <1>1 DEF StackOK, WellFormed
<1>3. /\ r \in Rects /\ WellShaped(r) /\ Inner(r, b.rect)
      /\ get_current_subblock(b) = PlanBlock(r)
  BY <1>1, <1>2, CurrentSubblock
<1>4. Inner(r, r)
  BY <1>3, SizeAssumption DEF Inner, Rects
<1> HIDE DEF r
<1>5. /\ PlanBlock(r) \in Blocks /\ PlanBlock(r).rect = r
      /\ PlanBlock(r).missing = AllSubblocks(r)
  BY <1>3, PlanBlockFacts
<1>6. StackOK(t)
  BY <1>2, <1>3, <1>4, PushOK DEF r
<1>7. /\ t # <<>> /\ Len(t) = Len(s)+1 /\ Last(t) = PlanBlock(r)
      /\ t[Len(s)] = b
      /\ AheadIn(t, Len(s)) = AheadIn(s, Len(s)-1) \cup Unentered(b, Len(b.missing)-1)
  BY <1>1, <1>5, AheadAfterPush
<1>8. Unentered(b, Len(b.missing)) = Unentered(b, Len(b.missing)-1) \cup Work(r)
  BY <1>1, <1>2, UnenteredLast DEF r
<1> HIDE DEF b, t
<1>9. Len(t)-1 = Len(s)
  BY <1>1, <1>7
<1>10. LeftOffered(t) = AheadIn(t, Len(s)) \cup Work(r)
  BY <1>5, <1>7, <1>9 DEF LeftOffered
<1>11. LeftPopping(s) = AheadIn(s, Len(s)-1) \cup Unentered(b, Len(b.missing))
  BY DEF LeftPopping, b
<1>12. LeftOffered(t) = LeftPopping(s)
  BY <1>7, <1>8, <1>10, <1>11
<1>13. QED  BY <1>3, <1>5, <1>6, <1>7, <1>12 DEF t, r, b

(* The subblocks of a block nobody has entered add up to the block.        *)
LEMMA FreshUnentered ==
  ASSUME NEW b \in Blocks, WellShaped(b.rect), MissingOK(b), b.missing # <<>>,
         b.missing = AllSubblocks(b.rect)
  PROVE  Unentered(b, Len(b.missing)) = Work(b.rect)
<1>1. b.rect \in Rects
  BY DEF Blocks
<1>2. ASSUME NEW p \in Work(b.rect)
      PROVE  p \in Unentered(b, Len(b.missing))
  BY <1>1, <1>2, SubRectCover DEF Unentered
<1>3. ASSUME NEW j \in 1 .. Len(b.missing)
      PROVE  Work(SubRect(b.rect, b.missing[j])) \subseteq Work(b.rect)
  <2>1. IsSubblockOf(b.missing[j], b.rect)
    BY DEF MissingOK
  <2>2. QED  BY <1>1, <2>1, SubRectShape, InnerWork
<1>4. Unentered(b, Len(b.missing)) \subseteq Work(b.rect)
  BY <1>3 DEF Unentered
<1>5. QED  BY <1>2, <1>4

(* Once the innermost block is popped, what is left is what was ahead of   *)
(* it.                                                                     *)
LEMMA LeftAfterPop ==
  ASSUME NEW s, StackOK(s), s # <<>>
  PROVE  LeftPopping(PopAndDrop(s)) = AheadIn(s, Len(s)-1)
<1>1. s \in Seq(Blocks) /\ Len(s) \in Nat \ {0}
  BY EmptySeq DEF StackOK
<1>2. CASE Len(s) = 1
  <2>1. PopAndDrop(s) = <<>>
    BY <1>2 DEF PopAndDrop
  <2>2. AheadIn(s, 0) = {}
    BY DEF AheadIn
  <2>3. QED  BY <1>2, <2>1, <2>2 DEF LeftPopping
<1>3. CASE Len(s) > 1
  <2> DEFINE t == PopAndDrop(s)
  <2>1. s[Len(s)-1].missing # <<>>
    BY <1>1, <1>3 DEF StackOK, WellFormed
  <2>2. AheadIn(t, Len(t)-1) \cup Unentered(Last(t), Len(Last(t).missing))
          = AheadIn(s, Len(s)-1)
    BY <1>1, <1>3, <2>1, AheadAfterPop
  <2>3. t \in Seq(Blocks) /\ Len(t) = Len(s)-1
    BY <1>1, <2>1, PopFacts
  <2> HIDE DEF t
  <2>4. t # <<>>
    BY <1>1, <1>3, <2>3
  <2>5. QED  BY <2>2, <2>4 DEF LeftPopping, t
<1> DEFINE m == Len(s)
<1> HIDE DEF m
<1>4. m \in Nat \ {0} => m = 1 \/ m > 1
  OBVIOUS
<1>5. QED  BY <1>1, <1>2, <1>3, <1>4 DEF m

(* Resuming after the loops keeps the pairs left.                          *)
LEMMA ResumedOK ==
  ASSUME NEW s, StackOK(s), s # <<>> /\ Finished(Last(s)) => Len(s) = 1
  PROVE  LET t == Resumed(s)
         IN  /\ StackOK(t)
             /\ t # <<>> => Last(t).missing = AllSubblocks(Last(t).rect)
             /\ LeftOffered(t) = LeftPopping(s)
<1>1. CASE s = <<>>
  BY <1>1 DEF Resumed, LeftOffered, LeftPopping
<1>2. CASE s # <<>> /\ Finished(Last(s))
  <2>1. Resumed(s) = Front(s) /\ Len(s) = 1
    BY <1>2 DEF Resumed
  <2>2. StackOK(Front(s))
    BY <1>2, FrontOK
  <2>3. Front(s) \in Seq(Blocks) /\ Len(Front(s)) = 0
    BY <1>2, <2>1, FrontLast DEF StackOK
  <2>4. Front(s) = <<>>
    BY <2>3, EmptySeq
  <2>5. AheadIn(s, 0) = {} /\ Unentered(Last(s), 0) = {}
    BY DEF AheadIn, Unentered
  <2>6. Len(Last(s).missing) = 0
    BY <1>2 DEF Finished
  <2>7. LeftPopping(s) = {}
    BY <1>2, <2>1, <2>5, <2>6 DEF LeftPopping
  <2>8. LeftOffered(Front(s)) = {}
    BY <2>4 DEF LeftOffered
  <2>9. QED  BY <2>1, <2>2, <2>4, <2>7, <2>8
<1>3. CASE s # <<>> /\ ~Finished(Last(s))
  <2>1. Resumed(s) = Append(s, get_current_subblock(Last(s)))
    BY <1>3 DEF Resumed
  <2>2. Last(s).missing # <<>>
    BY <1>3 DEF Finished
  <2>3. QED  BY <1>3, <2>1, <2>2, EnterNext
<1>4. QED  BY <1>1, <1>2, <1>3

------------------------------------------------------------------------------
(* The invariant.                                                          *)

(* The invariant speaks of the stack.                                      *)
LEMMA StackIsOK == IInv => StackOK(nested_blocks)
  BY DEF IInv, TypeOK, Shape, StackOK

(* The block get_block returns, in a state of the invariant.               *)
LEMMA InnermostFacts ==
  ASSUME IInv, ~is_finished
  PROVE  /\ nested_blocks # <<>> /\ Len(nested_blocks) \in Nat \ {0}
         /\ Last(nested_blocks) = nested_blocks[Len(nested_blocks)]
         /\ Last(nested_blocks) \in Blocks
         /\ get_block = Last(nested_blocks).rect
         /\ get_block \in Rects
         /\ WellShaped(get_block) /\ MissingOK(Last(nested_blocks))
<1>1. nested_blocks # <<>> /\ nested_blocks \in Seq(Blocks)
  BY DEF is_finished, IInv, TypeOK
<1>2. /\ Len(nested_blocks) \in Nat \ {0}
      /\ Last(nested_blocks) = nested_blocks[Len(nested_blocks)]
      /\ Last(nested_blocks) \in Blocks
  BY <1>1, FrontLast
<1>3. WellShaped(Last(nested_blocks).rect) /\ MissingOK(Last(nested_blocks))
  BY <1>2 DEF IInv, Shape, WellFormed
<1>4. QED  BY <1>1, <1>2, <1>3 DEF get_block, Blocks

(* The pairs of a block are candidate pairs.                               *)
LEMMA WorkInTotal == \A r : Work(r) \subseteq Total
  BY DEF Work

(* The scheduler starts with the whole matrix as its one block.            *)
LEMMA InitIInv == Init => IInv
<1> SUFFICES ASSUME Init PROVE IInv
  OBVIOUS
<1> DEFINE r == Rect(0, 0, N, N)
           s == <<PlanBlock(r)>>
<1>1. N \in Nat \ {0} /\ r \in Rects /\ WellShaped(r)
  BY SizeAssumption DEF Rect, Rects, WellShaped
<1>2. nested_blocks = s /\ pc = "idle" /\ last = NoArguments /\ done = {}
  BY DEF Init
<1>3. PlanBlock(r) \in Blocks /\ PlanBlock(r).rect = r /\ MissingOK(PlanBlock(r))
      /\ PlanBlock(r).missing = AllSubblocks(r)
  BY <1>1, PlanBlockFacts
<1> DEFINE b == PlanBlock(r)
<1> HIDE DEF b, r
<1>4. <<b>> \in Seq(Blocks) /\ Len(<<b>>) = 1 /\ <<b>>[1] = b /\ <<b>> # <<>>
  BY <1>3 DEF b
<1>5. Last(<<b>>) = b
  BY <1>4, FrontLast
<1>6. TypeOK
  BY <1>1, <1>2, <1>4 DEF TypeOK, NoArguments, b
<1>7. Shape
  BY <1>1, <1>2, <1>3, <1>4, <1>5
  DEF Shape, WellFormed, Nested, is_finished, get_block, b
<1>8. AheadIn(<<b>>, 0) = {}
  BY DEF AheadIn
<1>9. Work(r) = Total
  BY <1>1 DEF Work, Covers, Rect, Total, r
<1>10. LeftOffered(<<b>>) = Total
  BY <1>3, <1>4, <1>5, <1>8, <1>9 DEF LeftOffered, b
<1>11. PlanIsExact
  BY <1>2, <1>10 DEF PlanIsExact, Pending, b
<1>12. QED  BY <1>6, <1>7, <1>11 DEF IInv

(* Handing out the innermost block leaves what lies ahead of it.           *)
LEMMA RetireInnermost ==
  ASSUME IInv, ~is_finished, pc # "popping"
  PROVE  LET s == nested_blocks
         IN  Total \ (done \cup Work(get_block)) = AheadIn(s, Len(s)-1)
<1> DEFINE s == nested_blocks
<1>1. Total \ done = AheadIn(s, Len(s)-1) \cup Work(get_block)
  BY InnermostFacts DEF IInv, PlanIsExact, Pending, LeftOffered
<1>2. AheadIn(s, Len(s)-1) \cap Work(get_block) = {}
  BY InnermostFacts, StackIsOK, AheadDisjoint
<1> HIDE DEF s
<1>3. QED  BY <1>1, <1>2 DEF s

(* Case 1: the innermost block goes, and its pairs with it.                *)
LEMMA CompleteStep ==
  ASSUME IInv, NEW lx, NEW ly, AdvanceComplete(lx, ly)
  PROVE  IInv'
<1> DEFINE s == nested_blocks
           t == PopAndDrop(s)
<1>1. /\ pc = "idle" /\ ~is_finished /\ done' = done \cup Work(get_block)
      /\ nested_blocks' = t /\ pc' = "popping" /\ last' = last
  BY DEF AdvanceComplete
<1>2. StackOK(s) /\ s # <<>>
  BY <1>1, StackIsOK, InnermostFacts
<1>3. StackOK(t) /\ LeftPopping(t) = AheadIn(s, Len(s)-1)
  BY <1>2, PopOK, LeftAfterPop
<1>4. Total \ done' = AheadIn(s, Len(s)-1)
  BY <1>1, RetireInnermost
<1> HIDE DEF s, t
<1>5. TypeOK'
  BY <1>1, <1>3, WorkInTotal DEF IInv, TypeOK, StackOK
<1>6. Shape'
  BY <1>1, <1>3 DEF Shape, StackOK
<1>7. PlanIsExact'
  BY <1>1, <1>3, <1>4 DEF PlanIsExact, Pending
<1>8. QED  BY <1>5, <1>6, <1>7 DEF IInv

(* A finished ancestor has no pairs left to lose.                          *)
LEMMA PopFinishedStep ==
  ASSUME IInv, PopFinished
  PROVE  IInv'
<1> DEFINE s == nested_blocks
           t == PopAndDrop(s)
<1>1. /\ pc = "popping" /\ Len(s) > 1 /\ Finished(Last(s))
      /\ nested_blocks' = t /\ pc' = pc /\ last' = last /\ done' = done
  BY DEF PopFinished
<1>2. StackOK(s) /\ s # <<>>
  BY <1>1, StackIsOK DEF is_finished
<1>3. StackOK(t) /\ LeftPopping(t) = AheadIn(s, Len(s)-1)
  BY <1>2, PopOK, LeftAfterPop
<1>4. Len(Last(s).missing) = 0 /\ Unentered(Last(s), 0) = {}
  BY <1>1 DEF Finished, Unentered
<1>5. LeftPopping(s) = AheadIn(s, Len(s)-1)
  BY <1>2, <1>4 DEF LeftPopping
<1> HIDE DEF t
<1>6. TypeOK'
  BY <1>1, <1>3 DEF IInv, TypeOK, StackOK
<1>7. Shape'
  BY <1>1, <1>3 DEF Shape, StackOK
<1>8. PlanIsExact'
  BY <1>1, <1>3, <1>5 DEF IInv, PlanIsExact, Pending
<1>9. QED  BY <1>6, <1>7, <1>8 DEF IInv

(* A step that leaves the scheduler idle with a resumed stack.             *)
LEMMA IdleAgain ==
  ASSUME IInv, NEW t, StackOK(t), nested_blocks' = t, pc' = "idle",
         last' \in [x : 0 .. N, y : 0 .. N], done' \subseteq Total,
         t # <<>> => Last(t).missing = AllSubblocks(Last(t).rect),
         LeftOffered(t) = Total \ done'
  PROVE  IInv'
<1>1. TypeOK'
  BY DEF TypeOK, StackOK
<1>2. Shape'
  BY DEF Shape, StackOK, is_finished, get_block
<1>3. PlanIsExact'
  BY DEF PlanIsExact, Pending
<1>4. QED  BY <1>1, <1>2, <1>3 DEF IInv

(* The loop of case 1 ends in a subblock nobody has entered.               *)
LEMMA PopStopStep ==
  ASSUME IInv, PopStop
  PROVE  IInv'
<1> DEFINE s == nested_blocks
           t == Resumed(s)
<1>1. /\ pc = "popping" /\ ~(Len(s) > 1 /\ Finished(Last(s)))
      /\ nested_blocks' = t /\ pc' = "idle" /\ last' = last /\ done' = done
  BY DEF PopStop
<1>2. StackOK(s)
  BY StackIsOK
<1>3. s # <<>> => Len(s) \in Nat \ {0}
  BY <1>2, EmptySeq DEF StackOK
<1> DEFINE m == Len(s)
<1> HIDE DEF m
<1>4. m \in Nat \ {0} /\ ~(m > 1) => m = 1
  OBVIOUS
<1>5. s # <<>> /\ Finished(Last(s)) => Len(s) = 1
  BY <1>1, <1>3, <1>4 DEF m
<1>6. /\ StackOK(t) /\ LeftOffered(t) = LeftPopping(s)
      /\ t # <<>> => Last(t).missing = AllSubblocks(Last(t).rect)
  BY <1>2, <1>5, ResumedOK
<1>7. LeftOffered(t) = Total \ done' /\ done' \subseteq Total
      /\ last' \in [x : 0 .. N, y : 0 .. N]
  BY <1>1, <1>6 DEF IInv, PlanIsExact, Pending, TypeOK
<1> HIDE DEF t
<1>8. QED  BY <1>1, <1>6, <1>7, IdleAgain

(* The strip that case 2 leaves is a block again.                          *)
LEMMA StripFacts ==
  ASSUME IInv, ~is_finished, pc = "idle",
         NEW lx, NEW ly, Reportable(get_block, lx, ly),
         (lx = get_block.ex) # (ly = get_block.ey)
  PROVE  LET r == Strip(get_block, lx, ly)
         IN  /\ r \in Rects /\ WellShaped(r) /\ Inner(r, get_block)
<1> DEFINE g == get_block
           r == Strip(g, lx, ly)
<1>1. g \in Rects /\ WellShaped(g)
  BY InnermostFacts
<1>2. Reportable(g, lx, ly) /\ (lx = g.ex) # (ly = g.ey)
  OBVIOUS
<1> HIDE DEF g
<1>3. N \in Nat /\ g.sx \in 0..N /\ g.ex \in 0..N /\ g.sy \in 0..N /\ g.ey \in 0..N
  BY <1>1, SizeAssumption DEF Rects
<1>4. lx \in g.sx+1 .. g.ex /\ ly \in g.sy+1 .. g.ey /\ (g.sx = g.sy => lx = ly)
  BY <1>2 DEF Reportable, self_join
<1>5. g.ey <= g.sx /\ g.sx < g.ex /\ g.sy < g.ey
  BY <1>1, <1>2, <1>4 DEF WellShaped
<1>6. CASE lx = g.ex
  <2>1. r = [sx |-> g.sx, sy |-> ly, ex |-> g.ex, ey |-> g.ey] /\ ly # g.ey
    BY <1>2, <1>6 DEF Strip, Rect
  <2> HIDE DEF r
  <2>2. QED  BY <1>3, <1>4, <1>5, <2>1 DEF Rects, WellShaped, Inner, r, g
<1>7. CASE lx # g.ex
  <2>1. r = [sx |-> lx, sy |-> g.sy, ex |-> g.ex, ey |-> g.ey]
    BY <1>7 DEF Strip, Rect
  <2> HIDE DEF r
  <2>2. QED  BY <1>3, <1>4, <1>5, <1>7, <2>1 DEF Rects, WellShaped, Inner, r, g
<1>8. QED  BY <1>6, <1>7

(* What was reported is the block without the strip.                       *)
LEMMA StripRest ==
  ASSUME IInv, ~is_finished, pc = "idle",
         NEW lx, NEW ly, Reportable(get_block, lx, ly),
         (lx = get_block.ex) # (ly = get_block.ey)
  PROVE  Work(Rect(get_block.sx, get_block.sy, lx, ly)) =
           Work(get_block) \ Work(Strip(get_block, lx, ly))
<1> DEFINE g == get_block
           r == Strip(g, lx, ly)
           q == Rect(g.sx, g.sy, lx, ly)
<1>1. g \in Rects /\ Reportable(g, lx, ly) /\ (lx = g.ex) # (ly = g.ey)
  BY InnermostFacts
<1>2. q = [sx |-> g.sx, sy |-> g.sy, ex |-> lx, ey |-> ly]
  BY DEF Rect
<1> HIDE DEF g
<1>3. /\ N \in Nat /\ g.sx \in 0..N /\ g.ex \in 0..N /\ g.sy \in 0..N /\ g.ey \in 0..N
      /\ lx \in g.sx+1 .. g.ex /\ ly \in g.sy+1 .. g.ey
  BY <1>1, SizeAssumption DEF Rects, Reportable
<1>4. r = IF g.ex = lx THEN [sx |-> g.sx, sy |-> ly, ex |-> g.ex, ey |-> g.ey]
                       ELSE [sx |-> lx, sy |-> g.sy, ex |-> g.ex, ey |-> g.ey]
  BY DEF Strip, Rect
<1> HIDE DEF q, r
<1>5. ASSUME NEW x \in Int, NEW y \in Int
      PROVE  Covers(q, x, y) <=> Covers(g, x, y) /\ ~Covers(r, x, y)
  <2>1. CASE g.ex = lx
    BY <1>1, <1>2, <1>3, <1>4, <2>1 DEF Covers
  <2>2. CASE g.ex # lx
    BY <1>1, <1>2, <1>3, <1>4, <2>2 DEF Covers
  <2>3. QED  BY <2>1, <2>2
<1>6. \A p \in Total : p[1] \in Int /\ p[2] \in Int
  BY SizeAssumption DEF Total
<1>7. Work(q) = Work(g) \ Work(r)
  BY <1>5, <1>6 DEF Work
<1>8. QED  BY <1>7 DEF g, q, r

(* Case 2: what is dropped is the block without the strip.                 *)
LEMMA StripStep ==
  ASSUME IInv, NEW lx, NEW ly, ~is_finished, Reportable(get_block, lx, ly),
         AdvanceStrip(lx, ly)
  PROVE  IInv'
<1> DEFINE s == nested_blocks
           r == Strip(get_block, lx, ly)
           f == Front(s)
           b == PlanBlock(r)
           t == Append(f, b)
<1>1. /\ pc = "idle" /\ (lx = get_block.ex) # (ly = get_block.ey)
      /\ done' = done \cup (Work(get_block) \ Work(r))
      /\ nested_blocks' = t /\ pc' = pc /\ last' = last
  BY StripRest DEF AdvanceStrip
<1>2. /\ StackOK(s) /\ s # <<>> /\ s \in Seq(Blocks) /\ Len(s) \in Nat \ {0}
      /\ Last(s) = s[Len(s)] /\ Last(s).rect = get_block /\ get_block \in Rects
  BY StackIsOK, InnermostFacts DEF StackOK
<1>3. r \in Rects /\ WellShaped(r) /\ Inner(r, get_block)
  BY <1>1, StripFacts
<1>4. /\ StackOK(f) /\ Len(f) = Len(s)-1 /\ f \in Seq(Blocks)
      /\ \A i \in 1 .. Len(s)-1 : f[i] = s[i]
  BY <1>2, FrontOK, FrontLast
<1>5. b \in Blocks /\ b.rect = r /\ b.missing = AllSubblocks(r)
  BY <1>3, PlanBlockFacts
<1> HIDE DEF f, r, s
<1>6. f # <<>> => /\ Last(f).missing # <<>>
                  /\ Inner(r, SubRect(Last(f).rect, Last(Last(f).missing)))
  <2> SUFFICES ASSUME f # <<>>
               PROVE  /\ Last(f).missing # <<>>
                      /\ Inner(r, SubRect(Last(f).rect, Last(Last(f).missing)))
    OBVIOUS
  <2> DEFINE k == Len(s)-1
             a == s[k]
  <2>1. k \in 1 .. Len(s)-1 /\ k \in 1 .. Len(s) /\ Len(f) = k
    BY <1>2, <1>4, EmptySeq
  <2>2. Last(f) = a
    BY <1>4, <2>1, FrontLast
  <2>3. /\ a \in Blocks /\ WellShaped(a.rect) /\ MissingOK(a) /\ a.missing # <<>>
    BY <1>2, <2>1, ElementOfSeq DEF StackOK, WellFormed
  <2>4. Inner(get_block, SubRect(a.rect, Last(a.missing)))
    BY <1>2, <2>1 DEF StackOK, Nested
  <2>5. SubRect(a.rect, Last(a.missing)) \in Rects
    BY <2>3, CurrentSubblock
  <2> HIDE DEF a
  <2>6. Inner(r, SubRect(a.rect, Last(a.missing)))
    BY <1>2, <1>3, <2>4, <2>5, InnerTrans
  <2>7. QED  BY <2>2, <2>3, <2>6
<1>7. StackOK(t)
  BY <1>3, <1>4, <1>6, PushOK
<1> HIDE DEF b
<1>8. /\ t \in Seq(Blocks) /\ Len(t) = Len(s) /\ t[Len(s)] = b
      /\ \A i \in 1 .. Len(s)-1 : t[i] = s[i]
  BY <1>2, <1>4, <1>5
<1> HIDE DEF t
<1>9. t # <<>>
  BY <1>2, <1>8
<1>10. Last(t) = b
  BY <1>8, <1>9, FrontLast
<1>11. AheadIn(t, Len(s)-1) = AheadIn(s, Len(s)-1)
  BY <1>8 DEF AheadIn
<1>12. LeftOffered(t) = AheadIn(s, Len(s)-1) \cup Work(r)
  BY <1>5, <1>8, <1>9, <1>10, <1>11 DEF LeftOffered
<1>13. /\ Total \ done = AheadIn(s, Len(s)-1) \cup Work(get_block)
  BY <1>1, <1>2 DEF IInv, PlanIsExact, Pending, LeftOffered, s
<1>14. AheadIn(s, Len(s)-1) \cap Work(get_block) = {}
  BY <1>2, AheadDisjoint
<1>15. Work(r) \subseteq Work(get_block)
  BY <1>2, <1>3, InnerWork
<1>16. LeftOffered(t) = Total \ done'
  BY <1>1, <1>12, <1>13, <1>14, <1>15
<1>17. done' \subseteq Total /\ last' \in [x : 0 .. N, y : 0 .. N] /\ pc' = "idle"
  BY <1>1, WorkInTotal DEF IInv, TypeOK
<1>18. t # <<>> => Last(t).missing = AllSubblocks(Last(t).rect)
  BY <1>5, <1>10
<1>19. nested_blocks' = t
  BY <1>1
<1>20. QED  BY <1>7, <1>16, <1>17, <1>18, <1>19, IdleAgain

(* A block that is split in both directions is entered at its upper left   *)
(* subblock, and has others.                                               *)
LEMMA UpperLeftFirst ==
  ASSUME NEW r, r.ex - r.sx > ALIGNMENT, r.ey - r.sy > ALIGNMENT
  PROVE  LET m == AllSubblocks(r)
         IN  Len(m) > 1 /\ m # <<>> /\ Last(m) = "UL"
<1> DEFINE m == AllSubblocks(r)
<1>1. m = <<"LR", "UR", "UL">> \/ m = <<"LR", "LL", "UR", "UL">>
  BY DEF AllSubblocks
<1> HIDE DEF m
<1>2. Len(m) \in {3, 4} /\ m[Len(m)] = "UL"
  <2>1. CASE m = <<"LR", "UR", "UL">>
    BY <2>1
  <2>2. CASE m = <<"LR", "LL", "UR", "UL">>
    BY <2>2
  <2>3. QED  BY <1>1, <2>1, <2>2
<1>3. Last(m) = "UL"
  BY <1>2 DEF Last
<1>4. Len(<<>>) = 0 /\ 0 \notin {3, 4}
  OBVIOUS
<1>5. m # <<>>
  BY <1>2, <1>4, Zenon
<1> DEFINE n == Len(m)
<1> HIDE DEF n
<1>6. n \in {3, 4} => n > 1
  OBVIOUS
<1>7. QED  BY <1>2, <1>3, <1>5, <1>6 DEF m, n

(* Entering the first subblock of an untouched block that is split in both *)
(* directions.                                                             *)
LEMMA EnterFirst ==
  ASSUME IInv, ~is_finished, pc # "popping",
         NEW lx \in 0 .. N, NEW ly \in 0 .. N,
         lx >= get_block.sx + ALIGNMENT, lx < get_block.ex,
         ly >= get_block.sy + ALIGNMENT, ly < get_block.ey,
         EnterSubblock, pc' = "descending", last' = [x |-> lx, y |-> ly],
         done' = done
  PROVE  IInv'
<1> DEFINE s == nested_blocks
           b == Last(s)
           g == get_block
           t == Append(s, get_current_subblock(b))
           r == SubRect(b.rect, Last(b.missing))
<1>1. /\ StackOK(s) /\ s # <<>> /\ b \in Blocks /\ b.rect = g /\ g \in Rects
      /\ WellShaped(b.rect) /\ MissingOK(b) /\ b.missing = AllSubblocks(g)
      /\ Len(s) \in Nat \ {0}
  BY StackIsOK, InnermostFacts DEF IInv, Shape
<1>2. nested_blocks' = t
  BY DEF EnterSubblock
<1>3. g.sx \in Int /\ g.sy \in Int /\ g.ex \in Int /\ g.ey \in Int
  BY <1>1, SizeAssumption DEF Rects
<1>4. g.ex - g.sx > ALIGNMENT /\ g.ey - g.sy > ALIGNMENT
  BY <1>3, AlignmentAssumption, SizeAssumption
<1>6. Len(b.missing) > 1 /\ b.missing # <<>> /\ Last(b.missing) = "UL"
  BY <1>1, <1>4, UpperLeftFirst
<1>7. /\ StackOK(t) /\ t # <<>> /\ Len(t) = Len(s)+1 /\ t[Len(s)] = b
      /\ Last(t).rect = r /\ Last(t).missing = AllSubblocks(r)
      /\ LeftOffered(t) = LeftPopping(s)
  BY <1>1, <1>6, EnterNext
<1>8. r.sx = g.sx /\ r.sy = g.sy
  BY <1>1, <1>6 DEF SubRect
<1>9. LeftPopping(s) = LeftOffered(s)
  BY <1>1, <1>6, FreshUnentered DEF LeftPopping, LeftOffered
<1> HIDE DEF s, b, g, t, r
<1>10. TypeOK'
  BY <1>2, <1>7 DEF IInv, TypeOK, StackOK
<1>11. Len(t)-1 = Len(s) /\ Len(t) > 1
  BY <1>1, <1>7
<1>12. Shape'
  BY <1>2, <1>6, <1>7, <1>8, <1>11 DEF Shape, StackOK, is_finished, get_block, g
<1>13. Pending = LeftOffered(s)
  BY DEF Pending, s
<1>14. PlanIsExact'
  BY <1>2, <1>7, <1>9, <1>13 DEF IInv, PlanIsExact, Pending
<1>15. QED  BY <1>10, <1>12, <1>14 DEF IInv

(* Case 3 enters a first subblock, and drops nothing yet.                  *)
LEMMA PartialStep ==
  ASSUME IInv, NEW lx, NEW ly, ~is_finished, Reportable(get_block, lx, ly),
         AdvancePartial(lx, ly)
  PROVE  IInv'
<1>1. /\ pc = "idle" /\ lx # get_block.ex /\ ly # get_block.ey
      /\ EnterSubblock /\ pc' = "descending" /\ last' = [x |-> lx, y |-> ly]
      /\ done' = done
  BY DEF AdvancePartial
<1>2. get_block \in Rects
  BY InnermostFacts
<1>3. /\ lx \in 0 .. N /\ lx < get_block.ex /\ lx >= get_block.sx + ALIGNMENT
      /\ ly \in 0 .. N /\ ly < get_block.ey /\ ly >= get_block.sy + ALIGNMENT
  BY <1>1, <1>2, SizeAssumption DEF Reportable, Rects
<1>4. QED  BY <1>1, <1>3, EnterFirst

(* So does every further iteration of its loop.                            *)
LEMMA DescendStep ==
  ASSUME IInv, Descend
  PROVE  IInv'
<1>1. /\ pc = "descending" /\ get_block.ex > last.x /\ get_block.ey > last.y
      /\ EnterSubblock /\ pc' = pc /\ last' = last /\ done' = done
  BY DEF Descend, Inside
<1>2. ~is_finished
  BY <1>1, EmptySeq DEF IInv, Shape, is_finished
<1>3. get_block \in Rects
  BY <1>2, InnermostFacts
<1> DEFINE lx == last.x
           ly == last.y
<1>4. lx \in 0 .. N /\ ly \in 0 .. N /\ last = [x |-> lx, y |-> ly]
  BY DEF IInv, TypeOK
<1>5. lx >= get_block.sx + ALIGNMENT /\ ly >= get_block.sy + ALIGNMENT
  BY <1>1 DEF IInv, Shape
<1> HIDE DEF lx, ly
<1>6. lx < get_block.ex /\ ly < get_block.ey
  BY <1>1, <1>3, <1>4, SizeAssumption DEF Rects, lx, ly
<1>7. last' = [x |-> lx, y |-> ly] /\ pc' = "descending"
  BY <1>1, <1>4
<1>8. QED  BY <1>1, <1>2, <1>4, <1>5, <1>6, <1>7, EnterFirst

(* The loop of case 3 ends with one block dropped.                         *)
LEMMA DescendStopStep ==
  ASSUME IInv, DescendStop
  PROVE  IInv'
<1> DEFINE s == nested_blocks
           u == PopAndDrop(s)
           t == Resumed(u)
<1>1. /\ pc = "descending" /\ done' = done \cup Work(get_block)
      /\ nested_blocks' = t /\ pc' = "idle" /\ last' = NoArguments
  BY DEF DescendStop
<1>2. ~is_finished /\ Len(s) > 1 /\ Len(s[Len(s)-1].missing) > 1
  BY <1>1, EmptySeq DEF IInv, Shape, is_finished
<1>3. StackOK(s) /\ s # <<>> /\ s \in Seq(Blocks) /\ Len(s) \in Nat \ {0}
  BY <1>2, StackIsOK, InnermostFacts DEF StackOK
<1>4. StackOK(u) /\ LeftPopping(u) = AheadIn(s, Len(s)-1)
  BY <1>3, PopOK, LeftAfterPop
<1>5. u # <<>> => ~Finished(Last(u))
  <2> DEFINE a == s[Len(s)-1]
  <2>1. a \in Blocks /\ a.missing # <<>>
    <3>1. Len(s)-1 \in 1 .. Len(s) /\ Len(s)-1 \in 1 .. Len(s)-1
      BY <1>2, <1>3
    <3>2. QED  BY <1>3, <3>1, ElementOfSeq DEF StackOK, WellFormed
  <2>2. /\ Len(DropSubblock(a).missing) = Len(a.missing)-1
        /\ Len(a.missing) \in Nat
    BY <2>1, DropFacts
  <2>3. /\ u \in Seq(Blocks) /\ Len(u) = Len(s)-1 /\ u[Len(s)-1] = DropSubblock(a)
    BY <1>2, <1>3, <2>1, PopFacts
  <2> HIDE DEF u
  <2>4. u # <<>> => Last(u) = DropSubblock(a)
    BY <2>3, FrontLast
  <2>5. Len(DropSubblock(a).missing) > 0
    BY <1>2, <2>2
  <2>6. DropSubblock(a).missing # <<>>
    BY <2>5
  <2>7. QED  BY <2>4, <2>6 DEF Finished
<1>6. /\ StackOK(t) /\ LeftOffered(t) = LeftPopping(u)
      /\ t # <<>> => Last(t).missing = AllSubblocks(Last(t).rect)
  BY <1>4, <1>5, ResumedOK
<1>7. Total \ done' = AheadIn(s, Len(s)-1)
  BY <1>1, <1>2, RetireInnermost
<1>8. done' \subseteq Total /\ last' \in [x : 0 .. N, y : 0 .. N]
  BY <1>1, WorkInTotal, SizeAssumption DEF IInv, TypeOK, NoArguments
<1> HIDE DEF t, u
<1>9. QED  BY <1>1, <1>4, <1>6, <1>7, <1>8, IdleAgain

(* Every step keeps the invariant.                                         *)
LEMMA NextIInv == IInv /\ [Next]_schedVars => IInv'
<1> SUFFICES ASSUME IInv, [Next]_schedVars PROVE IInv'
  OBVIOUS
<1>1. ASSUME NEW lx, NEW ly, ~is_finished, Reportable(get_block, lx, ly),
             advance_block(lx, ly)
      PROVE  IInv'
  BY <1>1, CompleteStep, StripStep, PartialStep DEF advance_block
<1>2. CASE AdvanceLoop
  BY <1>2, PopFinishedStep, PopStopStep, DescendStep, DescendStopStep DEF AdvanceLoop
<1>3. CASE UNCHANGED schedVars
  <2>1. /\ nested_blocks' = nested_blocks /\ pc' = pc /\ last' = last
        /\ done' = done
    BY <1>3 DEF schedVars
  <2>2. TypeOK'
    BY <2>1 DEF IInv, TypeOK
  <2>3. Shape'
    BY <2>1 DEF IInv, Shape, is_finished, get_block
  <2>4. PlanIsExact'
    BY <2>1 DEF IInv, PlanIsExact, Pending
  <2>5. QED  BY <2>2, <2>3, <2>4 DEF IInv
<1>4. QED  BY <1>1, <1>2, <1>3 DEF Next

(* The inductive invariant holds in every reachable state, for every       *)
(* number of records and every alignment.                                  *)
THEOREM Exactness == Spec => []IInv
<1>1. QED  BY InitIInv, NextIInv, PTL DEF Spec

(* Whatever a caller reports, each advance_block drops the one block it    *)
(* drops and keeps every other pair in the plan exactly once.              *)
THEOREM PlanAlwaysExact == Spec => []PlanIsExact
<1>1. IInv => PlanIsExact
  BY DEF IInv
<1>2. QED  BY <1>1, Exactness, PTL

(* The stack holds blocks of the matrix and known subblocks, and the       *)
(* reported progress lies in the matrix.                                   *)
THEOREM TypeCorrect == Spec => []TypeOK
<1>1. IInv => TypeOK
  BY DEF IInv
<1>2. QED  BY <1>1, Exactness, PTL

(* is_finished() says so only when every candidate pair has left the plan. *)
THEOREM FinishedMeansAll ==
  ASSUME IInv, is_finished
  PROVE  done = Total
<1>1. Pending = {}
  BY DEF Pending, LeftPopping, LeftOffered, is_finished
<1>2. QED  BY <1>1 DEF IInv, PlanIsExact, TypeOK

(* The subblock a descent enters starts where its parent does.             *)
LEMMA EnteredStart ==
  ASSUME IInv, ~is_finished, pc # "popping", EnterSubblock,
         get_block.ex - get_block.sx > ALIGNMENT,
         get_block.ey - get_block.sy > ALIGNMENT
  PROVE  get_block'.sx = get_block.sx /\ get_block'.sy = get_block.sy
<1> DEFINE s == nested_blocks
           b == Last(s)
           r == SubRect(b.rect, "UL")
<1>1. /\ s \in Seq(Blocks) /\ s # <<>> /\ b \in Blocks /\ b.rect = get_block
      /\ WellShaped(b.rect) /\ MissingOK(b) /\ b.missing = AllSubblocks(get_block)
  BY InnermostFacts DEF IInv, TypeOK, Shape
<1>2. b.missing # <<>> /\ Last(b.missing) = "UL"
  BY <1>1, UpperLeftFirst
<1>3. r \in Rects /\ get_current_subblock(b) = PlanBlock(r)
  BY <1>1, <1>2, CurrentSubblock
<1>4. PlanBlock(r) \in Blocks /\ PlanBlock(r).rect = r
  BY <1>3, PlanBlockFacts
<1>5. nested_blocks' = Append(s, PlanBlock(r))
  BY <1>3 DEF EnterSubblock
<1>6. Last(nested_blocks') = PlanBlock(r)
  BY <1>1, <1>4, <1>5, AheadAfterPush
<1>7. get_block' = r
  BY <1>4, <1>6 DEF get_block
<1>8. r.sx = get_block.sx /\ r.sy = get_block.sy
  BY <1>1 DEF SubRect
<1>9. QED  BY <1>7, <1>8

(* During a descent on the diagonal the reported ends are equal.           *)
EqualEnds == pc = "descending" /\ self_join(get_block) => last.x = last.y

(* Diagonal blocks are squares, so equal ends are all there is to show.    *)
LEMMA EqualEndsSuffice == IInv /\ EqualEnds => DiagonalDescent
<1> SUFFICES ASSUME IInv, EqualEnds, pc = "descending", self_join(get_block)
             PROVE  /\ last.x = last.y
                    /\ ~Inside => get_block.ex <= last.x /\ get_block.ey <= last.y
  BY DEF DiagonalDescent
<1>1. last.x = last.y
  BY DEF EqualEnds
<1>2. ~is_finished
  BY EmptySeq DEF IInv, Shape, is_finished
<1>3. get_block \in Rects /\ WellShaped(get_block)
  BY <1>2, InnermostFacts
<1>4. get_block.ex \in 0 .. N /\ get_block.ex = get_block.ey
  BY <1>3, SizeAssumption DEF self_join, WellShaped, Rects
<1>5. last.x \in 0 .. N
  BY DEF IInv, TypeOK
<1>6. QED  BY <1>1, <1>4, <1>5, SizeAssumption DEF Inside

(* A descent keeps to the diagonal, or to the blocks off it.               *)
LEMMA EqualEndsStep ==
  ASSUME IInv, EqualEnds, [Next]_schedVars
  PROVE  EqualEnds'
<1>1. ASSUME NEW lx, NEW ly, ~is_finished, Reportable(get_block, lx, ly),
             AdvancePartial(lx, ly)
      PROVE  EqualEnds'
  <2> DEFINE g == get_block
  <2>1. /\ pc = "idle" /\ lx # g.ex /\ ly # g.ey
        /\ EnterSubblock /\ last' = [x |-> lx, y |-> ly]
    BY <1>1 DEF AdvancePartial
  <2>2. g \in Rects
    BY <1>1, InnermostFacts
  <2>3. Reportable(g, lx, ly)
    BY <1>1
  <2> HIDE DEF g
  <2>4. lx < g.ex /\ lx >= g.sx + ALIGNMENT /\ ly < g.ey /\ ly >= g.sy + ALIGNMENT
    BY <2>1, <2>2, <2>3, SizeAssumption DEF Reportable, Rects
  <2>5. lx \in Int /\ ly \in Int /\ (self_join(g) => lx = ly)
    BY <2>2, <2>3, SizeAssumption DEF Reportable, Rects
  <2>6. g.ex - g.sx > ALIGNMENT /\ g.ey - g.sy > ALIGNMENT
    BY <2>2, <2>4, <2>5, SizeAssumption, AlignmentAssumption DEF Rects
  <2>7. get_block'.sx = g.sx /\ get_block'.sy = g.sy
    BY <1>1, <2>1, <2>6, EnteredStart DEF g
  <2>8. QED  BY <2>1, <2>5, <2>7 DEF EqualEnds, self_join
<1>2. CASE Descend
  <2> DEFINE g == get_block
  <2>1. /\ pc = "descending" /\ g.ex > last.x /\ g.ey > last.y
        /\ EnterSubblock /\ last' = last
    BY <1>2 DEF Descend, Inside
  <2>2. ~is_finished
    BY <2>1, EmptySeq DEF IInv, Shape, is_finished
  <2>3. g \in Rects /\ last \in [x : 0 .. N, y : 0 .. N]
    BY <2>2, InnermostFacts DEF IInv, TypeOK
  <2>4. last.x >= g.sx + ALIGNMENT /\ last.y >= g.sy + ALIGNMENT
    BY <2>1 DEF IInv, Shape
  <2>5. EqualEnds /\ (self_join(g) => last.x = last.y)
    BY <2>1 DEF EqualEnds
  <2> HIDE DEF g
  <2>6. g.ex - g.sx > ALIGNMENT /\ g.ey - g.sy > ALIGNMENT
    BY <2>1, <2>3, <2>4, SizeAssumption, AlignmentAssumption DEF Rects
  <2>7. get_block'.sx = g.sx /\ get_block'.sy = g.sy
    BY <2>1, <2>2, <2>6, EnteredStart DEF g
  <2>8. QED  BY <2>1, <2>5, <2>7 DEF EqualEnds, self_join
<1>3. CASE UNCHANGED schedVars
  <2>1. nested_blocks' = nested_blocks /\ pc' = pc /\ last' = last
    BY <1>3 DEF schedVars
  <2>2. QED  BY <2>1 DEF EqualEnds, self_join, get_block
<1>4. CASE PopFinished \/ PopStop \/ DescendStop
  <2>1. pc' # "descending"
    BY <1>4 DEF PopFinished, PopStop, DescendStop
  <2>2. QED  BY <2>1 DEF EqualEnds
<1>5. ASSUME NEW lx, NEW ly, AdvanceComplete(lx, ly) \/ AdvanceStrip(lx, ly)
      PROVE  EqualEnds'
  <2>1. pc' # "descending"
    BY <1>5 DEF AdvanceComplete, AdvanceStrip
  <2>2. QED  BY <2>1 DEF EqualEnds
<1>6. QED
  BY <1>1, <1>2, <1>3, <1>4, <1>5 DEF Next, AdvanceLoop, advance_block

(* On the diagonal advance_block never drops a block that was processed in *)
(* part only, whatever progress is reported.                               *)
THEOREM DiagonalDescentExact == Spec => []DiagonalDescent
<1>1. Init => EqualEnds
  BY DEF Init, EqualEnds
<1>2. IInv /\ EqualEnds /\ [Next]_schedVars => EqualEnds'
  BY EqualEndsStep
<1>3. QED  BY <1>1, <1>2, Exactness, EqualEndsSuffice, PTL DEF Spec

(* Blocks start at multiples of the alignment.                             *)
StartsAligned(r) == r.sx % ALIGNMENT = 0 /\ r.sy % ALIGNMENT = 0

AlignedStack(s) == \A k \in 1 .. Len(s) : StartsAligned(s[k].rect)

(* A half is a multiple of the alignment, so subblocks are aligned.        *)
LEMMA HalfAligned ==
  ASSUME NEW a \in Nat, a % ALIGNMENT = 0, NEW len \in Nat, len > ALIGNMENT
  PROVE  (a + Half(len)) % ALIGNMENT = 0
<1> DEFINE A == ALIGNMENT
           q == (len + 2*A - 1) \div (2*A)
           m == a \div A
<1>1. A \in Nat \ {0} /\ 2*A \in Nat \ {0} /\ len + 2*A - 1 \in Nat
  BY AlignmentAssumption
<1>2. q \in Nat
  BY <1>1, DivBounds
<1>3. m \in Nat /\ a = A * m
  BY <1>1
<1>4. Half(len) = q * A
  BY DEF Half
<1> HIDE DEF A, q, m
<1>5. q * A = A * q /\ A * m + A * q = A * (m + q) /\ (A * (m + q)) % A = 0
  BY <1>1, <1>2, <1>3
<1>6. QED  BY <1>3, <1>4, <1>5 DEF A

LEMMA SubRectAligned ==
  ASSUME NEW r \in Rects, WellShaped(r), StartsAligned(r),
         NEW q, IsSubblockOf(q, r)
  PROVE  StartsAligned(SubRect(r, q))
<1> DEFINE mx == r.sx + Half(r.ex - r.sx)
           my == r.sy + Half(r.ey - r.sy)
<1>1. /\ r.sx \in Nat /\ r.ex - r.sx \in Nat /\ r.sx % ALIGNMENT = 0
      /\ r.sy \in Nat /\ r.ey - r.sy \in Nat /\ r.sy % ALIGNMENT = 0
  BY SizeAssumption DEF Rects, WellShaped, StartsAligned
<1>2. r.ex - r.sx > ALIGNMENT => mx % ALIGNMENT = 0
  BY <1>1, HalfAligned
<1>3. r.ey - r.sy > ALIGNMENT => my % ALIGNMENT = 0
  BY <1>1, HalfAligned
<1>4. /\ SubRect(r, q).sx = IF q \in {"UR", "LR", "RIGHT"} THEN mx ELSE r.sx
      /\ SubRect(r, q).sy = IF q \in {"LL", "LR", "LOWER"} THEN my ELSE r.sy
  BY DEF SubRect
<1> HIDE DEF mx, my
<1>5. QED  BY <1>1, <1>2, <1>3, <1>4 DEF IsSubblockOf, StartsAligned

LEMMA CurrentAligned ==
  ASSUME NEW b \in Blocks, WellShaped(b.rect), MissingOK(b), StartsAligned(b.rect)
  PROVE  /\ get_current_subblock(b) \in Blocks
         /\ StartsAligned(get_current_subblock(b).rect)
<1>1. CASE b.missing = <<>>
  <2>1. Rect(0, 0, 0, 0) \in Rects
    BY SizeAssumption DEF Rect, Rects
  <2>2. 0 % ALIGNMENT = 0
    BY AlignmentAssumption
  <2>3. StartsAligned(Rect(0, 0, 0, 0))
    BY <2>2 DEF Rect, StartsAligned
  <2>4. QED  BY <1>1, <2>1, <2>3, PlanBlockFacts DEF get_current_subblock
<1>2. CASE b.missing # <<>>
  <2> DEFINE r == SubRect(b.rect, Last(b.missing))
  <2>1. b.rect \in Rects /\ b.missing \in Seq(Subblock)
    BY DEF Blocks
  <2>0. Len(b.missing) \in Nat \ {0} /\ Last(b.missing) = b.missing[Len(b.missing)]
    BY <1>2, <2>1, FrontLast
  <2>2. IsSubblockOf(Last(b.missing), b.rect)
    BY <2>0 DEF MissingOK
  <2>3. r \in Rects /\ get_current_subblock(b) = PlanBlock(r)
    BY <1>2, CurrentSubblock
  <2>4. StartsAligned(r)
    BY <2>1, <2>2, SubRectAligned
  <2>5. QED  BY <2>3, <2>4, PlanBlockFacts
<1>3. QED  BY <1>1, <1>2

(* Entering, leaving and resuming blocks.                                  *)
LEMMA PushAligned ==
  ASSUME NEW s \in Seq(Blocks), AlignedStack(s),
         NEW b \in Blocks, StartsAligned(b.rect)
  PROVE  AlignedStack(Append(s, b))
<1> DEFINE t == Append(s, b)
<1>1. /\ Len(s) \in Nat /\ Len(t) = Len(s)+1 /\ t[Len(s)+1] = b
      /\ \A i \in 1 .. Len(s) : t[i] = s[i]
  OBVIOUS
<1> HIDE DEF t
<1>2. QED  BY <1>1 DEF AlignedStack, t

LEMMA PopAligned ==
  ASSUME NEW s, StackOK(s), s # <<>>, AlignedStack(s)
  PROVE  AlignedStack(PopAndDrop(s))
<1> DEFINE t == PopAndDrop(s)
           n == Len(s)
<1>1. s \in Seq(Blocks) /\ n \in Nat \ {0} /\ \A i \in 1 .. n : s[i] \in Blocks
  BY EmptySeq, ElementOfSeq DEF StackOK
<1>2. n > 1 => s[n-1].missing # <<>>
  BY <1>1 DEF StackOK, WellFormed
<1>3. /\ Len(t) = n-1 /\ \A i \in 1 .. n-2 : t[i] = s[i]
      /\ n > 1 => t[n-1] = DropSubblock(s[n-1])
  BY <1>1, <1>2, PopFacts
<1>4. n > 1 => t[n-1].rect = s[n-1].rect
  BY <1>1, <1>2, <1>3, DropFacts
<1> HIDE DEF t, n
<1>5. ASSUME NEW k \in 1 .. Len(t)
      PROVE  StartsAligned(t[k].rect)
  <2>1. k \in 1 .. n /\ t[k].rect = s[k].rect
    BY <1>1, <1>3, <1>4
  <2>2. QED  BY <2>1 DEF AlignedStack, n
<1>6. QED  BY <1>5 DEF AlignedStack, t

LEMMA FrontAligned ==
  ASSUME NEW s \in Seq(Blocks), s # <<>>, AlignedStack(s)
  PROVE  Front(s) \in Seq(Blocks) /\ AlignedStack(Front(s))
<1>1. /\ Front(s) \in Seq(Blocks) /\ Len(s) \in Nat \ {0} /\ Len(Front(s)) = Len(s)-1
      /\ \A i \in 1 .. Len(s)-1 : Front(s)[i] = s[i]
  BY FrontLast
<1>2. QED  BY <1>1 DEF AlignedStack

LEMMA EnterAligned ==
  ASSUME NEW s, StackOK(s), s # <<>>, AlignedStack(s)
  PROVE  AlignedStack(Append(s, get_current_subblock(Last(s))))
<1>1. /\ s \in Seq(Blocks) /\ Len(s) \in 1 .. Len(s)
      /\ Last(s) \in Blocks /\ Last(s) = s[Len(s)]
  BY FrontLast DEF StackOK
<1>2. WellShaped(Last(s).rect) /\ MissingOK(Last(s)) /\ StartsAligned(Last(s).rect)
  BY <1>1 DEF StackOK, WellFormed, AlignedStack
<1>3. QED  BY <1>1, <1>2, CurrentAligned, PushAligned

LEMMA ResumedAligned ==
  ASSUME NEW s, StackOK(s), AlignedStack(s)
  PROVE  AlignedStack(Resumed(s))
<1>1. CASE s = <<>>
  BY <1>1 DEF Resumed
<1>2. CASE s # <<>>
  BY <1>2, FrontAligned, EnterAligned DEF Resumed, StackOK
<1>3. QED  BY <1>1, <1>2

LEMMA AlignedStep ==
  ASSUME IInv, AlignedStack(nested_blocks), [Next]_schedVars
  PROVE  AlignedStack(nested_blocks')
<1> DEFINE s == nested_blocks
<1>1. StackOK(s) /\ s \in Seq(Blocks)
  BY StackIsOK DEF StackOK
<1>2. ASSUME NEW lx, NEW ly, AdvanceComplete(lx, ly)
      PROVE  AlignedStack(s')
  BY <1>1, <1>2, PopAligned DEF AdvanceComplete, is_finished
<1>3. ASSUME NEW lx, NEW ly, ~is_finished, Reportable(get_block, lx, ly),
             AdvanceStrip(lx, ly)
      PROVE  AlignedStack(s')
  <2> DEFINE g == get_block
             r == Strip(g, lx, ly)
  <2>1. /\ s # <<>> /\ pc = "idle" /\ (lx = g.ex) # (ly = g.ey)
        /\ s' = Append(Front(s), PlanBlock(r))
    BY <1>3 DEF AdvanceStrip, is_finished
  <2>2. r \in Rects
    BY <1>3, <2>1, StripFacts
  <2>3. StartsAligned(g)
    BY <1>3, InnermostFacts DEF AlignedStack
  <2>4. /\ lx # g.ex => lx % ALIGNMENT = 0
        /\ ly # g.ey => ly % ALIGNMENT = 0
    BY <1>3 DEF Reportable
  <2>5. StartsAligned(r)
    BY <2>1, <2>3, <2>4 DEF Strip, Rect, StartsAligned
  <2>6. PlanBlock(r) \in Blocks /\ StartsAligned(PlanBlock(r).rect)
    BY <2>2, <2>5, PlanBlockFacts
  <2>7. QED  BY <1>1, <2>1, <2>6, FrontAligned, PushAligned
<1>4. ASSUME NEW lx, NEW ly, AdvancePartial(lx, ly) \/ Descend
      PROVE  AlignedStack(s')
  <2>1. s # <<>>
    BY <1>4, EmptySeq DEF AdvancePartial, Descend, IInv, Shape, is_finished
  <2>2. s' = Append(s, get_current_subblock(Last(s)))
    BY <1>4 DEF AdvancePartial, Descend, EnterSubblock
  <2>3. QED  BY <1>1, <2>1, <2>2, EnterAligned
<1>5. CASE PopFinished
  <2>1. s # <<>> /\ s' = PopAndDrop(s)
    BY <1>5, EmptySeq DEF PopFinished
  <2>2. QED  BY <1>1, <2>1, PopAligned
<1>6. CASE PopStop
  BY <1>1, <1>6, ResumedAligned DEF PopStop
<1>7. CASE DescendStop
  <2>1. s # <<>> /\ s' = Resumed(PopAndDrop(s))
    BY <1>7, EmptySeq DEF DescendStop, IInv, Shape
  <2>2. StackOK(PopAndDrop(s)) /\ AlignedStack(PopAndDrop(s))
    BY <1>1, <2>1, PopOK, PopAligned
  <2>3. QED  BY <2>1, <2>2, ResumedAligned
<1>8. CASE UNCHANGED schedVars
  BY <1>8 DEF schedVars
<1>9. QED
  BY <1>2, <1>3, <1>4, <1>5, <1>6, <1>7, <1>8 DEF Next, AdvanceLoop, advance_block

(* get_block's assertion holds for every number of records and every       *)
(* alignment: whatever its caller reports, the blocks that are handed out  *)
(* start where microbatches do.                                            *)
THEOREM AlwaysAligned == Spec => []BlocksAligned
<1>1. Init => AlignedStack(nested_blocks)
  <2> SUFFICES ASSUME Init PROVE AlignedStack(nested_blocks)
    OBVIOUS
  <2>1. nested_blocks = <<PlanBlock(Rect(0, 0, N, N))>>
    BY DEF Init
  <2>2. PlanBlock(Rect(0, 0, N, N)).rect = Rect(0, 0, N, N)
    BY DEF PlanBlock
  <2>3. 0 % ALIGNMENT = 0
    BY AlignmentAssumption
  <2>4. StartsAligned(Rect(0, 0, N, N))
    BY <2>3 DEF StartsAligned, Rect
  <2>5. QED  BY <2>1, <2>2, <2>4 DEF AlignedStack
<1>2. IInv /\ AlignedStack(nested_blocks) /\ [Next]_schedVars => AlignedStack(nested_blocks')
  BY AlignedStep
<1>3. IInv /\ AlignedStack(nested_blocks) => BlocksAligned
  BY InnermostFacts DEF AlignedStack, StartsAligned, BlocksAligned
<1>4. AlignedStack(nested_blocks)' <=> AlignedStack(nested_blocks')
  BY DEF AlignedStack, StartsAligned
<1>5. QED  BY <1>1, <1>2, <1>3, <1>4, Exactness, PTL DEF Spec

(* The scheduler implements the pair offer: every step retires pairs of    *)
(* the block it offered or none, and what it offers is still to be done.   *)
THEOREM OfferRefinement == Spec => ImplementsOffer
<1>1. Init => Offer!Init
  <2> SUFFICES ASSUME Init PROVE Offer!Init
    OBVIOUS
  <2>1. done = {} /\ pc = "idle" /\ IInv
    BY InitIInv DEF Init
  <2>2. nested_blocks = <<PlanBlock(Rect(0, 0, N, N))>>
    BY DEF Init
  <2>3. ~is_finished
    BY <2>2 DEF is_finished
  <2>4. get_block = Rect(0, 0, N, N)
    BY <2>2 DEF get_block, Last, PlanBlock
  <2>5. Work(Rect(0, 0, N, N)) = Total
    BY SizeAssumption DEF Work, Covers, Rect, Total
  <2>6. QED  BY <2>1, <2>3, <2>4, <2>5 DEF Offer!Init
<1>2. IInv /\ IInv' /\ [Next]_schedVars => [Offer!Next]_(Offer!vars)
  <2> SUFFICES ASSUME IInv, IInv', [Next]_schedVars
               PROVE  [Offer!Next]_(Offer!vars)
    OBVIOUS
  <2> DEFINE offered == IF pc = "popping" \/ is_finished THEN {} ELSE Work(get_block)
  <2>1. CASE UNCHANGED schedVars
    <3>1. nested_blocks' = nested_blocks /\ pc' = pc /\ done' = done
      BY <2>1 DEF schedVars
    <3>2. QED  BY <3>1 DEF Offer!vars, is_finished, get_block
  <2>2. CASE Next
    <3>1. offered' \subseteq Total \ done'
      <4>1. CASE pc' = "popping" \/ is_finished'
        BY <4>1
      <4>2. CASE ~(pc' = "popping" \/ is_finished')
        <5>1. Pending' = Total \ done'
          BY DEF IInv, PlanIsExact
        <5>2. get_block' \in {Last(nested_blocks').rect}
          BY DEF get_block
        <5>3. QED  BY <4>2, <5>1, <5>2 DEF Pending, LeftOffered, is_finished
      <4>3. QED  BY <4>1, <4>2
    <3>2. done \subseteq done' /\ done' \ done \subseteq offered
      <4>1. CASE AdvanceLoop
        <5>1. pc = "descending" => ~is_finished
          BY EmptySeq DEF IInv, Shape, is_finished
        <5>2. QED  BY <4>1, <5>1 DEF AdvanceLoop, PopFinished, PopStop, Descend, DescendStop
      <4>2. ASSUME NEW lx, NEW ly, ~is_finished,
                   Reportable(get_block, lx, ly), advance_block(lx, ly)
            PROVE  done \subseteq done' /\ done' \ done \subseteq offered
        <5>1. CASE AdvanceStrip(lx, ly)
          BY <4>2, <5>1, StripRest DEF AdvanceStrip
        <5>2. CASE AdvanceComplete(lx, ly) \/ AdvancePartial(lx, ly)
          BY <4>2, <5>2 DEF AdvanceComplete, AdvancePartial
        <5>3. QED  BY <4>2, <5>1, <5>2 DEF advance_block
      <4>3. QED  BY <2>2, <4>1, <4>2 DEF Next
    <3>3. ~(pc = "idle" /\ is_finished)
      BY <2>2 DEF Next, AdvanceLoop, PopFinished, PopStop, Descend, DescendStop
    <3>4. is_finished' => Total \ done' = {}
      <4>1. is_finished' => Pending' = {}
        BY DEF Pending, LeftPopping, LeftOffered, is_finished
      <4>2. QED  BY <4>1 DEF IInv, PlanIsExact
    <3> HIDE DEF offered
    <3>5. /\ Total \ done' \subseteq Total \ done
          /\ (Total \ done) \ (Total \ done') \subseteq offered
      BY <3>2
    <3>6. QED  BY <3>1, <3>3, <3>4, <3>5 DEF Offer!Next, Offer!Advance, offered
  <2>3. QED  BY <2>1, <2>2
<1>3. QED
  BY <1>1, <1>2, Exactness, PTL DEF Spec, ImplementsOffer, Offer!Spec
==============================================================================
