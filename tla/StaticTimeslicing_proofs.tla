----------------------- MODULE StaticTimeslicing_proofs -----------------------
(***************************************************************************)
(* The time-static join for every dataset, every length of a batch and any *)
(* plans: the pairs that were found are exactly those of the records that  *)
(* were probed, and each was verified with its own records.                *)
(***************************************************************************)
EXTENDS StaticTimeslicing, TLAPS

(* The one batch that ever gets this id.                                   *)
Own(id) == [start |-> id, end |-> Lower(id + HALFBATCH, count)]

(* How much of the dataset a plan has reduced.                             *)
Done(p) ==
  IF p < plan THEN count ELSE IF p = plan THEN Lower(offset, count) ELSE 0

Typed ==
  /\ count \in Nat /\ offset \in Nat
  /\ plan \in 1 .. Plans + 1
  /\ lp_id \in Nat /\ rp_id \in Nat
  /\ action \in 0 .. Plans
  /\ side \in {"left", "right", "clock"}

InOrder ==
  /\ owned_data \in [Reducing -> Seq(Nat)]
  /\ \A p \in Reducing :
       /\ Len(owned_data[p]) = Done(p)
       /\ \A j \in 1 .. Done(p) : owned_data[p][j] = j - 1

OneExtent == \A e \in extents : e[2] = Own(e[1])

Ends ==
  /\ action # 0 => plan > Plans
  /\ action # 0 /\ side # "clock" => lp_id < rp_id

IInv == Typed /\ InOrder /\ OneExtent /\ Ends /\ PairsOfProbed /\ VerifiesThePair

(* Borders of batches that are not equal are a batch apart.                *)
LEMMA Borders ==
  ASSUME NEW a \in Nat, NEW b \in Nat, NEW h \in Nat \ {0},
         a % h = 0, b % h = 0, a < b
  PROVE  /\ a + h <= b
         /\ (a + h) % h = 0 /\ b - h \in Nat /\ (b - h) % h = 0
<1> DEFINE m == a \div h
           n == b \div h
<1>1. m \in Nat /\ n \in Nat /\ a = h * m /\ b = h * n
  OBVIOUS
<1> HIDE DEF m, n
<1>2. m < n
  <2>1. SUFFICES ASSUME n <= m PROVE FALSE
    BY <1>1
  <2>2. h * n <= h * m
    BY <1>1, <2>1
  <2> QED  BY <1>1, <2>2
<1>3. h * (m + 1) <= h * n
  BY <1>1, <1>2
<1>4. h * (m + 1) = h * m + h /\ h * (n - 1) = h * n - h
  BY <1>1
<1>5. a + h = h * (m + 1) /\ b - h = h * (n - 1)
  BY <1>1, <1>4
<1>6. (h * (m + 1)) % h = 0 /\ (h * (n - 1)) % h = 0
  BY <1>1, <1>2
<1> QED
  BY <1>1, <1>3, <1>4, <1>5, <1>6

(* The right end starts behind the dataset, on a border.                   *)
LEMMA AlignedEnd ==
  ASSUME NEW n \in Nat
  PROVE  Aligned(n) \in Nat /\ n <= Aligned(n) /\ Aligned(n) % HALFBATCH = 0
<1>1. HALFBATCH \in Nat \ {0}
  BY StaticAssumption
<1> DEFINE h == HALFBATCH
           m == n \div h
<1>2. m \in Nat /\ n % h \in 0 .. h - 1 /\ n = h * m + (n % h)
  BY <1>1
<1>3. (m + 1) * h = h * m + h /\ (m + 1) * h \in Nat
  BY <1>1, <1>2
<1>4. ((m + 1) * h) % h = 0
  BY <1>1, <1>2
<1> QED
  BY <1>1, <1>2, <1>3, <1>4 DEF Aligned

(* A cached batch is the batch.                                            *)
LEMMA CacheReturnsOwn ==
  ASSUME OneExtent, NEW id
  PROVE  Reduced(id, Own(id)) = {Own(id)}
  BY DEF OneExtent, Reduced

(* The pairs of the records of a batch.                                    *)
PairsOf(id) == {p \in (0 .. count-1) \X (id .. Own(id).end - 1) : p[1] < p[2]}

(* While a slice runs, all plans have reduced and indexed everything.      *)
LEMMA AllReduced ==
  ASSUME IInv, action # 0, action \in Reducing
  PROVE  /\ Len(owned_data[action]) = count
         /\ \A r \in 0 .. count-1 : owned_data[action][r + 1] = r
<1>1. action < plan
  BY StaticAssumption DEF IInv, Typed, Ends
<1>2. Done(action) = count
  BY <1>1 DEF Done
<1>3. /\ count \in Nat /\ Len(owned_data[action]) = count
      /\ \A j \in 1 .. count : owned_data[action][j] = j - 1
  BY <1>2 DEF IInv, InOrder, Typed
<1>4. ASSUME NEW r \in 0 .. count-1
      PROVE  owned_data[action][r + 1] = r
  <2>1. r + 1 \in 1 .. count /\ (r + 1) - 1 = r
    BY <1>3
  <2> QED  BY <1>3, <2>1
<1> QED
  BY <1>3, <1>4

LEMMA AllIndexed ==
  ASSUME IInv, action # 0
  PROVE  Indexed = 0 .. count-1
<1>1. CASE action \in Reducing
  <2>1. /\ Len(owned_data[action]) = count
        /\ \A r \in 0 .. count-1 : owned_data[action][r + 1] = r
    BY <1>1, AllReduced
  <2>2. DOMAIN owned_data[action] = 1 .. count
    BY <1>1, <2>1 DEF IInv, InOrder
  <2>3. count \in Nat
    BY DEF IInv, Typed
  <2>4. ASSUME NEW j \in 1 .. count
        PROVE  owned_data[action][j] \in 0 .. count-1
    <3>1. j - 1 \in 0 .. count-1 /\ (j - 1) + 1 = j
      BY <2>3
    <3> QED  BY <2>1, <3>1
  <2>5. ASSUME NEW r \in 0 .. count-1
        PROVE  r \in {owned_data[action][j] : j \in 1 .. count}
    <3>1. r + 1 \in 1 .. count /\ owned_data[action][r + 1] = r
      BY <2>1, <2>3
    <3> QED  BY <3>1
  <2> QED
    BY <1>1, <2>2, <2>4, <2>5 DEF Indexed
<1>2. CASE action \notin Reducing
  BY <1>2 DEF Indexed
<1> QED
  BY <1>1, <1>2

(* A probe adds the pairs of its batch, and reads them where they are.     *)
LEMMA ProbeStep ==
  ASSUME IInv, action # 0, NEW id \in Nat, Probe(id, Own(id))
  PROVE  /\ emitted' = emitted \cup PairsOf(id)
         /\ repeated' = repeated \cup (emitted \cap PairsOf(id))
         /\ misread' = {}
         /\ \A e \in extents' : e[2] = Own(e[1])
<1>1. Reduced(id, Own(id)) = {Own(id)}
  BY CacheReturnsOwn DEF IInv
<1>2. Found(Own(id)) = PairsOf(id)
  BY AllIndexed DEF Found, PairsOf, Ids, Own
<1>3. /\ emitted' = emitted \cup PairsOf(id)
      /\ repeated' = repeated \cup (emitted \cap PairsOf(id))
      /\ IF action \in Reducing
         THEN /\ misread' = misread \cup {p \in PairsOf(id) : Misread(p, Own(id), id)}
              /\ Note(id, Own(id))
         ELSE UNCHANGED <<misread, extents>>
  BY <1>1, <1>2 DEF Probe
<1>4. misread = {} /\ \A e \in extents : e[2] = Own(e[1])
  BY DEF IInv, VerifiesThePair, OneExtent
<1>5. CASE action \in Reducing
  <2>1. ASSUME NEW p \in PairsOf(id), Misread(p, Own(id), id)
        PROVE  FALSE
    <3>1. count \in Nat
      BY DEF IInv, Typed
    <3>2. p[1] \in 0 .. count-1 /\ p[2] \in id .. Own(id).end - 1
      BY DEF PairsOf
    <3>3. \A r \in 0 .. count-1 : owned_data[action][r + 1] = r
      BY <1>5, AllReduced
    <3>4. owned_data[action][p[1] + 1] = p[1]
      BY <3>2, <3>3
    <3>5. Own(id).start + (p[2] - id) = p[2]
      BY <3>2 DEF Own
    <3> QED
      BY <2>1, <3>4, <3>5 DEF Misread
  <2>2. misread' = {} /\ extents' = extents \cup {<<id, Own(id)>>}
    BY <1>3, <1>4, <1>5, <2>1 DEF Note
  <2> QED
    BY <1>3, <1>4, <2>2
<1>6. CASE action \notin Reducing
  BY <1>3, <1>4, <1>6
<1> QED
  BY <1>5, <1>6

------------------------------------------------------------------------------
(* The initial states.                                                     *)
LEMMA StaticInit ==
  ASSUME Init
  PROVE  IInv
<1>1. count \in Nat /\ HALFBATCH \in Nat \ {0}
  BY StaticAssumption DEF Init
<1>2. /\ Aligned(count) \in Nat /\ count <= Aligned(count)
      /\ Aligned(count) % HALFBATCH = 0
  BY <1>1, AlignedEnd
<1>3. Typed
  BY <1>1, <1>2, StaticAssumption DEF Init, Typed
<1>4. InOrder
  <2>1. owned_data = [p \in Reducing |-> <<>>] /\ plan = 1 /\ offset = 0
    BY DEF Init
  <2>2. ASSUME NEW p \in Reducing
        PROVE  Done(p) = 0
    BY <1>1, <2>1, StaticAssumption DEF Done, Lower
  <2> QED
    BY <2>1, <2>2 DEF InOrder
<1>5. OneExtent /\ Ends /\ VerifiesThePair
  BY DEF Init, OneExtent, Ends, VerifiesThePair
<1>6. PairsOfProbed
  <2>1. lp_id = 0 /\ rp_id = Aligned(count) /\ emitted = {} /\ repeated = {}
    BY DEF Init
  <2>2. ProbedRecords = {}
    BY <1>1, <1>2, <2>1 DEF ProbedRecords
  <2>3. 0 % HALFBATCH = 0
    BY <1>1
  <2> QED
    BY <1>2, <2>1, <2>2, <2>3 DEF PairsOfProbed
<1> QED
  BY <1>3, <1>4, <1>5, <1>6 DEF IInv

(* The indexes are built.                                                  *)
LEMMA ReduceBatchStep ==
  ASSUME IInv, ReduceBatch
  PROVE  IInv'
<1>1. /\ plan \in Reducing /\ offset < count /\ offset' = offset + HALFBATCH
      /\ UNCHANGED <<count, plan, lp_id, rp_id, action, side, emitted, repeated, misread>>
  BY DEF ReduceBatch, sliceVars, resultVars
<1>2. /\ Typed /\ HALFBATCH \in Nat \ {0}
      /\ owned_data \in [Reducing -> Seq(Nat)]
      /\ Len(owned_data[plan]) = offset
      /\ \A j \in 1 .. offset : owned_data[plan][j] = j - 1
  BY <1>1, StaticAssumption DEF IInv, Typed, InOrder, Done, Lower
<1>3. Batch(offset, Lower(offset + HALFBATCH, count)) = Own(offset)
  BY <1>1, <1>2 DEF Batch, Own, Lower, Typed
<1>4. Reduced(offset, Own(offset)) = {Own(offset)}
  BY CacheReturnsOwn DEF IInv
<1>5. /\ owned_data' = [owned_data EXCEPT ![plan] = Appended(plan, Own(offset))]
      /\ extents' = extents \cup {<<offset, Own(offset)>>}
  BY <1>3, <1>4 DEF ReduceBatch, Note
<1> DEFINE end == Lower(offset + HALFBATCH, count)
           batch == [j \in 1 .. end - offset |-> offset + j - 1]
<1>6. end \in Nat /\ offset < end /\ end <= count
  BY <1>1, <1>2 DEF Typed, Lower
<1> HIDE DEF end
<1>7. /\ batch \in Seq(Nat) /\ Len(batch) = end - offset
      /\ \A j \in 1 .. end - offset : batch[j] = offset + j - 1
  BY <1>2, <1>6 DEF Typed
<1>8. Appended(plan, Own(offset)) = owned_data[plan] \o batch
  BY DEF Appended, Own, end
<1> HIDE DEF batch
<1> DEFINE new == owned_data[plan] \o batch
<1>9. new \in Seq(Nat) /\ Len(new) = end
  BY <1>1, <1>2, <1>6, <1>7 DEF Typed
<1> HIDE DEF new
<1>10. ASSUME NEW j \in 1 .. end
       PROVE  new[j] = j - 1
  <2>1. CASE j <= offset
    BY <1>1, <1>2, <1>6, <1>7, <2>1 DEF Typed, new
  <2>2. CASE offset < j
    <3>1. j - offset \in 1 .. end - offset /\ offset + (j - offset) - 1 = j - 1
      BY <1>2, <1>6, <2>2 DEF Typed
    <3>2. new[j] = batch[j - offset]
      BY <1>1, <1>2, <1>6, <1>7, <2>2 DEF Typed, new
    <3> QED  BY <1>7, <3>1, <3>2
  <2> QED  BY <1>2, <1>6, <2>1, <2>2 DEF Typed
<1>11. Typed'
  BY <1>1, <1>2 DEF Typed
<1>12. InOrder'
  <2>1. owned_data' = [owned_data EXCEPT ![plan] = new]
    BY <1>5, <1>8 DEF new
  <2>2. owned_data' \in [Reducing -> Seq(Nat)]
    BY <1>2, <1>9, <2>1
  <2>3. ASSUME NEW p \in Reducing
        PROVE  /\ Len(owned_data'[p]) = Done(p)'
               /\ \A j \in 1 .. Done(p)' : owned_data'[p][j] = j - 1
    <3>1. CASE p = plan
      <4>1. Done(p)' = end
        BY <1>1, <1>2, <3>1 DEF Done, end, Typed
      <4>2. owned_data'[p] = new
        BY <1>1, <1>2, <2>1, <3>1
      <4> QED  BY <1>9, <1>10, <4>1, <4>2
    <3>2. CASE p # plan
      <4>1. Done(p)' = Done(p) /\ owned_data'[p] = owned_data[p]
        BY <1>1, <1>2, <2>1, <3>2 DEF Done
      <4> QED  BY <4>1 DEF IInv, InOrder
    <3> QED  BY <3>1, <3>2
  <2> QED  BY <2>2, <2>3 DEF InOrder
<1>13. OneExtent'
  BY <1>1, <1>5 DEF IInv, OneExtent, Own
<1>14. Ends' /\ PairsOfProbed' /\ VerifiesThePair'
  BY <1>1 DEF IInv, Ends, PairsOfProbed, ProbedRecords, VerifiesThePair
<1> QED
  BY <1>11, <1>12, <1>13, <1>14 DEF IInv

LEMMA BuildIndexStep ==
  ASSUME IInv, BuildIndex
  PROVE  IInv'
<1>1. /\ plan <= Plans /\ (plan \in Reducing => offset >= count)
      /\ plan' = plan + 1 /\ offset' = 0
      /\ UNCHANGED <<count, owned_data, lp_id, rp_id, action, side, extents, emitted,
                     repeated, misread>>
  BY DEF BuildIndex, sliceVars, resultVars
<1>2. Typed'
  BY <1>1, StaticAssumption DEF IInv, Typed
<1>3. InOrder'
  <2>1. ASSUME NEW p \in Reducing
        PROVE  Done(p)' = Done(p)
    BY <1>1, StaticAssumption DEF Done, Lower, IInv, Typed
  <2> QED  BY <1>1, <2>1 DEF IInv, InOrder
<1>4. OneExtent' /\ Ends' /\ PairsOfProbed' /\ VerifiesThePair'
  BY <1>1, StaticAssumption
  DEF IInv, Typed, OneExtent, Own, Ends, PairsOfProbed, ProbedRecords, VerifiesThePair
<1> QED
  BY <1>2, <1>3, <1>4 DEF IInv

(* A slice begins, goes on or ends.                                        *)
LEMMA SliceStep ==
  ASSUME IInv, SelectPlan \/ GoOn \/ EndSlice
  PROVE  IInv'
<1>1. UNCHANGED <<count, plan, offset, owned_data, lp_id, rp_id, extents, emitted, repeated,
                  misread>>
  BY DEF SelectPlan, GoOn, EndSlice, buildVars, resultVars
<1>2. Typed'
  BY <1>1, StaticAssumption DEF SelectPlan, GoOn, EndSlice, IInv, Typed
<1>3. InOrder'
  <2>1. ASSUME NEW p
        PROVE  Done(p)' = Done(p)
    BY <1>1 DEF Done
  <2> QED  BY <1>1, <2>1 DEF IInv, InOrder
<1>4. Ends'
  BY <1>1 DEF SelectPlan, GoOn, EndSlice, StillApart, IInv, Ends
<1>5. OneExtent' /\ PairsOfProbed' /\ VerifiesThePair'
  BY <1>1 DEF IInv, OneExtent, Own, PairsOfProbed, ProbedRecords, VerifiesThePair
<1> QED
  BY <1>2, <1>3, <1>4, <1>5 DEF IInv

------------------------------------------------------------------------------
(* The pairs of the records from id on, for the length of a batch.         *)
LEMMA PairsOfBatch ==
  ASSUME count \in Nat, NEW id \in Nat, NEW p
  PROVE  p \in PairsOf(id) <=>
           /\ p \in (0 .. count-1) \X (0 .. count-1)
           /\ p[1] < p[2] /\ id <= p[2] /\ p[2] < id + HALFBATCH
<1>1. HALFBATCH \in Nat \ {0}
  BY StaticAssumption
<1> QED
  BY <1>1 DEF PairsOf, Own, Lower

(* Probing the batch at either end moves this end over its records, and    *)
(* finds just the pairs that are missing for them.                         *)
LEMMA BatchStep ==
  ASSUME IInv, action # 0, NEW id \in Nat, Probe(id, Own(id)),
         NEW left \in Nat, NEW right \in Nat, lp_id' = left, rp_id' = right,
         left <= right, left % HALFBATCH = 0, right % HALFBATCH = 0,
         \/ id = lp_id /\ left = lp_id + HALFBATCH /\ right = rp_id
         \/ id = right /\ rp_id = right + HALFBATCH /\ left = lp_id,
         UNCHANGED buildVars
  PROVE  InOrder' /\ OneExtent' /\ PairsOfProbed' /\ VerifiesThePair'
<1>1. /\ UNCHANGED <<count, plan, offset, owned_data>>
      /\ count \in Nat /\ lp_id \in Nat /\ rp_id \in Nat
  BY DEF buildVars, IInv, Typed
<1>2. /\ emitted' = emitted \cup PairsOf(id)
      /\ repeated' = repeated \cup (emitted \cap PairsOf(id))
      /\ misread' = {}
      /\ \A e \in extents' : e[2] = Own(e[1])
  BY ProbeStep
<1>3. HALFBATCH \in Nat \ {0}
  BY StaticAssumption
<1>4. /\ lp_id <= rp_id /\ repeated = {}
      /\ emitted = {p \in (0 .. count-1) \X ProbedRecords : p[1] < p[2]}
  BY DEF IInv, PairsOfProbed
<1>5. ASSUME NEW p
      PROVE  p \in emitted <=> /\ p \in (0 .. count-1) \X (0 .. count-1)
                               /\ p[1] < p[2] /\ (p[2] < lp_id \/ p[2] >= rp_id)
  BY <1>4 DEF ProbedRecords
<1>6. emitted \cap PairsOf(id) = {}
  <2>1. ASSUME NEW p \in emitted, p \in PairsOf(id)
        PROVE  FALSE
    <3>1. p[2] \in 0 .. count-1 /\ (p[2] < lp_id \/ p[2] >= rp_id)
      BY <1>5
    <3>2. id <= p[2] /\ p[2] < id + HALFBATCH
      BY <1>1, <2>1, PairsOfBatch
    <3> QED  BY <1>1, <1>3, <3>1, <3>2
  <2> QED  BY <2>1
<1>7. emitted' = {p \in (0 .. count'-1) \X ProbedRecords' : p[1] < p[2]}
  <2>1. ASSUME NEW p
        PROVE  p \in emitted' <=> /\ p \in (0 .. count-1) \X (0 .. count-1)
                                  /\ p[1] < p[2] /\ (p[2] < left \/ p[2] >= right)
    <3>1. CASE p \in (0 .. count-1) \X (0 .. count-1)
      <4>1. p[2] \in Nat
        BY <1>1, <3>1
      <4> QED
        BY <1>1, <1>2, <1>3, <1>5, <3>1, <4>1, PairsOfBatch
    <3>2. CASE p \notin (0 .. count-1) \X (0 .. count-1)
      BY <1>1, <1>2, <1>5, <3>2, PairsOfBatch
    <3> QED  BY <3>1, <3>2
  <2>2. ProbedRecords' = {r \in 0 .. count-1 : r < left \/ r >= right}
    BY <1>1 DEF ProbedRecords
  <2>3. ASSUME NEW p
        PROVE  p \in {q \in (0 .. count'-1) \X ProbedRecords' : q[1] < q[2]} <=>
                 /\ p \in (0 .. count-1) \X (0 .. count-1)
                 /\ p[1] < p[2] /\ (p[2] < left \/ p[2] >= right)
    BY <1>1, <2>2
  <2> QED  BY <2>1, <2>3
<1>8. PairsOfProbed'
  BY <1>2, <1>4, <1>6, <1>7 DEF PairsOfProbed
<1>9. InOrder'
  <2>1. ASSUME NEW p
        PROVE  Done(p)' = Done(p)
    BY <1>1 DEF Done
  <2> QED  BY <1>1, <2>1 DEF IInv, InOrder
<1>10. OneExtent' /\ VerifiesThePair'
  BY <1>1, <1>2 DEF OneExtent, Own, VerifiesThePair
<1> QED
  BY <1>8, <1>9, <1>10

LEMMA LeftBatchStep ==
  ASSUME IInv, LeftBatch
  PROVE  IInv'
<1>1. /\ Typed /\ HALFBATCH \in Nat \ {0} /\ lp_id < rp_id
      /\ lp_id % HALFBATCH = 0 /\ rp_id % HALFBATCH = 0
  BY StaticAssumption DEF IInv, Ends, PairsOfProbed, LeftBatch
<1>2. lp_id + HALFBATCH <= rp_id /\ (lp_id + HALFBATCH) % HALFBATCH = 0
  BY <1>1, Borders DEF Typed
<1>3. Batch(lp_id, Lower(lp_id + HALFBATCH, rp_id)) = Own(lp_id)
  BY <1>1, <1>2 DEF Typed, Batch, Own, Lower
<1>4. /\ action # 0 /\ Probe(lp_id, Own(lp_id))
      /\ lp_id' = lp_id + HALFBATCH /\ rp_id' = rp_id /\ action' = action
      /\ side' = IF lp_id' < rp_id THEN "right" ELSE "clock"
      /\ UNCHANGED buildVars
  BY <1>3 DEF LeftBatch, NextLeft
<1>5. InOrder' /\ OneExtent' /\ PairsOfProbed' /\ VerifiesThePair'
  BY <1>1, <1>2, <1>4, BatchStep DEF Typed
<1>6. Typed' /\ Ends'
  BY <1>1, <1>4 DEF Typed, IInv, Ends, buildVars
<1> QED
  BY <1>5, <1>6 DEF IInv

LEMMA RightBatchStep ==
  ASSUME IInv, RightBatch
  PROVE  IInv'
<1>1. /\ Typed /\ HALFBATCH \in Nat \ {0} /\ lp_id < rp_id
      /\ lp_id % HALFBATCH = 0 /\ rp_id % HALFBATCH = 0
  BY StaticAssumption DEF IInv, Ends, PairsOfProbed, RightBatch
<1> DEFINE id == rp_id - HALFBATCH
<1>2. lp_id <= id /\ id \in Nat /\ id % HALFBATCH = 0
  <2>1. lp_id + HALFBATCH <= rp_id /\ id \in Nat /\ id % HALFBATCH = 0
    BY <1>1, Borders DEF Typed
  <2> QED  BY <1>1, <2>1 DEF Typed
<1>3. rp_id' = id /\ Batch(id, EndOfRight(id)) = Own(id)
  BY <1>1, <1>2 DEF RightBatch, Typed, Batch, EndOfRight, Own, Lower
<1>4. /\ action # 0 /\ Probe(id, Own(id)) /\ rp_id' = id /\ rp_id = id + HALFBATCH
      /\ lp_id' = lp_id /\ action' = action /\ side' = "clock"
      /\ UNCHANGED buildVars
  BY <1>1, <1>3 DEF RightBatch, Typed
<1> HIDE DEF id
<1>5. InOrder' /\ OneExtent' /\ PairsOfProbed' /\ VerifiesThePair'
  BY <1>1, <1>2, <1>4, BatchStep DEF Typed
<1>6. Typed' /\ Ends'
  BY <1>1, <1>2, <1>4 DEF Typed, IInv, Ends, buildVars
<1> QED
  BY <1>5, <1>6 DEF IInv

------------------------------------------------------------------------------
LEMMA StaticInvariant == Spec => []IInv
<1>1. Init => IInv
  BY StaticInit
<1>2. IInv /\ [Next]_staticVars => IInv'
  <2> SUFFICES ASSUME IInv, [Next]_staticVars
               PROVE  IInv'
    OBVIOUS
  <2>1. CASE ReduceBatch \/ BuildIndex
    BY <2>1, ReduceBatchStep, BuildIndexStep
  <2>2. CASE SelectPlan \/ GoOn \/ EndSlice
    BY <2>2, SliceStep
  <2>3. CASE LeftBatch \/ RightBatch
    BY <2>3, LeftBatchStep, RightBatchStep
  <2>4. CASE UNCHANGED staticVars
    <3>1. UNCHANGED <<count, plan, offset, owned_data, lp_id, rp_id, action, side, extents,
                      emitted, repeated, misread>>
      BY <2>4 DEF staticVars, buildVars, sliceVars, resultVars
    <3>2. ASSUME NEW p
          PROVE  Done(p)' = Done(p)
      BY <3>1 DEF Done
    <3>3. InOrder'
      BY <3>1, <3>2 DEF IInv, InOrder
    <3> QED
      BY <3>1, <3>3 DEF IInv, Typed, OneExtent, Own, Ends, PairsOfProbed, ProbedRecords,
                       VerifiesThePair
  <2> QED
    BY <2>1, <2>2, <2>3, <2>4 DEF Next
<1> QED
  BY <1>1, <1>2, PTL DEF Spec

(* execute_timeslice_prebuilt reports every pair of records once, and just *)
(* those of the records it has passed from either end, for every size of   *)
(* the dataset and of a batch, whatever plans the slices select, wherever  *)
(* they end, and whatever the reduction cache still holds.                 *)
THEOREM PairsExact == Spec => []PairsOfProbed
BY StaticInvariant, PTL DEF IInv

(* _offset_verify reads the records of the pair it verifies, although it   *)
(* knows only their distances to the offsets of index and probe batch.     *)
THEOREM ReadsThePair == Spec => []VerifiesThePair
BY StaticInvariant, PTL DEF IInv
==============================================================================
