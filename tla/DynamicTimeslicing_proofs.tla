----------------------- MODULE DynamicTimeslicing_proofs -----------------------
(***************************************************************************)
(* The dynamic time-sliced join for every dataset, every alignment and any *)
(* plans, in every interleaving of plans and timeouts: its reports respect *)
(* the contract of advance_block, pairs leave the plan only after they     *)
(* were compared, and cached indexes hold what they are used for.          *)
(*                                                                         *)
(* In the order of the file: consolidate() as an operator on lists of      *)
(* ranges; blocks of the plan end at ends of batches; the ends computed    *)
(* inside a block are ends of subblocks at its corner; what a computation  *)
(* with an index and an iteration of the probe loop compare; the inductive *)
(* invariant JInv and one lemma per action; the theorems.                  *)
(***************************************************************************)
EXTENDS DynamicTimeslicing, BlockScheduler_proofs, FiniteSetTheorems,
        WellFoundedInduction

------------------------------------------------------------------------------
(* Induction over the naturals, for a set of them instead of a predicate,  *)
(* from the library's theorem that every non-empty set of them has a least *)
(* element.                                                                *)

LEMMA NatOrder == IsWellFoundedOn({ss \in Nat \X Nat : ss[1] < ss[2]}, Nat)
  BY NatLessThanWellFounded DEF OpToRel

LEMMA LeastElement ==
  ASSUME NEW T, T \subseteq Nat, T # {}
  PROVE  \E m \in T : \A n \in T : m <= n
<1> DEFINE R == {ss \in Nat \X Nat : ss[1] < ss[2]}
<1>1. IsWellFoundedOn(R, Nat)
  BY NatOrder
<1>2. \A m, n \in Nat : n < m => <<n, m>> \in R
  OBVIOUS
<1> HIDE DEF R
<1>3. PICK m \in T : \A n \in T : ~(<<n, m>> \in R)
  BY <1>1, WFMin
<1>4. ASSUME NEW n \in T PROVE m <= n
  <2>1. m \in Nat /\ n \in Nat
    OBVIOUS
  <2>2. ~(n < m)
    BY <1>2, <1>3, <2>1
  <2>3. QED  BY <2>1, <2>2
<1>5. QED  BY <1>4

LEMMA SetInduction ==
  ASSUME NEW S, 0 \in S, \A n \in Nat : n \in S => n+1 \in S
  PROVE  \A n \in Nat : n \in S
<1> SUFFICES ASSUME ~(\A n \in Nat : n \in S) PROVE FALSE
  OBVIOUS
<1> DEFINE T == Nat \ S
<1>1. T # {} /\ T \subseteq Nat
  OBVIOUS
<1> HIDE DEF T
<1>2. PICK m \in T : \A n \in T : m <= n
  BY <1>1, LeastElement
<1>3. m \in Nat /\ m # 0 /\ m-1 \in Nat /\ m \notin S
  BY <1>2 DEF T
<1>4. m-1 \in S
  BY <1>2, <1>3 DEF T
<1>5. QED  BY <1>3, <1>4

IsIteration(f, m, x, n) == f[0] = x /\ \A k \in 1 .. n : f[k] = m[f[k-1]]

(* A function can be iterated.                                             *)
LEMMA Iterates ==
  ASSUME NEW W, NEW m \in [W -> W], NEW x \in W, NEW n \in Nat
  PROVE  \E f \in [0 .. n -> W] : IsIteration(f, m, x, n)
<1> USE DEF IsIteration
<1> DEFINE P(f, k) == IsIteration(f, m, x, k)
           S == {k \in Nat : \E f \in [0 .. k -> W] : P(f, k)}
<1>1. 0 \in S
  <2>1. [j \in 0 .. 0 |-> x] \in [0 .. 0 -> W]
    OBVIOUS
  <2>2. P([j \in 0 .. 0 |-> x], 0)
    OBVIOUS
  <2>3. QED  BY <2>1, <2>2
<1>2. ASSUME NEW k \in Nat, k \in S
      PROVE  k+1 \in S
  <2>1. PICK f \in [0 .. k -> W] : P(f, k)
    BY <1>2
  <2> DEFINE g == [j \in 0 .. k+1 |-> IF j = k+1 THEN m[f[k]] ELSE f[j]]
  <2>2. g \in [0 .. k+1 -> W]
    OBVIOUS
  <2>3. P(g, k+1)
    BY <2>1
  <2>4. k+1 \in Nat
    OBVIOUS
  <2> HIDE DEF g, P
  <2>5. QED  BY <2>2, <2>3, <2>4
<1>3. n \in S
  <2> HIDE DEF S
  <2>1. QED  BY <1>1, <1>2, SetInduction
<1>4. QED  BY <1>3

------------------------------------------------------------------------------
(* Listing a finite set in an order.                                       *)

TotalOrder(B, D) ==
  /\ \A i \in D : <<i, i>> \notin B
  /\ \A i, j, k \in D : <<i, j>> \in B /\ <<j, k>> \in B => <<i, k>> \in B
  /\ \A i, j \in D : i # j => <<i, j>> \in B \/ <<j, i>> \in B

CountsPredecessors(rank, B, D) ==
  \A i \in D : rank[i] = Cardinality({j \in D : <<j, i>> \in B})

Ranked(rank, B, D) ==
  /\ Cardinality(D) \in Nat
  /\ \A i \in D : rank[i] \in 0 .. Cardinality(D)-1
  /\ \A i, j \in D : rank[i] = rank[j] => i = j
  /\ \A i, j \in D : rank[i] < rank[j] <=> <<i, j>> \in B
  /\ \A n \in 0 .. Cardinality(D)-1 : \E i \in D : rank[i] = n

(* An element of a finite, totally ordered set is known by the number of   *)
(* its predecessors.                                                       *)
LEMMA Ranks ==
  ASSUME NEW D, IsFiniteSet(D), NEW B, TotalOrder(B, D),
         NEW rank, CountsPredecessors(rank, B, D)
  PROVE  Ranked(rank, B, D)
<1> DEFINE K == Cardinality(D)
           pred(i) == {j \in D : <<j, i>> \in B}
           r == [i \in D |-> rank[i]]
<1>0. TotalOrder(B, D) /\ \A i \in D : rank[i] = Cardinality(pred(i))
  BY DEF CountsPredecessors
<1> USE DEF TotalOrder
<1>1. K \in Nat
  BY FS_CardinalityType
<1>2. ASSUME NEW i \in D
      PROVE  /\ IsFiniteSet(pred(i)) /\ Cardinality(pred(i)) \in Nat
             /\ Cardinality(pred(i)) <= K-1
  <2>1. IsFiniteSet(D \ {i}) /\ Cardinality(D \ {i}) = K-1
    BY FS_RemoveElement
  <2>2. pred(i) \in SUBSET (D \ {i})
    OBVIOUS
  <2> HIDE DEF pred, K
  <2>3. IsFiniteSet(pred(i)) /\ Cardinality(pred(i)) <= Cardinality(D \ {i})
    BY <2>1, <2>2, FS_Subset
  <2>4. QED  BY <2>1, <2>3, FS_CardinalityType
<1>3. ASSUME NEW i \in D, NEW j \in D, <<i, j>> \in B
      PROVE  rank[i] < rank[j]
  <2>1. pred(i) \in SUBSET pred(j) /\ i \in pred(j) /\ i \notin pred(i)
    BY <1>3
  <2>2. rank[i] = Cardinality(pred(i)) /\ rank[j] = Cardinality(pred(j))
    BY <1>0
  <2>3. /\ IsFiniteSet(pred(j))
        /\ Cardinality(pred(i)) \in Nat /\ Cardinality(pred(j)) \in Nat
    BY <1>2
  <2> HIDE DEF pred
  <2>4. Cardinality(pred(i)) <= Cardinality(pred(j))
    BY <2>1, <2>3, FS_Subset
  <2>5. Cardinality(pred(i)) # Cardinality(pred(j))
    BY <2>1, <2>3, FS_Subset
  <2>6. QED  BY <2>2, <2>3, <2>4, <2>5
<1>4. \A i \in D : rank[i] \in 0 .. K-1
  <2> SUFFICES ASSUME NEW i \in D PROVE rank[i] \in 0 .. K-1
    OBVIOUS
  <2>1. rank[i] = Cardinality(pred(i))
    BY <1>0
  <2> HIDE DEF pred, K
  <2>2. QED  BY <1>1, <1>2, <2>1
<1>5. \A i, j \in D : rank[i] \in Int /\ rank[j] \in Int
  <2> HIDE DEF K
  <2>1. QED  BY <1>1, <1>4
<1>6. /\ \A i, j \in D : rank[i] = rank[j] => i = j
      /\ \A i, j \in D : rank[i] < rank[j] <=> <<i, j>> \in B
  <2>1. SUFFICES ASSUME NEW i \in D, NEW j \in D
                 PROVE  /\ rank[i] = rank[j] => i = j
                        /\ rank[i] < rank[j] <=> <<i, j>> \in B
    OBVIOUS
  <2>2. <<i, j>> \in B => rank[i] < rank[j]
    BY <1>3
  <2>3. <<j, i>> \in B => rank[j] < rank[i]
    BY <1>3
  <2>4. QED  BY <1>5, <2>2, <2>3
<1>7. \A n \in 0 .. K-1 : \E i \in D : rank[i] = n
  <2>1. r \in Injection(D, 0 .. K-1)
    BY <1>4, <1>6 DEF Injection, IsInjective
  <2>2. IsFiniteSet(0 .. K-1) /\ Cardinality(0 .. K-1) = K
    <3>1. 0 \in Int /\ K-1 \in Int
      BY <1>1
    <3> HIDE DEF K
    <3>2. QED  BY <1>1, <3>1, FS_Interval
  <2> HIDE DEF r
  <2>3. r \in Surjection(D, 0 .. K-1)
    BY <2>1, <2>2, FS_Injection
  <2>4. QED  BY <2>3 DEF r, Surjection
<1>8. QED  BY <1>1, <1>4, <1>6, <1>7 DEF Ranked

LEMMA AsListedFacts ==
  ASSUME NEW S, IsFiniteSet(S), S \subseteq Int
  PROVE  LET o == AsListed(S)
             K == Cardinality(S)
         IN  /\ K \in Nat /\ DOMAIN o = 1 .. K
             /\ \A n \in 1 .. K : o[n] \in S
             /\ \A i \in S : \E n \in 1 .. K : o[n] = i
             /\ \A m, n \in 1 .. K : m < n => o[m] < o[n]
<1> DEFINE o == AsListed(S)
           K == Cardinality(S)
           before(i) == {j \in S : j < i}
           rank == [i \in S |-> Cardinality(before(i))]
           B == {p \in S \X S : p[1] < p[2]}
<1>1. /\ \A i, j \in S : <<i, j>> \in B <=> i < j
      /\ \A i \in S : rank[i] = Cardinality({j \in S : <<j, i>> \in B})
  <2>1. \A i, j \in S : <<i, j>> \in B <=> i < j
    OBVIOUS
  <2> HIDE DEF B
  <2>2. \A i \in S : before(i) = {j \in S : <<j, i>> \in B}
    BY <2>1
  <2> HIDE DEF before
  <2>3. QED  BY <2>1, <2>2
<1>2. DOMAIN o = 1 .. K /\ \A n \in 1 .. K : o[n] = CHOOSE i \in S : Cardinality(before(i)) = n-1
  BY DEF AsListed
<1>3. \A i \in S : rank[i] = Cardinality(before(i))
  OBVIOUS
<1> HIDE DEF o, K, before, rank, B
<1>4. /\ \A i \in S : <<i, i>> \notin B
      /\ \A i, j, k \in S : <<i, j>> \in B /\ <<j, k>> \in B => <<i, k>> \in B
      /\ \A i, j \in S : i # j => <<i, j>> \in B \/ <<j, i>> \in B
  BY <1>1
<1>5. /\ K \in Nat
      /\ \A i \in S : rank[i] \in 0 .. K-1
      /\ \A i, j \in S : rank[i] = rank[j] => i = j
      /\ \A i, j \in S : rank[i] < rank[j] <=> <<i, j>> \in B
      /\ \A n \in 0 .. K-1 : \E i \in S : rank[i] = n
  <2>1. IsFiniteSet(S) /\ TotalOrder(B, S) /\ CountsPredecessors(rank, B, S)
    BY <1>1, <1>4 DEF TotalOrder, CountsPredecessors
  <2>2. Ranked(rank, B, S)
    BY <2>1, Ranks
  <2>3. QED  BY <2>2 DEF Ranked, K
<1>6. ASSUME NEW n \in 1 .. K
      PROVE  o[n] \in S /\ rank[o[n]] = n-1
  <2>1. \E i \in S : rank[i] = n-1
    <3>1. n-1 \in 0 .. K-1
      BY <1>5
    <3>2. QED  BY <1>5, <3>1
  <2>2. \E i \in S : Cardinality(before(i)) = n-1
    BY <1>3, <2>1
  <2>3. o[n] \in S /\ Cardinality(before(o[n])) = n-1
    BY <1>2, <2>2
  <2>4. QED  BY <1>3, <2>3
<1>7. ASSUME NEW i \in S
      PROVE  \E n \in 1 .. K : o[n] = i
  <2>1. PICK n \in 1 .. K : n-1 = rank[i]
    <3>1. rank[i] \in 0 .. K-1
      BY <1>5
    <3>2. rank[i]+1 \in 1 .. K /\ (rank[i]+1)-1 = rank[i]
      BY <1>5, <3>1
    <3>3. QED  BY <3>2
  <2>2. o[n] \in S /\ rank[o[n]] = rank[i]
    BY <1>6, <2>1
  <2>3. QED  BY <1>5, <2>2
<1>8. ASSUME NEW m \in 1 .. K, NEW n \in 1 .. K, m < n
      PROVE  o[m] < o[n]
  <2>1. /\ o[m] \in S /\ rank[o[m]] = m-1
        /\ o[n] \in S /\ rank[o[n]] = n-1
    BY <1>6
  <2>2. m-1 < n-1
    BY <1>5, <1>8
  <2>3. <<o[m], o[n]>> \in B
    BY <1>5, <2>1, <2>2
  <2>4. QED  BY <1>1, <2>1, <2>3
<1>9. QED  BY <1>2, <1>5, <1>6, <1>7, <1>8 DEF o, K

------------------------------------------------------------------------------
(* Consolidating a list of indexes.  An index starts with a microbatch and *)
(* ends with one, is not empty and lies within the records.                *)

Border(x) == x % ALIGNMENT = 0 \/ x = N

Indexes ==
  {a \in [start : 0 .. N, end : 0 .. N] :
     a.start < a.end /\ a.start % ALIGNMENT = 0 /\ Border(a.end)}

Sorted(c) == \A m, n \in 1 .. Len(c) : m < n => ~SortsBefore(c[n], c[m])

Ascending(c) == \A m, n \in 1 .. Len(c) : m < n => c[m].start < c[n].start

LEMMA IndexFacts ==
  /\ \A a \in Indexes : a.start \in Int /\ a.end \in Int /\ a.start < a.end
  /\ \A a, b \in Indexes : a.start = b.start /\ a.end = b.end => a = b
  /\ \A a, b \in Indexes : a.start < b.end =>
       [start |-> a.start, end |-> b.end] \in Indexes
  BY SizeAssumption DEF Indexes

LEMMA ListFacts ==
  ASSUME NEW c \in Seq(Indexes)
  PROVE  /\ Len(c) \in Nat /\ DOMAIN c = 1 .. Len(c)
         /\ \A i \in 1 .. Len(c) : c[i] \in Indexes
  OBVIOUS

(* A list whose members are known by position.                             *)
LEMMA ListIsSeq ==
  ASSUME NEW s, NEW K \in Nat, s = [n \in 1 .. K |-> s[n]],
         \A n \in 1 .. K : s[n] \in Indexes
  PROVE  s \in Seq(Indexes) /\ Len(s) = K
<1>1. s \in [1 .. K -> Indexes]
  OBVIOUS
<1>2. QED  BY <1>1

(* Sorting permutes.                                                       *)
LEMMA ByStartFacts ==
  ASSUME NEW c \in Seq(Indexes)
  PROVE  LET s == ByStart(c)
         IN  /\ s \in Seq(Indexes) /\ Len(s) = Len(c) /\ Sorted(s)
             /\ \A n \in 1 .. Len(s) : \E i \in 1 .. Len(c) : s[n] = c[i]
             /\ \A i \in 1 .. Len(c) : \E n \in 1 .. Len(s) : s[n] = c[i]
<1> DEFINE s == ByStart(c)
           D == DOMAIN c
           K == Cardinality(D)
           bef(i, j) == SortsBefore(c[i], c[j]) \/ (c[i] = c[j] /\ i < j)
           before(i) == {j \in D : bef(j, i)}
           rank == [i \in D |-> Cardinality(before(i))]
           B == {p \in D \X D : bef(p[1], p[2])}
<1>1. /\ \A i, j \in D : <<i, j>> \in B <=> bef(i, j)
      /\ \A i \in D : rank[i] = Cardinality({j \in D : <<j, i>> \in B})
  <2> HIDE DEF bef, D
  <2>1. \A i, j \in D : <<i, j>> \in B <=> bef(i, j)
    OBVIOUS
  <2> HIDE DEF B
  <2>2. \A i \in D : before(i) = {j \in D : <<j, i>> \in B}
    BY <2>1
  <2> HIDE DEF before
  <2>3. QED  BY <2>1, <2>2
<1>2. s = [n \in D |-> c[CHOOSE i \in D : Cardinality(before(i)) = n-1]]
  BY DEF ByStart
<1>3. \A i \in D : rank[i] = Cardinality(before(i))
  OBVIOUS
<1>4. /\ Len(c) \in Nat /\ D = 1 .. Len(c)
      /\ \A i \in D : c[i] \in Indexes
  BY ListFacts
<1>5. IsFiniteSet(D) /\ K = Len(c)
  <2>1. 1 \in Int /\ Len(c) \in Int /\ (1 > Len(c) => Len(c) = 0)
    BY <1>4
  <2> HIDE DEF D
  <2>2. IsFiniteSet(1 .. Len(c)) /\ Cardinality(1 .. Len(c)) = Len(c)
    BY <1>4, <2>1, FS_Interval
  <2>3. QED  BY <1>4, <2>2
<1>6. /\ \A i \in D : ~bef(i, i)
      /\ \A i, j, k \in D : bef(i, j) /\ bef(j, k) => bef(i, k)
      /\ \A i, j \in D : i # j => bef(i, j) \/ bef(j, i)
  <2>1. \A i \in D : i \in Int /\ c[i] \in Indexes /\ c[i].start \in Int /\ c[i].end \in Int
    BY <1>4, IndexFacts
  <2>2. \A i, j \in D : c[i].start = c[j].start /\ c[i].end = c[j].end => c[i] = c[j]
    BY <2>1, IndexFacts
  <2> HIDE DEF D
  <2>3. \A i \in D : ~bef(i, i)
    BY <2>1 DEF SortsBefore
  <2>4. \A i, j, k \in D : bef(i, j) /\ bef(j, k) => bef(i, k)
    BY <2>1 DEF SortsBefore
  <2>5. \A i, j \in D : i # j => bef(i, j) \/ bef(j, i)
    BY <2>1, <2>2 DEF SortsBefore
  <2>6. QED  BY <2>3, <2>4, <2>5
<1>7. \A i, j \in D : bef(j, i) \/ j = i => ~SortsBefore(c[i], c[j])
  <2>1. \A i \in D : i \in Int /\ c[i] \in Indexes /\ c[i].start \in Int /\ c[i].end \in Int
    BY <1>4, IndexFacts
  <2> HIDE DEF D
  <2>2. QED  BY <2>1 DEF SortsBefore
<1> HIDE DEF s, D, K, before, rank, B, bef
<1>8. /\ \A i \in D : <<i, i>> \notin B
      /\ \A i, j, k \in D : <<i, j>> \in B /\ <<j, k>> \in B => <<i, k>> \in B
      /\ \A i, j \in D : i # j => <<i, j>> \in B \/ <<j, i>> \in B
  BY <1>1, <1>6
<1>9. /\ \A i \in D : rank[i] \in 0 .. K-1
      /\ \A i, j \in D : rank[i] = rank[j] => i = j
      /\ \A i, j \in D : rank[i] < rank[j] <=> <<i, j>> \in B
      /\ \A n \in 0 .. K-1 : \E i \in D : rank[i] = n
  <2>1. TotalOrder(B, D) /\ CountsPredecessors(rank, B, D)
    BY <1>1, <1>8 DEF TotalOrder, CountsPredecessors
  <2>2. Ranked(rank, B, D)
    BY <1>5, <2>1, Ranks
  <2>3. QED  BY <2>2 DEF Ranked, K
<1> DEFINE o == [n \in D |-> CHOOSE i \in D : Cardinality(before(i)) = n-1]
<1>10. ASSUME NEW n \in D
       PROVE  o[n] \in D /\ rank[o[n]] = n-1 /\ s[n] = c[o[n]]
  <2>1. \E i \in D : rank[i] = n-1
    <3>1. n-1 \in 0 .. K-1
      BY <1>4, <1>5
    <3>2. QED  BY <1>9, <3>1
  <2>2. \E i \in D : Cardinality(before(i)) = n-1
    BY <1>3, <2>1
  <2>3. o[n] \in D /\ Cardinality(before(o[n])) = n-1
    BY <2>2
  <2>4. QED  BY <1>2, <1>3, <2>3
<1> HIDE DEF o
<1>11. s \in Seq(Indexes) /\ Len(s) = Len(c)
  <2>1. \A n \in 1 .. Len(c) : s[n] \in Indexes
    BY <1>4, <1>10
  <2>2. s = [n \in 1 .. Len(c) |-> s[n]]
    BY <1>2, <1>4
  <2>3. QED  BY <1>4, <2>1, <2>2, ListIsSeq
<1>12. \A n \in 1 .. Len(s) : \E i \in 1 .. Len(c) : s[n] = c[i]
  BY <1>4, <1>10, <1>11
<1>13. ASSUME NEW i \in 1 .. Len(c)
       PROVE  \E n \in 1 .. Len(s) : s[n] = c[i]
  <2>1. PICK n \in D : n-1 = rank[i]
    <3>1. rank[i] \in 0 .. K-1
      BY <1>4, <1>9
    <3>2. rank[i]+1 \in D /\ (rank[i]+1)-1 = rank[i]
      BY <1>4, <1>5, <3>1
    <3>3. QED  BY <3>2
  <2>2. o[n] \in D /\ rank[o[n]] = rank[i] /\ s[n] = c[o[n]]
    BY <1>10, <2>1
  <2>3. o[n] = i
    BY <1>4, <1>9, <2>2
  <2>4. QED  BY <1>4, <1>11, <2>2, <2>3
<1>14. ASSUME NEW m \in 1 .. Len(s), NEW n \in 1 .. Len(s), m < n
       PROVE  ~SortsBefore(s[n], s[m])
  <2>1. m \in D /\ n \in D /\ m-1 < n-1
    BY <1>4, <1>11, <1>14
  <2>2. /\ o[m] \in D /\ rank[o[m]] = m-1 /\ s[m] = c[o[m]]
        /\ o[n] \in D /\ rank[o[n]] = n-1 /\ s[n] = c[o[n]]
    BY <1>10, <2>1
  <2>3. <<o[m], o[n]>> \in B
    BY <1>9, <2>1, <2>2
  <2>4. bef(o[m], o[n])
    BY <1>1, <2>2, <2>3
  <2>5. QED  BY <1>7, <2>2, <2>4
<1>15. QED  BY <1>11, <1>12, <1>13, <1>14 DEF s, Sorted

LEMMA IndexRange ==
  ASSUME NEW a \in Indexes, NEW p
  PROVE  p \in RangeOf(a) <=> p \in Int /\ a.start <= p /\ p < a.end
<1>1. a.start \in Int /\ a.end \in Int
  BY IndexFacts
<1>2. QED  BY <1>1 DEF RangeOf, Ids

LEMMA InAllRanges ==
  ASSUME NEW c \in Seq(Indexes), NEW p
  PROVE  p \in AllRanges(c) <=>
           \E i \in 1 .. Len(c) : p \in Int /\ c[i].start <= p /\ p < c[i].end
<1>1. DOMAIN c = 1 .. Len(c) /\ \A i \in 1 .. Len(c) : c[i] \in Indexes
  BY ListFacts
<1>2. p \in AllRanges(c) <=> \E i \in 1 .. Len(c) : p \in RangeOf(c[i])
  BY <1>1 DEF AllRanges
<1>3. QED  BY <1>1, <1>2, IndexRange

(* What is dropped as covered lies in a range that is kept: the first that *)
(* reaches as far.                                                         *)
LEMMA KeepFacts ==
  ASSUME NEW c \in Seq(Indexes), Sorted(c)
  PROVE  LET k == KeepUncovered(c)
         IN  /\ k \in Seq(Indexes) /\ Ascending(k)
             /\ \A n \in 1 .. Len(k) : \E i \in 1 .. Len(c) : k[n] = c[i]
             /\ \A i \in 1 .. Len(c) : \E n \in 1 .. Len(k) :
                  Covered(k[n], c[i].start, c[i].end)
<1> DEFINE k == KeepUncovered(c)
           kept == {i \in DOMAIN c : \A j \in 1 .. i-1 : c[j].end < c[i].end}
           o == AsListed(kept)
           K == Cardinality(kept)
<1>1. /\ Len(c) \in Nat /\ DOMAIN c = 1 .. Len(c)
      /\ \A i \in 1 .. Len(c) : c[i] \in Indexes
                                /\ c[i].start \in Int /\ c[i].end \in Int
  BY ListFacts, IndexFacts
<1>2. k = [n \in DOMAIN o |-> c[o[n]]]
  BY DEF KeepUncovered
<1>3. \A i : i \in kept <=> i \in 1 .. Len(c) /\ \A j \in 1 .. i-1 : c[j].end < c[i].end
  BY <1>1
<1> HIDE DEF k, kept, o
<1>4. IsFiniteSet(kept) /\ kept \subseteq Int /\ kept \subseteq 1 .. Len(c)
  <2>1. kept \in SUBSET (1 .. Len(c))
    BY <1>3
  <2>2. IsFiniteSet(1 .. Len(c))
    BY <1>1, FS_Interval
  <2>3. IsFiniteSet(kept)
    BY <2>1, <2>2, FS_Subset
  <2>4. QED  BY <1>1, <2>1, <2>3
<1>5. /\ K \in Nat /\ DOMAIN o = 1 .. K
      /\ \A n \in 1 .. K : o[n] \in kept
      /\ \A i \in kept : \E n \in 1 .. K : o[n] = i
      /\ \A m, n \in 1 .. K : m < n => o[m] < o[n]
  BY <1>4, AsListedFacts DEF o
<1> HIDE DEF K
<1>6. k \in Seq(Indexes) /\ Len(k) = K
  <2>1. \A n \in 1 .. K : k[n] \in Indexes
    BY <1>1, <1>2, <1>4, <1>5
  <2>2. k = [n \in 1 .. K |-> k[n]]
    BY <1>2, <1>5
  <2>3. QED  BY <1>5, <2>1, <2>2, ListIsSeq
<1>7. \A n \in 1 .. K : k[n] = c[o[n]] /\ o[n] \in 1 .. Len(c)
  BY <1>2, <1>4, <1>5
<1>8. ASSUME NEW m \in 1 .. K, NEW n \in 1 .. K, m < n
      PROVE  k[m].start < k[n].start
  <2>1. /\ o[m] \in 1 .. Len(c) /\ o[n] \in 1 .. Len(c) /\ o[m] < o[n] /\ o[n] \in kept
        /\ k[m] = c[o[m]] /\ k[n] = c[o[n]]
    BY <1>5, <1>7, <1>8
  <2>2. ~SortsBefore(c[o[n]], c[o[m]])
    BY <2>1 DEF Sorted
  <2>3. c[o[m]].end < c[o[n]].end
    <3>1. o[m] \in 1 .. o[n]-1
      BY <2>1
    <3>2. QED  BY <1>3, <2>1, <3>1
  <2>4. QED  BY <1>1, <2>1, <2>2, <2>3 DEF SortsBefore
<1>9. ASSUME NEW i \in 1 .. Len(c)
      PROVE  \E n \in 1 .. K : Covered(k[n], c[i].start, c[i].end)
  <2> DEFINE T == {j \in 1 .. i : c[i].end <= c[j].end}
  <2>1. i \in T /\ T \subseteq Nat
    BY <1>1
  <2> HIDE DEF T
  <2>2. PICK j \in T : \A l \in T : j <= l
    BY <2>1, LeastElement
  <2>3. j \in 1 .. i /\ j \in 1 .. Len(c) /\ c[i].end <= c[j].end
    BY <1>1, <2>2 DEF T
  <2>4. j \in kept
    <3>1. ASSUME NEW l \in 1 .. j-1 PROVE c[l].end < c[j].end
      <4>1. l \in 1 .. i /\ l \in 1 .. Len(c) /\ ~(j <= l)
        BY <1>1, <2>3
      <4>2. l \notin T
        BY <2>2, <4>1
      <4>3. ~(c[i].end <= c[l].end)
        BY <4>1, <4>2 DEF T
      <4>4. QED  BY <1>1, <2>3, <4>1, <4>3
    <3>2. QED  BY <1>3, <2>3, <3>1
  <2>5. c[j].start <= c[i].start
    <3>1. CASE j = i
      BY <1>1, <3>1
    <3>2. CASE j # i
      <4>1. j < i
        BY <2>3, <3>2
      <4>2. ~SortsBefore(c[i], c[j])
        BY <2>3, <4>1 DEF Sorted
      <4>3. QED  BY <1>1, <2>3, <4>2 DEF SortsBefore
    <3>3. QED  BY <3>1, <3>2
  <2>6. PICK n \in 1 .. K : o[n] = j
    BY <1>5, <2>4
  <2>7. QED  BY <1>7, <2>3, <2>5, <2>6 DEF Covered
<1>10. \A n \in 1 .. K : \E i \in 1 .. Len(c) : k[n] = c[i]
  BY <1>7
<1>11. QED  BY <1>6, <1>8, <1>9, <1>10 DEF k, Ascending

(* Which positions a pass takes away is settled from the first to the      *)
(* last.                                                                   *)
LEMMA TakenExists ==
  ASSUME NEW R, NEW n \in Nat
  PROVE  \E T \in SUBSET (1 .. n) : \A j \in 1 .. n :
           j \in T <=> \E i \in 1 .. j-1 : <<i, j>> \in R /\ i \notin T
<1> DEFINE OK(T, k) == \A j \in 1 .. k :
             j \in T <=> \E i \in 1 .. j-1 : <<i, j>> \in R /\ i \notin T
           S == {k \in Nat : \E T \in SUBSET (1 .. k) : OK(T, k)}
<1>1. 0 \in S
  <2>1. {} \in SUBSET (1 .. 0) /\ OK({}, 0)
    OBVIOUS
  <2>2. QED  BY <2>1
<1>2. ASSUME NEW k \in Nat, k \in S
      PROVE  k+1 \in S
  <2>1. PICK T \in SUBSET (1 .. k) : OK(T, k)
    BY <1>2
  <2> DEFINE U == IF \E i \in 1 .. k : <<i, k+1>> \in R /\ i \notin T
                  THEN T \cup {k+1} ELSE T
  <2>2. U \in SUBSET (1 .. k+1) /\ \A i \in 1 .. k : i \in U <=> i \in T
    OBVIOUS
  <2>3. k+1 \in U <=> \E i \in 1 .. k : <<i, k+1>> \in R /\ i \notin T
    OBVIOUS
  <2> HIDE DEF U
  <2>4. ASSUME NEW j \in 1 .. k+1
        PROVE  j \in U <=> \E i \in 1 .. j-1 : <<i, j>> \in R /\ i \notin U
    <3>1. CASE j = k+1
      BY <2>2, <2>3, <3>1
    <3>2. CASE j \in 1 .. k
      <4>1. \A i \in 1 .. j-1 : i \in 1 .. k
        BY <3>2
      <4>2. j \in T <=> \E i \in 1 .. j-1 : <<i, j>> \in R /\ i \notin T
        BY <2>1, <3>2
      <4>3. QED  BY <2>2, <3>2, <4>1, <4>2
    <3>3. QED  BY <3>1, <3>2
  <2>5. OK(U, k+1)
    BY <2>4
  <2>6. k+1 \in Nat /\ U \in SUBSET (1 .. k+1)
    BY <2>2
  <2> HIDE DEF OK
  <2>7. QED  BY <2>5, <2>6
<1>3. n \in S
  <2> HIDE DEF S
  <2>1. QED  BY <1>1, <1>2, SetInduction
<1>4. QED  BY <1>3

(* A pass over ascending ranges.  A range takes in at most one other, which *)
(* comes later, and one that was taken is contained in a range that stays.  *)
LEMMA PassFacts ==
  ASSUME NEW c \in Seq(Indexes), Ascending(c), NEW threshold
  PROVE  LET d == MergePass(c, threshold)
         IN  d \in Seq(Indexes) /\ Ascending(d) /\ AllRanges(d) = AllRanges(c)
<1> DEFINE d == MergePass(c, threshold)
           takes(i, j) == c[i].end = c[j].start /\ Size(c[i]) + Size(c[j]) <= threshold
           L == Len(c)
           Taken(g) == [j \in DOMAIN c |-> \E i \in 1 .. j-1 : takes(i, j) /\ ~g[i]]
           taken == CHOOSE g : g = Taken(g)
           merged(i) == IF \E j \in DOMAIN c : takes(i, j)
                        THEN [start |-> c[i].start,
                              end   |-> c[CHOOSE j \in DOMAIN c : takes(i, j)].end]
                        ELSE c[i]
           stays == {i \in DOMAIN c : ~taken[i]}
           o == AsListed(stays)
           K == Cardinality(stays)
<1>1. /\ L \in Nat /\ DOMAIN c = 1 .. L
      /\ \A i \in 1 .. L : c[i] \in Indexes
                           /\ c[i].start \in Int /\ c[i].end \in Int /\ c[i].start < c[i].end
  BY ListFacts, IndexFacts
<1>2. d = [n \in DOMAIN o |-> merged(o[n])]
  BY DEF MergePass
<1>3. \A i, j \in 1 .. L : takes(i, j) => c[i].end = c[j].start
  OBVIOUS
<1> HIDE DEF d, takes
<1>4. PICK T \in SUBSET (1 .. L) : \A j \in 1 .. L :
        j \in T <=> \E i \in 1 .. j-1 : takes(i, j) /\ i \notin T
  <2> DEFINE R == {p \in (1 .. L) \X (1 .. L) : takes(p[1], p[2])}
  <2>1. PICK T \in SUBSET (1 .. L) : \A j \in 1 .. L :
          j \in T <=> \E i \in 1 .. j-1 : <<i, j>> \in R /\ i \notin T
    <3> HIDE DEF R, L
    <3>1. QED  BY <1>1, TakenExists
  <2>2. \A j \in 1 .. L : \A i \in 1 .. j-1 : <<i, j>> \in R <=> takes(i, j)
    BY <1>1
  <2> HIDE DEF R
  <2>3. QED  BY <2>1, <2>2
<1>5. \E g : g = Taken(g)
  <2> DEFINE g == [j \in 1 .. L |-> j \in T]
  <2>1. ASSUME NEW j \in 1 .. L
        PROVE  g[j] = \E i \in 1 .. j-1 : takes(i, j) /\ ~g[i]
    <3>1. \A i \in 1 .. j-1 : i \in 1 .. L
      BY <1>1
    <3>2. \A i \in 1 .. j-1 : g[i] = (i \in T)
      BY <3>1
    <3>3. g[j] = (j \in T)
      OBVIOUS
    <3> HIDE DEF g
    <3>4. \A i \in 1 .. j-1 : ~g[i] <=> i \notin T
      BY Zenon, <3>2
    <3>5. j \in T <=> \E i \in 1 .. j-1 : takes(i, j) /\ ~g[i]
      BY Zenon, <1>4, <3>4
    <3> DEFINE later == \E i \in 1 .. j-1 : takes(i, j) /\ ~g[i]
    <3>6. later \in BOOLEAN /\ (j \in T) \in BOOLEAN
      OBVIOUS
    <3> HIDE DEF later
    <3>7. (j \in T) = later
      BY <3>5, <3>6 DEF later
    <3>8. g[j] = later
      BY <3>3, <3>7
    <3>9. QED  BY <3>8 DEF later
  <2>2. g = [j \in 1 .. L |-> g[j]]
    OBVIOUS
  <2> HIDE DEF g
  <2>3. g = [j \in 1 .. L |-> \E i \in 1 .. j-1 : takes(i, j) /\ ~g[i]]
    BY Zenon, <2>1, <2>2
  <2>4. QED  BY Zenon, <1>1, <2>3
<1>6. taken = Taken(taken)
  BY Zenon, <1>5
<1>7. \A j \in 1 .. L : j \in stays <=> ~\E i \in 1 .. j-1 : takes(i, j) /\ i \in stays
  <2>1. SUFFICES ASSUME NEW j \in 1 .. L
                 PROVE  j \in stays <=> ~\E i \in 1 .. j-1 : takes(i, j) /\ i \in stays
    OBVIOUS
  <2>2. \A i \in 1 .. L : i \in stays <=> ~taken[i]
    <3> HIDE DEF taken
    <3>1. QED  BY <1>1
  <2>3. taken[j] = \E i \in 1 .. j-1 : takes(i, j) /\ ~taken[i]
    <3>1. taken = [l \in 1 .. L |-> \E i \in 1 .. l-1 : takes(i, l) /\ ~taken[i]]
      BY Zenon, <1>1, <1>6
    <3> HIDE DEF taken
    <3>2. QED  BY Zenon, <3>1
  <2>4. \A i \in 1 .. j-1 : i \in 1 .. L
    BY <1>1
  <2> HIDE DEF stays, taken
  <2>5. QED  BY Zenon, <2>2, <2>3, <2>4
<1>8. stays \subseteq 1 .. L
  BY <1>1
<1> HIDE DEF taken, stays, o, L
<1>9. IsFiniteSet(stays) /\ stays \subseteq Int
  <2>1. stays \in SUBSET (1 .. L) /\ IsFiniteSet(1 .. L)
    BY <1>1, <1>8, FS_Interval
  <2>2. IsFiniteSet(stays)
    BY <2>1, FS_Subset
  <2>3. QED  BY <1>1, <2>1, <2>2
<1>10. /\ K \in Nat /\ DOMAIN o = 1 .. K
       /\ \A n \in 1 .. K : o[n] \in stays
       /\ \A i \in stays : \E n \in 1 .. K : o[n] = i
       /\ \A m, n \in 1 .. K : m < n => o[m] < o[n]
  BY <1>9, AsListedFacts DEF o
<1> HIDE DEF K
<1>11. \A i, j \in 1 .. L : c[i].start = c[j].start => i = j
  BY <1>1 DEF Ascending, L
<1>12. \A i, j \in 1 .. L : c[i].start < c[j].start => i < j
  BY <1>1 DEF Ascending, L
<1>13. ASSUME NEW i \in 1 .. L
       PROVE  /\ merged(i) \in Indexes
              /\ merged(i).start = c[i].start
              /\ c[i].end <= merged(i).end
              /\ \A j \in 1 .. L : takes(i, j) => merged(i).end = c[j].end
              /\ \/ merged(i).end = c[i].end
                 \/ \E j \in 1 .. L : takes(i, j) /\ merged(i).end = c[j].end
  <2>1. CASE \E j \in 1 .. L : takes(i, j)
    <3>1. PICK j \in 1 .. L : takes(i, j) /\ merged(i) = [start |-> c[i].start, end |-> c[j].end]
      BY <1>1, <2>1
    <3> HIDE DEF merged
    <3>2. c[i].end = c[j].start
      BY <1>3, <3>1
    <3>3. \A l \in 1 .. L : takes(i, l) => l = j
      BY <1>3, <1>11, <3>1
    <3>4. c[i].start < c[j].end /\ c[i].end <= c[j].end
      BY <1>1, <3>2
    <3>5. merged(i) \in Indexes
      BY <1>1, <3>1, <3>4, IndexFacts
    <3>6. merged(i).start = c[i].start /\ merged(i).end = c[j].end
      BY <3>1
    <3>7. QED  BY <3>1, <3>3, <3>4, <3>5, <3>6
  <2>2. CASE ~\E j \in 1 .. L : takes(i, j)
    <3>1. merged(i) = c[i]
      BY <1>1, <2>2
    <3> HIDE DEF merged
    <3>2. QED  BY <1>1, <2>2, <3>1
  <2>3. QED  BY <2>1, <2>2
<1> HIDE DEF merged
<1>14. \A n \in 1 .. K : d[n] = merged(o[n]) /\ o[n] \in stays /\ o[n] \in 1 .. L
  BY <1>2, <1>8, <1>10
<1>15. d \in Seq(Indexes) /\ Len(d) = K
  <2>1. \A n \in 1 .. K : d[n] \in Indexes
    BY <1>13, <1>14
  <2>2. d = [n \in 1 .. K |-> d[n]]
    BY <1>2, <1>10
  <2>3. QED  BY <1>10, <2>1, <2>2, ListIsSeq
<1>16. \A m, n \in 1 .. K : m < n => d[m].start < d[n].start
  <2>1. SUFFICES ASSUME NEW m \in 1 .. K, NEW n \in 1 .. K, m < n
                 PROVE  d[m].start < d[n].start
    OBVIOUS
  <2>2. o[m] \in 1 .. L /\ o[n] \in 1 .. L /\ o[m] < o[n]
    BY <1>10, <1>14, <2>1
  <2>3. c[o[m]].start < c[o[n]].start
    BY <2>2 DEF Ascending, L
  <2>4. QED  BY <1>13, <1>14, <2>2, <2>3
<1>17. ASSUME NEW p \in AllRanges(d)
       PROVE  p \in AllRanges(c)
  <2>1. PICK n \in 1 .. K : p \in Int /\ d[n].start <= p /\ p < d[n].end
    BY <1>15, InAllRanges
  <2>2. PICK i \in 1 .. L : d[n] = merged(i)
    BY <1>14
  <2>3. \E j \in 1 .. L : c[j].start <= p /\ p < c[j].end
    <3>1. CASE p < c[i].end
      BY <1>13, <2>1, <2>2, <3>1
    <3>2. CASE ~(p < c[i].end)
      <4>1. merged(i).end # c[i].end
        BY <2>1, <2>2, <3>2
      <4>2. PICK j \in 1 .. L : takes(i, j) /\ merged(i).end = c[j].end
        BY <1>13, <4>1
      <4>3. c[j].start = c[i].end
        BY <1>3, <4>2
      <4>4. c[j].start <= p /\ p < c[j].end
        BY <1>1, <2>1, <2>2, <3>2, <4>2, <4>3
      <4>5. QED  BY <4>4
    <3>3. QED  BY <3>1, <3>2
  <2>4. QED  BY <2>1, <2>3, InAllRanges DEF L
<1>18. ASSUME NEW p \in AllRanges(c)
       PROVE  p \in AllRanges(d)
  <2>1. PICK j \in 1 .. L : p \in Int /\ c[j].start <= p /\ p < c[j].end
    BY InAllRanges DEF L
  <2>2. \E i \in stays : merged(i).start <= p /\ p < merged(i).end
    <3>1. CASE j \in stays
      <4>1. /\ merged(j) \in Indexes /\ merged(j).start = c[j].start
            /\ c[j].end <= merged(j).end
        BY <1>13
      <4>2. merged(j).start \in Int /\ merged(j).end \in Int
        BY <4>1, IndexFacts
      <4>3. merged(j).start <= p /\ p < merged(j).end
        BY <1>1, <2>1, <4>1, <4>2
      <4>4. QED  BY <3>1, <4>3
    <3>2. CASE j \notin stays
      <4>1. PICK i \in 1 .. j-1 : takes(i, j) /\ i \in stays
        BY <1>7, <3>2
      <4>2. i \in 1 .. L /\ c[i].end = c[j].start
        BY <1>3, <1>8, <4>1
      <4>3. merged(i).end = c[j].end /\ merged(i).start = c[i].start
        BY <1>13, <4>1, <4>2
      <4>4. merged(i).start <= p /\ p < merged(i).end
        BY <1>1, <2>1, <4>2, <4>3
      <4>5. QED  BY <4>1, <4>4
    <3>3. QED  BY <3>1, <3>2
  <2>3. PICK i \in stays : merged(i).start <= p /\ p < merged(i).end
    BY <2>2
  <2>4. PICK n \in 1 .. K : o[n] = i
    BY <1>10
  <2>5. d[n].start <= p /\ p < d[n].end
    BY <1>14, <2>3, <2>4
  <2>6. QED  BY <1>15, <2>1, <2>5, InAllRanges
<1>19. QED  BY <1>15, <1>16, <1>17, <1>18 DEF d, Ascending

LEMMA PassesFacts ==
  ASSUME NEW c \in Seq(Indexes), Ascending(c), NEW threshold
  PROVE  LET d == MergePasses(c, threshold)
         IN  d \in Seq(Indexes) /\ AllRanges(d) = AllRanges(c)
<1> DEFINE W == {d \in Seq(Indexes) : Ascending(d) /\ AllRanges(d) = AllRanges(c)}
           m == [d \in W |-> MergePass(d, threshold)]
           After(g) == [n \in 0 .. Len(c) |->
                          IF n = 0 THEN {c} ELSE {MergePass(d, threshold) : d \in g[n-1]}]
           after == CHOOSE g : g = After(g)
<1>1. MergePasses(c, threshold) = CHOOSE d \in after[Len(c)] : TRUE
  BY DEF MergePasses
<1>2. Len(c) \in Nat /\ c \in W
  OBVIOUS
<1>3. \A d \in W : MergePass(d, threshold) \in W
  BY PassFacts
<1>4. \E g : g = After(g)
  <2>1. m \in [W -> W]
    <3> HIDE DEF W
    <3>1. QED  BY <1>3
  <2>2. PICK f \in [0 .. Len(c) -> W] : IsIteration(f, m, c, Len(c))
    <3> HIDE DEF W, m
    <3>1. QED  BY <1>2, <2>1, Iterates
  <2>3. \A k \in 1 .. Len(c) : f[k] = MergePass(f[k-1], threshold)
    <3>1. \A k \in 1 .. Len(c) : f[k-1] \in W
      <4> HIDE DEF W
      <4>1. QED  BY <1>2
    <3> HIDE DEF W
    <3>2. QED  BY <2>2, <3>1 DEF IsIteration
  <2> DEFINE g == [n \in 0 .. Len(c) |-> {f[n]}]
  <2>4. ASSUME NEW n \in 0 .. Len(c)
        PROVE  g[n] = IF n = 0 THEN {c} ELSE {MergePass(d, threshold) : d \in g[n-1]}
    <3>1. g[n] = {f[n]} /\ (n # 0 => n-1 \in 0 .. Len(c) /\ g[n-1] = {f[n-1]})
      BY <1>2
    <3> HIDE DEF g
    <3>2. n # 0 => {MergePass(d, threshold) : d \in g[n-1]} = {MergePass(f[n-1], threshold)}
      BY <3>1
    <3>3. n # 0 => n \in 1 .. Len(c)
      BY <1>2
    <3>4. QED  BY <2>2, <2>3, <3>1, <3>2, <3>3 DEF IsIteration
  <2>5. g = [n \in 0 .. Len(c) |-> g[n]]
    OBVIOUS
  <2> HIDE DEF g
  <2>6. g = After(g)
    BY Zenon, <2>4, <2>5
  <2>7. QED  BY <2>6
<1>5. after = After(after)
  BY Zenon, <1>4
<1> HIDE DEF W, m, after
<1>6. ASSUME NEW n \in 0 .. Len(c)
      PROVE  after[n] = IF n = 0 THEN {c} ELSE {MergePass(d, threshold) : d \in after[n-1]}
  BY Zenon, <1>5
<1> DEFINE S == {n \in Nat : n <= Len(c) => after[n] # {} /\ after[n] \subseteq W}
<1>7. 0 \in S
  <2>1. 0 \in 0 .. Len(c)
    BY <1>2
  <2>2. after[0] = {c}
    BY <1>6, <2>1
  <2>3. QED  BY <1>2, <2>2
<1>8. ASSUME NEW n \in Nat, n \in S
      PROVE  n+1 \in S
  <2>1. CASE n+1 <= Len(c)
    <3>1. after[n] # {} /\ after[n] \subseteq W
      BY <1>2, <1>8, <2>1
    <3>2. n+1 \in 0 .. Len(c) /\ n+1 # 0 /\ (n+1)-1 = n
      BY <1>2, <2>1
    <3>3. after[n+1] = {MergePass(d, threshold) : d \in after[n]}
      BY <1>6, <3>2
    <3>4. after[n+1] # {} /\ after[n+1] \subseteq W
      BY <1>3, <3>1, <3>3
    <3>5. QED  BY <3>2, <3>4
  <2>2. CASE ~(n+1 <= Len(c))
    BY <2>2
  <2>3. QED  BY <2>1, <2>2
<1>9. Len(c) \in S
  <2> HIDE DEF S
  <2>1. QED  BY <1>2, <1>7, <1>8, SetInduction
<1>10. after[Len(c)] # {} /\ after[Len(c)] \subseteq W
  BY <1>2, <1>9
<1>11. MergePasses(c, threshold) \in W
  BY <1>1, <1>10
<1>12. QED  BY <1>11 DEF W

(* The records that are indexed stay indexed, and no others are, whatever  *)
(* the threshold of the merges.                                            *)
LEMMA ConsolidateFacts ==
  ASSUME NEW c \in Seq(Indexes), NEW supports_merge \in BOOLEAN
  PROVE  LET d == consolidate(c, supports_merge)
         IN  d \in Seq(Indexes) /\ AllRanges(d) = AllRanges(c)
<1> DEFINE s == ByStart(c)
           k == KeepUncovered(s)
<1>1. /\ s \in Seq(Indexes) /\ Len(s) = Len(c) /\ Sorted(s)
      /\ \A n \in 1 .. Len(c) : \E i \in 1 .. Len(c) : s[n] = c[i]
      /\ \A i \in 1 .. Len(c) : \E n \in 1 .. Len(s) : s[n] = c[i]
  BY ByStartFacts
<1> HIDE DEF s
<1>2. /\ k \in Seq(Indexes) /\ Ascending(k)
      /\ \A n \in 1 .. Len(k) : \E i \in 1 .. Len(s) : k[n] = s[i]
      /\ \A i \in 1 .. Len(s) : \E n \in 1 .. Len(k) : Covered(k[n], s[i].start, s[i].end)
  BY <1>1, KeepFacts
<1>3. /\ \A i \in 1 .. Len(c) : c[i].start \in Int /\ c[i].end \in Int
      /\ \A i \in 1 .. Len(k) : k[i].start \in Int /\ k[i].end \in Int
  BY <1>2, ListFacts, IndexFacts
<1> HIDE DEF k
<1>4. ASSUME NEW p \in AllRanges(k)
      PROVE  p \in AllRanges(c)
  <2>1. PICK n \in 1 .. Len(k) : p \in Int /\ k[n].start <= p /\ p < k[n].end
    BY <1>2, InAllRanges
  <2>2. PICK i \in 1 .. Len(s) : k[n] = s[i]
    BY <1>2
  <2>3. PICK j \in 1 .. Len(c) : s[i] = c[j]
    BY <1>1
  <2>4. QED  BY <2>1, <2>2, <2>3, InAllRanges
<1>5. ASSUME NEW p \in AllRanges(c)
      PROVE  p \in AllRanges(k)
  <2>1. PICK j \in 1 .. Len(c) : p \in Int /\ c[j].start <= p /\ p < c[j].end
    BY InAllRanges
  <2>2. PICK i \in 1 .. Len(s) : s[i] = c[j]
    BY <1>1
  <2>3. PICK n \in 1 .. Len(k) : Covered(k[n], c[j].start, c[j].end)
    BY <1>2, <2>2
  <2>4. k[n].start <= p /\ p < k[n].end
    BY <1>3, <2>1, <2>3 DEF Covered
  <2>5. QED  BY <1>2, <2>1, <2>4, InAllRanges
<1>6. AllRanges(k) = AllRanges(c)
  BY <1>4, <1>5
<1>7. /\ MergePasses(k, merge_threshold(c)) \in Seq(Indexes)
      /\ AllRanges(MergePasses(k, merge_threshold(c))) = AllRanges(k)
  BY <1>2, PassesFacts
<1>8. consolidate(c, supports_merge) =
        IF Len(c) < 2 THEN c
        ELSE IF supports_merge THEN MergePasses(k, merge_threshold(c)) ELSE k
  BY DEF consolidate, k, s
<1>9. QED  BY <1>2, <1>6, <1>7, <1>8

------------------------------------------------------------------------------
(* Blocks also end with a microbatch.                                      *)

Bordered(r) == Border(r.ex) /\ Border(r.ey)

BorderedStack(s) == \A k \in 1 .. Len(s) : Bordered(s[k].rect)

LEMMA SubRectBordered ==
  ASSUME NEW r \in Rects, WellShaped(r), StartsAligned(r), Bordered(r),
         NEW q, IsSubblockOf(q, r)
  PROVE  Bordered(SubRect(r, q))
<1> DEFINE mx == r.sx + Half(r.ex - r.sx)
           my == r.sy + Half(r.ey - r.sy)
<1>1. /\ r.sx \in Nat /\ r.ex - r.sx \in Nat /\ r.sx % ALIGNMENT = 0
      /\ r.sy \in Nat /\ r.ey - r.sy \in Nat /\ r.sy % ALIGNMENT = 0
  BY SizeAssumption DEF Rects, WellShaped, StartsAligned
<1>2. r.ex - r.sx > ALIGNMENT => mx % ALIGNMENT = 0
  BY <1>1, HalfAligned
<1>3. r.ey - r.sy > ALIGNMENT => my % ALIGNMENT = 0
  BY <1>1, HalfAligned
<1>4. /\ SubRect(r, q).ex = IF q \in {"UL", "LL", "LEFT"} THEN mx ELSE r.ex
      /\ SubRect(r, q).ey = IF q \in {"UL", "UR", "UPPER"} THEN my ELSE r.ey
  BY DEF SubRect
<1> HIDE DEF mx, my
<1>5. QED  BY <1>1, <1>2, <1>3, <1>4 DEF IsSubblockOf, Bordered, Border

LEMMA CurrentBordered ==
  ASSUME NEW b \in Blocks, WellShaped(b.rect), MissingOK(b),
         StartsAligned(b.rect), Bordered(b.rect)
  PROVE  /\ get_current_subblock(b) \in Blocks
         /\ Bordered(get_current_subblock(b).rect)
<1>1. CASE b.missing = <<>>
  <2>1. Rect(0, 0, 0, 0) \in Rects
    BY SizeAssumption DEF Rect, Rects
  <2>2. 0 % ALIGNMENT = 0
    BY AlignmentAssumption
  <2>3. Bordered(Rect(0, 0, 0, 0))
    BY <2>2 DEF Rect, Bordered, Border
  <2>4. QED  BY <1>1, <2>1, <2>3, PlanBlockFacts DEF get_current_subblock
<1>2. CASE b.missing # <<>>
  <2> DEFINE r == SubRect(b.rect, Last(b.missing))
  <2>1. b.rect \in Rects /\ b.missing \in Seq(Subblock)
    BY DEF Blocks
  <2>2. Len(b.missing) \in Nat \ {0} /\ Last(b.missing) = b.missing[Len(b.missing)]
    BY <1>2, <2>1, FrontLast
  <2>3. IsSubblockOf(Last(b.missing), b.rect)
    BY <2>2 DEF MissingOK
  <2>4. r \in Rects /\ get_current_subblock(b) = PlanBlock(r)
    BY <1>2, CurrentSubblock
  <2>5. Bordered(r)
    BY <2>1, <2>3, SubRectBordered
  <2>6. QED  BY <2>4, <2>5, PlanBlockFacts
<1>3. QED  BY <1>1, <1>2

(* Entering, leaving and resuming blocks.                                  *)
LEMMA PushBordered ==
  ASSUME NEW s \in Seq(Blocks), BorderedStack(s),
         NEW b \in Blocks, Bordered(b.rect)
  PROVE  BorderedStack(Append(s, b))
<1> DEFINE t == Append(s, b)
<1>1. /\ Len(s) \in Nat /\ Len(t) = Len(s)+1 /\ t[Len(s)+1] = b
      /\ \A i \in 1 .. Len(s) : t[i] = s[i]
  OBVIOUS
<1> HIDE DEF t
<1>2. QED  BY <1>1 DEF BorderedStack, t

LEMMA PopBordered ==
  ASSUME NEW s, StackOK(s), s # <<>>, BorderedStack(s)
  PROVE  BorderedStack(PopAndDrop(s))
<1> DEFINE t == PopAndDrop(s)
           n == Len(s)
<1>1. s \in Seq(Blocks) /\ n \in Nat \ {0} /\ \A i \in 1 .. n : s[i] \in Blocks
  BY EmptySeq, ElementOfSeq DEF StackOK
<1>2. n > 1 => s[n-1].missing # <<>>
  BY <1>1 DEF StackOK, WellFormed
<1>3. /\ Len(t) = n-1 /\ \A i \in 1 .. n-2 : t[i] = s[i]
      /\ n > 1 => t[n-1] = DropSubblock(s[n-1])
  BY <1>1, <1>2, PopFacts
<1>4. n > 1 => t[n-1].rect = s[n-1].rect
  BY <1>1, <1>2, <1>3, DropFacts
<1> HIDE DEF t, n
<1>5. ASSUME NEW k \in 1 .. Len(t)
      PROVE  Bordered(t[k].rect)
  <2>1. k \in 1 .. n /\ t[k].rect = s[k].rect
    BY <1>1, <1>3, <1>4
  <2>2. QED  BY <2>1 DEF BorderedStack, n
<1>6. QED  BY <1>5 DEF BorderedStack, t

LEMMA FrontBordered ==
  ASSUME NEW s \in Seq(Blocks), s # <<>>, BorderedStack(s)
  PROVE  Front(s) \in Seq(Blocks) /\ BorderedStack(Front(s))
<1>1. /\ Front(s) \in Seq(Blocks) /\ Len(s) \in Nat \ {0} /\ Len(Front(s)) = Len(s)-1
      /\ \A i \in 1 .. Len(s)-1 : Front(s)[i] = s[i]
  BY FrontLast
<1>2. QED  BY <1>1 DEF BorderedStack

LEMMA EnterBordered ==
  ASSUME NEW s, StackOK(s), s # <<>>, AlignedStack(s), BorderedStack(s)
  PROVE  BorderedStack(Append(s, get_current_subblock(Last(s))))
<1>1. /\ s \in Seq(Blocks) /\ Len(s) \in 1 .. Len(s)
      /\ Last(s) \in Blocks /\ Last(s) = s[Len(s)]
  BY FrontLast DEF StackOK
<1>2. /\ WellShaped(Last(s).rect) /\ MissingOK(Last(s))
      /\ StartsAligned(Last(s).rect) /\ Bordered(Last(s).rect)
  BY <1>1 DEF StackOK, WellFormed, AlignedStack, BorderedStack
<1>3. QED  BY <1>1, <1>2, CurrentBordered, PushBordered

LEMMA ResumedBordered ==
  ASSUME NEW s, StackOK(s), AlignedStack(s), BorderedStack(s)
  PROVE  BorderedStack(Resumed(s))
<1>1. CASE s = <<>>
  BY <1>1 DEF Resumed
<1>2. CASE s # <<>>
  BY <1>2, FrontBordered, EnterBordered DEF Resumed, StackOK
<1>3. QED  BY <1>1, <1>2

LEMMA BorderedStep ==
  ASSUME IInv, AlignedStack(nested_blocks), BorderedStack(nested_blocks),
         [Next]_schedVars
  PROVE  BorderedStack(nested_blocks')
<1> DEFINE s == nested_blocks
<1>1. StackOK(s) /\ s \in Seq(Blocks)
  BY StackIsOK DEF StackOK
<1>2. ASSUME NEW lx, NEW ly, AdvanceComplete(lx, ly)
      PROVE  BorderedStack(s')
  BY <1>1, <1>2, PopBordered DEF AdvanceComplete, is_finished
<1>3. ASSUME NEW lx, NEW ly, ~is_finished, Reportable(get_block, lx, ly),
             AdvanceStrip(lx, ly)
      PROVE  BorderedStack(s')
  <2> DEFINE g == get_block
             r == Strip(g, lx, ly)
  <2>1. /\ s # <<>> /\ pc = "idle" /\ (lx = g.ex) # (ly = g.ey)
        /\ s' = Append(Front(s), PlanBlock(r))
    BY <1>3 DEF AdvanceStrip, is_finished
  <2>2. r \in Rects
    BY <1>3, <2>1, StripFacts
  <2>3. Bordered(g)
    BY <1>3, InnermostFacts DEF BorderedStack
  <2>4. Bordered(r)
    BY <2>3 DEF Strip, Rect, Bordered
  <2>5. PlanBlock(r) \in Blocks /\ Bordered(PlanBlock(r).rect)
    BY <2>2, <2>4, PlanBlockFacts
  <2>6. QED  BY <1>1, <2>1, <2>5, FrontBordered, PushBordered
<1>4. ASSUME NEW lx, NEW ly, AdvancePartial(lx, ly) \/ Descend
      PROVE  BorderedStack(s')
  <2>1. s # <<>>
    BY <1>4, EmptySeq DEF AdvancePartial, Descend, IInv, Shape, is_finished
  <2>2. s' = Append(s, get_current_subblock(Last(s)))
    BY <1>4 DEF AdvancePartial, Descend, EnterSubblock
  <2>3. QED  BY <1>1, <2>1, <2>2, EnterBordered
<1>5. CASE PopFinished
  <2>1. s # <<>> /\ s' = PopAndDrop(s)
    BY <1>5, EmptySeq DEF PopFinished
  <2>2. QED  BY <1>1, <2>1, PopBordered
<1>6. CASE PopStop
  BY <1>1, <1>6, ResumedBordered DEF PopStop
<1>7. CASE DescendStop
  <2>1. s # <<>> /\ s' = Resumed(PopAndDrop(s))
    BY <1>7, EmptySeq DEF DescendStop, IInv, Shape
  <2>2. StackOK(PopAndDrop(s)) /\ AlignedStack(PopAndDrop(s)) /\ BorderedStack(PopAndDrop(s))
    BY <1>1, <2>1, PopOK, PopAligned, PopBordered
  <2>3. QED  BY <2>1, <2>2, ResumedBordered
<1>8. CASE UNCHANGED schedVars
  BY <1>8 DEF schedVars
<1>9. QED
  BY <1>2, <1>3, <1>4, <1>5, <1>6, <1>7, <1>8 DEF Next, AdvanceLoop, advance_block

------------------------------------------------------------------------------
(* Where a block may be left.  The first subblocks of a block lie in its   *)
(* corner, end with microbatches, and shrink until both sides are within   *)
(* the alignment.                                                          *)

Corners(g) ==
  {r \in Rects : /\ WellShaped(r) /\ StartsAligned(r) /\ Bordered(r)
                 /\ Inner(r, g) /\ r.sx = g.sx /\ r.sy = g.sy}

EndsWithin(r, x, y) == r.ex <= x /\ r.ey <= y

Origin == Rect(0, 0, 0, 0)

LEMMA FirstOf ==
  ASSUME NEW r
  PROVE  LET wide == r.ex - r.sx > ALIGNMENT
             high == r.ey - r.sy > ALIGNMENT
             m == AllSubblocks(r)
         IN  /\ wide /\ high => m # <<>> /\ Last(m) = "UL"
             /\ wide /\ ~high => m # <<>> /\ Last(m) = "LEFT"
             /\ ~wide /\ high => m # <<>> /\ Last(m) = "UPPER"
             /\ ~wide /\ ~high => m = <<>>
<1> DEFINE wide == r.ex - r.sx > ALIGNMENT
           high == r.ey - r.sy > ALIGNMENT
           m == AllSubblocks(r)
<1>1. wide /\ high => m # <<>> /\ Last(m) = "UL"
  BY UpperLeftFirst
<1>2. wide /\ ~high => m = <<"RIGHT", "LEFT">>
  BY DEF AllSubblocks
<1>3. ~wide /\ high => m = <<"LOWER", "UPPER">>
  BY DEF AllSubblocks
<1>4. ~wide /\ ~high => m = <<>>
  BY DEF AllSubblocks
<1> HIDE DEF wide, high, m
<1>5. m = <<"RIGHT", "LEFT">> => m # <<>> /\ Last(m) = "LEFT"
  BY DEF Last
<1>6. m = <<"LOWER", "UPPER">> => m # <<>> /\ Last(m) = "UPPER"
  BY DEF Last
<1>7. QED  BY <1>1, <1>2, <1>3, <1>4, <1>5, <1>6 DEF m, wide, high

LEMMA FirstSubblockIs ==
  ASSUME NEW r \in Rects
  PROVE  FirstSubblock[r] =
           IF AllSubblocks(r) = <<>> THEN Origin ELSE SubRect(r, Last(AllSubblocks(r)))
<1>1. FirstSubblock[r] = get_current_subblock(PlanBlock(r)).rect
  BY DEF FirstSubblock
<1>2. PlanBlock(r).rect = r /\ PlanBlock(r).missing = AllSubblocks(r)
  BY PlanBlockFacts
<1>3. \A q : PlanBlock(q).rect = q
  BY DEF PlanBlock
<1>4. get_current_subblock(PlanBlock(r)) =
        PlanBlock(IF AllSubblocks(r) = <<>> THEN Origin ELSE SubRect(r, Last(AllSubblocks(r))))
  BY <1>2 DEF get_current_subblock, Origin
<1>5. QED  BY <1>1, <1>3, <1>4

LEMMA OriginStays == Origin \in Rects /\ FirstSubblock[Origin] = Origin
<1>1. Origin \in Rects
  BY SizeAssumption DEF Origin, Rect, Rects
<1>2. AllSubblocks(Origin) = <<>>
  <2>1. ~(0 - 0 > ALIGNMENT)
    BY AlignmentAssumption
  <2>2. QED  BY <2>1 DEF AllSubblocks, Origin, Rect
<1>3. QED  BY <1>1, <1>2, FirstSubblockIs

LEMMA CornerStep ==
  ASSUME NEW g, g \in Corners(g), NEW r \in Corners(g),
         r.ex - r.sx > ALIGNMENT \/ r.ey - r.sy > ALIGNMENT
  PROVE  LET q == FirstSubblock[r]
         IN  /\ q \in Corners(g)
             /\ IF r.ex - r.sx > ALIGNMENT THEN q.ex < r.ex ELSE q.ex = r.ex
             /\ IF r.ey - r.sy > ALIGNMENT THEN q.ey < r.ey ELSE q.ey = r.ey
<1> DEFINE wide == r.ex - r.sx > ALIGNMENT
           high == r.ey - r.sy > ALIGNMENT
           mx == r.sx + Half(r.ex - r.sx)
           my == r.sy + Half(r.ey - r.sy)
           l == Last(AllSubblocks(r))
           q == FirstSubblock[r]
<1>1. /\ r \in Rects /\ WellShaped(r) /\ StartsAligned(r) /\ Bordered(r)
      /\ Inner(r, g) /\ r.sx = g.sx /\ r.sy = g.sy /\ g \in Rects
  BY DEF Corners
<1>2. /\ AllSubblocks(r) # <<>>
      /\ wide /\ high => l = "UL"
      /\ wide /\ ~high => l = "LEFT"
      /\ ~wide /\ high => l = "UPPER"
  BY FirstOf
<1>3. q = SubRect(r, l)
  BY <1>1, <1>2, FirstSubblockIs
<1>4. IsSubblockOf(l, r)
  BY <1>2 DEF IsSubblockOf
<1>5. q \in Rects /\ WellShaped(q) /\ Inner(q, r) /\ StartsAligned(q) /\ Bordered(q)
  BY <1>1, <1>3, <1>4, SubRectShape, SubRectAligned, SubRectBordered
<1>6. /\ q.sx = IF l \in {"UR", "LR", "RIGHT"} THEN mx ELSE r.sx
      /\ q.ex = IF l \in {"UL", "LL", "LEFT"} THEN mx ELSE r.ex
      /\ q.sy = IF l \in {"LL", "LR", "LOWER"} THEN my ELSE r.sy
      /\ q.ey = IF l \in {"UL", "UR", "UPPER"} THEN my ELSE r.ey
  BY <1>3 DEF SubRect
<1>7. /\ wide => mx < r.ex
      /\ high => my < r.ey
  BY <1>1, SizeAssumption, HalfBounds DEF Rects, WellShaped
<1> HIDE DEF q, l, mx, my
<1>8. q.sx = r.sx /\ q.sy = r.sy
  BY <1>2, <1>6
<1>9. Inner(q, g)
  BY <1>1, <1>5, InnerTrans
<1>10. q \in Corners(g)
  BY <1>1, <1>5, <1>8, <1>9 DEF Corners
<1>11. /\ IF wide THEN q.ex < r.ex ELSE q.ex = r.ex
       /\ IF high THEN q.ey < r.ey ELSE q.ey = r.ey
  BY <1>2, <1>6, <1>7
<1>12. QED  BY <1>10, <1>11 DEF q

(* The first subblocks of a block, one in the other.                       *)
LEMMA Chain ==
  ASSUME NEW g, g \in Corners(g)
  PROVE  LET f == FirstSubblocks(g)
         IN  f[0] = g /\ \A k \in 1 .. N : f[k] = FirstSubblock[f[k-1]]
<1> DEFINE W == Corners(g) \cup {Origin}
           m == [r \in W |-> FirstSubblock[r]]
           F(h) == [i \in 0 .. N |-> IF i = 0 THEN g ELSE FirstSubblock[h[i-1]]]
<1>1. \A r \in W : FirstSubblock[r] \in W
  <2>1. ASSUME NEW r \in Corners(g)
        PROVE  FirstSubblock[r] \in W
    <3>1. CASE r.ex - r.sx > ALIGNMENT \/ r.ey - r.sy > ALIGNMENT
      BY <3>1, CornerStep
    <3>2. CASE ~(r.ex - r.sx > ALIGNMENT \/ r.ey - r.sy > ALIGNMENT)
      <4>1. AllSubblocks(r) = <<>> /\ r \in Rects
        BY <3>2, FirstOf DEF Corners
      <4>2. QED  BY <4>1, FirstSubblockIs
    <3>3. QED  BY <3>1, <3>2
  <2>2. QED  BY <2>1, OriginStays
<1>2. N \in Nat /\ g \in W
  BY SizeAssumption
<1>3. m \in [W -> W]
  <2> HIDE DEF W
  <2>1. QED  BY <1>1
<1>4. PICK f \in [0 .. N -> W] : IsIteration(f, m, g, N)
  <2> HIDE DEF W, m
  <2>1. QED  BY <1>2, <1>3, Iterates
<1> HIDE DEF W
<1>5. \E h : h = F(h)
  <2>1. ASSUME NEW i \in 0 .. N
        PROVE  f[i] = IF i = 0 THEN g ELSE FirstSubblock[f[i-1]]
    <3>1. CASE i = 0
      BY <1>4, <3>1 DEF IsIteration
    <3>2. CASE i # 0
      <4>1. i \in 1 .. N /\ i-1 \in 0 .. N
        BY <1>2, <3>2
      <4>2. f[i] = m[f[i-1]] /\ f[i-1] \in W
        BY <1>4, <4>1 DEF IsIteration
      <4>3. QED  BY <3>2, <4>2
    <3>3. QED  BY <3>1, <3>2
  <2>2. f = [i \in 0 .. N |-> f[i]]
    OBVIOUS
  <2>3. f = F(f)
    BY Zenon, <2>1, <2>2
  <2>4. QED  BY <2>3
<1> HIDE DEF m
<1>6. FirstSubblocks(g) = F(FirstSubblocks(g))
  BY Zenon, <1>5 DEF FirstSubblocks
<1> DEFINE c == FirstSubblocks(g)
<1>7. ASSUME NEW i \in 0 .. N
      PROVE  c[i] = IF i = 0 THEN g ELSE FirstSubblock[c[i-1]]
  BY Zenon, <1>6
<1> HIDE DEF c
<1>8. c[0] = g
  <2>1. 0 \in 0 .. N
    BY <1>2
  <2>2. QED  BY <1>7, <2>1
<1>9. \A k \in 1 .. N : c[k] = FirstSubblock[c[k-1]]
  <2>1. \A k \in 1 .. N : k \in 0 .. N /\ k # 0
    BY <1>2
  <2>2. QED  BY <1>7, <2>1
<1>10. QED  BY <1>8, <1>9 DEF c

(* How far a caller may have got for the search to succeed: a batch or to  *)
(* the end in each direction, and not to the end in both.                  *)
InsideOf(g, x, y) ==
  /\ x >= g.sx + ALIGNMENT \/ x >= g.ex
  /\ y >= g.sy + ALIGNMENT \/ y >= g.ey
  /\ ~EndsWithin(g, x, y)

CornerTypes(r) == r.sx \in 0 .. N /\ r.sy \in 0 .. N /\ r.ex \in 0 .. N /\ r.ey \in 0 .. N

(* One of the blocks ends within the part, and those before it in the      *)
(* corner do not: with each of them the larger side becomes shorter.       *)
LEMMA SomeWithin ==
  ASSUME NEW g, g \in Corners(g), NEW x \in Int, NEW y \in Int, InsideOf(g, x, y)
  PROVE  LET f == FirstSubblocks(g)
         IN  \E i \in 1 .. N :
               /\ f[i] \in Corners(g) /\ EndsWithin(f[i], x, y)
               /\ \A j \in 0 .. i-1 : f[j] \in Corners(g) /\ ~EndsWithin(f[j], x, y)
<1> DEFINE f == FirstSubblocks(g)
           Out(r) == r \in Corners(g) /\ ~EndsWithin(r, x, y)
           Meets(i) == /\ f[i] \in Corners(g) /\ EndsWithin(f[i], x, y)
                     /\ \A j \in 0 .. i-1 : Out(f[j])
           Small(k) == /\ \A j \in 0 .. k : Out(f[j])
                       /\ f[k].ex - g.sx <= N-k /\ f[k].ey - g.sy <= N-k
           S == {k \in Nat : k <= N => Small(k) \/ \E i \in 1 .. N : Meets(i)}
<1>1. N \in Nat \ {0} /\ ALIGNMENT \in Nat \ {0}
  BY SizeAssumption, AlignmentAssumption
<1>2. f[0] = g /\ \A k \in 1 .. N : f[k] = FirstSubblock[f[k-1]]
  BY Chain
<1>3. \A r \in Corners(g) :
        /\ CornerTypes(r) /\ r.sx = g.sx /\ r.sy = g.sy
        /\ r.sx < r.ex /\ r.ex <= g.ex /\ r.sy < r.ey /\ r.ey <= g.ey
  BY DEF Corners, Rects, Inner, WellShaped, CornerTypes
<1> HIDE DEF f
<1>4. 0 \in S
  <2>1. Out(f[0])
    BY <1>2 DEF InsideOf
  <2>2. g.ex - g.sx <= N-0 /\ g.ey - g.sy <= N-0
    BY <1>1, <1>3 DEF CornerTypes
  <2>3. Small(0)
    BY <1>2, <2>1, <2>2
  <2>4. QED  BY <2>3
<1>5. ASSUME NEW k \in Nat, k \in S
      PROVE  k+1 \in S
  <2>1. SUFFICES ASSUME k+1 <= N, ~\E i \in 1 .. N : Meets(i)
                 PROVE  Small(k+1)
    OBVIOUS
  <2>2. Small(k)
    BY <1>1, <1>5, <2>1
  <2> DEFINE r == f[k]
             q == f[k+1]
  <2>3. Out(r) /\ r.ex - g.sx <= N-k /\ r.ey - g.sy <= N-k
    BY <2>2
  <2>4. q = FirstSubblock[r]
    <3>1. k+1 \in 1 .. N /\ (k+1)-1 = k
      BY <1>1, <2>1
    <3>2. QED  BY <1>2, <3>1
  <2> HIDE DEF r, q
  <2>5. r \in Corners(g) /\ CornerTypes(r) /\ CornerTypes(g)
    BY <1>3, <2>3
  <2>6. /\ r.sx = g.sx /\ r.sy = g.sy /\ r.ex <= g.ex /\ r.ey <= g.ey
        /\ r.sx < r.ex /\ r.sy < r.ey
    BY <1>3, <2>3
  <2>7. r.ex - r.sx > ALIGNMENT \/ r.ey - r.sy > ALIGNMENT
    BY <1>1, <2>3, <2>5, <2>6 DEF InsideOf, EndsWithin, CornerTypes
  <2>8. /\ q \in Corners(g)
        /\ IF r.ex - r.sx > ALIGNMENT THEN q.ex < r.ex ELSE q.ex = r.ex
        /\ IF r.ey - r.sy > ALIGNMENT THEN q.ey < r.ey ELSE q.ey = r.ey
    BY <2>4, <2>5, <2>7, CornerStep
  <2>9. CornerTypes(q)
    BY <1>3, <2>8
  <2>10. q.ex - g.sx <= N-(k+1) /\ q.ey - g.sy <= N-(k+1)
    BY <1>1, <2>1, <2>3, <2>5, <2>6, <2>7, <2>8, <2>9 DEF CornerTypes
  <2>11. \A j \in 0 .. k+1 : j \in 0 .. k \/ j = k+1
    OBVIOUS
  <2>12. Out(q)
    <3>1. SUFFICES ASSUME EndsWithin(q, x, y) PROVE FALSE
      BY <2>8
    <3>2. k+1 \in 1 .. N /\ \A j \in 0 .. (k+1)-1 : j \in 0 .. k
      BY <1>1, <2>1
    <3>3. Meets(k+1)
      BY <2>2, <2>8, <3>1, <3>2 DEF q
    <3> HIDE DEF Meets
    <3>4. QED  BY <2>1, <3>2, <3>3
  <2>13. QED  BY <2>2, <2>10, <2>11, <2>12 DEF q
<1>6. N \in S
  <2> HIDE DEF S
  <2>1. QED  BY <1>1, <1>4, <1>5, SetInduction
<1>7. ~Small(N)
  <2>1. SUFFICES ASSUME Small(N) PROVE FALSE
    OBVIOUS
  <2>2. f[N] \in Corners(g) /\ f[N].ex - g.sx <= N-N
    BY <1>1, <2>1
  <2>3. CornerTypes(f[N]) /\ f[N].sx = g.sx /\ f[N].sx < f[N].ex
    BY <1>3, <2>2
  <2>4. QED  BY <1>1, <2>2, <2>3 DEF CornerTypes
<1>8. \E i \in 1 .. N : Meets(i)
  <2> HIDE DEF Small, Meets
  <2>1. QED  BY <1>1, <1>6, <1>7
<1>9. QED  BY <1>8 DEF f

LEMMA FirstWithinFacts ==
  ASSUME NEW g, g \in Corners(g), NEW x \in Int, NEW y \in Int, InsideOf(g, x, y)
  PROVE  LET f == FirstSubblocks(g)
             i == FirstWithin(g, x, y)
         IN  /\ f[i] \in Corners(g) /\ EndsWithin(f[i], x, y)
             /\ f[i-1] \in Corners(g) /\ ~EndsWithin(f[i-1], x, y)
<1> DEFINE f == FirstSubblocks(g)
           i == FirstWithin(g, x, y)
           Is(k) == /\ f[k].ex <= x /\ f[k].ey <= y
                    /\ \A j \in 1 .. k-1 : f[j].ex > x \/ f[j].ey > y
<1>1. PICK n \in 1 .. N :
        /\ f[n] \in Corners(g) /\ EndsWithin(f[n], x, y)
        /\ \A j \in 0 .. n-1 : f[j] \in Corners(g) /\ ~EndsWithin(f[j], x, y)
  BY SomeWithin
<1>2. \A r \in Corners(g) : r.ex \in Int /\ r.ey \in Int
  BY SizeAssumption DEF Corners, Rects
<1>3. i = CHOOSE k \in 1 .. N : Is(k)
  BY DEF FirstWithin
<1> HIDE DEF f, i
<1>4. Is(n)
  <2>1. \A j \in 1 .. n-1 : j \in 0 .. n-1
    OBVIOUS
  <2>2. \A j \in 1 .. n-1 : f[j].ex > x \/ f[j].ey > y
    BY <1>1, <1>2, <2>1 DEF EndsWithin
  <2>3. QED  BY <1>1, <2>2 DEF EndsWithin
<1>5. i \in 1 .. N /\ Is(i)
  <2> HIDE DEF Is
  <2>1. QED  BY <1>3, <1>4
<1>6. i = n
  <2>1. N \in Nat
    BY SizeAssumption
  <2>2. ~(n < i)
    <3>1. SUFFICES ASSUME n < i PROVE FALSE
      OBVIOUS
    <3>2. n \in 1 .. i-1
      BY <1>5, <2>1, <3>1
    <3>3. f[n].ex > x \/ f[n].ey > y
      BY <1>5, <3>2
    <3>4. QED  BY <1>1, <1>2, <3>3 DEF EndsWithin
  <2>3. ~(i < n)
    <3>1. SUFFICES ASSUME i < n PROVE FALSE
      OBVIOUS
    <3>2. i \in 0 .. n-1
      BY <1>5, <2>1, <3>1
    <3>3. ~EndsWithin(f[i], x, y)
      BY <1>1, <3>2
    <3>4. QED  BY <1>5, <3>3 DEF EndsWithin
  <2>4. QED  BY <1>5, <2>1, <2>2, <2>3
<1>7. n-1 \in 0 .. n-1
  BY SizeAssumption
<1>8. QED  BY <1>1, <1>6, <1>7 DEF f, i

LEMMA NextMultiple ==
  ASSUME NEW a \in Nat, NEW b \in Nat, a % ALIGNMENT = 0, b % ALIGNMENT = 0, a < b
  PROVE  a + ALIGNMENT <= b
<1> DEFINE A == ALIGNMENT
           m == a \div A
           n == b \div A
<1>1. A \in Nat \ {0}
  BY AlignmentAssumption
<1>2. m \in Nat /\ n \in Nat /\ a = A * m /\ b = A * n
  BY <1>1
<1> HIDE DEF A, m, n
<1>3. m < n
  BY <1>1, <1>2
<1>4. A * n = A * m + A * (n - m) /\ A * (n - m) >= A
  BY <1>1, <1>2, <1>3
<1>5. QED  BY <1>1, <1>2, <1>4 DEF A

LEMMA SumOfMultiples ==
  ASSUME NEW a \in Nat, a % ALIGNMENT = 0
  PROVE  (a + ALIGNMENT) % ALIGNMENT = 0
<1> DEFINE A == ALIGNMENT
           m == a \div A
<1>1. A \in Nat \ {0}
  BY AlignmentAssumption
<1>2. m \in Nat /\ a = A * m
  BY <1>1
<1> HIDE DEF A, m
<1>3. A * m + A = A * (m + 1) /\ (A * (m + 1)) % A = 0
  BY <1>1, <1>2
<1>4. QED  BY <1>2, <1>3 DEF A

(* An end of a batch or of the side.                                       *)
Stop(id, from, to) == id \in from .. to /\ (id # to => id % ALIGNMENT = 0)

(* A block that can be left anywhere in its corner.                        *)
LEMMA GridFacts ==
  ASSUME NEW g, g \in Corners(g)
  PROVE  /\ g \in Rects /\ WellShaped(g) /\ N \in Nat \ {0} /\ ALIGNMENT \in Nat \ {0}
         /\ g.sx \in 0 .. N /\ g.sy \in 0 .. N /\ g.ex \in 0 .. N /\ g.ey \in 0 .. N
         /\ g.sx < g.ex /\ g.sy < g.ey
         /\ g.sx % ALIGNMENT = 0 /\ g.sy % ALIGNMENT = 0
         /\ Border(g.ex) /\ Border(g.ey)
         /\ self_join(g) => g.ex = g.ey
         /\ ~self_join(g) => g.ey <= g.sx
<1>1. g \in Rects /\ WellShaped(g) /\ StartsAligned(g) /\ Bordered(g)
  BY DEF Corners
<1>2. N \in Nat \ {0} /\ ALIGNMENT \in Nat \ {0}
  BY SizeAssumption, AlignmentAssumption
<1>3. g.sx \in 0 .. N /\ g.sy \in 0 .. N /\ g.ex \in 0 .. N /\ g.ey \in 0 .. N
  BY <1>1 DEF Rects
<1>4. QED  BY <1>1, <1>2, <1>3 DEF WellShaped, StartsAligned, Bordered, self_join

LEMMA StopFacts ==
  ASSUME NEW from \in 0 .. N, NEW to \in 0 .. N, from % ALIGNMENT = 0, Border(to),
         NEW id, Stop(id, from, to)
  PROVE  /\ id \in 0 .. N /\ from <= id /\ id <= to /\ Border(id)
         /\ id > from /\ id # to => id >= from + ALIGNMENT
<1>1. N \in Nat
  BY SizeAssumption
<1>2. id \in 0 .. N /\ from <= id /\ id <= to /\ Border(id) /\ (id # to => id % ALIGNMENT = 0)
  BY <1>1 DEF Stop, Border
<1>3. id > from /\ id # to => id >= from + ALIGNMENT
  BY <1>1, <1>2, NextMultiple
<1>4. QED  BY <1>2, <1>3

LEMMA StopsReportable ==
  ASSUME NEW g, g \in Corners(g), NEW x, NEW y,
         Stop(x, g.sx, g.ex), Stop(y, g.sy, g.ey), x > g.sx, y > g.sy,
         self_join(g) => x = y
  PROVE  Reportable(g, x, y) /\ x \in 1 .. N /\ y \in 1 .. N
<1>1. /\ N \in Nat /\ g.sx \in 0 .. N /\ g.sy \in 0 .. N /\ g.ex \in 0 .. N /\ g.ey \in 0 .. N
      /\ g.sx % ALIGNMENT = 0 /\ g.sy % ALIGNMENT = 0
      /\ Border(g.ex) /\ Border(g.ey)
  BY GridFacts
<1>2. /\ x \in 0 .. N /\ x <= g.ex /\ (x # g.ex => x >= g.sx + ALIGNMENT)
      /\ y \in 0 .. N /\ y <= g.ey /\ (y # g.ey => y >= g.sy + ALIGNMENT)
  BY <1>1, StopFacts
<1>3. QED  BY <1>1, <1>2 DEF Reportable, Stop

LEMMA CornerStops ==
  ASSUME NEW g, g \in Corners(g), NEW r \in Corners(g)
  PROVE  /\ Stop(r.ex, g.sx, g.ex) /\ Stop(r.ey, g.sy, g.ey)
         /\ r.ex > g.sx /\ r.ey > g.sy
         /\ self_join(g) => r.ex = r.ey
<1>1. /\ r \in Rects /\ WellShaped(r) /\ Bordered(r) /\ Inner(r, g)
      /\ r.sx = g.sx /\ r.sy = g.sy
  BY DEF Corners
<1>2. N \in Nat /\ r.sx \in 0 .. N /\ r.sy \in 0 .. N /\ r.ex \in 0 .. N /\ r.ey \in 0 .. N
  BY <1>1, GridFacts DEF Rects
<1>3. g.ex \in 0 .. N /\ g.ey \in 0 .. N
  BY GridFacts
<1>4. r.sx < r.ex /\ r.sy < r.ey /\ r.ex <= g.ex /\ r.ey <= g.ey
  BY <1>1 DEF WellShaped, Inner
<1>5. Stop(r.ex, g.sx, g.ex) /\ Stop(r.ey, g.sy, g.ey)
  BY <1>1, <1>2, <1>3, <1>4 DEF Stop, Bordered, Border
<1>6. self_join(g) => r.ex = r.ey
  BY <1>1, <1>2, <1>4 DEF WellShaped, self_join
<1>7. QED  BY <1>1, <1>2, <1>4, <1>5, <1>6

(* The ends that are computed from a progress: of a block in the corner,   *)
(* not beyond the progress for the smaller one.                            *)
LEMMA SmallerFitting ==
  ASSUME NEW g, g \in Corners(g), NEW x \in Int, NEW y \in Int, InsideOf(g, x, y)
  PROVE  \E r \in Corners(g) :
           next_smaller_fitting(g, x, y) = End(r) /\ EndsWithin(r, x, y)
<1> DEFINE r == FirstSubblocks(g)[FirstWithin(g, x, y)]
<1>1. r \in Corners(g) /\ EndsWithin(r, x, y)
  BY FirstWithinFacts
<1>2. End(g) # [x |-> x, y |-> y]
  <2>1. g.ex # x \/ g.ey # y
    BY GridFacts DEF InsideOf, EndsWithin
  <2>2. QED  BY <2>1 DEF End
<1>3. next_smaller_fitting(g, x, y) = End(r)
  BY <1>2 DEF next_smaller_fitting
<1> HIDE DEF r
<1>4. QED  BY <1>1, <1>3

LEMMA LargerFitting ==
  ASSUME NEW g, g \in Corners(g), NEW x, NEW y,
         Stop(x, g.sx, g.ex), Stop(y, g.sy, g.ey), x > g.sx, y > g.sy
  PROVE  \E r \in Corners(g) : next_larger_fitting(g, x, y) = End(r)
<1>1. CASE End(g) = [x |-> x, y |-> y]
  BY <1>1 DEF next_larger_fitting
<1>2. CASE End(g) # [x |-> x, y |-> y]
  <2>1. x # g.ex \/ y # g.ey
    BY <1>2 DEF End
  <2>2. /\ N \in Nat /\ g.sx \in 0 .. N /\ g.sy \in 0 .. N /\ g.ex \in 0 .. N /\ g.ey \in 0 .. N
        /\ g.sx % ALIGNMENT = 0 /\ g.sy % ALIGNMENT = 0
        /\ Border(g.ex) /\ Border(g.ey)
    BY GridFacts
  <2>3. /\ x \in 0 .. N /\ x <= g.ex /\ (x # g.ex => x >= g.sx + ALIGNMENT)
        /\ y \in 0 .. N /\ y <= g.ey /\ (y # g.ey => y >= g.sy + ALIGNMENT)
    BY <2>2, StopFacts
  <2>4. InsideOf(g, x, y) /\ x \in Int /\ y \in Int
    BY <2>1, <2>2, <2>3 DEF InsideOf, EndsWithin
  <2> DEFINE r == FirstSubblocks(g)[FirstWithin(g, x, y) - 1]
  <2>5. r \in Corners(g)
    BY <2>4, FirstWithinFacts
  <2>6. next_larger_fitting(g, x, y) = End(r)
    BY <1>2 DEF next_larger_fitting
  <2> HIDE DEF r
  <2>7. QED  BY <2>5, <2>6
<1>3. QED  BY <1>1, <1>2

------------------------------------------------------------------------------
(* Computing a block with an index.                                        *)

LEMMA HitFacts ==
  ASSUME NEW c \in Seq(Indexes), NEW g
  PROVE  LET hits == Lookup(c, g)
         IN  /\ \A i \in hits.left : /\ i \in 1 .. Len(c)
                                     /\ Covered(c[i], g.sx, g.ex) \/ c[i].start = g.sx
             /\ \A i \in hits.right : /\ i \in 1 .. Len(c)
                                      /\ Covered(c[i], g.sy, g.ey) \/ c[i].start = g.sy
<1>1. DOMAIN c = 1 .. Len(c)
  BY ListFacts
<1>2. \A lo, hi : \A i \in find_covered_instance(c, lo, hi) :
        i \in 1 .. Len(c) /\ Covered(c[i], lo, hi)
  BY <1>1 DEF find_covered_instance, BestFit
<1>3. \A lo, hi : \A i \in find_starting_instance(c, lo, hi) :
        i \in 1 .. Len(c) /\ c[i].start = lo
  BY <1>1 DEF find_starting_instance, BestFit
<1>4. QED  BY <1>2, <1>3 DEF Lookup

(* The part computed with an index ends where a block in the corner does,  *)
(* and the index covers it.                                                *)
LEMMA BestFacts ==
  ASSUME NEW c \in Seq(Indexes), NEW g, g \in Corners(g),
         NEW best \in BestAlg(c, Lookup(c, g))
  PROVE  LET u == computed_until(g, best)
         IN  /\ best.alg \in Indexes /\ best.is_left \in BOOLEAN
             /\ \E r \in Corners(g) : u = End(r)
             /\ best.is_left => Covered(best.alg, g.sx, u.x)
             /\ ~best.is_left => Covered(best.alg, g.sy, u.y)
<1> DEFINE hits == Lookup(c, g)
           a == best.alg
           u == computed_until(g, best)
<1>1. /\ a \in Indexes /\ best.is_left \in BOOLEAN
      /\ best.is_left => Covered(a, g.sx, g.ex) \/ a.start = g.sx
      /\ ~best.is_left => Covered(a, g.sy, g.ey) \/ a.start = g.sy
  <2>1. \/ \E i \in hits.left : best = [alg |-> c[i], is_left |-> TRUE]
        \/ \E j \in hits.right : best = [alg |-> c[j], is_left |-> FALSE]
    BY DEF BestAlg
  <2>2. \A i \in 1 .. Len(c) : c[i] \in Indexes
    BY ListFacts
  <2>3. ASSUME NEW i \in hits.left, best = [alg |-> c[i], is_left |-> TRUE]
        PROVE  /\ a \in Indexes /\ best.is_left
               /\ Covered(a, g.sx, g.ex) \/ a.start = g.sx
    <3>1. i \in 1 .. Len(c) /\ (Covered(c[i], g.sx, g.ex) \/ c[i].start = g.sx)
      BY HitFacts
    <3>2. QED  BY <2>2, <2>3, <3>1
  <2>4. ASSUME NEW j \in hits.right, best = [alg |-> c[j], is_left |-> FALSE]
        PROVE  /\ a \in Indexes /\ ~best.is_left /\ best.is_left \in BOOLEAN
               /\ Covered(a, g.sy, g.ey) \/ a.start = g.sy
    <3>1. j \in 1 .. Len(c) /\ (Covered(c[j], g.sy, g.ey) \/ c[j].start = g.sy)
      BY HitFacts
    <3>2. QED  BY <2>2, <2>4, <3>1
  <2>5. QED  BY <2>1, <2>3, <2>4
<1> HIDE DEF hits, a
<1>2. /\ N \in Nat /\ ALIGNMENT \in Nat \ {0}
      /\ g.sx \in 0 .. N /\ g.sy \in 0 .. N /\ g.ex \in 0 .. N /\ g.ey \in 0 .. N
      /\ g.sx < g.ex /\ g.sy < g.ey /\ g.sx % ALIGNMENT = 0 /\ g.sy % ALIGNMENT = 0
  BY GridFacts
<1>3. a.start \in 0 .. N /\ a.end \in 0 .. N /\ a.start < a.end /\ Border(a.end)
  BY <1>1 DEF Indexes
<1>4. ASSUME a.start = g.sx, ~Covered(a, g.sx, g.ex)
      PROVE  a.end < g.ex /\ a.end >= g.sx + ALIGNMENT
  <2>1. a.end < g.ex
    BY <1>2, <1>3, <1>4 DEF Covered
  <2>2. a.end % ALIGNMENT = 0
    BY <1>2, <1>3, <2>1 DEF Border
  <2>3. QED  BY <1>2, <1>3, <1>4, <2>1, <2>2, NextMultiple
<1>5. ASSUME a.start = g.sy, ~Covered(a, g.sy, g.ey)
      PROVE  a.end < g.ey /\ a.end >= g.sy + ALIGNMENT
  <2>1. a.end < g.ey
    BY <1>2, <1>3, <1>5 DEF Covered
  <2>2. a.end % ALIGNMENT = 0
    BY <1>2, <1>3, <2>1 DEF Border
  <2>3. QED  BY <1>2, <1>3, <1>5, <2>1, <2>2, NextMultiple
<1>6. g \in Corners(g) /\ End(g).x = g.ex /\ End(g).y = g.ey
  BY DEF End
<1>7. CASE best.is_left /\ Covered(a, g.sx, g.ex)
  <2>1. u = End(g)
    BY <1>7 DEF computed_until, a
  <2>2. QED  BY <1>1, <1>6, <1>7, <2>1 DEF u, a
<1>8. CASE ~best.is_left /\ Covered(a, g.sy, g.ey)
  <2>1. u = End(g)
    BY <1>8 DEF computed_until, a
  <2>2. QED  BY <1>1, <1>6, <1>8, <2>1 DEF u, a
<1>9. CASE best.is_left /\ ~Covered(a, g.sx, g.ex)
  <2> DEFINE y == g.sy + Size(a)
  <2>1. u = next_smaller_fitting(g, a.end, y)
    BY <1>9 DEF computed_until, a
  <2>2. a.start = g.sx
    BY <1>1, <1>9
  <2>3. Size(a) \in Int /\ Size(a) >= ALIGNMENT
    BY <1>2, <1>3, <1>4, <1>9, <2>2 DEF Size
  <2>4. y \in Int /\ y >= g.sy + ALIGNMENT /\ a.end \in Int
    BY <1>2, <1>3, <2>3
  <2> HIDE DEF y
  <2>5. InsideOf(g, a.end, y)
    BY <1>2, <1>3, <1>4, <1>9, <2>2, <2>4 DEF InsideOf, EndsWithin
  <2>6. PICK r \in Corners(g) :
          next_smaller_fitting(g, a.end, y) = End(r) /\ EndsWithin(r, a.end, y)
    BY <2>4, <2>5, SmallerFitting
  <2>7. u = End(r) /\ u.x = r.ex /\ r.ex <= a.end
    BY <2>1, <2>6 DEF End, EndsWithin
  <2>8. Covered(a, g.sx, u.x)
    BY <1>2, <2>2, <2>7 DEF Covered
  <2>9. QED  BY <1>1, <1>9, <2>7, <2>8 DEF u, a
<1>10. CASE ~best.is_left /\ ~Covered(a, g.sy, g.ey)
  <2> DEFINE x == g.sx + Size(a)
  <2>1. u = next_smaller_fitting(g, x, a.end)
    BY <1>10 DEF computed_until, a
  <2>2. a.start = g.sy
    BY <1>1, <1>10
  <2>3. Size(a) \in Int /\ Size(a) >= ALIGNMENT
    BY <1>2, <1>3, <1>5, <1>10, <2>2 DEF Size
  <2>4. x \in Int /\ x >= g.sx + ALIGNMENT /\ a.end \in Int
    BY <1>2, <1>3, <2>3
  <2> HIDE DEF x
  <2>5. InsideOf(g, x, a.end)
    BY <1>2, <1>3, <1>5, <1>10, <2>2, <2>4 DEF InsideOf, EndsWithin
  <2>6. PICK r \in Corners(g) :
          next_smaller_fitting(g, x, a.end) = End(r) /\ EndsWithin(r, x, a.end)
    BY <2>4, <2>5, SmallerFitting
  <2>7. u = End(r) /\ u.y = r.ey /\ r.ey <= a.end
    BY <2>1, <2>6 DEF End, EndsWithin
  <2>8. Covered(a, g.sy, u.y)
    BY <1>2, <2>2, <2>7 DEF Covered
  <2>9. QED  BY <1>1, <1>10, <2>7, <2>8 DEF u, a
<1>11. QED  BY <1>7, <1>8, <1>9, <1>10

LEMMA InPart ==
  ASSUME NEW g, g \in Corners(g), NEW x \in 0 .. N, NEW y \in 0 .. N
  PROVE  \A p : p \in Work(Rect(g.sx, g.sy, x, y)) <=>
           \E i, j \in 0 .. N-1 : /\ p = <<i, j>> /\ j < i
                                  /\ g.sx <= i /\ i < x /\ g.sy <= j /\ j < y
<1>1. /\ Rect(g.sx, g.sy, x, y).sx = g.sx /\ Rect(g.sx, g.sy, x, y).sy = g.sy
      /\ Rect(g.sx, g.sy, x, y).ex = x /\ Rect(g.sx, g.sy, x, y).ey = y
  BY DEF Rect
<1>2. QED  BY <1>1 DEF Work, Covers, Total

LEMMA PairIs ==
  ASSUME NEW i \in Int, NEW j \in Int
  PROVE  /\ j < i => Pair(i, j) = <<i, j>> /\ Pair(j, i) = <<i, j>>
         /\ Pair(i, j)[1] \in {i, j} /\ Pair(i, j)[2] \in {i, j}
         /\ i \in {Pair(i, j)[1], Pair(i, j)[2]}
  BY DEF Pair, Most, Least

(* OneSidedPairs in a block g, with an index a for the range index.        *)
OneSidedOf(g, a, index, other) ==
  {Pair(q[1], q[2]) : q \in
     {q \in RangeOf(a) \X RangeOf(other) :
        /\ ~cutoff_skip(q[1], index)
        /\ IF self_join(g) THEN ~cutoff_self_break(q[1], q[2], index)
                           ELSE ~cutoff_break(q[1], index)}}

(* A computation with an index gives all pairs of the part, and beyond     *)
(* that pairs with the record at which the index is cut off.               *)
LEMMA OneSided ==
  ASSUME NEW g, g \in Corners(g), NEW a \in Indexes, NEW x, NEW y,
         Stop(x, g.sx, g.ex), Stop(y, g.sy, g.ey), self_join(g) => x = y,
         NEW left \in BOOLEAN,
         left => Covered(a, g.sx, x), ~left => Covered(a, g.sy, y)
  PROVE  LET l == [start |-> g.sx, end |-> x]
             r == [start |-> g.sy, end |-> y]
             index == IF left THEN l ELSE r
             pairs == OneSidedOf(g, a, index, IF left THEN r ELSE l)
             part == Work(Rect(g.sx, g.sy, x, y))
         IN  part \subseteq pairs /\ \A p \in pairs \ part : index.end \in {p[1], p[2]}
<1> DEFINE l == [start |-> g.sx, end |-> x]
           r == [start |-> g.sy, end |-> y]
           index == IF left THEN l ELSE r
           other == IF left THEN r ELSE l
           Q == {q \in RangeOf(a) \X RangeOf(other) :
                   /\ ~cutoff_skip(q[1], index)
                   /\ IF self_join(g) THEN ~cutoff_self_break(q[1], q[2], index)
                                      ELSE ~cutoff_break(q[1], index)}
           pairs == {Pair(q[1], q[2]) : q \in Q}
           part == Work(Rect(g.sx, g.sy, x, y))
<1>1. /\ N \in Nat /\ g.sx \in 0 .. N /\ g.sy \in 0 .. N /\ g.ex \in 0 .. N /\ g.ey \in 0 .. N
      /\ self_join(g) => g.ex = g.ey
      /\ ~self_join(g) => g.ey <= g.sx
  BY GridFacts
<1>2. /\ x \in 0 .. N /\ g.sx <= x /\ x <= g.ex
      /\ y \in 0 .. N /\ g.sy <= y /\ y <= g.ey
  BY <1>1 DEF Stop
<1>3. /\ index.start \in 0 .. N /\ index.end \in 0 .. N /\ other.start \in 0 .. N /\ other.end \in 0 .. N
      /\ left => /\ index.start = g.sx /\ index.end = x
                 /\ other.start = g.sy /\ other.end = y
      /\ ~left => /\ index.start = g.sy /\ index.end = y
                  /\ other.start = g.sx /\ other.end = x
  BY <1>1, <1>2
<1>4. a.start \in Int /\ a.end \in Int /\ Covered(a, index.start, index.end)
  BY <1>3, IndexFacts
<1>5. self_join(g) => g.sx = g.sy /\ x = y
  BY DEF self_join
<1> HIDE DEF index, other
<1>6. \A i, j : <<i, j>> \in Q <=>
        /\ i \in Int /\ a.start <= i /\ i < a.end
        /\ j \in Int /\ other.start <= j /\ j < other.end
        /\ index.start <= i /\ i <= index.end
        /\ self_join(g) => i < j
  BY <1>3, <1>4
  DEF RangeOf, Ids, cutoff_skip, cutoff_self_break, cutoff_break
<1>7. \A q \in Q : \E i, j \in Int : q = <<i, j>>
  BY <1>3, <1>4 DEF RangeOf, Ids
<1> HIDE DEF Q
<1>8. ASSUME NEW p \in part
      PROVE  p \in pairs
  <2>1. PICK i \in 0 .. N-1, j \in 0 .. N-1 :
          /\ p = <<i, j>> /\ j < i
          /\ g.sx <= i /\ i < x /\ g.sy <= j /\ j < y
    BY <1>2, InPart
  <2>2. Pair(i, j) = p /\ Pair(j, i) = p
    BY <2>1, PairIs
  <2>3. CASE ~self_join(g) /\ left
    <3>1. <<i, j>> \in Q
      BY <1>1, <1>2, <1>3, <1>4, <1>6, <2>1, <2>3 DEF Covered
    <3>2. QED  BY <2>2, <3>1
  <2>4. CASE self_join(g) \/ ~left
    <3>1. <<j, i>> \in Q
      BY <1>1, <1>2, <1>3, <1>4, <1>5, <1>6, <2>1, <2>4 DEF Covered
    <3>2. QED  BY <2>2, <3>1
  <2>5. QED  BY <2>3, <2>4
<1>9. ASSUME NEW p \in pairs, p \notin part
      PROVE  index.end \in {p[1], p[2]}
  <2>1. PICK i \in Int, j \in Int : <<i, j>> \in Q /\ p = Pair(i, j)
    <3>1. PICK q \in Q : p = Pair(q[1], q[2])
      OBVIOUS
    <3>2. PICK i \in Int, j \in Int : q = <<i, j>>
      BY <1>7
    <3>3. q[1] = i /\ q[2] = j
      BY <3>2
    <3>4. QED  BY <3>1, <3>2, <3>3
  <2>2. /\ index.start <= i /\ i <= index.end
        /\ other.start <= j /\ j < other.end
        /\ self_join(g) => i < j
    BY <1>6, <2>1
  <2>3. i = index.end
    <3>1. SUFFICES ASSUME i # index.end PROVE FALSE
      OBVIOUS
    <3>2. i < index.end
      BY <1>3, <2>2, <3>1
    <3>3. CASE ~self_join(g) /\ left
      <4>1. /\ j < i /\ g.sx <= i /\ i < x /\ g.sy <= j /\ j < y
            /\ i \in 0 .. N-1 /\ j \in 0 .. N-1
        BY <1>1, <1>2, <1>3, <2>2, <3>2, <3>3
      <4>2. p = <<i, j>>
        BY <2>1, <4>1, PairIs
      <4>3. QED  BY <1>2, <1>9, <4>1, <4>2, InPart
    <3>4. CASE self_join(g) \/ ~left
      <4>1. /\ i < j /\ g.sx <= j /\ j < x /\ g.sy <= i /\ i < y
            /\ i \in 0 .. N-1 /\ j \in 0 .. N-1
        BY <1>1, <1>2, <1>3, <1>5, <2>2, <3>2, <3>4
      <4>2. p = <<j, i>>
        BY <2>1, <4>1, PairIs
      <4>3. QED  BY <1>2, <1>9, <4>1, <4>2, InPart
    <3>5. QED  BY <3>3, <3>4
  <2>4. QED  BY <2>1, <2>3, PairIs
<1>10. pairs = OneSidedOf(g, a, index, other)
  BY DEF OneSidedOf, Q
<1> HIDE DEF pairs, part
<1>11. QED  BY <1>8, <1>9, <1>10 DEF index, other, part

(* TwoSidedPairs in a block g, from a probe at x, y to u, v.               *)
TwoSidedOf(g, x, y, u, v) ==
  IF self_join(g)
  THEN {Pair(q[1], q[2]) : q \in
          {q \in Ids(g.sx, u) \X Ids(x, u) : ~symmetric_skip(q[1], q[2])}}
  ELSE {Pair(i, j) : i \in Ids(x, u), j \in Ids(g.sy, y)}
       \cup {Pair(i, j) : i \in Ids(g.sx, u), j \in Ids(y, v)}

(* An iteration of the probe loop gives the pairs by which the part grows. *)
LEMMA TwoSided ==
  ASSUME NEW g, g \in Corners(g),
         NEW x \in 0 .. N, NEW y \in 0 .. N, NEW u \in 0 .. N, NEW v \in 0 .. N,
         g.sx <= x, x <= u, u <= g.ex, g.sy <= y, y <= v, v <= g.ey,
         self_join(g) => x = y /\ u = v
  PROVE  TwoSidedOf(g, x, y, u, v) =
           Work(Rect(g.sx, g.sy, u, v)) \ Work(Rect(g.sx, g.sy, x, y))
<1> DEFINE Q == {q \in Ids(g.sx, u) \X Ids(x, u) : ~symmetric_skip(q[1], q[2])}
           one == {Pair(q[1], q[2]) : q \in Q}
           two == {Pair(i, j) : i \in Ids(x, u), j \in Ids(g.sy, y)}
                    \cup {Pair(i, j) : i \in Ids(g.sx, u), j \in Ids(y, v)}
           new == Work(Rect(g.sx, g.sy, u, v)) \ Work(Rect(g.sx, g.sy, x, y))
<1>1. /\ N \in Nat /\ g.sx \in 0 .. N /\ g.sy \in 0 .. N /\ g.ex \in 0 .. N /\ g.ey \in 0 .. N
      /\ self_join(g) => g.ex = g.ey
      /\ ~self_join(g) => g.ey <= g.sx
  BY GridFacts
<1>2. \A i, j \in 0 .. N-1 : <<i, j>> \in new <=>
        /\ j < i /\ g.sx <= i /\ i < u /\ g.sy <= j /\ j < v
        /\ ~(i < x /\ j < y)
  <2>1. SUFFICES ASSUME NEW i \in 0 .. N-1, NEW j \in 0 .. N-1
                 PROVE  <<i, j>> \in new <=>
                          /\ j < i /\ g.sx <= i /\ i < u /\ g.sy <= j /\ j < v
                          /\ ~(i < x /\ j < y)
    OBVIOUS
  <2>2. \A k, l : <<i, j>> = <<k, l>> => i = k /\ j = l
    OBVIOUS
  <2>3. <<i, j>> \in Work(Rect(g.sx, g.sy, u, v)) <=>
          j < i /\ g.sx <= i /\ i < u /\ g.sy <= j /\ j < v
    BY <2>2, InPart
  <2>4. <<i, j>> \in Work(Rect(g.sx, g.sy, x, y)) <=>
          j < i /\ g.sx <= i /\ i < x /\ g.sy <= j /\ j < y
    BY <2>2, InPart
  <2>5. QED  BY <2>3, <2>4
<1>3. \A p \in new : \E i, j \in 0 .. N-1 : p = <<i, j>>
  BY InPart
<1> HIDE DEF new
<1>4. CASE self_join(g)
  <2>1. g.sx = g.sy /\ x = y /\ u = v
    BY <1>4 DEF self_join
  <2>2. \A i, j : <<i, j>> \in Q <=>
          i \in Int /\ j \in Int /\ g.sx <= i /\ i < u /\ x <= j /\ j < u /\ i < j
    BY <1>1 DEF Ids, symmetric_skip
  <2>3. \A q \in Q : \E i, j \in Int : q = <<i, j>>
    BY <1>1 DEF Ids
  <2> HIDE DEF Q
  <2>4. ASSUME NEW p \in one
        PROVE  p \in new
    <3>1. PICK q \in Q : p = Pair(q[1], q[2])
      OBVIOUS
    <3>2. PICK i \in Int, j \in Int : q = <<i, j>>
      BY <2>3
    <3>3. q[1] = i /\ q[2] = j /\ <<i, j>> \in Q
      BY <3>2
    <3>4. /\ g.sx <= i /\ i < u /\ x <= j /\ j < u /\ i < j
          /\ i \in 0 .. N-1 /\ j \in 0 .. N-1
      BY <1>1, <2>2, <3>3
    <3>5. p = <<j, i>>
      BY <3>1, <3>3, <3>4, PairIs
    <3>6. QED  BY <1>1, <1>2, <2>1, <3>4, <3>5
  <2>5. ASSUME NEW p \in new
        PROVE  p \in one
    <3>1. PICK i \in 0 .. N-1, j \in 0 .. N-1 : p = <<i, j>>
      BY <1>3
    <3>2. /\ j < i /\ g.sx <= i /\ i < u /\ g.sy <= j /\ j < v
          /\ ~(i < x /\ j < y)
      BY <1>2, <3>1
    <3>3. <<j, i>> \in Q
      BY <1>1, <2>1, <2>2, <3>2
    <3>4. p = Pair(j, i)
      BY <3>1, <3>2, PairIs
    <3>5. QED  BY <3>3, <3>4
  <2> HIDE DEF one
  <2>6. one = new
    BY <2>4, <2>5
  <2>7. TwoSidedOf(g, x, y, u, v) = one
    BY <1>4 DEF TwoSidedOf, one, Q
  <2>8. QED  BY <2>6, <2>7 DEF new
<1>5. CASE ~self_join(g)
  <2>1. ASSUME NEW p \in two
        PROVE  p \in new
    <3>1. PICK i \in Int, j \in Int :
            /\ p = Pair(i, j)
            /\ \/ x <= i /\ i < u /\ g.sy <= j /\ j < y
               \/ g.sx <= i /\ i < u /\ y <= j /\ j < v
      BY <1>1 DEF Ids
    <3>2. /\ j < i /\ g.sx <= i /\ i < u /\ g.sy <= j /\ j < v /\ ~(i < x /\ j < y)
          /\ i \in 0 .. N-1 /\ j \in 0 .. N-1
      BY <1>1, <1>5, <3>1
    <3>3. p = <<i, j>>
      BY <3>1, <3>2, PairIs
    <3>4. QED  BY <1>2, <3>2, <3>3
  <2>2. ASSUME NEW p \in new
        PROVE  p \in two
    <3>1. PICK i \in 0 .. N-1, j \in 0 .. N-1 : p = <<i, j>>
      BY <1>3
    <3>2. /\ j < i /\ g.sx <= i /\ i < u /\ g.sy <= j /\ j < v
          /\ ~(i < x /\ j < y)
      BY <1>2, <3>1
    <3>3. p = Pair(i, j)
      BY <3>1, <3>2, PairIs
    <3>4. \/ i \in Ids(x, u) /\ j \in Ids(g.sy, y)
          \/ i \in Ids(g.sx, u) /\ j \in Ids(y, v)
      BY <1>1, <3>2 DEF Ids
    <3>5. QED  BY <3>3, <3>4
  <2> HIDE DEF two
  <2>3. two = new
    BY <2>1, <2>2
  <2>4. TwoSidedOf(g, x, y, u, v) = two
    BY <1>5 DEF TwoSidedOf, two
  <2>5. QED  BY <2>3, <2>4 DEF new
<1>6. QED  BY <1>4, <1>5

------------------------------------------------------------------------------
(* The inductive invariant.                                                *)

(* The plan on the stack, and its blocks made of whole microbatches.       *)
PlanOK == IInv /\ AlignedStack(nested_blocks) /\ BorderedStack(nested_blocks)

SliceOK ==
  /\ mode \in {"select", "block", "probe", "finished"}
  /\ mode \in {"block", "probe"} => plan \in Plans
  /\ mode \in {"select", "finished"} => pc = "idle"
  /\ mode = "finished" => is_finished

CacheOK == algorithms \in [Plans -> Seq(Indexes)]

Progress == [left : 0 .. N, right : 0 .. N, leftTarget : 0 .. N, rightTarget : 0 .. N]

(* Where a probe is in a block: at the start in both directions with a     *)
(* batch to come in both, or past it in both; equally far on the diagonal; *)
(* and what lies behind it has been compared.                              *)
ProbeFits(p, g, compared) ==
  /\ p \in Progress
  /\ Stop(p.left, g.sx, g.ex) /\ Stop(p.right, g.sy, g.ey)
  /\ Stop(p.leftTarget, g.sx, g.ex) /\ Stop(p.rightTarget, g.sy, g.ey)
  /\ \/ /\ p.left = g.sx /\ p.right = g.sy
        /\ p.left < p.leftTarget /\ p.right < p.rightTarget
     \/ p.left > g.sx /\ p.right > g.sy
  /\ self_join(g) => p.left = p.right
  /\ Work(Rect(g.sx, g.sy, p.left, p.right)) \subseteq compared

ProbeOK ==
  mode = "probe" =>
    pc = "idle" /\ ~is_finished /\ ProbeFits(probe, get_block, emitted)

(* What a descent may drop has been compared.                              *)
DescentOK ==
  pc = "descending" =>
    Work(Rect(get_block.sx, get_block.sy, last.x, last.y)) \subseteq emitted

JInv == PlanOK /\ SliceOK /\ CacheOK /\ ProbeOK /\ DescentOK

LEMMA BlockInCorner ==
  ASSUME PlanOK, ~is_finished
  PROVE  get_block \in Corners(get_block)
<1>1. /\ Len(nested_blocks) \in Nat \ {0}
      /\ get_block = nested_blocks[Len(nested_blocks)].rect
      /\ get_block \in Rects /\ WellShaped(get_block)
  BY InnermostFacts DEF PlanOK
<1>2. StartsAligned(get_block) /\ Bordered(get_block)
  BY <1>1 DEF PlanOK, AlignedStack, BorderedStack
<1>3. Inner(get_block, get_block)
  BY <1>1, SizeAssumption DEF Inner, Rects
<1>4. QED  BY <1>1, <1>2, <1>3 DEF Corners

LEMMA PlanStep ==
  ASSUME PlanOK, [Next]_schedVars
  PROVE  PlanOK'
<1>1. IInv'
  BY NextIInv DEF PlanOK
<1>2. AlignedStack(nested_blocks') /\ BorderedStack(nested_blocks')
  BY AlignedStep, BorderedStep DEF PlanOK
<1>3. QED  BY <1>1, <1>2 DEF PlanOK, AlignedStack, BorderedStack, StartsAligned, Bordered, Border

(* A scheduler of its own for the second join.                             *)
LEMMA NewPlan ==
  ASSUME PlanOK, pc = "idle", NewScheduler
  PROVE  PlanOK'
<1> DEFINE r == Rect(0, 0, N, N)
           b == PlanBlock(r)
           t == <<b>>
<1>1. nested_blocks' = t /\ done' = {} /\ pc' = "idle" /\ last' = last /\ nested_blocks = <<>>
  BY DEF NewScheduler, is_finished
<1>2. /\ N \in Nat \ {0} /\ r \in Rects /\ WellShaped(r)
      /\ r.sx = 0 /\ r.sy = 0 /\ r.ex = N /\ r.ey = N
  BY SizeAssumption DEF Rect, Rects, WellShaped
<1>3. b \in Blocks /\ b.rect = r /\ b.missing = AllSubblocks(r)
  BY <1>2, PlanBlockFacts
<1>4. StackOK(t)
  <2>1. StackOK(<<>>)
    BY <1>1, StackIsOK DEF PlanOK
  <2>2. StackOK(Append(<<>>, b))
    <3> HIDE DEF r
    <3>1. QED  BY <1>2, <2>1, PushOK
  <2>3. Append(<<>>, b) = t
    OBVIOUS
  <2> HIDE DEF t
  <2>4. QED  BY <2>2, <2>3
<1> HIDE DEF b, r
<1>5. t \in Seq(Blocks) /\ Len(t) = 1 /\ t[1] = b /\ t # <<>>
  BY <1>3
<1>6. Last(t) = b
  BY <1>5, FrontLast
<1>7. AheadIn(t, 0) = {}
  BY DEF AheadIn
<1>8. Work(r) = Total
  BY <1>2 DEF Work, Covers, Total
<1>9. LeftOffered(t) = Total
  BY <1>3, <1>5, <1>6, <1>7, <1>8 DEF LeftOffered
<1>10. last' \in [x : 0 .. N, y : 0 .. N]
  BY <1>1 DEF PlanOK, IInv, TypeOK
<1> HIDE DEF t
<1>11. IInv'
  <2>1. IInv /\ done' \subseteq Total /\ LeftOffered(t) = Total \ done'
    BY <1>1, <1>9 DEF PlanOK
  <2>2. t # <<>> => Last(t).missing = AllSubblocks(Last(t).rect)
    BY <1>3, <1>6
  <2>3. QED  BY <1>1, <1>4, <1>10, <2>1, <2>2, IdleAgain
<1>12. 0 % ALIGNMENT = 0
  BY AlignmentAssumption
<1>13. StartsAligned(r) /\ Bordered(r)
  BY <1>2, <1>12 DEF StartsAligned, Bordered, Border
<1>14. AlignedStack(t) /\ BorderedStack(t)
  BY <1>3, <1>5, <1>13 DEF AlignedStack, BorderedStack
<1>15. QED
  BY <1>1, <1>11, <1>14 DEF PlanOK, AlignedStack, BorderedStack, StartsAligned, Bordered, Border

(* A report: what leaves the plan lies in the part that was reported, and  *)
(* so does all that a descent which it starts may drop.                    *)
LEMMA ReportFacts ==
  ASSUME PlanOK, ~is_finished, pc = "idle",
         NEW x \in 1 .. N, NEW y \in 1 .. N,
         Reportable(get_block, x, y), advance_block(x, y),
         Part(x, y) \subseteq emitted'
  PROVE  Next /\ done' \ done \subseteq emitted' /\ DescentOK'
<1> DEFINE g == get_block
<1>1. Next
  BY DEF Next
<1>2. g \in Rects
  BY BlockInCorner DEF Corners
<1>3. IInv
  BY DEF PlanOK
<1>4. CASE AdvanceComplete(x, y)
  <2>1. x = g.ex /\ y = g.ey /\ done' = done \cup Work(g) /\ pc' = "popping"
    BY <1>4 DEF AdvanceComplete
  <2>2. Rect(g.sx, g.sy, g.ex, g.ey) = g
    BY <1>2 DEF Rect, Rects
  <2>3. Work(g) \subseteq emitted'
    BY <2>1, <2>2 DEF Part
  <2>4. QED  BY <1>1, <2>1, <2>3 DEF DescentOK
<1>5. CASE AdvanceStrip(x, y)
  <2>1. done' = done \cup Part(x, y) /\ pc' = pc
    BY <1>5 DEF AdvanceStrip, Part
  <2>2. QED  BY <1>1, <2>1 DEF DescentOK
<1>6. CASE AdvancePartial(x, y)
  <2>1. /\ x # g.ex /\ y # g.ey /\ done' = done
        /\ EnterSubblock /\ last' = [x |-> x, y |-> y]
    BY <1>6 DEF AdvancePartial
  <2> HIDE DEF g
  <2>2. x < g.ex /\ x >= g.sx + ALIGNMENT /\ y < g.ey /\ y >= g.sy + ALIGNMENT
    BY <1>2, <2>1, SizeAssumption DEF Reportable, Rects, g
  <2>3. g.ex - g.sx > ALIGNMENT /\ g.ey - g.sy > ALIGNMENT
    BY <1>2, <2>2, SizeAssumption, AlignmentAssumption DEF Rects
  <2>4. get_block'.sx = g.sx /\ get_block'.sy = g.sy
    BY <1>3, <2>1, <2>3, EnteredStart DEF g
  <2>5. Work(Rect(g.sx, g.sy, x, y)) \subseteq emitted'
    BY DEF Part, g
  <2>6. last'.x = x /\ last'.y = y
    BY <2>1
  <2>7. QED  BY <1>1, <2>1, <2>4, <2>5, <2>6 DEF DescentOK
<1>7. QED  BY <1>4, <1>5, <1>6 DEF advance_block

LEMMA LoopFacts ==
  ASSUME PlanOK, DescentOK, AdvanceLoop, emitted' = emitted
  PROVE  /\ Next /\ DescentOK'
         /\ done' \ done \subseteq emitted' \/ DropsUnprocessed
<1>1. Next /\ IInv
  BY DEF Next, PlanOK
<1>2. CASE PopFinished \/ PopStop
  <2>1. done' = done /\ pc' # "descending"
    BY <1>2 DEF PopFinished, PopStop
  <2>2. QED  BY <1>1, <2>1 DEF DescentOK
<1>3. CASE Descend
  <2> DEFINE g == get_block
  <2>1. /\ pc = "descending" /\ g.ex > last.x /\ g.ey > last.y
        /\ EnterSubblock /\ last' = last /\ done' = done
    BY <1>3 DEF Descend, Inside
  <2>2. ~is_finished
    BY <1>1, <2>1, EmptySeq DEF IInv, Shape, is_finished
  <2>3. g \in Rects /\ last \in [x : 0 .. N, y : 0 .. N]
    BY <1>1, <2>2, InnermostFacts DEF IInv, TypeOK
  <2>4. last.x >= g.sx + ALIGNMENT /\ last.y >= g.sy + ALIGNMENT
    BY <1>1, <2>1 DEF IInv, Shape
  <2>5. Work(Rect(g.sx, g.sy, last.x, last.y)) \subseteq emitted
    BY <2>1 DEF DescentOK
  <2> HIDE DEF g
  <2>6. g.ex - g.sx > ALIGNMENT /\ g.ey - g.sy > ALIGNMENT
    BY <2>1, <2>3, <2>4, SizeAssumption, AlignmentAssumption DEF Rects
  <2>7. get_block'.sx = g.sx /\ get_block'.sy = g.sy
    BY <1>1, <2>1, <2>2, <2>6, EnteredStart DEF g
  <2>8. QED  BY <1>1, <2>1, <2>5, <2>7 DEF DescentOK
<1>4. CASE DescendStop
  <2> DEFINE g == get_block
  <2>1. pc = "descending" /\ ~Inside /\ done' = done \cup Work(g) /\ pc' = "idle"
    BY <1>4 DEF DescendStop
  <2>2. CASE DropsUnprocessed
    BY <1>1, <2>1, <2>2 DEF DescentOK
  <2>3. CASE ~DropsUnprocessed
    <3>1. g.ex <= last.x /\ g.ey <= last.y
      BY <2>1, <2>3 DEF DropsUnprocessed
    <3>2. ~is_finished
      BY <1>1, <2>1, EmptySeq DEF IInv, Shape, is_finished
    <3>3. g \in Rects /\ last \in [x : 0 .. N, y : 0 .. N]
      BY <1>1, <3>2, InnermostFacts DEF IInv, TypeOK
    <3>4. Work(Rect(g.sx, g.sy, last.x, last.y)) \subseteq emitted
      BY <2>1 DEF DescentOK
    <3> DEFINE q == Rect(g.sx, g.sy, last.x, last.y)
    <3> HIDE DEF g
    <3>5. q \in Rects /\ Inner(g, q)
      BY <3>1, <3>3, SizeAssumption DEF Rect, Rects, Inner
    <3>6. Work(g) \subseteq Work(q)
      BY <3>3, <3>5, InnerWork
    <3>7. QED  BY <1>1, <2>1, <3>4, <3>6 DEF DescentOK, g
  <2>4. QED  BY <2>2, <2>3
<1>5. QED  BY <1>2, <1>3, <1>4 DEF AdvanceLoop

------------------------------------------------------------------------------
(* Probing.                                                                *)

(* The next batch ends at a stop again, and is the one batch that starts   *)
(* where it does.                                                          *)
LEMMA BatchEndFacts ==
  ASSUME NEW from \in 0 .. N, NEW to \in 0 .. N, from % ALIGNMENT = 0, Border(to),
         NEW id, Stop(id, from, to), NEW target, Stop(target, from, to)
  PROVE  LET e == BatchEnd(id, target)
         IN  /\ Stop(e, from, to) /\ e \in 0 .. N /\ id <= e
             /\ id < target => id < e
             /\ e # id => WholeBatch(id, e)
<1> DEFINE e == BatchEnd(id, target)
           A == ALIGNMENT
<1>1. N \in Nat /\ A \in Nat \ {0}
  BY SizeAssumption, AlignmentAssumption
<1>2. id \in 0 .. N /\ from <= id /\ id <= to /\ (id # to => id % A = 0)
  BY <1>1 DEF Stop
<1>3. target \in 0 .. N /\ target <= to /\ (target # N => target % A = 0)
  BY <1>1, StopFacts DEF Border
<1>4. Stop(target, from, to)
  OBVIOUS
<1>5. CASE ~(id < target)
  <2>1. e = id
    BY <1>5 DEF BatchEnd
  <2>2. QED  BY <1>1, <1>2, <1>5, <2>1
<1>6. CASE id < target
  <2>1. id # to /\ id % A = 0
    BY <1>1, <1>2, <1>3, <1>6
  <2>2. e = Least(id + A, target)
    BY <1>6 DEF BatchEnd
  <2>3. CASE id + A <= target
    <3>1. e = id + A /\ e % A = 0
      BY <1>2, <2>1, <2>2, <2>3, SumOfMultiples DEF Least
    <3>2. id + A <= N /\ e \in from .. to
      BY <1>1, <1>2, <1>3, <2>3, <3>1
    <3>3. WholeBatch(id, e)
      BY <2>1, <3>1, <3>2 DEF WholeBatch, Least
    <3>4. Stop(e, from, to)
      BY <3>1, <3>2 DEF Stop
    <3> HIDE DEF e, A
    <3>5. QED  BY <1>1, <1>2, <3>1, <3>2, <3>3, <3>4 DEF e, A
  <2>4. CASE ~(id + A <= target)
    <3>1. e = target
      BY <2>2, <2>4 DEF Least
    <3>2. target % A # 0
      BY <1>1, <1>2, <1>3, <1>6, <2>1, <2>4, NextMultiple
    <3>3. target = N
      BY <1>3, <3>2
    <3>4. Least(id + A, N) = N
      BY <1>1, <1>2, <2>4, <3>3 DEF Least
    <3>5. WholeBatch(id, e)
      BY <2>1, <3>1, <3>3, <3>4 DEF WholeBatch
    <3>6. QED  BY <1>1, <1>2, <1>3, <1>4, <1>6, <3>1, <3>5
  <2>5. QED  BY <2>3, <2>4
<1>7. QED  BY <1>5, <1>6

(* The next stops of a probe lie further in at least one direction, in     *)
(* both from the start.                                                    *)
LEMMA ProbeGrows ==
  ASSUME PlanOK, ProbeOK, Probing
  PROVE  LET g == get_block
         IN  /\ g \in Corners(g) /\ pc = "idle" /\ ~is_finished
             /\ ProbeFits(probe, g, emitted)
             /\ Stop(NextLeft, g.sx, g.ex) /\ Stop(NextRight, g.sy, g.ey)
             /\ NextLeft \in 0 .. N /\ NextRight \in 0 .. N
             /\ probe.left <= NextLeft /\ probe.right <= NextRight
             /\ NextLeft > g.sx /\ NextRight > g.sy
             /\ self_join(g) => NextLeft = NextRight
             /\ NextLeft # probe.left => WholeBatch(probe.left, NextLeft)
             /\ NextRight # probe.right => WholeBatch(probe.right, NextRight)
<1> DEFINE g == get_block
<1>1. g \in Corners(g) /\ pc = "idle" /\ ~is_finished /\ ProbeFits(probe, g, emitted)
  BY BlockInCorner DEF ProbeOK, Probing
<1>2. NextLeft = BatchEnd(probe.left, probe.leftTarget)
  BY DEF NextLeft
<1>3. /\ self_join(g) => NextRight = NextLeft
      /\ ~self_join(g) => NextRight = BatchEnd(probe.right, probe.rightTarget)
  BY DEF NextRight
<1> HIDE DEF g
<1>4. /\ N \in Nat /\ g.sx \in 0 .. N /\ g.sy \in 0 .. N /\ g.ex \in 0 .. N /\ g.ey \in 0 .. N
      /\ g.sx % ALIGNMENT = 0 /\ g.sy % ALIGNMENT = 0
      /\ Border(g.ex) /\ Border(g.ey)
      /\ self_join(g) => g.ex = g.ey
  BY <1>1, GridFacts
<1>5. /\ probe.left \in 0 .. N /\ probe.right \in 0 .. N
      /\ probe.leftTarget \in 0 .. N /\ probe.rightTarget \in 0 .. N
  BY <1>1 DEF ProbeFits, Progress
<1>6. /\ Stop(probe.left, g.sx, g.ex) /\ Stop(probe.right, g.sy, g.ey)
      /\ Stop(probe.leftTarget, g.sx, g.ex) /\ Stop(probe.rightTarget, g.sy, g.ey)
  BY <1>1 DEF ProbeFits
<1>7. /\ Stop(NextLeft, g.sx, g.ex) /\ NextLeft \in 0 .. N
      /\ probe.left <= NextLeft
      /\ probe.left < probe.leftTarget => probe.left < NextLeft
      /\ NextLeft # probe.left => WholeBatch(probe.left, NextLeft)
  BY <1>2, <1>4, <1>6, BatchEndFacts
<1>8. CASE self_join(g)
  <2>1. g.sx = g.sy /\ g.ex = g.ey /\ probe.left = probe.right /\ NextRight = NextLeft
    BY <1>1, <1>3, <1>4, <1>8 DEF self_join, ProbeFits
  <2>2. NextLeft > g.sx
    BY <1>1, <1>4, <1>5, <1>7 DEF ProbeFits
  <2>3. QED  BY <1>1, <1>7, <2>1, <2>2 DEF g
<1>9. CASE ~self_join(g)
  <2>1. NextRight = BatchEnd(probe.right, probe.rightTarget)
    BY <1>3, <1>9
  <2>2. /\ Stop(NextRight, g.sy, g.ey) /\ NextRight \in 0 .. N
        /\ probe.right <= NextRight
        /\ probe.right < probe.rightTarget => probe.right < NextRight
        /\ NextRight # probe.right => WholeBatch(probe.right, NextRight)
    BY <1>4, <1>6, <2>1, BatchEndFacts
  <2>3. NextLeft > g.sx /\ NextRight > g.sy
    BY <1>1, <1>4, <1>5, <1>7, <2>2 DEF ProbeFits
  <2>4. QED  BY <1>1, <1>7, <1>9, <2>2, <2>3 DEF g
<1>10. QED  BY <1>8, <1>9

LEMMA ProbePairs ==
  ASSUME PlanOK, ProbeOK, Probing
  PROVE  TwoSidedPairs(NextLeft, NextRight) =
           Part(NextLeft, NextRight) \ Part(probe.left, probe.right)
<1> DEFINE g == get_block
           x == probe.left
           y == probe.right
           u == NextLeft
           v == NextRight
<1>1. /\ g \in Corners(g) /\ u \in 0 .. N /\ v \in 0 .. N /\ x <= u /\ y <= v
      /\ ProbeFits(probe, g, emitted)
      /\ Stop(u, g.sx, g.ex) /\ Stop(v, g.sy, g.ey)
      /\ self_join(g) => u = v
  BY ProbeGrows
<1>2. /\ x \in 0 .. N /\ y \in 0 .. N
      /\ Stop(x, g.sx, g.ex) /\ Stop(y, g.sy, g.ey)
      /\ self_join(g) => x = y
  BY <1>1 DEF ProbeFits, Progress
<1>3. TwoSidedPairs(u, v) = TwoSidedOf(g, x, y, u, v)
  BY DEF TwoSidedPairs, TwoSidedOf
<1>4. Part(u, v) = Work(Rect(g.sx, g.sy, u, v)) /\ Part(x, y) = Work(Rect(g.sx, g.sy, x, y))
  BY DEF Part
<1> HIDE DEF g, x, y, u, v
<1>5. N \in Nat /\ g.sx \in 0 .. N /\ g.sy \in 0 .. N /\ g.ex \in 0 .. N /\ g.ey \in 0 .. N
  BY <1>1, GridFacts
<1>6. g.sx <= x /\ u <= g.ex /\ g.sy <= y /\ v <= g.ey
  BY <1>1, <1>2, <1>5 DEF Stop
<1>7. QED  BY <1>1, <1>2, <1>3, <1>4, <1>6, TwoSided DEF x, y, u, v

(* A computation with an index of the plan's cache: it ends at stops past  *)
(* the start, where the index ends at the latest, and gives the pairs.     *)
LEMMA JobFacts ==
  ASSUME CacheOK, plan \in Plans, get_block \in Corners(get_block), NEW job \in Jobs
  PROVE  LET g == get_block
             a == job.best.alg
             x == job.until.x
             y == job.until.y
         IN  /\ a \in Indexes /\ job.best.is_left \in BOOLEAN
             /\ Stop(x, g.sx, g.ex) /\ Stop(y, g.sy, g.ey) /\ x > g.sx /\ y > g.sy
             /\ self_join(g) => x = y
             /\ job.best.is_left => Covered(a, g.sx, x)
             /\ ~job.best.is_left => Covered(a, g.sy, y)
<1> DEFINE g == get_block
           c == algorithms[plan]
<1>1. c \in Seq(Indexes)
  BY DEF CacheOK
<1>2. PICK best \in BestAlg(c, Lookup(c, g)) :
        job = [best |-> best, until |-> computed_until(g, best)]
  BY DEF Jobs
<1>3. job.best = best /\ job.until = computed_until(g, best)
  BY <1>2
<1> HIDE DEF g, c
<1>4. g \in Corners(g)
  BY DEF g
<1>5. /\ best.alg \in Indexes /\ best.is_left \in BOOLEAN
      /\ \E r \in Corners(g) : computed_until(g, best) = End(r)
      /\ best.is_left => Covered(best.alg, g.sx, computed_until(g, best).x)
      /\ ~best.is_left => Covered(best.alg, g.sy, computed_until(g, best).y)
  BY <1>1, <1>4, BestFacts
<1>6. PICK r \in Corners(g) : computed_until(g, best) = End(r)
  BY <1>5
<1>7. job.until.x = r.ex /\ job.until.y = r.ey
  BY <1>3, <1>6 DEF End
<1>8. /\ Stop(r.ex, g.sx, g.ex) /\ Stop(r.ey, g.sy, g.ey)
      /\ r.ex > g.sx /\ r.ey > g.sy
      /\ self_join(g) => r.ex = r.ey
  BY <1>4, CornerStops
<1>9. QED  BY <1>3, <1>5, <1>7, <1>8 DEF g

LEMMA JobPairs ==
  ASSUME CacheOK, plan \in Plans, get_block \in Corners(get_block), NEW job \in Jobs
  PROVE  LET part  == Part(job.until.x, job.until.y)
             pairs == OneSidedPairs(job, self_join(get_block))
         IN  /\ part \subseteq pairs
             /\ \A p \in pairs \ part : index_range(job).end \in {p[1], p[2]}
<1> DEFINE g == get_block
           a == job.best.alg
           left == job.best.is_left
           x == job.until.x
           y == job.until.y
           l == [start |-> g.sx, end |-> x]
           r == [start |-> g.sy, end |-> y]
           index == IF left THEN l ELSE r
           other == IF left THEN r ELSE l
           pairs == OneSidedOf(g, a, index, other)
           part == Work(Rect(g.sx, g.sy, x, y))
<1>1. index_range(job) = index /\ probe_range(job) = other
  BY DEF index_range, probe_range, LeftRange, RightRange
<1>2. OneSidedPairs(job, self_join(g)) = pairs
  BY <1>1 DEF OneSidedPairs, OneSidedOf
<1>3. Part(x, y) = part
  BY DEF Part
<1>4. /\ a \in Indexes /\ left \in BOOLEAN
      /\ Stop(x, g.sx, g.ex) /\ Stop(y, g.sy, g.ey) /\ x > g.sx /\ y > g.sy
      /\ self_join(g) => x = y
      /\ left => Covered(a, g.sx, x)
      /\ ~left => Covered(a, g.sy, y)
      /\ g \in Corners(g)
  BY JobFacts
<1>5. part \subseteq pairs /\ \A p \in pairs \ part : index.end \in {p[1], p[2]}
  <2> HIDE DEF g, a, left, x, y
  <2>1. QED  BY <1>4, OneSided
<1> HIDE DEF pairs, part, index
<1>6. QED  BY <1>1, <1>2, <1>3, <1>5 DEF g, x, y

(* What BatchIdFixesExtent and IndexCoversRange say of a job.              *)
LEMMA JobRanges ==
  ASSUME CacheOK, plan \in Plans, get_block \in Corners(get_block), NEW job \in Jobs
  PROVE  /\ probe_range(job).start % ALIGNMENT = 0
         /\ probe_range(job).end % ALIGNMENT = 0 \/ probe_range(job).end = N
         /\ Covered(job.best.alg, index_range(job).start, index_range(job).end)
         /\ Size(index_range(job)) > 0 /\ Size(probe_range(job)) > 0
<1> DEFINE g == get_block
           x == job.until.x
           y == job.until.y
<1>1. /\ job.best.is_left \in BOOLEAN
      /\ Stop(x, g.sx, g.ex) /\ Stop(y, g.sy, g.ey) /\ x > g.sx /\ y > g.sy
      /\ job.best.is_left => Covered(job.best.alg, g.sx, x)
      /\ ~job.best.is_left => Covered(job.best.alg, g.sy, y)
      /\ g \in Corners(g)
  BY JobFacts
<1>2. LeftRange(job).start = g.sx /\ LeftRange(job).end = x
  BY DEF LeftRange
<1>3. RightRange(job).start = g.sy /\ RightRange(job).end = y
  BY DEF RightRange
<1> HIDE DEF g, x, y
<1>4. /\ N \in Nat /\ g.sx \in 0 .. N /\ g.sy \in 0 .. N /\ g.ex \in 0 .. N /\ g.ey \in 0 .. N
      /\ g.sx % ALIGNMENT = 0 /\ g.sy % ALIGNMENT = 0
      /\ Border(g.ex) /\ Border(g.ey)
  BY <1>1, GridFacts
<1>5. x \in 0 .. N /\ Border(x) /\ y \in 0 .. N /\ Border(y)
  BY <1>1, <1>4, StopFacts
<1>6. CASE job.best.is_left
  <2>1. index_range(job) = LeftRange(job) /\ probe_range(job) = RightRange(job)
    BY <1>6 DEF index_range, probe_range
  <2>2. QED  BY <1>1, <1>2, <1>3, <1>4, <1>5, <1>6, <2>1 DEF Border, Size
<1>7. CASE ~job.best.is_left
  <2>1. index_range(job) = RightRange(job) /\ probe_range(job) = LeftRange(job)
    BY <1>7 DEF index_range, probe_range
  <2>2. QED  BY <1>1, <1>2, <1>3, <1>4, <1>5, <1>7, <2>1 DEF Border, Size
<1>8. QED  BY <1>6, <1>7

------------------------------------------------------------------------------
(* Every step keeps the invariant, is a step of the scheduler or none, and *)
(* takes from the plan only what has been compared.                        *)

StepOK ==
  /\ JInv'
  /\ [Next \/ NewScheduler]_schedVars
  /\ done' \ done \subseteq emitted' \/ DropsUnprocessed

LEMMA OffScheduler ==
  ASSUME PlanOK, DescentOK, UNCHANGED schedVars, emitted \subseteq emitted'
  PROVE  /\ PlanOK' /\ DescentOK' /\ [Next \/ NewScheduler]_schedVars
         /\ done' \ done \subseteq emitted'
         /\ pc' = pc /\ get_block' = get_block /\ (is_finished' <=> is_finished)
<1>1. nested_blocks' = nested_blocks /\ pc' = pc /\ last' = last /\ done' = done
  BY DEF schedVars
<1>2. PlanOK'
  BY PlanStep
<1>3. get_block' = get_block /\ (is_finished' <=> is_finished)
  BY <1>1 DEF get_block, is_finished
<1>4. DescentOK'
  BY <1>1, <1>3 DEF DescentOK
<1>5. QED  BY <1>1, <1>2, <1>3, <1>4

LEMMA InitJInv == SliceInit => JInv
<1> SUFFICES ASSUME SliceInit PROVE JInv
  OBVIOUS
<1>1. /\ Init /\ mode = "select" /\ algorithms = [p \in Plans |-> <<>>]
  BY DEF SliceInit
<1>2. nested_blocks = <<PlanBlock(Rect(0, 0, N, N))>> /\ pc = "idle"
  BY <1>1 DEF Init
<1>3. IInv
  BY <1>1, InitIInv
<1>4. Len(nested_blocks) = 1 /\ nested_blocks[1].rect = Rect(0, 0, N, N)
  BY <1>2 DEF PlanBlock
<1>5. 0 % ALIGNMENT = 0
  BY AlignmentAssumption
<1>6. StartsAligned(Rect(0, 0, N, N)) /\ Bordered(Rect(0, 0, N, N))
  BY <1>5 DEF StartsAligned, Bordered, Border, Rect
<1>7. AlignedStack(nested_blocks) /\ BorderedStack(nested_blocks)
  BY <1>4, <1>6 DEF AlignedStack, BorderedStack
<1>8. CacheOK
  BY <1>1 DEF CacheOK
<1>9. QED  BY <1>1, <1>2, <1>3, <1>7, <1>8 DEF JInv, PlanOK, SliceOK, ProbeOK, DescentOK

LEMMA SelectPlanStep == JInv /\ SelectPlan => StepOK
<1> SUFFICES ASSUME JInv, SelectPlan PROVE StepOK
  OBVIOUS
<1>1. /\ plan' \in Plans /\ mode' = "block" /\ algorithms' = algorithms
      /\ UNCHANGED schedVars /\ emitted' = emitted
  BY DEF SelectPlan
<1>2. /\ PlanOK' /\ DescentOK' /\ [Next \/ NewScheduler]_schedVars
      /\ done' \ done \subseteq emitted'
  BY <1>1, OffScheduler DEF JInv
<1>3. SliceOK' /\ CacheOK' /\ ProbeOK'
  BY <1>1 DEF JInv, SliceOK, CacheOK, ProbeOK
<1>4. QED  BY <1>2, <1>3 DEF StepOK, JInv

LEMMA EndSliceStep == JInv /\ EndSlice => StepOK
<1> SUFFICES ASSUME JInv, EndSlice PROVE StepOK
  OBVIOUS
<1>1. /\ pc = "idle" /\ mode' = "select" /\ algorithms' = algorithms
      /\ UNCHANGED schedVars /\ emitted' = emitted
  BY DEF EndSlice
<1>2. /\ PlanOK' /\ DescentOK' /\ [Next \/ NewScheduler]_schedVars
      /\ done' \ done \subseteq emitted' /\ pc' = pc
  BY <1>1, OffScheduler DEF JInv
<1>3. SliceOK' /\ CacheOK' /\ ProbeOK'
  BY <1>1, <1>2 DEF JInv, SliceOK, CacheOK, ProbeOK
<1>4. QED  BY <1>2, <1>3 DEF StepOK, JInv

LEMMA StopFragmentationStep == JInv /\ StopFragmentation => StepOK
<1> SUFFICES ASSUME JInv, StopFragmentation PROVE StepOK
  OBVIOUS
<1>1. /\ mode = "block" /\ mode' = mode /\ plan' = plan /\ algorithms' = algorithms
      /\ UNCHANGED schedVars /\ emitted' = emitted
  BY DEF StopFragmentation, AtBlock
<1>2. /\ PlanOK' /\ DescentOK' /\ [Next \/ NewScheduler]_schedVars
      /\ done' \ done \subseteq emitted'
  BY <1>1, OffScheduler DEF JInv
<1>3. SliceOK' /\ CacheOK' /\ ProbeOK'
  BY <1>1 DEF JInv, SliceOK, CacheOK, ProbeOK
<1>4. QED  BY <1>2, <1>3 DEF StepOK, JInv

(* A computation with an index, reported at once.                          *)
LEMMA ComputeWithIndexStep == JInv /\ ComputeWithIndex => StepOK
<1> SUFFICES ASSUME JInv, ComputeWithIndex PROVE StepOK
  OBVIOUS
<1> DEFINE g == get_block
<1>1. /\ pc = "idle" /\ mode = "block" /\ ~is_finished
      /\ mode' = mode /\ plan' = plan /\ algorithms' = algorithms
  BY DEF ComputeWithIndex, AtBlock
<1>2. PICK job \in Jobs :
        /\ Emit(OneSidedPairs(job, self_join(g)))
        /\ advance_block(job.until.x, job.until.y)
  BY DEF ComputeWithIndex
<1>3. PlanOK /\ SliceOK /\ CacheOK /\ plan \in Plans
  BY <1>1 DEF JInv, SliceOK
<1>4. g \in Corners(g)
  BY <1>1, <1>3, BlockInCorner
<1> DEFINE x == job.until.x
           y == job.until.y
<1>5. /\ Stop(x, g.sx, g.ex) /\ Stop(y, g.sy, g.ey) /\ x > g.sx /\ y > g.sy
      /\ self_join(g) => x = y
  BY <1>3, <1>4, JobFacts
<1>6. Part(x, y) \subseteq OneSidedPairs(job, self_join(g))
  BY <1>3, <1>4, JobPairs
<1>7. Part(x, y) \subseteq emitted'
  BY <1>2, <1>6 DEF Emit
<1>8. advance_block(x, y)
  BY <1>2
<1> HIDE DEF x, y
<1>9. Reportable(g, x, y) /\ x \in 1 .. N /\ y \in 1 .. N
  <2> HIDE DEF g
  <2>1. QED  BY <1>4, <1>5, StopsReportable
<1>10. Next /\ done' \ done \subseteq emitted' /\ DescentOK'
  BY <1>1, <1>3, <1>7, <1>8, <1>9, ReportFacts
<1>11. PlanOK'
  BY <1>3, <1>10, PlanStep
<1>12. SliceOK' /\ CacheOK' /\ ProbeOK'
  BY <1>1, <1>3 DEF SliceOK, CacheOK, ProbeOK
<1>13. QED  BY <1>10, <1>11, <1>12 DEF StepOK, JInv

LEMMA StartProbingStep == JInv /\ StartProbing => StepOK
<1> SUFFICES ASSUME JInv, StartProbing PROVE StepOK
  OBVIOUS
<1> DEFINE g == get_block
           p == [left |-> g.sx, right |-> g.sy, leftTarget |-> g.ex, rightTarget |-> g.ey]
<1>1. /\ pc = "idle" /\ mode = "block" /\ ~is_finished
      /\ mode' = "probe" /\ probe' = p
      /\ plan' = plan /\ algorithms' = algorithms
      /\ UNCHANGED schedVars /\ emitted' = emitted
  BY DEF StartProbing, AtBlock
<1>2. /\ PlanOK' /\ DescentOK' /\ [Next \/ NewScheduler]_schedVars
      /\ done' \ done \subseteq emitted'
      /\ pc' = pc /\ get_block' = g /\ (is_finished' <=> is_finished)
  BY <1>1, OffScheduler DEF JInv
<1>3. g \in Corners(g)
  BY <1>1, BlockInCorner DEF JInv
<1>4. ProbeFits(p, g, emitted)
  <2> HIDE DEF g
  <2>1. /\ N \in Nat \ {0} /\ ALIGNMENT \in Nat \ {0}
        /\ g.sx \in 0 .. N /\ g.sy \in 0 .. N /\ g.ex \in 0 .. N /\ g.ey \in 0 .. N
        /\ g.sx < g.ex /\ g.sy < g.ey
        /\ g.sx % ALIGNMENT = 0 /\ g.sy % ALIGNMENT = 0
    BY <1>3, GridFacts
  <2>2. /\ Stop(g.sx, g.sx, g.ex) /\ Stop(g.sy, g.sy, g.ey)
        /\ Stop(g.ex, g.sx, g.ex) /\ Stop(g.ey, g.sy, g.ey)
    BY <2>1 DEF Stop
  <2>3. Work(Rect(g.sx, g.sy, g.sx, g.sy)) = {}
    <3>1. SUFFICES ASSUME NEW q, q \in Work(Rect(g.sx, g.sy, g.sx, g.sy)) PROVE FALSE
      OBVIOUS
    <3>2. \E i, j \in 0 .. N-1 : g.sx <= i /\ i < g.sx
      BY <1>3, <2>1, <3>1, InPart
    <3>3. QED  BY <2>1, <3>2
  <2>4. QED  BY <2>1, <2>2, <2>3 DEF ProbeFits, Progress, self_join
<1>5. ProbeOK'
  BY <1>1, <1>2, <1>4 DEF ProbeOK
<1>6. SliceOK' /\ CacheOK'
  BY <1>1 DEF JInv, SliceOK, CacheOK
<1>7. QED  BY <1>2, <1>5, <1>6 DEF StepOK, JInv

(* An iteration of the probe loop, in time or as the time runs out.        *)
LEMMA ProbeMicrobatchesStep == JInv /\ ProbeMicrobatches => StepOK
<1> SUFFICES ASSUME JInv, ProbeMicrobatches PROVE StepOK
  OBVIOUS
<1> DEFINE g == get_block
           x == NextLeft
           y == NextRight
           t == next_larger_fitting(g, x, y)
<1>1. /\ Probing /\ mode = "probe"
      /\ UNCHANGED schedVars /\ mode' = mode /\ plan' = plan /\ algorithms' = algorithms
  BY DEF ProbeMicrobatches, Probing
<1>2. /\ Emit(TwoSidedPairs(x, y))
      /\ \/ probe' = [probe EXCEPT !.left = x, !.right = y]
         \/ probe' = [left |-> x, right |-> y, leftTarget |-> t.x, rightTarget |-> t.y]
  BY DEF ProbeMicrobatches
<1>3. PlanOK /\ SliceOK /\ CacheOK /\ ProbeOK /\ DescentOK
  BY DEF JInv
<1>4. /\ g \in Corners(g) /\ pc = "idle" /\ ~is_finished
      /\ ProbeFits(probe, g, emitted)
      /\ Stop(x, g.sx, g.ex) /\ Stop(y, g.sy, g.ey)
      /\ x \in 0 .. N /\ y \in 0 .. N
      /\ x > g.sx /\ y > g.sy
      /\ self_join(g) => x = y
  BY <1>1, <1>3, ProbeGrows
<1>5. emitted \subseteq emitted' /\ Work(Rect(g.sx, g.sy, x, y)) \subseteq emitted'
  <2>1. emitted' = emitted \cup (Part(x, y) \ Part(probe.left, probe.right))
    BY <1>1, <1>2, <1>3, ProbePairs DEF Emit
  <2>2. Part(probe.left, probe.right) \subseteq emitted
    BY <1>4 DEF ProbeFits, Part
  <2>3. QED  BY <2>1, <2>2 DEF Part
<1>6. /\ PlanOK' /\ DescentOK' /\ [Next \/ NewScheduler]_schedVars
      /\ done' \ done \subseteq emitted'
      /\ pc' = pc /\ get_block' = g /\ (is_finished' <=> is_finished)
  BY <1>1, <1>3, <1>5, OffScheduler
<1>7. /\ t.x \in 0 .. N /\ t.y \in 0 .. N
      /\ Stop(t.x, g.sx, g.ex) /\ Stop(t.y, g.sy, g.ey)
  <2> HIDE DEF g, x, y
  <2>1. PICK r \in Corners(g) : t = End(r)
    BY <1>4, LargerFitting
  <2>2. t.x = r.ex /\ t.y = r.ey
    BY <2>1 DEF End
  <2>3. Stop(r.ex, g.sx, g.ex) /\ Stop(r.ey, g.sy, g.ey)
    BY <1>4, CornerStops
  <2>4. r.ex \in 0 .. N /\ r.ey \in 0 .. N
    BY DEF Corners, Rects
  <2>5. QED  BY <2>2, <2>3, <2>4
<1>8. /\ probe' \in Progress /\ probe'.left = x /\ probe'.right = y
      /\ Stop(probe'.leftTarget, g.sx, g.ex) /\ Stop(probe'.rightTarget, g.sy, g.ey)
  <2> HIDE DEF g, x, y, t
  <2>1. /\ probe \in Progress
        /\ Stop(probe.leftTarget, g.sx, g.ex) /\ Stop(probe.rightTarget, g.sy, g.ey)
    BY <1>4 DEF ProbeFits
  <2>2. CASE probe' = [probe EXCEPT !.left = x, !.right = y]
    <3>1. /\ probe' \in Progress /\ probe'.left = x /\ probe'.right = y
          /\ probe'.leftTarget = probe.leftTarget /\ probe'.rightTarget = probe.rightTarget
      BY <1>4, <2>1, <2>2 DEF Progress
    <3>2. QED  BY <2>1, <3>1
  <2>3. CASE probe' = [left |-> x, right |-> y, leftTarget |-> t.x, rightTarget |-> t.y]
    BY <1>4, <1>7, <2>3 DEF Progress
  <2>4. QED  BY <1>2, <2>2, <2>3
<1>9. ProbeFits(probe', g, emitted')
  <2> HIDE DEF g, x, y
  <2>1. QED  BY <1>4, <1>5, <1>8 DEF ProbeFits
<1>10. ProbeOK'
  BY <1>4, <1>6, <1>9 DEF ProbeOK
<1>11. SliceOK' /\ CacheOK'
  BY <1>1, <1>3 DEF SliceOK, CacheOK
<1>12. QED  BY <1>6, <1>10, <1>11 DEF StepOK, JInv

(* The end of a probe: it is past the start on both sides, so its report   *)
(* is one the scheduler can handle and the new indexes are not empty.      *)
LEMMA ProbeDoneStep == JInv /\ ProbeDone => StepOK
<1> SUFFICES ASSUME JInv, ProbeDone PROVE StepOK
  OBVIOUS
<1> DEFINE g == get_block
           x == probe.left
           y == probe.right
           l == [start |-> g.sx, end |-> x]
           r == [start |-> g.sy, end |-> y]
           new == IF self_join(g) THEN <<l>> ELSE <<l, r>>
<1>1. /\ mode = "probe" /\ ~Probing /\ advance_block(x, y)
      /\ algorithms' = [algorithms EXCEPT ![plan] = @ \o new]
      /\ mode' = "block" /\ plan' = plan /\ emitted' = emitted
  BY DEF ProbeDone
<1>2. PlanOK /\ SliceOK /\ CacheOK /\ ProbeOK /\ plan \in Plans
  BY <1>1 DEF JInv, SliceOK
<1>3. pc = "idle" /\ ~is_finished /\ ProbeFits(probe, g, emitted)
  BY <1>1, <1>2 DEF ProbeOK
<1>4. g \in Corners(g)
  BY <1>2, <1>3, BlockInCorner
<1>5. probe \in Progress /\ ~(x < probe.leftTarget \/ y < probe.rightTarget)
  BY <1>1, <1>3 DEF Probing, ProbeFits
<1>6. /\ Stop(x, g.sx, g.ex) /\ Stop(y, g.sy, g.ey) /\ x > g.sx /\ y > g.sy
      /\ self_join(g) => x = y
  BY <1>3, <1>5 DEF ProbeFits
<1>7. Part(x, y) \subseteq emitted'
  BY <1>1, <1>3 DEF ProbeFits, Part
<1>8. new \in Seq(Indexes)
  <2> HIDE DEF g, x, y
  <2>1. /\ N \in Nat /\ g.sx \in 0 .. N /\ g.sy \in 0 .. N /\ g.ex \in 0 .. N /\ g.ey \in 0 .. N
        /\ g.sx % ALIGNMENT = 0 /\ g.sy % ALIGNMENT = 0 /\ Border(g.ex) /\ Border(g.ey)
    BY <1>4, GridFacts
  <2>2. x \in 0 .. N /\ Border(x) /\ y \in 0 .. N /\ Border(y)
    BY <1>6, <2>1, StopFacts
  <2>3. l \in Indexes /\ r \in Indexes
    BY <1>6, <2>1, <2>2 DEF Indexes
  <2> HIDE DEF l, r
  <2>4. <<l>> \in Seq(Indexes) /\ <<l, r>> \in Seq(Indexes)
    BY <2>3
  <2>5. QED  BY <2>4
<1>9. CacheOK'
  <2> HIDE DEF new
  <2>1. algorithms[plan] \in Seq(Indexes)
    BY <1>2 DEF CacheOK
  <2>2. algorithms[plan] \o new \in Seq(Indexes)
    BY <1>8, <2>1
  <2>3. QED  BY <1>1, <1>2, <2>2 DEF CacheOK
<1>10. advance_block(x, y)
  BY <1>1
<1> HIDE DEF x, y
<1>11. Reportable(g, x, y) /\ x \in 1 .. N /\ y \in 1 .. N
  <2> HIDE DEF g
  <2>1. QED  BY <1>4, <1>6, StopsReportable
<1>12. Next /\ done' \ done \subseteq emitted' /\ DescentOK'
  BY <1>2, <1>3, <1>7, <1>10, <1>11, ReportFacts
<1>13. PlanOK'
  BY <1>2, <1>12, PlanStep
<1>14. SliceOK' /\ ProbeOK'
  BY <1>1, <1>2 DEF SliceOK, ProbeOK
<1>15. QED  BY <1>9, <1>12, <1>13, <1>14 DEF StepOK, JInv

(* The join has ended: the cache stays one of indexes, with the records it *)
(* had.                                                                    *)
LEMMA ConsolidateStep ==
  JInv /\ Consolidate =>
    StepOK /\ \A p \in Plans : AllRanges(algorithms'[p]) = AllRanges(algorithms[p])
<1> SUFFICES ASSUME JInv, Consolidate
             PROVE  StepOK /\ \A p \in Plans : AllRanges(algorithms'[p]) = AllRanges(algorithms[p])
  OBVIOUS
<1>1. /\ pc = "idle" /\ is_finished /\ mode' = "finished"
      /\ algorithms' = [p \in Plans |-> consolidate(algorithms[p], p \in MergeablePlans)]
      /\ UNCHANGED schedVars /\ emitted' = emitted
  BY DEF Consolidate
<1>2. /\ PlanOK' /\ DescentOK' /\ [Next \/ NewScheduler]_schedVars
      /\ done' \ done \subseteq emitted'
      /\ pc' = pc /\ (is_finished' <=> is_finished)
  BY <1>1, OffScheduler DEF JInv
<1>3. ASSUME NEW p \in Plans
      PROVE  algorithms'[p] \in Seq(Indexes) /\ AllRanges(algorithms'[p]) = AllRanges(algorithms[p])
  <2>1. algorithms[p] \in Seq(Indexes)
    BY DEF JInv, CacheOK
  <2> DEFINE m == p \in MergeablePlans
  <2>2. m \in BOOLEAN
    OBVIOUS
  <2>3. algorithms'[p] = consolidate(algorithms[p], m)
    BY <1>1
  <2> HIDE DEF m
  <2>4. QED  BY <2>1, <2>2, <2>3, ConsolidateFacts
<1>4. CacheOK'
  BY <1>1, <1>3 DEF CacheOK
<1>5. SliceOK' /\ ProbeOK'
  BY <1>1, <1>2 DEF SliceOK, ProbeOK
<1>6. QED  BY <1>2, <1>3, <1>4, <1>5 DEF StepOK, JInv

LEMMA JoinAgainStep == JInv /\ JoinAgain => StepOK
<1> SUFFICES ASSUME JInv, JoinAgain PROVE StepOK
  OBVIOUS
<1>1. /\ mode = "finished" /\ mode' = "select" /\ NewScheduler
      /\ plan' = plan /\ algorithms' = algorithms
  BY DEF JoinAgain
<1>2. pc = "idle" /\ PlanOK /\ CacheOK
  BY <1>1 DEF JInv, SliceOK
<1>3. done' = {} /\ pc' = "idle"
  BY <1>1, <1>2 DEF NewScheduler
<1>4. PlanOK'
  BY <1>1, <1>2, NewPlan
<1>5. SliceOK' /\ CacheOK' /\ ProbeOK' /\ DescentOK'
  BY <1>1, <1>2, <1>3 DEF SliceOK, CacheOK, ProbeOK, DescentOK
<1>6. QED  BY <1>1, <1>3, <1>4, <1>5 DEF StepOK, JInv

LEMMA SchedulerLoopStep == JInv /\ SchedulerLoop => StepOK
<1> SUFFICES ASSUME JInv, SchedulerLoop PROVE StepOK
  OBVIOUS
<1>1. /\ AdvanceLoop /\ mode' = mode /\ plan' = plan /\ algorithms' = algorithms
      /\ emitted' = emitted
  BY DEF SchedulerLoop, sliceVars
<1>2. pc # "idle"
  BY <1>1 DEF AdvanceLoop, PopFinished, PopStop, Descend, DescendStop
<1>3. /\ Next /\ DescentOK'
      /\ done' \ done \subseteq emitted' \/ DropsUnprocessed
  BY <1>1, LoopFacts DEF JInv
<1>4. PlanOK'
  BY <1>3, PlanStep DEF JInv
<1>5. mode = "block"
  BY <1>2 DEF JInv, SliceOK, ProbeOK
<1>6. SliceOK' /\ CacheOK' /\ ProbeOK'
  BY <1>1, <1>5 DEF JInv, SliceOK, CacheOK, ProbeOK
<1>7. QED  BY <1>3, <1>4, <1>6 DEF StepOK, JInv

LEMMA StutterStep == JInv /\ UNCHANGED vars => StepOK
<1> SUFFICES ASSUME JInv, UNCHANGED vars PROVE StepOK
  OBVIOUS
<1>1. /\ UNCHANGED schedVars /\ mode' = mode /\ plan' = plan /\ probe' = probe
      /\ algorithms' = algorithms /\ emitted' = emitted
  BY DEF vars, sliceVars
<1>2. /\ PlanOK' /\ DescentOK' /\ [Next \/ NewScheduler]_schedVars
      /\ done' \ done \subseteq emitted'
      /\ pc' = pc /\ get_block' = get_block /\ (is_finished' <=> is_finished)
  BY <1>1, OffScheduler DEF JInv
<1>3. SliceOK' /\ CacheOK' /\ ProbeOK'
  BY <1>1, <1>2 DEF JInv, SliceOK, CacheOK, ProbeOK
<1>4. QED  BY <1>2, <1>3 DEF StepOK, JInv

LEMMA JoinStep == JInv /\ [JoinNext]_vars => StepOK
  BY SelectPlanStep, EndSliceStep, ComputeWithIndexStep, StopFragmentationStep,
     StartProbingStep, ProbeMicrobatchesStep, ProbeDoneStep, ConsolidateStep,
     JoinAgainStep, SchedulerLoopStep, StutterStep
  DEF JoinNext

------------------------------------------------------------------------------
(* execute_join, in every interleaving of plans and timeouts, keeps the    *)
(* plan on the stack exact and its blocks made of whole microbatches, the  *)
(* cached indexes ranges of whole microbatches, a probe at the ends of     *)
(* batches with everything behind it compared, and a descent within a part *)
(* that was compared.                                                      *)
THEOREM JoinInvariant == JoinSpec => []JInv
<1>1. JInv /\ [JoinNext]_vars => JInv'
  BY JoinStep DEF StepOK
<1>2. QED  BY <1>1, InitJInv, PTL DEF JoinSpec

(* Every report that execute_join makes to advance_block, after a probe    *)
(* that ended in time or ran out of it and after a computation with an     *)
(* index, is one that advance_block can handle.                            *)
THEOREM ReportsAlwaysWithinContract == JoinSpec => ReportsWithinContract
<1>1. JInv /\ [JoinNext]_vars => [Next \/ NewScheduler]_schedVars
  BY JoinStep DEF StepOK
<1>2. QED  BY <1>1, JoinInvariant, PTL DEF JoinSpec, ReportsWithinContract

(* Pairs leave the scheduler's plan only after execute_join compared them, *)
(* except when a descent ends at a block that was not processed completely.*)
THEOREM NoLossButAtDescent == JoinSpec => LossOnlyAtDescent
<1>1. JInv /\ [JoinNext]_vars =>
        [done' \ done \subseteq emitted' \/ DropsUnprocessed]_vars
  BY JoinStep DEF StepOK
<1>2. QED  BY <1>1, JoinInvariant, PTL DEF JoinSpec, LossOnlyAtDescent

(* Whatever block a microbatch is cut from, the batch that starts at an id *)
(* has one extent, so the caches that know it by this id hold its data.    *)
THEOREM BatchesHaveOneExtent == JoinSpec => []BatchIdFixesExtent
<1>1. JInv => BatchIdFixesExtent
  <2> SUFFICES ASSUME JInv PROVE BatchIdFixesExtent
    OBVIOUS
  <2>1. PlanOK /\ SliceOK /\ CacheOK /\ ProbeOK
    BY DEF JInv
  <2>2. Probing =>
          /\ NextLeft # probe.left => WholeBatch(probe.left, NextLeft)
          /\ NextRight # probe.right => WholeBatch(probe.right, NextRight)
    BY <2>1, ProbeGrows
  <2>3. ASSUME AtBlock, NEW job \in Jobs
        PROVE  /\ probe_range(job).start % ALIGNMENT = 0
               /\ probe_range(job).end % ALIGNMENT = 0 \/ probe_range(job).end = N
    <3>1. plan \in Plans /\ get_block \in Corners(get_block)
      BY <2>1, <2>3, BlockInCorner DEF SliceOK, AtBlock
    <3>2. QED  BY <2>1, <3>1, JobRanges
  <2>4. QED  BY <2>2, <2>3 DEF BatchIdFixesExtent
<1>2. QED  BY <1>1, JoinInvariant, PTL

(* A cached index that serves a block, or a part of it, holds every record *)
(* of that part's side, and the part that is reported as done is not empty.*)
THEOREM IndexesCoverRanges == JoinSpec => []IndexCoversRange
<1>1. JInv => IndexCoversRange
  <2> SUFFICES ASSUME JInv, AtBlock, NEW job \in Jobs
               PROVE  /\ Covered(job.best.alg, index_range(job).start, index_range(job).end)
                      /\ Size(index_range(job)) > 0 /\ Size(probe_range(job)) > 0
    BY DEF IndexCoversRange
  <2>1. CacheOK /\ plan \in Plans /\ get_block \in Corners(get_block)
    BY BlockInCorner DEF JInv, SliceOK, AtBlock
  <2>2. QED  BY <2>1, JobRanges
<1>2. QED  BY <1>1, JoinInvariant, PTL

(* An iteration of the probe loop compares exactly the pairs by which the  *)
(* finished corner of the block grows; a computation with a cached index   *)
(* compares every pair of the part it reports, and others only with the    *)
(* record at which the index was cut off.                                  *)
THEOREM ReportedPartsAreCompared == JoinSpec => []ComputesReportedPart
<1>1. JInv => ComputesReportedPart
  <2> SUFFICES ASSUME JInv PROVE ComputesReportedPart
    OBVIOUS
  <2>1. PlanOK /\ SliceOK /\ CacheOK /\ ProbeOK
    BY DEF JInv
  <2>2. Probing =>
          TwoSidedPairs(NextLeft, NextRight) =
            Part(NextLeft, NextRight) \ Part(probe.left, probe.right)
    BY <2>1, ProbePairs
  <2>3. ASSUME AtBlock, NEW job \in Jobs
        PROVE  LET part  == Part(job.until.x, job.until.y)
                   pairs == OneSidedPairs(job, self_join(get_block))
               IN  /\ part \subseteq pairs
                   /\ \A p \in pairs \ part : index_range(job).end \in {p[1], p[2]}
    <3>1. plan \in Plans /\ get_block \in Corners(get_block)
      BY <2>1, <2>3, BlockInCorner DEF SliceOK, AtBlock
    <3>2. QED  BY <2>1, <3>1, JobPairs
  <2>4. QED  BY <2>2, <2>3 DEF ComputesReportedPart
<1>2. QED  BY <1>1, JoinInvariant, PTL

(* consolidate() neither loses nor invents an indexed record, whatever     *)
(* indexes the plans of the join have built.                               *)
THEOREM ConsolidationAlwaysKeepsRecords == JoinSpec => ConsolidationKeepsRecords
<1>1. JInv /\ [JoinNext]_vars =>
        [Consolidate => \A p \in Plans : AllRanges(algorithms'[p]) = AllRanges(algorithms[p])]_vars
  BY ConsolidateStep
<1>2. QED  BY <1>1, JoinInvariant, PTL DEF JoinSpec, ConsolidationKeepsRecords

(* The one exception of NoLossButAtDescent is off the diagonal: there a    *)
(* descent drops a block processed in part only if it has two inputs.      *)
THEOREM NoLossOnDiagonal == JoinSpec => [](DropsUnprocessed => ~self_join(get_block))
<1>1. SliceInit => EqualEnds
  BY DEF SliceInit, Init, EqualEnds
<1>2. JInv /\ EqualEnds /\ [JoinNext]_vars => EqualEnds'
  <2> SUFFICES ASSUME JInv, EqualEnds, [JoinNext]_vars PROVE EqualEnds'
    OBVIOUS
  <2>1. IInv /\ [Next \/ NewScheduler]_schedVars
    BY JoinStep DEF StepOK, JInv, PlanOK
  <2>2. CASE NewScheduler
    <3>1. is_finished /\ pc' = pc
      BY <2>2 DEF NewScheduler
    <3>2. pc # "descending"
      BY <2>1, <3>1, EmptySeq DEF IInv, Shape, is_finished
    <3>3. QED  BY <3>1, <3>2 DEF EqualEnds
  <2>3. CASE [Next]_schedVars
    BY <2>1, <2>3, EqualEndsStep
  <2>4. QED  BY <2>1, <2>2, <2>3
<1>3. JInv /\ EqualEnds => (DropsUnprocessed => ~self_join(get_block))
  BY EqualEndsSuffice DEF JInv, PlanOK, DiagonalDescent, DropsUnprocessed
<1>4. QED  BY <1>1, <1>2, <1>3, JoinInvariant, PTL DEF JoinSpec

(* execute_join returns only when every candidate pair has left the plan.  *)
THEOREM FinishedJoinIsComplete == JoinSpec => [](mode = "finished" => done = Total)
<1>1. JInv => (mode = "finished" => done = Total)
  BY FinishedMeansAll DEF JInv, SliceOK, PlanOK
<1>2. QED  BY <1>1, JoinInvariant, PTL
==============================================================================
