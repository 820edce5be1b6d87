-------------------------- MODULE PallocJoin_proofs --------------------------
(***************************************************************************)
(* The groups of sizes of a palloc or partition join: whatever instances   *)
(* share which states and whoever appends the next group, all states cut   *)
(* the sizes into the same groups.  Its indexes: merged or not, they are   *)
(* those of their records inserted one by one.  Its budgets: a probing set *)
(* has partitions enough to spend them on.  Its results: a call finds      *)
(* similar sets only, and all of them.                                     *)
(***************************************************************************)
EXTENDS PallocJoin, SequenceTheorems, FiniteSetTheorems, TLAPS

(* How quotients compare, and how division rounds.                         *)
LEMMA QuotientsGrow ==
  ASSUME NEW a \in Nat, NEW b \in Nat, NEW c \in Nat \ {0}, NEW d \in Nat \ {0}, a * d <= b * c
  PROVE  a \div c \in Nat /\ b \div d \in Nat /\ a \div c <= b \div d
OBVIOUS

LEMMA DivisionRounds ==
  ASSUME NEW a \in Int, NEW d \in Nat \ {0}
  PROVE  /\ a \div d \in Int /\ d * (a \div d) <= a /\ a < d * (a \div d) + d
         /\ ceil(a, d) \in Int /\ a <= d * ceil(a, d) /\ d * ceil(a, d) < a + d
BY DEF ceil

LEMMA Cancels ==
  ASSUME NEW a \in Int, NEW b \in Int, NEW d \in Nat \ {0}, d * a < d * b + d
  PROVE  a <= b
<1>1. d * (b + 1) = d * b + d
  OBVIOUS
<1>2. ~(b + 1 <= a)
  <2> SUFFICES ASSUME b + 1 <= a PROVE FALSE
    OBVIOUS
  <2>1. d * (b + 1) <= d * a
    OBVIOUS
  <2> QED  BY <1>1, <2>1
<1> QED  BY <1>2

(* The two similarities whose bounds of lengths are fractions.             *)
IsJaccard(s) ==
  /\ s.kind = "jaccard"
  /\ s.num \in Nat \ {0} /\ s.den \in Nat /\ s.num <= s.den

IsJaro(s) ==
  /\ s.kind = "jaro_overlap"
  /\ s.num \in Nat /\ s.den \in Nat \ {0}
  /\ 2 * s.den < 3 * s.num /\ s.num <= s.den

(* The bounds are rounded to the inside, around the length itself.         *)
LEMMA RatioBounds ==
  ASSUME NEW r \in Nat \ {0}, NEW d \in Nat \ {0}, r <= d, NEW n \in Nat
  PROVE  /\ ceil(n * r, d) \in Nat /\ ceil(n * r, d) <= n
         /\ n * r <= d * ceil(n * r, d) /\ d * ceil(n * r, d) < n * r + d
         /\ floor(n * d, r) \in Nat /\ n <= floor(n * d, r)
         /\ r * floor(n * d, r) <= n * d /\ n * d < r * floor(n * d, r) + r
<1> DEFINE c == ceil(n * r, d)
           f == floor(n * d, r)
<1>1. n * r \in Nat /\ n * d \in Nat /\ n * r <= n * d /\ n * r <= d * n /\ r * n <= n * d
  OBVIOUS
<1>2. c \in Int /\ n * r <= d * c /\ d * c < n * r + d
  BY <1>1, DivisionRounds
<1>3. f \in Int /\ r * f <= n * d /\ n * d < r * f + r
  BY <1>1, DivisionRounds DEF floor
<1> HIDE DEF c, f
<1>4. c <= n
  <2>1. d * c < d * n + d
    BY <1>1, <1>2
  <2> QED  BY <1>2, <2>1, Cancels
<1>5. 0 <= c
  <2>1. d * 0 < d * c + d
    BY <1>1, <1>2
  <2> QED  BY <1>2, <2>1, Cancels
<1>6. n <= f
  <2>1. r * n < r * f + r
    BY <1>1, <1>3
  <2> QED  BY <1>3, <2>1, Cancels
<1> QED  BY <1>2, <1>3, <1>4, <1>5, <1>6 DEF c, f

(* A set is not too long for another just when that one is not too short.  *)
LEMMA RatioTurns ==
  ASSUME NEW r \in Nat \ {0}, NEW d \in Nat \ {0}, r <= d, NEW n \in Nat, NEW m \in Nat
  PROVE  ceil(n * r, d) <= m <=> n <= floor(m * d, r)
<1> DEFINE c == ceil(n * r, d)
           f == floor(m * d, r)
<1>1. c \in Nat /\ n * r <= d * c /\ d * c < n * r + d
  BY RatioBounds
<1>2. f \in Nat /\ r * f <= m * d /\ m * d < r * f + r
  BY RatioBounds
<1> HIDE DEF c, f
<1>3. ASSUME c <= m PROVE n <= f
  <2>1. d * c <= d * m /\ d * m = m * d /\ n * r = r * n
    BY <1>1, <1>3
  <2>2. r * n \in Int /\ r * f \in Int /\ m * d \in Int /\ d * c \in Int
    BY <1>1, <1>2
  <2>3. r * n < r * f + r
    BY <1>1, <1>2, <2>1, <2>2
  <2> QED  BY <1>2, <2>3, Cancels
<1>4. ASSUME n <= f PROVE c <= m
  <2>1. r * n <= r * f /\ d * m = m * d /\ n * r = r * n
    BY <1>2, <1>4
  <2>2. r * n \in Int /\ r * f \in Int /\ m * d \in Int /\ d * c \in Int
    BY <1>1, <1>2
  <2>3. d * c < d * m + d
    BY <1>1, <1>2, <2>1, <2>2
  <2> QED  BY <1>1, <2>3, Cancels
<1> QED  BY <1>3, <1>4 DEF c, f

(* Sets of the same length can be similar.                                 *)
LEMMA LengthsAround ==
  ASSUME NEW s, IsSimilarity(s), NEW n \in Nat
  PROVE  /\ minimum_length_bound(s, n) \in Int /\ minimum_length_bound(s, n) <= n
         /\ maximum_length_bound(s, n) \in Nat /\ n <= maximum_length_bound(s, n)
<1>1. CASE IsJaccard(s)
  <2>1. s.num \in Nat \ {0} /\ s.den \in Nat \ {0} /\ s.num <= s.den
    BY <1>1 DEF IsJaccard
  <2>2. /\ ceil(n * s.num, s.den) \in Nat /\ ceil(n * s.num, s.den) <= n
        /\ floor(n * s.den, s.num) \in Nat /\ n <= floor(n * s.den, s.num)
    BY <2>1, RatioBounds
  <2> QED  BY <1>1, <2>2 DEF IsJaccard, minimum_length_bound, maximum_length_bound
<1>2. CASE s.kind = "structural" /\ s.t \in Nat
  BY <1>2 DEF minimum_length_bound, maximum_length_bound
<1>3. CASE s.kind = "hamming" /\ s.t \in Nat
  BY <1>3 DEF minimum_length_bound, maximum_length_bound, greater
<1>4. CASE IsJaro(s)
  <2> DEFINE d == s.den
             r == 3 * s.num - 2 * d
  <2>1. d \in Nat \ {0} /\ r \in Nat \ {0} /\ r <= d
    BY <1>4 DEF IsJaro
  <2>2. /\ minimum_length_bound(s, n) = greater(0, ceil(n * r, d))
        /\ maximum_length_bound(s, n) = floor(n * d, r)
    BY <1>4 DEF IsJaro, minimum_length_bound, maximum_length_bound
  <2> HIDE DEF d, r
  <2>3. /\ ceil(n * r, d) \in Nat /\ ceil(n * r, d) <= n
        /\ floor(n * d, r) \in Nat /\ n <= floor(n * d, r)
    BY <2>1, RatioBounds
  <2> QED  BY <2>2, <2>3 DEF greater
<1> QED  BY <1>1, <1>2, <1>3, <1>4 DEF IsSimilarity, IsJaccard, IsJaro

------------------------------------------------------------------------------
(* The groups there can be, and the facts about one.                       *)
AllGroups == {GroupFrom(n) : n \in Nat \ {0}}

LEMMA GroupFacts ==
  ASSUME setting \in Settings, NEW n \in Nat \ {0}
  PROVE  /\ GroupFrom(n).lower = n
         /\ GroupFrom(n).upper \in Nat \ {0} /\ n <= GroupFrom(n).upper
<1>1. IsSimilarity(sim)
  BY SetAssumption DEF sim
<1>2. maximum_length_bound(sim, n) \in Int /\ maximum_length_bound(sim, n) >= n
  BY <1>1, LengthsAround
<1>3. GroupFrom(n).lower = n /\ GroupFrom(n).upper = next_size_lb(n) - 1
  BY DEF GroupFrom
<1>4. next_size_lb(n) - 1 = maximum_length_bound(sim, n)
  BY <1>2 DEF next_size_lb
<1> QED  BY <1>2, <1>3, <1>4

------------------------------------------------------------------------------
(* The inductive invariant.  The groups of a state follow one another, so  *)
(* the groups of two states are equal as far as both reach; signatures     *)
(* have the partition counts of the groups of some state; and whoever      *)
(* appends a group finds one to append it to.                              *)
Typed ==
  /\ setting \in Settings
  /\ size_groups \in [SharedStates -> Seq(AllGroups)]
  /\ DOMAIN first = Instances /\ DOMAIN next_id = Instances
  /\ pc # "idle" => caller \in Instances

Chained ==
  \A s \in SharedStates : \A g \in 1 .. Len(size_groups[s]) :
    size_groups[s][g].lower = IF g = 1 THEN 1 ELSE size_groups[s][g - 1].upper + 1

StatesAgree ==
  \A s, t \in SharedStates : \A g \in 1 .. Len(size_groups[s]) :
    g <= Len(size_groups[t]) => size_groups[s][g] = size_groups[t][g]

CachedFromGroups ==
  \A r \in DOMAIN cached_signatures : \A g \in DOMAIN cached_signatures[r] :
    \E s \in SharedStates :
      /\ g \in 1 .. Len(size_groups[s])
      /\ cached_signatures[r][g] = size_groups[s][g].partition_count

Started ==
  /\ \A a \in Instances :
       first[a] # 0 \/ next_id[a] > 0 => Len(size_groups[shared_state(a)]) > 0
  /\ pc # "idle" => Len(size_groups[shared_state(caller)]) > 0

GroupsInv == Typed /\ Chained /\ StatesAgree /\ CachedFromGroups /\ Started

LEMMA StateOfInstance ==
  ASSUME setting \in Settings, NEW a \in Instances
  PROVE  shared_state(a) \in SharedStates
BY PallocAssumption DEF shared_state

(* A group of a state is a group from its lower end.                       *)
LEMMA GroupOfState ==
  ASSUME Typed, NEW s \in SharedStates, NEW g \in 1 .. Len(size_groups[s])
  PROVE  /\ size_groups[s][g] \in AllGroups
         /\ size_groups[s][g].lower \in Nat \ {0}
         /\ size_groups[s][g] = GroupFrom(size_groups[s][g].lower)
         /\ size_groups[s][g].upper \in Nat
         /\ size_groups[s][g].lower <= size_groups[s][g].upper
<1>1. size_groups[s] \in Seq(AllGroups)
  BY DEF Typed
<1>2. size_groups[s][g] \in AllGroups
  BY <1>1, ElementOfSeq
<1>3. PICK n \in Nat \ {0} : size_groups[s][g] = GroupFrom(n)
  BY <1>2 DEF AllGroups
<1>4. setting \in Settings
  BY DEF Typed
<1> QED  BY <1>2, <1>3, <1>4, GroupFacts

(* The invariant gives the property.                                       *)
LEMMA InvImpliesAgree == GroupsInv => GroupsAgree
<1> SUFFICES ASSUME GroupsInv PROVE GroupsAgree
  OBVIOUS
<1>1. Typed /\ Chained /\ StatesAgree /\ CachedFromGroups
  BY DEF GroupsInv
<1>2. \A s \in SharedStates :
        /\ DOMAIN size_groups[s] = 1 .. Len(size_groups[s])
        /\ Len(size_groups[s]) \in Nat
  <2> TAKE s \in SharedStates
  <2>1. size_groups[s] \in Seq(AllGroups)
    BY <1>1 DEF Typed
  <2> QED  BY <2>1, LenProperties
<1>3. ASSUME NEW s \in SharedStates, NEW g \in DOMAIN size_groups[s]
      PROVE  /\ size_groups[s][g].lower = (IF g = 1 THEN 1 ELSE size_groups[s][g - 1].upper + 1)
             /\ size_groups[s][g].lower <= size_groups[s][g].upper
  BY <1>1, <1>2, <1>3, GroupOfState DEF Chained
<1>4. ASSUME NEW r \in DOMAIN cached_signatures, NEW s \in SharedStates,
             NEW g \in DOMAIN cached_signatures[r] \cap DOMAIN size_groups[s]
      PROVE  cached_signatures[r][g] = size_groups[s][g].partition_count
  <2>1. PICK t \in SharedStates :
          /\ g \in 1 .. Len(size_groups[t])
          /\ cached_signatures[r][g] = size_groups[t][g].partition_count
    BY <1>1 DEF CachedFromGroups
  <2>2. g \in 1 .. Len(size_groups[s])
    BY <1>2
  <2>3. size_groups[s][g] = size_groups[t][g]
    BY <1>1, <1>2, <2>1, <2>2 DEF StatesAgree
  <2> QED  BY <2>1, <2>3
<1> QED  BY <1>3, <1>4 DEF GroupsAgree

------------------------------------------------------------------------------
LEMMA InitGroups == Init => GroupsInv
<1> SUFFICES ASSUME Init PROVE GroupsInv
  OBVIOUS
<1>1. /\ setting \in Settings /\ pc = "idle"
      /\ first = [a \in Instances |-> 0] /\ next_id = [a \in Instances |-> 0]
      /\ size_groups = [s \in SharedStates |-> <<>>]
      /\ cached_signatures = <<>>
  BY DEF Init, InitSets, InitJoin
<1>2. /\ <<>> \in Seq(AllGroups) /\ Len(<<>>) = 0
      /\ DOMAIN cached_signatures = {}
  BY <1>1, EmptySeq
<1>3. Typed
  BY <1>1, <1>2 DEF Typed
<1>4. \A s \in SharedStates : Len(size_groups[s]) = 0
  BY <1>1, <1>2
<1>5. Chained /\ StatesAgree
  BY <1>4 DEF Chained, StatesAgree
<1>6. CachedFromGroups /\ Started
  BY <1>1, <1>2 DEF CachedFromGroups, Started
<1> QED  BY <1>3, <1>5, <1>6 DEF GroupsInv

(* What there is of groups and signatures stays as it is, and whoever runs *)
(* or has records was started.                                             *)
LEMMA GroupsStay ==
  ASSUME GroupsInv, UNCHANGED <<setting, size_groups>>, CachedFromGroups',
         DOMAIN first' = Instances, DOMAIN next_id' = Instances,
         pc' # "idle" =>
           caller' \in Instances /\ Len(size_groups[shared_state(caller')]) > 0,
         \A a \in Instances :
           first'[a] # 0 \/ next_id'[a] > 0 => Len(size_groups[shared_state(a)]) > 0
  PROVE  GroupsInv'
<1>1. AllGroups' = AllGroups /\ \A a : shared_state(a)' = shared_state(a')
  BY DEF AllGroups, GroupFrom, next_size_lb, get_partition_count, ENABLE_DELETION, sim,
         shared_state
<1>2. Typed'
  BY <1>1 DEF GroupsInv, Typed
<1>3. Chained' /\ StatesAgree'
  BY DEF GroupsInv, Chained, StatesAgree
<1>4. Started'
  BY DEF Started, shared_state
<1> QED  BY <1>2, <1>3, <1>4 DEF GroupsInv

(* A state gets its next group.                                            *)
NextLower(s) ==
  IF Len(size_groups[s]) = 0 THEN 1 ELSE size_groups[s][Len(size_groups[s])].upper + 1

LEMMA GroupsGrow ==
  ASSUME GroupsInv, NEW s \in SharedStates, UNCHANGED <<setting, cached_signatures>>,
         size_groups' = [size_groups EXCEPT ![s] = Append(@, GroupFrom(NextLower(s)))]
  PROVE  /\ size_groups' \in [SharedStates -> Seq(AllGroups')]
         /\ Chained' /\ StatesAgree' /\ CachedFromGroups'
         /\ \A u \in SharedStates : Len(size_groups[u]) <= Len(size_groups'[u])
         /\ Len(size_groups'[s]) > 0
<1> DEFINE n == Len(size_groups[s])
           e == GroupFrom(NextLower(s))
<1>1. Typed /\ Chained /\ StatesAgree /\ CachedFromGroups /\ setting \in Settings
  BY DEF GroupsInv, Typed
<1>2. \A u \in SharedStates : size_groups[u] \in Seq(AllGroups) /\ Len(size_groups[u]) \in Nat
  <2> TAKE u \in SharedStates
  <2>1. size_groups[u] \in Seq(AllGroups)
    BY <1>1 DEF Typed
  <2> QED  BY <2>1, LenProperties
<1>3. NextLower(s) \in Nat \ {0}
  <2>1. CASE n = 0
    BY <2>1 DEF NextLower
  <2>2. CASE n # 0
    <3>1. n \in 1 .. n
      BY <1>2, <2>2
    <3>2. size_groups[s][n].upper \in Nat
      BY <1>1, <3>1, GroupOfState
    <3> QED  BY <2>2, <3>2 DEF NextLower
  <2> QED  BY <2>1, <2>2
<1>4. e \in AllGroups /\ e.lower = NextLower(s)
  BY <1>1, <1>3, GroupFacts DEF AllGroups
<1>5. AllGroups' = AllGroups
  BY DEF AllGroups, GroupFrom, next_size_lb, get_partition_count, ENABLE_DELETION, sim
<1> HIDE DEF e
<1>6. /\ size_groups'[s] = Append(size_groups[s], e)
      /\ Len(size_groups'[s]) = n + 1
      /\ size_groups'[s][n + 1] = e
      /\ \A g \in 1 .. n : size_groups'[s][g] = size_groups[s][g]
      /\ size_groups'[s] \in Seq(AllGroups)
  <2>1. size_groups'[s] = Append(size_groups[s], e)
    BY <1>1 DEF Typed, e
  <2> QED  BY <1>2, <1>4, <2>1, AppendProperties
<1>7. \A u \in SharedStates \ {s} : size_groups'[u] = size_groups[u]
  BY <1>1 DEF Typed
<1>8. size_groups' \in [SharedStates -> Seq(AllGroups')]
  <2>1. DOMAIN size_groups' = SharedStates /\ size_groups' = [u \in SharedStates |-> size_groups'[u]]
    BY <1>1 DEF Typed
  <2>2. \A u \in SharedStates : size_groups'[u] \in Seq(AllGroups)
    BY <1>2, <1>6, <1>7
  <2> QED  BY <1>5, <2>1, <2>2
<1>9. ASSUME NEW u \in SharedStates, NEW g \in 1 .. Len(size_groups[u])
      PROVE  g \in 1 .. Len(size_groups'[u]) /\ size_groups'[u][g] = size_groups[u][g]
  BY <1>2, <1>6, <1>7
<1>10. Chained'
  <2> SUFFICES ASSUME NEW u \in SharedStates, NEW g \in 1 .. Len(size_groups'[u])
               PROVE  size_groups'[u][g].lower =
                        IF g = 1 THEN 1 ELSE size_groups'[u][g - 1].upper + 1
    BY DEF Chained
  <2>1. CASE g \in 1 .. Len(size_groups[u])
    <3>1. size_groups'[u][g] = size_groups[u][g]
      BY <1>9, <2>1
    <3>2. g # 1 => g - 1 \in 1 .. Len(size_groups[u])
      BY <1>2, <2>1
    <3>3. g # 1 => size_groups'[u][g - 1] = size_groups[u][g - 1]
      BY <1>9, <3>2
    <3> QED  BY <1>1, <2>1, <3>1, <3>3 DEF Chained
  <2>2. CASE g \notin 1 .. Len(size_groups[u])
    <3>1. u = s /\ g = n + 1
      BY <1>2, <1>6, <1>7, <2>2
    <3>2. size_groups'[u][g].lower = NextLower(s)
      BY <1>4, <1>6, <3>1
    <3>3. n # 0 => size_groups'[u][n] = size_groups[u][n]
      BY <1>2, <1>9, <3>1
    <3> QED  BY <1>2, <3>1, <3>2, <3>3 DEF NextLower
  <2> QED  BY <2>1, <2>2
<1>11. StatesAgree'
  <2> SUFFICES ASSUME NEW u \in SharedStates, NEW v \in SharedStates,
                      NEW g \in 1 .. Len(size_groups'[u]), g <= Len(size_groups'[v])
               PROVE  size_groups'[u][g] = size_groups'[v][g]
    BY DEF StatesAgree
  <2>1. ASSUME NEW t \in SharedStates, n + 1 \in 1 .. Len(size_groups[t])
        PROVE  size_groups[t][n + 1] = e
    <3>1. size_groups[t][n + 1].lower =
            IF n + 1 = 1 THEN 1 ELSE size_groups[t][n].upper + 1
      BY <1>1, <1>2, <2>1 DEF Chained
    <3>2. n # 0 => size_groups[t][n] = size_groups[s][n]
      <4> SUFFICES ASSUME n # 0 PROVE size_groups[t][n] = size_groups[s][n]
        OBVIOUS
      <4>1. n \in 1 .. Len(size_groups[t]) /\ n <= Len(size_groups[s])
        BY <1>2, <2>1
      <4> QED  BY <1>1, <4>1 DEF StatesAgree
    <3>3. size_groups[t][n + 1].lower = NextLower(s)
      BY <1>2, <3>1, <3>2 DEF NextLower
    <3>4. size_groups[t][n + 1] = GroupFrom(size_groups[t][n + 1].lower)
      BY <1>1, <2>1, GroupOfState
    <3> QED  BY <3>3, <3>4 DEF e
  <2>2. g \in 1 .. Len(size_groups'[v])
    BY <1>2, <1>6, <1>7
  <2>3. ASSUME NEW t \in SharedStates, g \in 1 .. Len(size_groups'[t]), g = n + 1
        PROVE  size_groups'[t][g] = e
    BY <1>2, <1>6, <1>7, <2>1, <2>3
  <2>4. CASE g = n + 1
    BY <2>2, <2>3, <2>4
  <2>5. CASE g # n + 1
    <3>1. g \in 1 .. Len(size_groups[u]) /\ g \in 1 .. Len(size_groups[v])
      BY <1>2, <1>6, <1>7, <2>2, <2>5
    <3> QED  BY <1>1, <1>2, <1>9, <3>1 DEF StatesAgree
  <2> QED  BY <2>4, <2>5
<1>12. CachedFromGroups'
  <2> SUFFICES ASSUME NEW r \in DOMAIN cached_signatures,
                      NEW g \in DOMAIN cached_signatures[r]
               PROVE  \E u \in SharedStates :
                        /\ g \in 1 .. Len(size_groups'[u])
                        /\ cached_signatures[r][g] = size_groups'[u][g].partition_count
    BY DEF CachedFromGroups
  <2>1. PICK u \in SharedStates :
          /\ g \in 1 .. Len(size_groups[u])
          /\ cached_signatures[r][g] = size_groups[u][g].partition_count
    BY <1>1 DEF CachedFromGroups
  <2> QED  BY <1>9, <2>1
<1>13. /\ \A u \in SharedStates : Len(size_groups[u]) <= Len(size_groups'[u])
       /\ Len(size_groups'[s]) > 0
  BY <1>2, <1>6, <1>7
<1> QED  BY <1>8, <1>10, <1>11, <1>12, <1>13

------------------------------------------------------------------------------
(* One lemma for each kind of step.  The constructor makes the first group *)
(* of a state that has none.                                               *)
LEMMA ConstructKeeps ==
  ASSUME GroupsInv, NEW a \in Instances, NEW r, Construct(a, r)
  PROVE  GroupsInv'
<1> DEFINE s == shared_state(a)
<1>1. /\ pc = "idle" /\ pc' = pc /\ caller' = caller
      /\ first' = [first EXCEPT ![a] = r] /\ next_id' = next_id
      /\ UNCHANGED <<setting, cached_signatures>>
      /\ size_groups' = [size_groups EXCEPT ![s] = IF @ = <<>> THEN <<GroupFrom(1)>> ELSE @]
  BY DEF Construct, ConstructFor, callVars, argVars
<1>2. Typed /\ Started /\ s \in SharedStates
  BY StateOfInstance DEF GroupsInv, Typed
<1>3. \A u \in SharedStates : size_groups[u] \in Seq(AllGroups) /\ Len(size_groups[u]) \in Nat
  <2> TAKE u \in SharedStates
  <2>1. size_groups[u] \in Seq(AllGroups)
    BY <1>2 DEF Typed
  <2> QED  BY <2>1, LenProperties
<1>4. DOMAIN first' = Instances /\ DOMAIN next_id' = Instances
  BY <1>1, <1>2 DEF Typed
<1>5. \A b \in Instances : shared_state(b) \in SharedStates
  BY <1>2, StateOfInstance DEF Typed
<1>6. \A b \in Instances \ {a} : first'[b] = first[b]
  BY <1>1, <1>2 DEF Typed
<1>7. CASE size_groups[s] = <<>>
  <2>1. size_groups' = [size_groups EXCEPT ![s] = Append(@, GroupFrom(NextLower(s)))]
    <3>1. Len(size_groups[s]) = 0 /\ NextLower(s) = 1
      BY <1>7, EmptySeq DEF NextLower
    <3>2. Append(size_groups[s], GroupFrom(NextLower(s))) = <<GroupFrom(1)>>
      BY <1>7, <3>1
    <3>3. size_groups' = [size_groups EXCEPT ![s] = <<GroupFrom(1)>>]
      BY <1>1, <1>2, <1>7 DEF Typed
    <3> QED  BY <3>2, <3>3
  <2>2. /\ size_groups' \in [SharedStates -> Seq(AllGroups')]
        /\ Chained' /\ StatesAgree' /\ CachedFromGroups'
        /\ \A u \in SharedStates : Len(size_groups[u]) <= Len(size_groups'[u])
        /\ Len(size_groups'[s]) > 0
    BY <1>1, <1>2, <2>1, GroupsGrow
  <2>3. Typed'
    BY <1>1, <1>2, <1>4, <2>2 DEF Typed
  <2>4. \A u \in SharedStates : Len(size_groups'[u]) \in Nat
    <3> TAKE u \in SharedStates
    <3>1. size_groups'[u] \in Seq(AllGroups')
      BY <2>2
    <3> QED  BY <3>1, LenProperties
  <2>5. \A b \in Instances :
          first'[b] # 0 \/ next_id'[b] > 0 => Len(size_groups'[shared_state(b)]) > 0
    <3> TAKE b \in Instances
    <3>1. CASE b = a
      BY <2>2, <3>1
    <3>2. CASE b # a
      BY <1>1, <1>2, <1>3, <1>5, <1>6, <2>2, <2>4, <3>2 DEF Started
    <3> QED  BY <3>1, <3>2
  <2>6. Started'
    BY <1>1, <2>5 DEF Started, shared_state
  <2> QED  BY <2>2, <2>3, <2>6 DEF GroupsInv
<1>8. CASE size_groups[s] # <<>>
  <2>1. size_groups' = size_groups
    BY <1>1, <1>2, <1>8 DEF Typed
  <2>2. Len(size_groups[s]) > 0
    BY <1>2, <1>3, <1>8, EmptySeq
  <2>3. CachedFromGroups'
    BY <1>1, <2>1 DEF GroupsInv, CachedFromGroups
  <2>4. \A b \in Instances :
          first'[b] # 0 \/ next_id'[b] > 0 => Len(size_groups[shared_state(b)]) > 0
    BY <1>1, <1>2, <1>6, <2>2 DEF Started
  <2> QED  BY <1>1, <1>4, <2>1, <2>3, <2>4, GroupsStay
<1> QED  BY <1>7, <1>8

(* A running call appends a group to the state of its instance.            *)
LEMMA AppendKeeps ==
  ASSUME GroupsInv, pc # "idle", append_next_size_group(shared_state(caller)),
         UNCHANGED <<setting, pc, caller, first, next_id, cached_signatures>>
  PROVE  GroupsInv'
<1> DEFINE s == shared_state(caller)
<1>1. Typed /\ Started /\ s \in SharedStates /\ Len(size_groups[s]) > 0
  BY StateOfInstance DEF GroupsInv, Typed, Started
<1>2. \A u \in SharedStates : size_groups[u] \in Seq(AllGroups) /\ Len(size_groups[u]) \in Nat
  <2> TAKE u \in SharedStates
  <2>1. size_groups[u] \in Seq(AllGroups)
    BY <1>1 DEF Typed
  <2> QED  BY <2>1, LenProperties
<1>3. size_groups' = [size_groups EXCEPT ![s] = Append(@, GroupFrom(NextLower(s)))]
  <2>1. NextLower(s) = size_groups[s][Len(size_groups[s])].upper + 1
    BY <1>1, <1>2 DEF NextLower
  <2>2. size_groups' =
          [size_groups EXCEPT ![s] =
             Append(@, GroupFrom(@[Len(@)].upper + 1))]
    BY DEF append_next_size_group
  <2> QED  BY <1>1, <2>1, <2>2 DEF Typed
<1>4. /\ size_groups' \in [SharedStates -> Seq(AllGroups')]
      /\ Chained' /\ StatesAgree' /\ CachedFromGroups'
      /\ \A u \in SharedStates : Len(size_groups[u]) <= Len(size_groups'[u])
  BY <1>1, <1>3, GroupsGrow
<1>5. Typed'
  BY <1>1, <1>4 DEF Typed
<1>6. \A u \in SharedStates : Len(size_groups'[u]) \in Nat
  <2> TAKE u \in SharedStates
  <2>1. size_groups'[u] \in Seq(AllGroups')
    BY <1>4
  <2> QED  BY <2>1, LenProperties
<1>7. \A u \in SharedStates : Len(size_groups[u]) > 0 => Len(size_groups'[u]) > 0
  BY <1>2, <1>4, <1>6
<1>8. \A b \in Instances : shared_state(b) \in SharedStates
  BY <1>1, StateOfInstance DEF Typed
<1>9. Started'
  BY <1>1, <1>7, <1>8 DEF Started, shared_state
<1> QED  BY <1>4, <1>5, <1>9 DEF GroupsInv

(* A call gets on, or ends, with what it has.                              *)
LEMMA CallKeeps ==
  ASSUME GroupsInv, UNCHANGED <<setting, size_groups, first>>, CachedFromGroups',
         pc' = "idle" \/ (pc # "idle" /\ caller' = caller),
         \/ next_id' = next_id
         \/ pc # "idle" /\ next_id' = [next_id EXCEPT ![caller] = @ + 1]
  PROVE  GroupsInv'
<1>1. Typed /\ Started
  BY DEF GroupsInv
<1>2. DOMAIN first' = Instances /\ DOMAIN next_id' = Instances
  BY <1>1 DEF Typed
<1>3. pc' # "idle" =>
        caller' \in Instances /\ Len(size_groups[shared_state(caller')]) > 0
  BY <1>1 DEF Typed, Started
<1>4. \A a \in Instances :
        first'[a] # 0 \/ next_id'[a] > 0 => Len(size_groups[shared_state(a)]) > 0
  <2> TAKE a \in Instances
  <2>1. CASE next_id'[a] = next_id[a]
    BY <1>1, <2>1 DEF Started
  <2>2. CASE next_id'[a] # next_id[a]
    <3>1. pc # "idle" /\ a = caller
      BY <1>1, <2>2 DEF Typed
    <3> QED  BY <1>1, <3>1 DEF Started
  <2> QED  BY <2>1, <2>2
<1> QED  BY <1>2, <1>3, <1>4, GroupsStay

(* A call begins for an instance that was constructed.                     *)
LEMMA BeginKeeps ==
  ASSUME GroupsInv, NEW a \in Instances, first[a] # 0 \/ next_id[a] > 0, caller' = a,
         UNCHANGED <<setting, size_groups, cached_signatures, first, next_id>>
  PROVE  GroupsInv'
<1>1. Typed /\ Started
  BY DEF GroupsInv
<1>2. CachedFromGroups'
  BY DEF GroupsInv, CachedFromGroups
<1> QED  BY <1>1, <1>2, GroupsStay DEF Typed, Started

LEMMA MergeKeeps ==
  ASSUME GroupsInv, NEW a \in Instances, NEW b \in Instances, Merge(a, b)
  PROVE  GroupsInv'
<1>1. /\ pc = "idle" /\ a # b /\ next_id[a] > 0
      /\ UNCHANGED <<setting, size_groups, cached_signatures, pc, caller>>
      /\ next_id' = [next_id EXCEPT ![a] = @ + next_id[b], ![b] = 0]
      /\ first' = [first EXCEPT ![b] = 0]
  BY DEF Merge, MergeSets, MergeInto, callVars, argVars
<1>2. Typed /\ Started
  BY DEF GroupsInv
<1>3. DOMAIN first' = Instances /\ DOMAIN next_id' = Instances
  BY <1>1, <1>2 DEF Typed
<1>4. \A c \in Instances :
        first'[c] # 0 \/ next_id'[c] > 0 => Len(size_groups[shared_state(c)]) > 0
  <2> TAKE c \in Instances
  <2>1. CASE c = a
    BY <1>1, <1>2, <2>1 DEF Started
  <2>2. CASE c = b
    BY <1>1, <1>2, <2>2 DEF Typed
  <2>3. CASE c # a /\ c # b
    <3>1. first'[c] = first[c] /\ next_id'[c] = next_id[c]
      BY <1>1, <1>2, <2>3 DEF Typed
    <3> QED  BY <1>2, <3>1 DEF Started
  <2> QED  BY <2>1, <2>2, <2>3
<1>5. CachedFromGroups'
  BY <1>1 DEF GroupsInv, CachedFromGroups
<1> QED  BY <1>1, <1>3, <1>4, <1>5, GroupsStay

(* The signatures that are made have the partition counts of the groups of *)
(* the running instance's state.                                           *)
LEMMA SignaturesKeep ==
  ASSUME GroupsInv, GetProbingSignatures
  PROVE  GroupsInv'
<1> DEFINE s == shared_state(caller)
           new == ProbingSignatures(s)
<1>1. /\ pc = "prepare" /\ UNCHANGED <<setting, size_groups, pc, caller, first, next_id>>
      /\ cached_signatures' =
           [r \in DOMAIN cached_signatures \cup {probe} |->
              IF r = probe THEN new ELSE cached_signatures[r]]
  BY DEF GetProbingSignatures, setVars, joinVars, callVars, argVars, instanceVars
<1>2. Typed /\ CachedFromGroups /\ s \in SharedStates
  BY <1>1, StateOfInstance DEF GroupsInv, Typed
<1>3. DOMAIN size_groups[s] = 1 .. Len(size_groups[s])
  <2>1. size_groups[s] \in Seq(AllGroups)
    BY <1>2 DEF Typed
  <2> QED  BY <2>1, LenProperties
<1>4. \A g \in DOMAIN new :
        g \in 1 .. Len(size_groups[s]) /\ new[g] = size_groups[s][g].partition_count
  BY <1>3 DEF ProbingSignatures
<1> HIDE DEF new
<1>5. CachedFromGroups'
  <2> SUFFICES ASSUME NEW r \in DOMAIN cached_signatures \cup {probe},
                      NEW g \in DOMAIN cached_signatures'[r]
               PROVE  \E u \in SharedStates :
                        /\ g \in 1 .. Len(size_groups[u])
                        /\ cached_signatures'[r][g] = size_groups[u][g].partition_count
    BY <1>1 DEF CachedFromGroups
  <2>1. CASE r = probe
    BY <1>1, <1>2, <1>4, <2>1
  <2>2. CASE r # probe
    <3>1. r \in DOMAIN cached_signatures /\ cached_signatures'[r] = cached_signatures[r]
      BY <1>1, <2>2
    <3> QED  BY <1>2, <3>1 DEF CachedFromGroups
  <2> QED  BY <2>1, <2>2
<1> QED  BY <1>1, <1>5, CallKeeps

LEMMA GroupsStep ==
  ASSUME GroupsInv, [Next]_pallocVars
  PROVE  GroupsInv'
<1>0. CachedFromGroups /\ (UNCHANGED <<size_groups, cached_signatures>> => CachedFromGroups')
  BY DEF GroupsInv, CachedFromGroups
<1>1. CASE UNCHANGED pallocVars
  <2>1. UNCHANGED <<setting, size_groups, cached_signatures, pc, caller, first, next_id>>
    BY <1>1 DEF pallocVars, setVars, joinVars, callVars, argVars, instanceVars, pallocOwnVars
  <2> QED  BY <1>0, <2>1, CallKeeps
<1>2. ASSUME NEW a \in Instances, NEW r, Construct(a, r)
      PROVE  GroupsInv'
  BY <1>2, ConstructKeeps
<1>3. ASSUME NEW a \in Instances, NEW n, InsertBatch(a, n)
      PROVE  GroupsInv'
  BY <1>3, BeginKeeps DEF InsertBatch, CallInsert, pallocOwnVars
<1>4. ASSUME NEW a \in Instances, NEW r, NEW f, JoinBatch(a, r, f)
      PROVE  GroupsInv'
  BY <1>4, BeginKeeps DEF JoinBatch, CallJoin, instanceVars, pallocOwnVars
<1>5. ASSUME NEW a \in Instances, NEW b \in Instances, Merge(a, b)
      PROVE  GroupsInv'
  BY <1>5, MergeKeeps
<1>6. CASE AppendGroupForInsert
  BY <1>6, AppendKeeps
     DEF AppendGroupForInsert, setVars, joinVars, callVars, argVars, instanceVars
<1>7. CASE InsertRecord
  BY <1>0, <1>7, CallKeeps
     DEF InsertRecord, InsertSet, InsertNext, callVars, argVars
<1>8. CASE InsertDone
  BY <1>0, <1>8, CallKeeps
     DEF InsertDone, EndInsert, CallEnds, instanceVars, pallocOwnVars
<1>9. CASE AppendGroupForProbe
  BY <1>9, AppendKeeps
     DEF AppendGroupForProbe, setVars, joinVars, callVars, argVars, instanceVars
<1>10. CASE GetProbingSignatures
  BY <1>10, SignaturesKeep
<1>11. CASE BeginSearch \/ ProbeSizeGroup \/ GroupDone \/ SearchDone
  <2>1. /\ UNCHANGED <<setting, caller, first, next_id, size_groups, cached_signatures>>
        /\ pc # "idle"
    BY <1>11 DEF BeginSearch, ProbeSizeGroup, GroupDone, SearchDone, GoOn, argVars,
                 instanceVars, pallocOwnVars
  <2> QED  BY <1>0, <2>1, CallKeeps
<1>12. CASE SmallResults \/ ProbePartition
  <2>1. /\ UNCHANGED <<setting, caller, first, next_id, size_groups, cached_signatures>>
        /\ pc # "idle"
    BY <1>12 DEF SmallResults, AddSmallResults, ProbePartition, FindMore, argVars,
                 instanceVars, pallocOwnVars
  <2> QED  BY <1>0, <2>1, CallKeeps
<1>13. CASE VerifyCandidates \/ ReturnResults
  <2>1. /\ UNCHANGED <<setting, first, next_id, size_groups, cached_signatures>>
        /\ pc' = "idle" \/ (pc # "idle" /\ caller' = caller)
    BY <1>13 DEF VerifyCandidates, Verify, ReturnResults, Return, CallEnds, argVars,
                 instanceVars, pallocOwnVars
  <2> QED  BY <1>0, <2>1, CallKeeps
<1>14. ASSUME NEW r, Evict(r)
       PROVE  GroupsInv'
  <2>1. /\ pc = "idle" /\ UNCHANGED <<setting, pc, first, next_id, size_groups>>
        /\ cached_signatures' =
             [q \in DOMAIN cached_signatures \ {r} |-> cached_signatures[q]]
    BY <1>14 DEF Evict, setVars, joinVars, callVars, instanceVars
  <2>2. CachedFromGroups'
    BY <1>0, <2>1 DEF CachedFromGroups
  <2> QED  BY <2>1, <2>2, CallKeeps
<1> QED
  BY <1>1, <1>2, <1>3, <1>4, <1>5, <1>6, <1>7, <1>8, <1>9, <1>10, <1>11, <1>12, <1>13, <1>14
     DEF Next

(* Whatever instances share which states, and whoever makes a state append *)
(* its next group (palloc_join.cc 21-23, 64-66, palloc_join.hh 121-126),   *)
(* the sizes are cut into the same groups by all of them: signatures that  *)
(* were cached with the groups of one state fit the index of another       *)
(* (palloc_join.cc 161-191).                                               *)
THEOREM GroupsAlwaysAgree == Spec => []GroupsAgree
<1>1. Init => GroupsInv
  BY InitGroups
<1>2. GroupsInv /\ [Next]_pallocVars => GroupsInv'
  BY GroupsStep
<1>3. GroupsInv => GroupsAgree
  BY InvImpliesAgree
<1> QED  BY <1>1, <1>2, <1>3, PTL DEF Spec

------------------------------------------------------------------------------
(* The smallest element of a set of numbers, from the library's theorem on *)
(* well-founded relations, and induction by a set.                         *)
LEMMA NatOrder == IsWellFoundedOn({ss \in Nat \X Nat : ss[1] < ss[2]}, Nat)
  BY NatLessThanWellFounded DEF OpToRel

LEMMA LeastElement ==
  ASSUME NEW T, T \subseteq Nat, T # {}
  PROVE  \E m \in T : \A n \in T : m <= n
<1> DEFINE R == {ss \in Nat \X Nat : ss[1] < ss[2]}
<1>1. IsWellFoundedOn(R, Nat)
  BY NatOrder
<1>2. \A m, n \in Nat : n < m => <<n, m>> \in R
  OBVIOUS
<1> HIDE DEF R
<1>3. PICK m \in T : \A n \in T : ~(<<n, m>> \in R)
  BY <1>1, WFMin
<1>4. ASSUME NEW n \in T PROVE m <= n
  <2>1. m \in Nat /\ n \in Nat
    OBVIOUS
  <2>2. ~(n < m)
    BY <1>2, <1>3, <2>1
  <2> QED  BY <2>1, <2>2
<1> QED  BY <1>4

LEMMA SetInduction ==
  ASSUME NEW S, 1 \in S, \A n \in Nat \ {0} : n \in S => n + 1 \in S
  PROVE  \A n \in Nat \ {0} : n \in S
<1> SUFFICES ASSUME ~(\A n \in Nat \ {0} : n \in S) PROVE FALSE
  OBVIOUS
<1> DEFINE T == (Nat \ {0}) \ S
<1>1. T # {} /\ T \subseteq Nat
  OBVIOUS
<1> HIDE DEF T
<1>2. PICK m \in T : \A n \in T : m <= n
  BY <1>1, LeastElement
<1>3. m \in Nat /\ m # 0 /\ m # 1 /\ m - 1 \in Nat \ {0} /\ m \notin S
  BY <1>2 DEF T
<1>4. m - 1 \in S
  BY <1>2, <1>3 DEF T
<1>5. m - 1 + 1 = m
  BY <1>3
<1> QED  BY <1>3, <1>4, <1>5

(* The bitmap: an odd divisor of 2p divides p, so 2p is a power of two if  *)
(* p is one, and there is one between n and 2n - 1.                        *)
LEMMA PowerDoubles ==
  ASSUME NEW p \in Nat \ {0}, IsPowerOfTwo(p)
  PROVE  IsPowerOfTwo(2 * p)
<1> SUFFICES ASSUME NEW d \in 1 .. 2 * p, (2 * p) % d = 0, d % 2 # 0
             PROVE  d = 1
  BY DEF IsPowerOfTwo
<1> DEFINE k == (2 * p) \div d
           h == k \div 2
           e == d \div 2
<1>1. d \in Nat \ {0} /\ 2 * p \in Nat
  OBVIOUS
<1>2. k \in Nat /\ 2 * p = d * k
  BY <1>1
<1>3. e \in Nat /\ d = 2 * e + 1
  BY <1>1
<1> HIDE DEF k, e
<1>4. h \in Nat /\ (k = 2 * h \/ k = 2 * h + 1)
  BY <1>2
<1> HIDE DEF h
<1>5. k = 2 * h
  <2> SUFFICES ASSUME k = 2 * h + 1 PROVE FALSE
    BY <1>4
  <2>1. d * k = 2 * (e * k) + k
    BY <1>2, <1>3
  <2>2. e * k \in Nat
    BY <1>2, <1>3
  <2> DEFINE c == e * k
  <2>3. 2 * p = 2 * c + 2 * h + 1 /\ c \in Nat
    BY <1>2, <1>4, <2>1, <2>2
  <2> HIDE DEF c
  <2> QED  BY <1>4, <2>3
<1>6. p = d * h
  <2>1. d * k = 2 * (d * h)
    BY <1>1, <1>4, <1>5
  <2>2. d * h \in Nat
    BY <1>1, <1>4
  <2> QED  BY <1>2, <2>1, <2>2
<1>7. d <= p /\ p % d = 0
  <2>1. h >= 1
    BY <1>1, <1>4, <1>6
  <2>2. d * h >= d
    BY <1>1, <1>4, <2>1
  <2>3. (d * h) % d = 0
    BY <1>1, <1>4
  <2> QED  BY <1>1, <1>6, <2>2, <2>3
<1> QED  BY <1>1, <1>7 DEF IsPowerOfTwo

LEMMA PowerBetween ==
  \A n \in Nat \ {0} : \E p \in n .. 2 * n - 1 : IsPowerOfTwo(p)
<1> DEFINE S == {n \in Nat \ {0} : \E p \in n .. 2 * n - 1 : IsPowerOfTwo(p)}
<1>1. 1 \in S
  <2>1. IsPowerOfTwo(1) /\ 1 \in 1 .. 2 * 1 - 1
    BY DEF IsPowerOfTwo
  <2> QED  BY <2>1
<1>2. ASSUME NEW n \in Nat \ {0}, n \in S PROVE n + 1 \in S
  <2>1. PICK p \in n .. 2 * n - 1 : IsPowerOfTwo(p)
    BY <1>2
  <2>2. CASE p = n
    <3>1. IsPowerOfTwo(2 * p)
      BY <2>1, <2>2, PowerDoubles
    <3>2. 2 * p \in n + 1 .. 2 * (n + 1) - 1
      BY <2>2
    <3> QED  BY <3>1, <3>2
  <2>3. CASE p # n
    <3>1. p \in n + 1 .. 2 * (n + 1) - 1
      BY <2>1, <2>3
    <3> QED  BY <2>1, <3>1
  <2> QED  BY <2>2, <2>3
<1>3. \A n : n \in S => \E p \in n .. 2 * n - 1 : IsPowerOfTwo(p)
  OBVIOUS
<1> HIDE DEF S
<1>4. \A n \in Nat \ {0} : n \in S
  BY <1>1, <1>2, SetInduction
<1> QED  BY <1>3, <1>4

LEMMA BitmapGrows ==
  ASSUME NEW old \in Nat, NEW n \in Nat
  PROVE  Resized(old, n) \in Nat /\ n <= Resized(old, n) /\ old <= Resized(old, n)
<1>1. CASE old >= n
  BY <1>1 DEF Resized
<1>2. CASE ~(old >= n)
  <2>0. n \in Nat \ {0}
    BY <1>2
  <2>1. \E p \in n .. 2 * n - 1 : IsPowerOfTwo(p)
    BY <2>0, PowerBetween, Zenon
  <2>2. Resized(old, n) \in n .. 2 * n - 1
    BY <1>2, <2>1 DEF Resized
  <2> QED  BY <1>2, <2>2
<1> QED  BY <1>1, <1>2

------------------------------------------------------------------------------
(* Lists of ids in ascending order.                                        *)
Ascends(list) == \A m, n \in 1 .. Len(list) : m < n => list[m] < list[n]

Moved(list, d) == [n \in DOMAIN list |-> list[n] + d]

LEMMA ElementsOfSeq ==
  ASSUME NEW s \in Seq(Nat)
  PROVE  /\ DOMAIN s = 1 .. Len(s) /\ Len(s) \in Nat
         /\ ToSet(s) = {s[n] : n \in 1 .. Len(s)}
         /\ \A n \in 1 .. Len(s) : s[n] \in Nat
BY ElementOfSeq, LenProperties DEF ToSet

LEMMA AppendAscends ==
  ASSUME NEW s \in Seq(Nat), Ascends(s), NEW id \in Nat, \A x \in ToSet(s) : x < id
  PROVE  /\ Append(s, id) \in Seq(Nat) /\ Ascends(Append(s, id))
         /\ ToSet(Append(s, id)) = ToSet(s) \cup {id}
<1> DEFINE a == Append(s, id)
           n == Len(s)
<1>1. /\ a \in Seq(Nat) /\ Len(a) = n + 1 /\ n \in Nat /\ a[n + 1] = id
      /\ \A i \in 1 .. n : a[i] = s[i]
  OBVIOUS
<1>2. ToSet(s) = {s[i] : i \in 1 .. n} /\ ToSet(a) = {a[i] : i \in 1 .. n + 1}
  BY <1>1, ElementsOfSeq
<1>3. \A i \in 1 .. n : s[i] \in Nat /\ s[i] < id
  BY <1>2, ElementsOfSeq
<1>0. n \in Nat
  BY <1>1
<1> HIDE DEF a, n
<1>4. Ascends(a)
  <2> SUFFICES ASSUME NEW i \in 1 .. n + 1, NEW j \in 1 .. n + 1, i < j
               PROVE  a[i] < a[j]
    BY <1>1 DEF Ascends
  <2>1. i \in 1 .. n
    BY <1>0
  <2>2. CASE j = n + 1
    BY <1>1, <1>3, <2>1, <2>2
  <2>3. CASE j # n + 1
    <3>1. j \in 1 .. n
      BY <1>0, <2>3
    <3> QED  BY <1>1, <2>1, <3>1 DEF Ascends, n
  <2> QED  BY <2>2, <2>3
<1>5. ToSet(a) = ToSet(s) \cup {id}
  <2>1. ASSUME NEW x PROVE x \in ToSet(a) <=> x \in ToSet(s) \/ x = id
    <3>1. 1 .. n + 1 = (1 .. n) \cup {n + 1}
      BY <1>1
    <3> QED  BY <1>1, <1>2, <3>1
  <2> QED  BY <2>1
<1> QED  BY <1>1, <1>4, <1>5 DEF a, n

LEMMA MovedFacts ==
  ASSUME NEW s \in Seq(Nat), NEW d \in Nat, Ascends(s)
  PROVE  /\ Moved(s, d) \in Seq(Nat) /\ Ascends(Moved(s, d))
         /\ ToSet(Moved(s, d)) = {x + d : x \in ToSet(s)}
         /\ \A x \in ToSet(Moved(s, d)) : d <= x
<1> DEFINE m == Moved(s, d)
<1>1. /\ DOMAIN s = 1 .. Len(s) /\ Len(s) \in Nat
      /\ ToSet(s) = {s[n] : n \in 1 .. Len(s)}
      /\ \A n \in 1 .. Len(s) : s[n] \in Nat
  BY ElementsOfSeq
<1>2. m = [n \in 1 .. Len(s) |-> s[n] + d]
  BY <1>1 DEF Moved
<1>3. m \in Seq(Nat) /\ Len(m) = Len(s) /\ \A n \in 1 .. Len(s) : m[n] = s[n] + d
  BY <1>1, <1>2, IsASeq
<1> HIDE DEF m
<1>4. ToSet(m) = {m[n] : n \in 1 .. Len(s)}
  BY <1>3, ElementsOfSeq
<1>5. Ascends(m)
  BY <1>1, <1>3 DEF Ascends
<1>6. ToSet(m) = {x + d : x \in ToSet(s)}
  BY <1>1, <1>3, <1>4
<1>7. \A x \in ToSet(m) : d <= x
  BY <1>1, <1>3, <1>4
<1> QED  BY <1>3, <1>5, <1>6, <1>7 DEF m

LEMMA ConcatAscends ==
  ASSUME NEW s \in Seq(Nat), NEW t \in Seq(Nat), Ascends(s), Ascends(t), NEW d \in Nat,
         \A x \in ToSet(s) : x < d, \A x \in ToSet(t) : d <= x
  PROVE  /\ s \o t \in Seq(Nat) /\ Ascends(s \o t)
         /\ ToSet(s \o t) = ToSet(s) \cup ToSet(t)
<1> DEFINE c == s \o t
           n == Len(s)
           m == Len(t)
<1>1. /\ c \in Seq(Nat) /\ Len(c) = n + m /\ n \in Nat /\ m \in Nat
      /\ \A i \in 1 .. n + m : c[i] = IF i <= n THEN s[i] ELSE t[i - n]
  BY ConcatProperties, LenProperties
<1>2. /\ ToSet(s) = {s[i] : i \in 1 .. n} /\ ToSet(t) = {t[i] : i \in 1 .. m}
      /\ ToSet(c) = {c[i] : i \in 1 .. n + m}
  BY <1>1, ElementsOfSeq
<1>3. /\ \A i \in 1 .. n : s[i] \in Nat /\ s[i] < d
      /\ \A i \in 1 .. m : t[i] \in Nat /\ d <= t[i]
  BY <1>2, ElementsOfSeq
<1> HIDE DEF c, n, m
<1>4. /\ \A i \in 1 .. n : i \in 1 .. n + m /\ c[i] = s[i]
      /\ \A i \in 1 .. m : i + n \in 1 .. n + m /\ c[i + n] = t[i]
  BY <1>1
<1>5. \A i \in 1 .. n + m : i \in 1 .. n \/ (i - n \in 1 .. m /\ (i - n) + n = i)
  BY <1>1
<1>6. Ascends(c)
  <2> SUFFICES ASSUME NEW i \in 1 .. n + m, NEW j \in 1 .. n + m, i < j
               PROVE  c[i] < c[j]
    BY <1>1 DEF Ascends
  <2>1. CASE j \in 1 .. n
    <3>1. i \in 1 .. n
      BY <1>1, <2>1
    <3> QED  BY <1>4, <2>1, <3>1 DEF Ascends, n
  <2>2. CASE i \in 1 .. n /\ j \notin 1 .. n
    <3>1. j - n \in 1 .. m /\ c[j] = t[j - n] /\ c[i] = s[i]
      BY <1>1, <2>2
    <3> QED  BY <1>3, <2>2, <3>1
  <2>3. CASE i \notin 1 .. n /\ j \notin 1 .. n
    <3>1. /\ i - n \in 1 .. m /\ c[i] = t[i - n]
          /\ j - n \in 1 .. m /\ c[j] = t[j - n]
          /\ i - n < j - n
      BY <1>1, <2>3
    <3> QED  BY <3>1 DEF Ascends, m
  <2> QED  BY <2>1, <2>2, <2>3
<1>7. ASSUME NEW x PROVE x \in ToSet(c) <=> x \in ToSet(s) \/ x \in ToSet(t)
  <2>1. ASSUME x \in ToSet(c) PROVE x \in ToSet(s) \/ x \in ToSet(t)
    <3>1. PICK i \in 1 .. n + m : x = c[i]
      BY <1>2, <2>1
    <3>2. CASE i \in 1 .. n
      BY <1>2, <1>4, <3>1, <3>2
    <3>3. CASE i - n \in 1 .. m /\ (i - n) + n = i
      BY <1>2, <1>4, <3>1, <3>3
    <3> QED  BY <1>5, <3>2, <3>3
  <2>2. ASSUME x \in ToSet(s) PROVE x \in ToSet(c)
    BY <1>2, <1>4, <2>2
  <2>3. ASSUME x \in ToSet(t) PROVE x \in ToSet(c)
    <3>1. PICK i \in 1 .. m : x = t[i]
      BY <1>2, <2>3
    <3>2. i + n \in 1 .. n + m /\ x = c[i + n]
      BY <1>4, <3>1
    <3> QED  BY <1>2, <3>2
  <2> QED  BY <2>1, <2>2, <2>3
<1>8. ToSet(c) = ToSet(s) \cup ToSet(t)
  BY <1>7
<1> QED  BY <1>1, <1>6, <1>8 DEF c

------------------------------------------------------------------------------
(* keys gives each id of an index its keys.  ix lists under each key the   *)
(* ids that have it.                                                       *)
Pairs(keys) == \A id \in DOMAIN keys : \A k \in keys[id] : k = <<k[1], k[2]>>

Built(ix, keys) ==
  /\ \A k : k \in DOMAIN ix <=> \E id \in DOMAIN keys : k \in keys[id]
  /\ \A k \in DOMAIN ix :
       /\ ix[k] \in Seq(Nat) /\ Ascends(ix[k])
       /\ \A id : id \in ToSet(ix[k]) <=> id \in DOMAIN keys /\ k \in keys[id]

ListOf(ix, k) == IF k \in DOMAIN ix THEN ix[k] ELSE <<>>

LEMMA NoIds == <<>> \in Seq(Nat) /\ Ascends(<<>>) /\ ToSet(<<>>) = {}
<1>1. <<>> \in Seq(Nat) /\ Len(<<>>) = 0
  BY EmptySeq
<1>2. 1 .. 0 = {}
  OBVIOUS
<1> QED  BY <1>1, <1>2, ElementsOfSeq DEF Ascends

LEMMA ListFacts ==
  ASSUME NEW ix, NEW keys, Built(ix, keys), NEW k
  PROVE  /\ ListOf(ix, k) \in Seq(Nat) /\ Ascends(ListOf(ix, k))
         /\ \A id : id \in ToSet(ListOf(ix, k)) <=> id \in DOMAIN keys /\ k \in keys[id]
<1>1. CASE k \in DOMAIN ix
  <2>1. ListOf(ix, k) = ix[k]
    BY <1>1 DEF ListOf
  <2> QED  BY <1>1, <2>1 DEF Built
<1>2. CASE k \notin DOMAIN ix
  <2>1. ListOf(ix, k) = <<>>
    BY <1>2 DEF ListOf
  <2>2. \A id \in DOMAIN keys : k \notin keys[id]
    BY <1>2 DEF Built
  <2> QED  BY <2>1, <2>2, NoIds
<1> QED  BY <1>1, <1>2

(* A record is inserted behind the others.                                 *)
LEMMA BuiltInsert ==
  ASSUME NEW ix, NEW n \in Nat, NEW keys, DOMAIN keys = 0 .. n - 1, Built(ix, keys),
         NEW g, NEW signatures, NEW more,
         DOMAIN more = 0 .. n, more[n] = {g} \X signatures,
         \A id \in 0 .. n - 1 : more[id] = keys[id]
  PROVE  Built(Inserted(ix, g, signatures, n), more)
<1> DEFINE new == Inserted(ix, g, signatures, n)
           mine == {g} \X signatures
<1>1. new = [k \in DOMAIN ix \cup mine |->
               IF k \notin mine THEN ix[k] ELSE Append(Find(ix, k[1], k[2]), n)]
  BY DEF Inserted
<1>2. \A k \in mine : Find(ix, k[1], k[2]) = ListOf(ix, k)
  BY DEF Find, ListOf
<1>3. 0 .. n = (0 .. n - 1) \cup {n} /\ n \notin 0 .. n - 1
  OBVIOUS
<1> DEFINE grown(k) == IF k \in mine THEN Append(ListOf(ix, k), n) ELSE ix[k]
<1>4. DOMAIN new = DOMAIN ix \cup mine
  BY <1>1
<1>5. \A k \in DOMAIN new : new[k] = grown(k)
  BY <1>1, <1>2
<1> HIDE DEF new
<1>6. \A k : k \in DOMAIN new <=> \E id \in DOMAIN more : k \in more[id]
  BY <1>3, <1>4 DEF Built
<1>7. ASSUME NEW k \in DOMAIN new
      PROVE  /\ new[k] \in Seq(Nat) /\ Ascends(new[k])
             /\ \A id : id \in ToSet(new[k]) <=> id \in DOMAIN more /\ k \in more[id]
  <2>1. CASE k \in mine
    <3>1. /\ ListOf(ix, k) \in Seq(Nat) /\ Ascends(ListOf(ix, k))
          /\ \A id : id \in ToSet(ListOf(ix, k)) <=> id \in DOMAIN keys /\ k \in keys[id]
      BY ListFacts
    <3>2. \A id \in ToSet(ListOf(ix, k)) : id < n
      BY <3>1
    <3>3. new[k] = Append(ListOf(ix, k), n)
      BY <1>5, <2>1
    <3>4. /\ new[k] \in Seq(Nat) /\ Ascends(new[k])
          /\ ToSet(new[k]) = ToSet(ListOf(ix, k)) \cup {n}
      BY <3>1, <3>2, <3>3, AppendAscends
    <3> QED  BY <1>3, <2>1, <3>1, <3>4
  <2>2. CASE k \notin mine
    <3>1. k \in DOMAIN ix /\ new[k] = ix[k]
      BY <1>4, <1>5, <2>2
    <3> QED  BY <1>3, <2>2, <3>1 DEF Built
  <2> QED  BY <2>1, <2>2
<1> QED  BY <1>6, <1>7 DEF Built, new

(* The records of another index follow those of the first.                 *)
Follow(keys, n, keys2, m, all) ==
  /\ n \in Nat /\ m \in Nat
  /\ DOMAIN keys = 0 .. n - 1 /\ DOMAIN keys2 = 0 .. m - 1 /\ DOMAIN all = 0 .. n + m - 1
  /\ \A id \in 0 .. n - 1 : all[id] = keys[id]
  /\ \A id \in 0 .. m - 1 : all[id + n] = keys2[id]

LEMMA BuiltMerge ==
  ASSUME NEW ix, NEW keys, Built(ix, keys), Pairs(keys),
         NEW ix2, NEW keys2, Built(ix2, keys2), Pairs(keys2),
         NEW n, NEW m, NEW all, Follow(keys, n, keys2, m, all)
  PROVE  Built(Merged(ix, ix2, n), all)
<1> DEFINE new == Merged(ix, ix2, n)
<1>0. /\ n \in Nat /\ m \in Nat
      /\ DOMAIN keys = 0 .. n - 1 /\ DOMAIN keys2 = 0 .. m - 1 /\ DOMAIN all = 0 .. n + m - 1
      /\ \A id \in 0 .. n - 1 : all[id] = keys[id]
      /\ \A id \in 0 .. m - 1 : all[id + n] = keys2[id]
  BY DEF Follow
<1>1. new = [k \in DOMAIN ix \cup DOMAIN ix2 |->
               Find(ix, k[1], k[2]) \o (IF k \in DOMAIN ix2 THEN Moved(ix2[k], n) ELSE <<>>)]
  BY DEF Merged, Moved
<1>2. \A k \in DOMAIN ix \cup DOMAIN ix2 : k = <<k[1], k[2]>>
  BY DEF Built, Pairs
<1>3. DOMAIN new = DOMAIN ix \cup DOMAIN ix2
  BY <1>1
<1>4. \A k \in DOMAIN new :
        new[k] = ListOf(ix, k) \o (IF k \in DOMAIN ix2 THEN Moved(ix2[k], n) ELSE <<>>)
  <2> TAKE k \in DOMAIN new
  <2>1. Find(ix, k[1], k[2]) = ListOf(ix, k)
    BY <1>2, <1>3 DEF Find, ListOf
  <2> HIDE DEF new
  <2> QED  BY <1>1, <1>3, <2>1
<1> HIDE DEF new
<1>5. /\ \A id \in DOMAIN all : id \in 0 .. n - 1 \/ (id - n \in 0 .. m - 1 /\ (id - n) + n = id)
      /\ \A id \in 0 .. n - 1 : id \in DOMAIN all
      /\ \A id \in 0 .. m - 1 : id + n \in DOMAIN all /\ (id + n) - n = id
  BY <1>0
<1>6. \A k : k \in DOMAIN new <=> \E id \in DOMAIN all : k \in all[id]
  <2> TAKE k
  <2>1. k \in DOMAIN new <=> (\E id \in 0 .. n - 1 : k \in keys[id]) \/ (\E id \in 0 .. m - 1 : k \in keys2[id])
    BY <1>0, <1>3 DEF Built
  <2>2. ASSUME NEW id \in DOMAIN all, k \in all[id] PROVE k \in DOMAIN new
    <3>1. CASE id \in 0 .. n - 1
      BY <1>0, <2>1, <2>2, <3>1
    <3>2. CASE id - n \in 0 .. m - 1 /\ (id - n) + n = id
      <4>1. k \in keys2[id - n]
        BY <1>0, <2>2, <3>2
      <4> QED  BY <2>1, <3>2, <4>1
    <3> QED  BY <1>5, <3>1, <3>2
  <2>3. ASSUME NEW id \in 0 .. n - 1, k \in keys[id] PROVE \E x \in DOMAIN all : k \in all[x]
    BY <1>0, <1>5, <2>3
  <2>4. ASSUME NEW id \in 0 .. m - 1, k \in keys2[id] PROVE \E x \in DOMAIN all : k \in all[x]
    <3>1. id + n \in DOMAIN all /\ k \in all[id + n]
      BY <1>0, <1>5, <2>4
    <3> QED  BY <3>1
  <2> QED  BY <2>1, <2>2, <2>3, <2>4
<1>7. ASSUME NEW k \in DOMAIN new
      PROVE  /\ new[k] \in Seq(Nat) /\ Ascends(new[k])
             /\ \A id : id \in ToSet(new[k]) <=> id \in DOMAIN all /\ k \in all[id]
  <2> DEFINE s == ListOf(ix, k)
             t == IF k \in DOMAIN ix2 THEN Moved(ix2[k], n) ELSE <<>>
  <2>1. /\ s \in Seq(Nat) /\ Ascends(s)
        /\ \A id : id \in ToSet(s) <=> id \in 0 .. n - 1 /\ k \in keys[id]
    BY <1>0, ListFacts
  <2>2. /\ t \in Seq(Nat) /\ Ascends(t)
        /\ \A x : x \in ToSet(t) <=> \E id \in 0 .. m - 1 : x = id + n /\ k \in keys2[id]
        /\ \A x \in ToSet(t) : n <= x
    <3>1. CASE k \in DOMAIN ix2
      <4>1. /\ ix2[k] \in Seq(Nat) /\ Ascends(ix2[k])
            /\ \A id : id \in ToSet(ix2[k]) <=> id \in 0 .. m - 1 /\ k \in keys2[id]
        BY <1>0, <3>1 DEF Built
      <4>2. /\ t \in Seq(Nat) /\ Ascends(t) /\ \A x \in ToSet(t) : n <= x
            /\ ToSet(t) = {x + n : x \in ToSet(ix2[k])}
        BY <1>0, <3>1, <4>1, MovedFacts
      <4> HIDE DEF t
      <4> QED  BY <1>0, <4>1, <4>2
    <3>2. CASE k \notin DOMAIN ix2
      <4>1. t = <<>> /\ \A id \in 0 .. m - 1 : k \notin keys2[id]
        BY <1>0, <3>2 DEF Built
      <4> HIDE DEF t
      <4> QED  BY <4>1, NoIds
    <3> QED  BY <3>1, <3>2
  <2>3. new[k] = s \o t
    BY <1>4
  <2> HIDE DEF s, t
  <2>4. \A x \in ToSet(s) : x < n
    BY <1>0, <2>1
  <2>5. new[k] \in Seq(Nat) /\ Ascends(new[k]) /\ ToSet(new[k]) = ToSet(s) \cup ToSet(t)
    <3>1. /\ s \o t \in Seq(Nat) /\ Ascends(s \o t)
          /\ ToSet(s \o t) = ToSet(s) \cup ToSet(t)
      BY <1>0, <2>1, <2>2, <2>4, ConcatAscends
    <3> QED  BY <2>3, <3>1
  <2>6. ASSUME NEW id PROVE id \in ToSet(new[k]) <=> id \in DOMAIN all /\ k \in all[id]
    <3>1. ASSUME id \in ToSet(new[k]) PROVE id \in DOMAIN all /\ k \in all[id]
      BY <1>0, <1>5, <2>1, <2>2, <2>5, <3>1
    <3>2. ASSUME id \in DOMAIN all, k \in all[id] PROVE id \in ToSet(new[k])
      <4>1. CASE id \in 0 .. n - 1
        BY <1>0, <2>1, <2>5, <3>2, <4>1
      <4>2. CASE id - n \in 0 .. m - 1 /\ (id - n) + n = id
        <5>1. k \in keys2[id - n]
          BY <1>0, <3>2, <4>2
        <5> QED  BY <2>2, <2>5, <4>2, <5>1
      <4> QED  BY <1>5, <3>2, <4>1, <4>2
    <3> QED  BY <3>1, <3>2
  <2> QED  BY <2>5, <2>6
<1> QED  BY <1>6, <1>7 DEF Built, new

------------------------------------------------------------------------------
(* The group of a size in a list of groups: the first one that is not too  *)
(* small.  It stays the group when groups are appended, and greater sizes  *)
(* are not in earlier groups.                                              *)
GroupIn(gs, n) ==
  CHOOSE g \in DOMAIN gs : n <= gs[g].upper /\ \A h \in 1 .. g - 1 : gs[h].upper < n

IsGroups(gs) ==
  /\ Len(gs) \in Nat /\ DOMAIN gs = 1 .. Len(gs)
  /\ \A g \in 1 .. Len(gs) : gs[g].upper \in Nat

Reaches(gs, n) == \E g \in 1 .. Len(gs) : n <= gs[g].upper

LEMMA GroupInFacts ==
  ASSUME NEW gs, IsGroups(gs), NEW n \in Int, Reaches(gs, n)
  PROVE  /\ GroupIn(gs, n) \in 1 .. Len(gs) /\ n <= gs[GroupIn(gs, n)].upper
         /\ \A h \in 1 .. GroupIn(gs, n) - 1 : gs[h].upper < n
<1> DEFINE T == {g \in 1 .. Len(gs) : n <= gs[g].upper}
<1>1. T \subseteq Nat /\ T # {}
  BY DEF Reaches, IsGroups
<1>2. PICK m \in T : \A g \in T : m <= g
  BY <1>1, LeastElement
<1>3. m \in 1 .. Len(gs) /\ n <= gs[m].upper
  OBVIOUS
<1>4. ASSUME NEW h \in 1 .. m - 1 PROVE gs[h].upper < n
  <2>1. h \in 1 .. Len(gs) /\ h < m /\ Len(gs) \in Nat
    BY <1>3 DEF IsGroups
  <2>2. h \notin T
    BY <1>2, <1>3, <2>1
  <2> QED  BY <2>1, <2>2 DEF IsGroups
<1> HIDE DEF T
<1>5. \E g \in DOMAIN gs : n <= gs[g].upper /\ \A h \in 1 .. g - 1 : gs[h].upper < n
  BY <1>3, <1>4 DEF IsGroups
<1>6. GroupIn(gs, n) \in DOMAIN gs
  BY <1>5 DEF GroupIn
<1>7. /\ n <= gs[GroupIn(gs, n)].upper
      /\ \A h \in 1 .. GroupIn(gs, n) - 1 : gs[h].upper < n
  BY <1>5 DEF GroupIn
<1> QED  BY <1>6, <1>7 DEF IsGroups

LEMMA GroupInStays ==
  ASSUME NEW gs, IsGroups(gs), NEW gs2, IsGroups(gs2),
         \A g \in 1 .. Len(gs) : g \in 1 .. Len(gs2) /\ gs2[g] = gs[g],
         NEW n \in Nat, Reaches(gs, n)
  PROVE  /\ Reaches(gs2, n) /\ GroupIn(gs2, n) = GroupIn(gs, n)
         /\ GroupIn(gs, n) \in 1 .. Len(gs)
<1> DEFINE g == GroupIn(gs, n)
           g2 == GroupIn(gs2, n)
<1>1. Reaches(gs2, n)
  BY DEF Reaches
<1>2. /\ g \in 1 .. Len(gs) /\ n <= gs[g].upper
      /\ \A h \in 1 .. g - 1 : gs[h].upper < n
  BY GroupInFacts
<1>3. /\ g2 \in 1 .. Len(gs2) /\ n <= gs2[g2].upper
      /\ \A h \in 1 .. g2 - 1 : gs2[h].upper < n
  BY <1>1, GroupInFacts
<1>4. /\ g \in 1 .. Len(gs2) /\ gs2[g] = gs[g] /\ Len(gs) \in Nat /\ Len(gs2) \in Nat
      /\ gs2[g].upper \in Nat /\ gs2[g2].upper \in Nat
  BY <1>2, <1>3 DEF IsGroups
<1> HIDE DEF g, g2
<1>5. ~(g < g2)
  <2> SUFFICES ASSUME g < g2 PROVE FALSE
    OBVIOUS
  <2>1. g \in 1 .. g2 - 1
    BY <1>2, <1>3, <1>4
  <2> QED  BY <1>2, <1>3, <1>4, <2>1
<1>6. ~(g2 < g)
  <2> SUFFICES ASSUME g2 < g PROVE FALSE
    OBVIOUS
  <2>1. g2 \in 1 .. g - 1 /\ g2 \in 1 .. Len(gs)
    BY <1>2, <1>3, <1>4
  <2>2. gs2[g2] = gs[g2]
    BY <2>1
  <2> QED  BY <1>2, <1>3, <1>4, <2>1, <2>2
<1>7. g = g2
  BY <1>2, <1>3, <1>4, <1>5, <1>6
<1> QED  BY <1>1, <1>2, <1>7 DEF g, g2

LEMMA GroupInMonotonic ==
  ASSUME NEW gs, IsGroups(gs), NEW n \in Nat, NEW m \in Nat, n <= m,
         Reaches(gs, n), Reaches(gs, m)
  PROVE  GroupIn(gs, n) <= GroupIn(gs, m)
<1> DEFINE g == GroupIn(gs, n)
           h == GroupIn(gs, m)
<1>1. /\ g \in 1 .. Len(gs) /\ \A k \in 1 .. g - 1 : gs[k].upper < n
      /\ h \in 1 .. Len(gs) /\ m <= gs[h].upper /\ gs[h].upper \in Nat
      /\ Len(gs) \in Nat
  BY GroupInFacts DEF IsGroups
<1> HIDE DEF g, h
<1>2. ~(h < g)
  <2> SUFFICES ASSUME h < g PROVE FALSE
    OBVIOUS
  <2>1. h \in 1 .. g - 1
    BY <1>1
  <2> QED  BY <1>1, <2>1
<1> QED  BY <1>1, <1>2 DEF g, h

------------------------------------------------------------------------------
(* The inductive invariant of the indexes.  What was inserted has a group, *)
(* ids count records of the dataset, and the bitmap has room for them and  *)
(* for the rest of a batch that is inserted.                               *)
KeysOf(a) == [id \in Ids(a) |-> Keys(shared_state(a), Record(a, id))]

Counted ==
  /\ first \in [Instances -> Nat] /\ next_id \in [Instances -> Nat]
  /\ bitmap_size \in [Instances -> Nat]
  /\ \A a \in Instances :
       /\ first[a] = 0 => next_id[a] = 0
       /\ first[a] + next_id[a] <= Len(setting.data) + 1
       /\ next_id[a] <= bitmap_size[a]

BatchFits ==
  pc = "insert" =>
    /\ first[caller] # 0 /\ last \in Nat /\ last <= Len(setting.data)
    /\ first[caller] + next_id[caller] <= last + 1
    /\ last - first[caller] + 1 <= bitmap_size[caller]

Grouped ==
  \A a \in Instances : \A id \in Ids(a) :
    Reaches(size_groups[shared_state(a)], size(Record(a, id)))

Rebuilt ==
  /\ DOMAIN index = Instances
  /\ \A a \in Instances : Built(index[a], KeysOf(a))

IndexInv == GroupsInv /\ Counted /\ BatchFits /\ Grouped /\ Rebuilt

LEMMA DataFacts ==
  ASSUME setting \in Settings
  PROVE  /\ Len(setting.data) \in Nat
         /\ \A r \in 1 .. Len(setting.data) : size(r) \in Nat
         /\ setting.batches \subseteq Nat \ {0}
         /\ \A a \in Instances : setting.starts[a] \subseteq 1 .. Len(setting.data)
         /\ setting.PRESORTED =>
              \A i, j \in 1 .. Len(setting.data) : i < j => size(i) <= size(j)
<1>1. /\ setting.data \in Seq(Seq(Int)) /\ setting.batches \subseteq Nat \ {0}
      /\ \A a \in Instances : setting.starts[a] \subseteq 1 .. Len(setting.data)
      /\ setting.PRESORTED =>
           \A i, j \in 1 .. Len(setting.data) :
             i < j => Len(setting.data[i]) <= Len(setting.data[j])
  BY DatasetAssumption
<1>2. Len(setting.data) \in Nat
  BY <1>1, LenProperties
<1>3. ASSUME NEW r \in 1 .. Len(setting.data) PROVE size(r) \in Nat
  <2>1. setting.data[r] \in Seq(Int)
    BY <1>1, ElementOfSeq
  <2> QED  BY <2>1, LenProperties DEF size
<1> QED  BY <1>1, <1>2, <1>3 DEF size

(* The records of an instance are in the dataset.                          *)
LEMMA RecordFacts ==
  ASSUME GroupsInv, Counted, NEW a \in Instances, NEW id \in Ids(a)
  PROVE  /\ id \in Nat /\ first[a] \in Nat \ {0} /\ next_id[a] \in Nat
         /\ Record(a, id) \in 1 .. Len(setting.data) /\ size(Record(a, id)) \in Nat
<1>1. setting \in Settings
  BY DEF GroupsInv, Typed
<1>2. /\ first[a] \in Nat /\ next_id[a] \in Nat /\ (first[a] = 0 => next_id[a] = 0)
      /\ first[a] + next_id[a] <= Len(setting.data) + 1 /\ Len(setting.data) \in Nat
  BY <1>1, DataFacts DEF Counted
<1>3. id \in Nat /\ id < next_id[a]
  BY <1>2 DEF Ids
<1>4. Record(a, id) \in 1 .. Len(setting.data)
  BY <1>2, <1>3 DEF Record
<1> QED  BY <1>1, <1>2, <1>3, <1>4, DataFacts

LEMMA StateGroups ==
  ASSUME Typed, NEW s \in SharedStates
  PROVE  IsGroups(size_groups[s]) /\ \A n : GroupOf(s, n) = GroupIn(size_groups[s], n)
<1>1. size_groups[s] \in Seq(AllGroups)
  BY DEF Typed
<1>2. Len(size_groups[s]) \in Nat /\ DOMAIN size_groups[s] = 1 .. Len(size_groups[s])
  BY <1>1, LenProperties
<1>3. \A g \in 1 .. Len(size_groups[s]) : size_groups[s][g].upper \in Nat
  BY GroupOfState
<1> QED  BY <1>2, <1>3 DEF IsGroups, GroupOf, GroupIn

(* Groups are only appended.                                               *)
Extends ==
  \A s \in SharedStates :
    /\ IsGroups(size_groups'[s])
    /\ \A g \in 1 .. Len(size_groups[s]) :
         g \in 1 .. Len(size_groups'[s]) /\ size_groups'[s][g] = size_groups[s][g]

(* The keys of a record whose size has a group stay what they are.         *)
LEMMA KeysStay ==
  ASSUME GroupsInv, setting' = setting, Extends, NEW s \in SharedStates, NEW r,
         size(r) \in Nat, Reaches(size_groups[s], size(r))
  PROVE  Keys(s, r)' = Keys(s, r) /\ Reaches(size_groups'[s], size(r))
<1> DEFINE n == size(r)
           g == GroupIn(size_groups[s], n)
<1>1. IsGroups(size_groups[s]) /\ GroupOf(s, n) = g
  BY StateGroups DEF GroupsInv
<1>2. /\ Reaches(size_groups'[s], n) /\ GroupIn(size_groups'[s], n) = g
      /\ g \in 1 .. Len(size_groups[s])
  BY <1>1, GroupInStays DEF Extends
<1>3. GroupOf(s, size(r))' = g
  BY <1>2 DEF GroupOf, GroupIn, size
<1>4. size_groups'[s][g] = size_groups[s][g]
  BY <1>2 DEF Extends
<1> HIDE DEF g
<1>5. Keys(s, r) = {g} \X indexing_signatures(r, size_groups[s][g].partition_count)
  BY <1>1 DEF Keys
<1>6. Keys(s, r)' = {g} \X indexing_signatures(r, size_groups'[s][g].partition_count)
  BY <1>3 DEF Keys, indexing_signatures, normal_signature, without, Part, partition, TokenSet,
              tokens, ENABLE_DELETION
<1> QED  BY <1>2, <1>4, <1>5, <1>6

LEMMA KeysArePairs == \A a \in Instances : Pairs(KeysOf(a))
BY DEF Pairs, KeysOf, Keys

------------------------------------------------------------------------------
LEMMA InitIndexes == Init => IndexInv
<1> SUFFICES ASSUME Init PROVE IndexInv
  OBVIOUS
<1>1. /\ setting \in Settings /\ pc = "idle"
      /\ first = [a \in Instances |-> 0] /\ next_id = [a \in Instances |-> 0]
      /\ bitmap_size = [a \in Instances |-> 0]
      /\ index = [a \in Instances |-> <<>>]
  BY DEF Init, InitSets, InitJoin
<1>2. GroupsInv
  BY InitGroups
<1>3. Counted
  BY <1>1, DataFacts DEF Counted
<1>4. \A a \in Instances : Ids(a) = {}
  BY <1>1 DEF Ids
<1>5. ASSUME NEW a \in Instances PROVE Built(index[a], KeysOf(a))
  <2>1. DOMAIN index[a] = {} /\ DOMAIN KeysOf(a) = {}
    BY <1>1, <1>4 DEF KeysOf
  <2> QED  BY <2>1 DEF Built
<1> QED  BY <1>1, <1>2, <1>3, <1>4, <1>5 DEF IndexInv, BatchFits, Grouped, Rebuilt

AreGroups == \A s \in SharedStates : IsGroups(size_groups[s])

LEMMA GroupsAre == GroupsInv => AreGroups
BY StateGroups DEF GroupsInv, AreGroups

LEMMA GroupsAreNext == GroupsInv' => AreGroups'
BY GroupsAre, PTL

(* No step takes a group away.                                             *)
LEMMA GroupsExtend ==
  ASSUME GroupsInv, [Next]_pallocVars
  PROVE  GroupsInv' /\ Extends
<1>1. GroupsInv'
  BY GroupsStep
<1>2. \A s \in SharedStates : IsGroups(size_groups[s]) /\ IsGroups(size_groups'[s])
  BY <1>1, GroupsAre, GroupsAreNext DEF AreGroups
<1>3. Typed
  BY DEF GroupsInv
<1>4. ASSUME NEW s, append_next_size_group(s)
      PROVE  \A u \in SharedStates : \A g \in 1 .. Len(size_groups[u]) :
               g \in 1 .. Len(size_groups'[u]) /\ size_groups'[u][g] = size_groups[u][g]
  <2> SUFFICES ASSUME NEW u \in SharedStates, NEW g \in 1 .. Len(size_groups[u])
               PROVE  g \in 1 .. Len(size_groups'[u]) /\ size_groups'[u][g] = size_groups[u][g]
    OBVIOUS
  <2>1. CASE u = s
    <3>1. PICK e : size_groups'[s] = Append(size_groups[s], e)
      BY <1>3, <1>4, <2>1 DEF append_next_size_group, Typed
    <3>2. size_groups[s] \in Seq(AllGroups) /\ g \in 1 .. Len(size_groups[s])
      BY <1>3, <2>1 DEF Typed
    <3> QED  BY <2>1, <3>1, <3>2
  <2>2. CASE u # s
    BY <1>3, <1>4, <2>2 DEF append_next_size_group, Typed
  <2> QED  BY <2>1, <2>2
<1>5. ASSUME NEW a \in Instances, NEW r, Construct(a, r)
      PROVE  \A u \in SharedStates : \A g \in 1 .. Len(size_groups[u]) :
               g \in 1 .. Len(size_groups'[u]) /\ size_groups'[u][g] = size_groups[u][g]
  <2> SUFFICES ASSUME NEW u \in SharedStates, NEW g \in 1 .. Len(size_groups[u])
               PROVE  g \in 1 .. Len(size_groups'[u]) /\ size_groups'[u][g] = size_groups[u][g]
    OBVIOUS
  <2>1. size_groups[u] # <<>>
    BY EmptySeq
  <2>2. size_groups'[u] = size_groups[u]
    BY <1>3, <1>5, <2>1 DEF Construct, Typed
  <2> QED  BY <2>2
<1>6. ASSUME size_groups' = size_groups PROVE Extends
  BY <1>2, <1>6 DEF Extends
<1>7. \/ \E s : append_next_size_group(s)
      \/ \E a \in Instances : \E r : Construct(a, r)
      \/ size_groups' = size_groups
  <2>1. CASE UNCHANGED pallocVars
    BY <2>1 DEF pallocVars, pallocOwnVars
  <2>2. CASE Next
    BY <2>2
       DEF Next, InsertBatch, JoinBatch, Merge, AppendGroupForInsert, InsertRecord, InsertDone,
           AppendGroupForProbe, GetProbingSignatures, BeginSearch, SmallResults, ProbeSizeGroup,
           ProbePartition, GroupDone, SearchDone, VerifyCandidates, ReturnResults, Evict,
           pallocOwnVars
  <2> QED  BY <2>1, <2>2
<1> QED  BY <1>1, <1>2, <1>4, <1>5, <1>6, <1>7 DEF Extends

------------------------------------------------------------------------------
(* One lemma for each kind of step.  Where neither records nor indexes     *)
(* change, appended groups do not change the keys.                         *)
LEMMA KeysOfStay ==
  ASSUME IndexInv, Extends, setting' = setting, NEW a \in Instances,
         first'[a] = first[a], next_id'[a] = next_id[a]
  PROVE  /\ KeysOf(a)' = KeysOf(a)
         /\ \A id \in Ids(a)' : Reaches(size_groups[shared_state(a)], size(Record(a, id)))'
<1>1. setting \in Settings /\ shared_state(a) \in SharedStates /\ GroupsInv /\ Counted /\ Grouped
  BY StateOfInstance DEF IndexInv, GroupsInv, Typed
<1>2. Ids(a)' = Ids(a) /\ shared_state(a)' = shared_state(a)
  BY DEF Ids, shared_state
<1>3. ASSUME NEW id \in Ids(a)
      PROVE  /\ Record(a, id)' = Record(a, id)
             /\ Keys(shared_state(a), Record(a, id))' = Keys(shared_state(a), Record(a, id))
             /\ Reaches(size_groups[shared_state(a)], size(Record(a, id)))'
  <2> DEFINE r == Record(a, id)
             s == shared_state(a)
  <2>1. r \in 1 .. Len(setting.data) /\ size(r) \in Nat /\ Reaches(size_groups[s], size(r))
    BY <1>1, RecordFacts DEF Grouped
  <2>2. r' = r /\ s' = s
    BY DEF Record, shared_state
  <2>3. s \in SharedStates
    BY <1>1
  <2> HIDE DEF r, s
  <2>4. Keys(s, r)' = Keys(s', r') /\ Reaches(size_groups'[s], size(r))
    <3>1. \A t, q : t \in SharedStates /\ size(q) \in Nat /\ Reaches(size_groups[t], size(q))
                    => Keys(t, q)' = Keys(t, q) /\ Reaches(size_groups'[t], size(q))
      BY <1>1, KeysStay
    <3> QED  BY <2>1, <2>2, <2>3, <3>1
  <2> QED  BY <2>2, <2>4 DEF r, s, size
<1> QED  BY <1>2, <1>3 DEF KeysOf

LEMMA IndexesStay ==
  ASSUME IndexInv, GroupsInv', Extends,
         UNCHANGED <<setting, first, next_id, bitmap_size, index>>,
         pc' = "insert" => UNCHANGED <<pc, caller, last>>
  PROVE  IndexInv'
<1>1. Counted' /\ BatchFits'
  BY DEF IndexInv, Counted, BatchFits
<1>2. Grouped'
  BY KeysOfStay DEF Grouped
<1>3. Rebuilt'
  BY KeysOfStay DEF IndexInv, Rebuilt, Built, Ascends
<1> QED  BY <1>1, <1>2, <1>3 DEF IndexInv

LEMMA ConstructIndex ==
  ASSUME IndexInv, GroupsInv', Extends, NEW a \in Instances, NEW r \in setting.starts[a],
         Construct(a, r)
  PROVE  IndexInv'
<1>1. /\ pc = "idle" /\ first[a] = 0 /\ first' = [first EXCEPT ![a] = r]
      /\ UNCHANGED <<setting, pc, next_id, bitmap_size, index>>
  BY DEF Construct, ConstructFor, callVars
<1>2. setting \in Settings /\ Counted /\ Grouped /\ Rebuilt
  BY DEF IndexInv, GroupsInv, Typed
<1>3. r \in 1 .. Len(setting.data) /\ Len(setting.data) \in Nat
  BY <1>2, DataFacts
<1>4. next_id[a] = 0
  BY <1>1, <1>2 DEF Counted
<1>5. Counted'
  <2>1. first' \in [Instances -> Nat] /\ first'[a] = r
    BY <1>1, <1>2, <1>3 DEF Counted
  <2>2. \A b \in Instances \ {a} : first'[b] = first[b]
    BY <1>1, <1>2 DEF Counted
  <2>3. first'[a] # 0 /\ first'[a] + next_id[a] <= Len(setting.data) + 1
    BY <1>3, <1>4, <2>1
  <2> QED  BY <1>1, <1>2, <2>1, <2>2, <2>3 DEF Counted
<1>6. ASSUME NEW b \in Instances
      PROVE  /\ KeysOf(b)' = KeysOf(b)
             /\ \A id \in Ids(b)' : Reaches(size_groups[shared_state(b)], size(Record(b, id)))'
  <2>1. CASE b = a
    <3>1. Ids(b) = {} /\ Ids(b)' = {}
      BY <1>1, <1>4, <2>1 DEF Ids
    <3> QED  BY <3>1 DEF KeysOf
  <2>2. CASE b # a
    <3>1. first'[b] = first[b] /\ next_id'[b] = next_id[b]
      BY <1>1, <1>2, <2>2 DEF Counted
    <3> QED  BY <1>1, <3>1, KeysOfStay
  <2> QED  BY <2>1, <2>2
<1>7. Grouped'
  BY <1>6 DEF Grouped
<1>8. Rebuilt'
  BY <1>1, <1>2, <1>6 DEF Rebuilt, Built, Ascends
<1>9. BatchFits'
  BY <1>1 DEF BatchFits
<1> QED  BY <1>5, <1>7, <1>8, <1>9 DEF IndexInv

LEMMA InsertBatchIndex ==
  ASSUME IndexInv, GroupsInv', Extends, NEW a \in Instances, NEW n \in setting.batches,
         InsertBatch(a, n)
  PROVE  IndexInv'
<1>1. /\ first[a] # 0 /\ pc' = "insert" /\ caller' = a
      /\ last' = first[a] + next_id[a] + n - 1 /\ last' <= Len(setting.data)
      /\ bitmap_size' = [bitmap_size EXCEPT ![a] = Resized(@, next_id[a] + n)]
      /\ UNCHANGED <<setting, first, next_id, index>>
  BY DEF InsertBatch, CallInsert, pallocOwnVars
<1>2. setting \in Settings /\ Counted /\ Grouped /\ Rebuilt
  BY DEF IndexInv, GroupsInv, Typed
<1>3. n \in Nat \ {0} /\ Len(setting.data) \in Nat
  BY <1>2, DataFacts
<1>4. /\ first[a] \in Nat /\ next_id[a] \in Nat /\ bitmap_size[a] \in Nat
      /\ next_id[a] <= bitmap_size[a]
  BY <1>2 DEF Counted
<1>5. /\ bitmap_size'[a] = Resized(bitmap_size[a], next_id[a] + n)
      /\ bitmap_size'[a] \in Nat /\ next_id[a] + n <= bitmap_size'[a]
      /\ \A b \in Instances \ {a} : bitmap_size'[b] = bitmap_size[b]
      /\ DOMAIN bitmap_size' = Instances
  <2>1. bitmap_size'[a] = Resized(bitmap_size[a], next_id[a] + n)
    BY <1>1, <1>2 DEF Counted
  <2>2. next_id[a] + n \in Nat
    BY <1>3, <1>4
  <2>3. \A b \in Instances \ {a} : bitmap_size'[b] = bitmap_size[b]
    BY <1>1, <1>2 DEF Counted
  <2>4. DOMAIN bitmap_size' = Instances
    BY <1>1, <1>2 DEF Counted
  <2> QED  BY <1>4, <2>1, <2>2, <2>3, <2>4, BitmapGrows
<1>6. bitmap_size' \in [Instances -> Nat]
  <2>1. \A b \in Instances : bitmap_size'[b] \in Nat
    BY <1>2, <1>5 DEF Counted
  <2>2. bitmap_size' = [b \in Instances |-> bitmap_size'[b]]
    BY <1>1, <1>2 DEF Counted
  <2> QED  BY <2>1, <2>2
<1>7. \A b \in Instances : next_id[b] <= bitmap_size'[b]
  <2>1. next_id[a] <= bitmap_size'[a]
    BY <1>3, <1>4, <1>5
  <2>2. \A b \in Instances \ {a} : next_id[b] <= bitmap_size'[b]
    BY <1>2, <1>5 DEF Counted
  <2> QED  BY <2>1, <2>2
<1>8. Counted'
  BY <1>1, <1>2, <1>6, <1>7 DEF Counted
<1>9. BatchFits'
  BY <1>1, <1>3, <1>4, <1>5 DEF BatchFits
<1>10. Grouped'
  BY <1>1, KeysOfStay DEF Grouped
<1>11. Rebuilt'
  BY <1>1, <1>2, KeysOfStay DEF Rebuilt, Built, Ascends
<1> QED  BY <1>8, <1>9, <1>10, <1>11 DEF IndexInv

(* A record gets its keys in an index of earlier records.  A presorted     *)
(* index has no group after the one of the record.                         *)
LEMMA InsertRecordIndex ==
  ASSUME IndexInv, GroupsInv', Extends, InsertRecord
  PROVE  IndexInv'
<1> DEFINE a == caller
           s == shared_state(caller)
           r == Inserting
           n == next_id[caller]
           gs == size_groups[shared_state(caller)]
           g == GroupOf(shared_state(caller), size(Inserting))
           signatures == indexing_signatures(r, size_groups[s][g].partition_count)
<1>1. /\ pc = "insert" /\ r <= last
      /\ next_id' = [next_id EXCEPT ![a] = @ + 1]
      /\ ~(Back(s).upper < size(r))
      /\ index' = [index EXCEPT ![a] = Inserted(@, GetGroup(@, g), signatures, n)]
      /\ UNCHANGED <<setting, pc, caller, last, first, bitmap_size, size_groups>>
  BY DEF InsertRecord, InsertSet, InsertNext, callVars, argVars
<1>2. /\ GroupsInv /\ Typed /\ setting \in Settings /\ Counted /\ BatchFits /\ Grouped /\ Rebuilt
      /\ a \in Instances /\ s \in SharedStates /\ Len(gs) > 0
  BY <1>1, StateOfInstance DEF IndexInv, GroupsInv, Typed, Started
<1>3. /\ first[a] \in Nat \ {0} /\ n \in Nat /\ last \in Nat /\ last <= Len(setting.data)
      /\ r = first[a] + n /\ Len(setting.data) \in Nat
      /\ last - first[a] + 1 <= bitmap_size[a] /\ bitmap_size[a] \in Nat
  BY <1>1, <1>2, DataFacts DEF Counted, BatchFits, Inserting, Record
<1>4. r \in 1 .. Len(setting.data) /\ size(r) \in Nat
  <2>1. r \in 1 .. Len(setting.data)
    BY <1>1, <1>3
  <2> QED  BY <1>2, <2>1, DataFacts
<1>5. IsGroups(gs) /\ Reaches(gs, size(r)) /\ g = GroupIn(gs, size(r))
  <2>1. IsGroups(gs) /\ g = GroupIn(gs, size(r))
    BY <1>2, StateGroups
  <2>2. Len(gs) \in 1 .. Len(gs) /\ gs[Len(gs)].upper \in Nat
    BY <1>2, <2>1 DEF IsGroups
  <2>3. size(r) <= gs[Len(gs)].upper
    BY <1>1, <1>4, <2>2 DEF Back
  <2> QED  BY <2>1, <2>2, <2>3 DEF Reaches
<1>6. GetGroup(index[a], g) = g
  <2>1. CASE ~setting.PRESORTED
    BY <2>1 DEF GetGroup
  <2>2. CASE setting.PRESORTED
    <3>1. g \in 1 .. Len(gs) /\ Len(gs) \in Nat
      BY <1>4, <1>5, GroupInFacts DEF IsGroups
    <3>2. ASSUME NEW h \in Groups(index[a]) PROVE h \in Nat /\ h <= g
      <4>1. PICK k \in DOMAIN index[a] : h = k[1]
        BY DEF Groups
      <4>2. PICK id \in Ids(a) : k \in Keys(s, Record(a, id))
        BY <1>2 DEF Rebuilt, Built, KeysOf
      <4> DEFINE q == Record(a, id)
      <4>3. h = GroupOf(s, size(q))
        BY <4>1, <4>2 DEF Keys
      <4>4. q \in 1 .. Len(setting.data) /\ size(q) \in Nat /\ id \in Nat
        BY <1>2, RecordFacts
      <4>5. q < r
        <5>1. id < n
          BY <1>3, <4>4 DEF Ids
        <5> QED  BY <1>3, <4>4, <5>1 DEF Record
      <4>6. size(q) <= size(r)
        BY <1>2, <1>4, <2>2, <4>4, <4>5, DataFacts
      <4>7. Reaches(gs, size(q)) /\ h = GroupIn(gs, size(q))
        BY <1>2, <4>3, StateGroups DEF Grouped
      <4>8. h \in 1 .. Len(gs)
        BY <1>5, <4>4, <4>7, GroupInFacts
      <4> QED  BY <1>4, <1>5, <3>1, <4>4, <4>6, <4>7, <4>8, GroupInMonotonic
    <3>3. ASSUME NEW h \in Groups(index[a]), h >= g PROVE h = g
      BY <3>1, <3>2, <3>3
    <3> HIDE DEF g
    <3> QED  BY <2>2, <3>1, <3>2, <3>3 DEF GetGroup
  <2> QED  BY <2>1, <2>2
<1>7. ASSUME NEW b \in Instances \ {a}
      PROVE  /\ KeysOf(b)' = KeysOf(b) /\ index'[b] = index[b]
             /\ \A id \in Ids(b)' : Reaches(size_groups[shared_state(b)], size(Record(b, id)))'
  <2>1. first'[b] = first[b] /\ next_id'[b] = next_id[b] /\ index'[b] = index[b]
    BY <1>1, <1>2 DEF Counted, Rebuilt
  <2> QED  BY <1>1, <2>1, KeysOfStay
<1>8. /\ Ids(a) = 0 .. n - 1 /\ Ids(a)' = 0 .. n
      /\ s' = s /\ \A id : Record(a, id)' = Record(a, id)
      /\ \A id : Keys(s, Record(a, id))' = Keys(s, Record(a, id))
  <2>1. next_id'[a] = n + 1
    BY <1>1, <1>2 DEF Counted
  <2>2. Ids(a) = 0 .. n - 1 /\ Ids(a)' = 0 .. n
    BY <1>1, <1>3, <2>1 DEF Ids
  <2>3. s' = s /\ \A id : Record(a, id)' = Record(a, id)
    BY <1>1 DEF shared_state, Record
  <2>4. \A id : Keys(s, Record(a, id))' = Keys(s, Record(a, id))
    <3>1. \A t, q : Keys(t, q)' = Keys(t, q)
      <4> TAKE t, q
      <4> DEFINE h == GroupOf(t, size(q))
      <4>1. h' = h
        BY <1>1 DEF GroupOf, size
      <4>2. /\ Keys(t, q) = {h} \X indexing_signatures(q, size_groups[t][h].partition_count)
            /\ Keys(t, q)' =
                 {h'} \X indexing_signatures(q, size_groups[t][h].partition_count)'
        BY DEF Keys
      <4> HIDE DEF h
      <4>3. indexing_signatures(q, size_groups[t][h].partition_count)'
              = indexing_signatures(q, size_groups[t][h].partition_count)
        BY <1>1, <4>1 DEF indexing_signatures, normal_signature, without, Part, partition,
                          TokenSet, tokens, ENABLE_DELETION
      <4> QED  BY <4>1, <4>2, <4>3
    <3> TAKE id
    <3> DEFINE q == Record(a, id)
    <3>2. q' = q /\ s' = s
      BY <2>3
    <3> HIDE DEF q, s
    <3> QED  BY <3>1, <3>2 DEF q
  <2> QED  BY <2>2, <2>3, <2>4
<1>9. Keys(s, Record(a, n)) = {g} \X signatures /\ r = Record(a, n)
  BY DEF Keys, Inserting
<1>10. Built(index'[a], KeysOf(a)')
  <2> DEFINE more == KeysOf(a)'
  <2>1. more = [id \in 0 .. n |-> Keys(s, Record(a, id))]
    BY <1>1, <1>8 DEF KeysOf
  <2>2. /\ DOMAIN more = 0 .. n /\ more[n] = {g} \X signatures
        /\ \A id \in 0 .. n - 1 : more[id] = KeysOf(a)[id]
    BY <1>3, <1>8, <1>9, <2>1 DEF KeysOf
  <2>3. DOMAIN KeysOf(a) = 0 .. n - 1 /\ Built(index[a], KeysOf(a))
    BY <1>2, <1>8 DEF KeysOf, Rebuilt
  <2>4. index'[a] = Inserted(index[a], g, signatures, n)
    BY <1>1, <1>2, <1>6 DEF Rebuilt
  <2> DEFINE keys == KeysOf(a)
             ix == index[a]
  <2>5. /\ n \in Nat /\ DOMAIN keys = 0 .. n - 1 /\ Built(ix, keys)
        /\ DOMAIN more = 0 .. n /\ more[n] = {g} \X signatures
        /\ \A id \in 0 .. n - 1 : more[id] = keys[id]
    BY <1>3, <2>2, <2>3
  <2> HIDE DEF more, signatures, g, n, keys, ix
  <2>6. Built(Inserted(ix, g, signatures, n), more)
    BY <2>5, BuiltInsert
  <2> QED  BY <2>4, <2>6 DEF more, ix
<1>11. Rebuilt'
  <2>1. \A b \in Instances : Built(index[b], KeysOf(b))'
    <3> TAKE b \in Instances
    <3>1. CASE b = a
      BY <1>1, <1>10, <3>1 DEF Built, Ascends, KeysOf, Ids, Record, shared_state
    <3>2. CASE b # a
      BY <1>2, <1>7, <3>2 DEF Rebuilt, Built, Ascends
    <3> QED  BY <3>1, <3>2
  <2> QED  BY <1>1, <1>2, <2>1 DEF Rebuilt
<1>12. Grouped'
  <2> SUFFICES ASSUME NEW b \in Instances, NEW id \in Ids(b)'
               PROVE  Reaches(size_groups[shared_state(b)], size(Record(b, id)))'
    BY DEF Grouped
  <2>1. CASE b # a
    BY <1>7, <2>1
  <2>2. CASE b = a /\ id \in 0 .. n - 1
    <3>1. Reaches(size_groups[shared_state(b)], size(Record(b, id)))
      BY <1>2, <1>8, <2>2 DEF Grouped
    <3> QED  BY <1>1, <3>1 DEF shared_state, Record, Reaches, size
  <2>3. CASE b = a /\ id = n
    BY <1>1, <1>5, <1>9, <2>3 DEF shared_state, Record, Reaches, size
  <2>4. b = a => id \in 0 .. n - 1 \/ id = n
    <3> SUFFICES ASSUME b = a PROVE id \in 0 .. n - 1 \/ id = n
      OBVIOUS
    <3>1. id \in 0 .. n
      BY <1>1, <1>8 DEF Ids
    <3> QED  BY <1>3, <3>1
  <2> QED  BY <2>1, <2>2, <2>3, <2>4
<1>13. Counted' /\ BatchFits'
  <2>1. next_id' \in [Instances -> Nat] /\ next_id'[a] = n + 1
    BY <1>1, <1>2, <1>3 DEF Counted
  <2>2. /\ first[a] + next_id'[a] <= Len(setting.data) + 1
        /\ first[a] + next_id'[a] <= last + 1
        /\ next_id'[a] <= bitmap_size[a]
    BY <1>1, <1>3, <2>1
  <2>3. \A b \in Instances \ {a} : next_id'[b] = next_id[b]
    BY <1>1, <1>2 DEF Counted
  <2>4. Counted'
    BY <1>1, <1>2, <1>3, <2>1, <2>2, <2>3 DEF Counted
  <2>5. BatchFits'
    BY <1>1, <1>2, <2>2 DEF BatchFits
  <2> QED  BY <2>4, <2>5
<1> QED  BY <1>11, <1>12, <1>13 DEF IndexInv

(* The records of the merged instance follow those of the other one, so    *)
(* their ids are moved by the number of those, and their keys are the      *)
(* same: both have one shared state.                                       *)
LEMMA MergeIndex ==
  ASSUME IndexInv, GroupsInv', Extends, NEW a \in Instances, NEW b \in Instances, Merge(a, b)
  PROVE  IndexInv'
<1> DEFINE n == next_id[a]
           m == next_id[b]
           s == shared_state(a)
<1>1. /\ shared_state(a) = shared_state(b) /\ pc = "idle" /\ a # b
      /\ n > 0 /\ m > 0 /\ first[b] = first[a] + n
      /\ next_id' = [next_id EXCEPT ![a] = @ + m, ![b] = 0]
      /\ bitmap_size' = [bitmap_size EXCEPT ![a] = Resized(@, n + m), ![b] = 0]
      /\ first' = [first EXCEPT ![b] = 0]
      /\ index' = [index EXCEPT ![a] = Merged(@, index[b], n), ![b] = <<>>]
      /\ UNCHANGED <<setting, pc, size_groups>>
  BY DEF Merge, MergeSets, MergeInto, callVars
<1>2. setting \in Settings /\ Counted /\ Grouped /\ Rebuilt
  BY DEF IndexInv, GroupsInv, Typed
<1>3. /\ first[a] \in Nat \ {0} /\ first[b] \in Nat /\ n \in Nat \ {0} /\ m \in Nat \ {0}
      /\ first[b] + m <= Len(setting.data) + 1 /\ Len(setting.data) \in Nat
      /\ bitmap_size[a] \in Nat
  BY <1>1, <1>2, DataFacts DEF Counted
<1>4. /\ next_id'[a] = n + m /\ next_id'[b] = 0
      /\ first'[a] = first[a] /\ first'[b] = 0
      /\ bitmap_size'[a] = Resized(bitmap_size[a], n + m) /\ bitmap_size'[b] = 0
      /\ index'[a] = Merged(index[a], index[b], n) /\ index'[b] = <<>>
      /\ DOMAIN index' = Instances
  BY <1>1, <1>2 DEF Counted, Rebuilt
<1>5. ASSUME NEW c \in Instances \ {a, b}
      PROVE  /\ next_id'[c] = next_id[c] /\ first'[c] = first[c]
             /\ bitmap_size'[c] = bitmap_size[c] /\ index'[c] = index[c]
  BY <1>1, <1>2 DEF Counted, Rebuilt
<1>6. bitmap_size'[a] \in Nat /\ n + m <= bitmap_size'[a]
  <2>1. n + m \in Nat
    BY <1>3
  <2> QED  BY <1>3, <1>4, <2>1, BitmapGrows
<1>7. Counted'
  <2>1. \A c \in Instances :
          /\ first'[c] \in Nat /\ next_id'[c] \in Nat /\ bitmap_size'[c] \in Nat
          /\ first'[c] = 0 => next_id'[c] = 0
          /\ first'[c] + next_id'[c] <= Len(setting.data) + 1
          /\ next_id'[c] <= bitmap_size'[c]
    <3> TAKE c \in Instances
    <3>1. CASE c = a
      <4>1. first[a] + (n + m) <= Len(setting.data) + 1 /\ n + m \in Nat
        BY <1>1, <1>3
      <4>2. first'[c] \in Nat \ {0} /\ first'[c] = first[a] /\ next_id'[c] = n + m
        BY <1>3, <1>4, <3>1
      <4> QED  BY <1>6, <3>1, <4>1, <4>2
    <3>2. CASE c = b
      <4>1. first'[c] = 0 /\ next_id'[c] = 0 /\ bitmap_size'[c] = 0
        BY <1>4, <3>2
      <4> QED  BY <1>3, <4>1
    <3>3. CASE c \in Instances \ {a, b}
      BY <1>2, <1>5, <3>3 DEF Counted
    <3> QED  BY <3>1, <3>2, <3>3
  <2>2. /\ first' = [c \in Instances |-> first'[c]]
        /\ next_id' = [c \in Instances |-> next_id'[c]]
        /\ bitmap_size' = [c \in Instances |-> bitmap_size'[c]]
    BY <1>1, <1>2 DEF Counted
  <2>3. /\ first' \in [Instances -> Nat] /\ next_id' \in [Instances -> Nat]
        /\ bitmap_size' \in [Instances -> Nat]
    BY <2>1, <2>2
  <2> QED  BY <1>1, <2>1, <2>3 DEF Counted
<1>8. /\ Ids(a)' = 0 .. n + m - 1 /\ Ids(a) = 0 .. n - 1 /\ Ids(b) = 0 .. m - 1 /\ Ids(b)' = {}
  BY <1>3, <1>4 DEF Ids
<1>9. /\ \A id \in 0 .. n - 1 : first'[a] + id = Record(a, id)
      /\ \A id \in 0 .. m - 1 : first'[a] + (id + n) = Record(b, id)
  <2>1. \A id \in 0 .. n - 1 : first'[a] + id = Record(a, id)
    BY <1>4 DEF Record
  <2>2. ASSUME NEW id \in 0 .. m - 1 PROVE first[a] + (id + n) = first[b] + id
    BY <1>1, <1>3
  <2> QED  BY <1>4, <2>1, <2>2 DEF Record
<1>10. shared_state(a)' = s /\ shared_state(b) = s
  BY <1>1 DEF shared_state
<1>11. ASSUME NEW t, NEW q
       PROVE  /\ Keys(t, q)' = Keys(t, q)
              /\ Reaches(size_groups[t], size(q))' <=> Reaches(size_groups[t], size(q))
  <2> DEFINE h == GroupOf(t, size(q))
  <2>1. h' = h
    BY <1>1 DEF GroupOf, size
  <2>2. /\ Keys(t, q) = {h} \X indexing_signatures(q, size_groups[t][h].partition_count)
        /\ Keys(t, q)' = {h'} \X indexing_signatures(q, size_groups[t][h].partition_count)'
    BY DEF Keys
  <2> HIDE DEF h
  <2>3. indexing_signatures(q, size_groups[t][h].partition_count)'
          = indexing_signatures(q, size_groups[t][h].partition_count)
    BY <1>1, <2>1 DEF indexing_signatures, normal_signature, without, Part, partition,
                      TokenSet, tokens, ENABLE_DELETION
  <2>4. Reaches(size_groups[t], size(q))' <=> Reaches(size_groups[t], size(q))
    BY <1>1 DEF Reaches, size
  <2> QED  BY <2>1, <2>2, <2>3, <2>4
<1>12. KeysOf(a)' = [id \in 0 .. n + m - 1 |-> Keys(s, first'[a] + id)]
  <2>1. KeysOf(a)' = [id \in Ids(a)' |-> Keys(shared_state(a), Record(a, id))']
    BY DEF KeysOf
  <2>2. ASSUME NEW id PROVE Keys(shared_state(a), Record(a, id))' = Keys(s, first'[a] + id)
    <3> DEFINE t == shared_state(a)
               q == Record(a, id)
    <3>1. Keys(t, q)' = Keys(t', q')
      <4>1. \A t1, q1 : Keys(t1, q1)' = Keys(t1, q1)
        BY <1>11
      <4> HIDE DEF t, q
      <4> QED  BY <4>1
    <3>2. q' = first'[a] + id
      BY DEF Record
    <3> QED  BY <1>10, <3>1, <3>2
  <2> QED  BY <1>8, <2>1, <2>2
<1>13. /\ \A id \in 0 .. n - 1 : id \in 0 .. n + m - 1 /\ KeysOf(a)'[id] = KeysOf(a)[id]
       /\ \A id \in 0 .. m - 1 : id + n \in 0 .. n + m - 1 /\ KeysOf(a)'[id + n] = KeysOf(b)[id]
       /\ DOMAIN KeysOf(a) = 0 .. n - 1 /\ DOMAIN KeysOf(b) = 0 .. m - 1
       /\ DOMAIN KeysOf(a)' = 0 .. n + m - 1
  <2>1. /\ DOMAIN KeysOf(a) = 0 .. n - 1 /\ DOMAIN KeysOf(b) = 0 .. m - 1
        /\ DOMAIN KeysOf(a)' = 0 .. n + m - 1
    BY <1>8, <1>12 DEF KeysOf
  <2>2. ASSUME NEW id \in 0 .. n - 1
        PROVE  id \in 0 .. n + m - 1 /\ KeysOf(a)'[id] = KeysOf(a)[id]
    <3>1. id \in 0 .. n + m - 1
      BY <1>3
    <3>2. KeysOf(a)'[id] = Keys(s, first'[a] + id)
      BY <1>12, <3>1
    <3>3. KeysOf(a)[id] = Keys(s, Record(a, id))
      BY <1>8 DEF KeysOf
    <3> QED  BY <1>9, <3>1, <3>2, <3>3
  <2>3. ASSUME NEW id \in 0 .. m - 1
        PROVE  id + n \in 0 .. n + m - 1 /\ KeysOf(a)'[id + n] = KeysOf(b)[id]
    <3>1. id + n \in 0 .. n + m - 1
      BY <1>3
    <3>2. KeysOf(a)'[id + n] = Keys(s, first'[a] + (id + n))
      BY <1>12, <3>1
    <3>3. KeysOf(b)[id] = Keys(s, Record(b, id))
      BY <1>8, <1>10 DEF KeysOf
    <3> QED  BY <1>9, <3>1, <3>2, <3>3
  <2> QED  BY <2>1, <2>2, <2>3
<1>14. Built(index'[a], KeysOf(a)')
  <2> DEFINE all == KeysOf(a)'
             keys == KeysOf(a)
             keys2 == KeysOf(b)
             ix == index[a]
             ix2 == index[b]
  <2>1. /\ n \in Nat /\ m \in Nat
        /\ Built(ix, keys) /\ Pairs(keys) /\ Built(ix2, keys2) /\ Pairs(keys2)
        /\ DOMAIN keys = 0 .. n - 1 /\ DOMAIN keys2 = 0 .. m - 1 /\ DOMAIN all = 0 .. n + m - 1
        /\ \A id \in 0 .. n - 1 : all[id] = keys[id]
        /\ \A id \in 0 .. m - 1 : all[id + n] = keys2[id]
    BY <1>2, <1>3, <1>13, KeysArePairs DEF Rebuilt
  <2> HIDE DEF all, keys, keys2, ix, ix2, n, m
  <2>2. Follow(keys, n, keys2, m, all)
    BY <2>1 DEF Follow
  <2>3. Built(Merged(ix, ix2, n), all)
    BY <2>1, <2>2, BuiltMerge
  <2> QED  BY <1>4, <2>3 DEF all, ix, ix2, n
<1>15. Built(index'[b], KeysOf(b)')
  <2>1. DOMAIN index'[b] = {} /\ DOMAIN KeysOf(b)' = {}
    BY <1>4, <1>8 DEF KeysOf
  <2> QED  BY <2>1 DEF Built
<1>16. Rebuilt'
  <2>1. \A c \in Instances : Built(index'[c], KeysOf(c)')
    <3> TAKE c \in Instances
    <3>1. CASE c \in Instances \ {a, b}
      BY <1>1, <1>2, <1>5, <3>1, KeysOfStay DEF Rebuilt
    <3> QED  BY <1>14, <1>15, <3>1
  <2>2. \A c \in Instances : Built(index[c], KeysOf(c))'
    BY <2>1 DEF Built, Ascends
  <2> QED  BY <1>4, <2>2 DEF Rebuilt
<1>17. Grouped'
  <2> SUFFICES ASSUME NEW c \in Instances, NEW id \in Ids(c)'
               PROVE  Reaches(size_groups[shared_state(c)], size(Record(c, id)))'
    BY DEF Grouped
  <2>1. CASE c \in Instances \ {a, b}
    <3>1. first'[c] = first[c] /\ next_id'[c] = next_id[c]
      BY <1>5, <2>1
    <3> QED  BY <1>1, <3>1, KeysOfStay
  <2>2. CASE c = b
    BY <1>8, <2>2 DEF Ids
  <2>3. CASE c = a
    <3>1. id \in 0 .. n + m - 1
      BY <1>8, <2>3 DEF Ids
    <3>2. Reaches(size_groups[s], size(first'[a] + id))
      <4>1. CASE id \in 0 .. n - 1
        BY <1>2, <1>8, <1>9, <4>1 DEF Grouped
      <4>2. CASE id \notin 0 .. n - 1
        <5>1. id - n \in 0 .. m - 1 /\ (id - n) + n = id
          <6>1. n \in Nat /\ m \in Nat
            BY <1>3
          <6> HIDE DEF n, m
          <6> QED  BY <3>1, <4>2, <6>1
        <5>2. first'[a] + id = Record(b, id - n)
          BY <1>9, <5>1
        <5> QED  BY <1>2, <1>8, <1>10, <5>1, <5>2 DEF Grouped
      <4> QED  BY <4>1, <4>2
    <3> QED  BY <1>1, <1>10, <2>3, <3>2 DEF Reaches, size, Record, shared_state
  <2> QED  BY <2>1, <2>2, <2>3
<1>18. BatchFits'
  BY <1>1 DEF BatchFits
<1> QED  BY <1>7, <1>16, <1>17, <1>18 DEF IndexInv

LEMMA IndexStep ==
  ASSUME IndexInv, [Next]_pallocVars
  PROVE  IndexInv'
<1>0. GroupsInv' /\ Extends
  BY GroupsExtend DEF IndexInv
<1>1. CASE UNCHANGED pallocVars
  <2>1. UNCHANGED <<setting, pc, caller, last, first, next_id, bitmap_size, index>>
    BY <1>1 DEF pallocVars, setVars, joinVars, callVars, argVars, instanceVars, pallocOwnVars
  <2> QED  BY <1>0, <2>1, IndexesStay
<1>2. ASSUME NEW a \in Instances, NEW r \in setting.starts[a], Construct(a, r)
      PROVE  IndexInv'
  BY <1>0, <1>2, ConstructIndex
<1>3. ASSUME NEW a \in Instances, NEW n \in setting.batches, InsertBatch(a, n)
      PROVE  IndexInv'
  BY <1>0, <1>3, InsertBatchIndex
<1>4. ASSUME NEW a \in Instances, NEW r, NEW f, JoinBatch(a, r, f)
      PROVE  IndexInv'
  BY <1>0, <1>4, IndexesStay DEF JoinBatch, CallJoin, instanceVars, pallocOwnVars
<1>5. ASSUME NEW a \in Instances, NEW b \in Instances, Merge(a, b)
      PROVE  IndexInv'
  BY <1>0, <1>5, MergeIndex
<1>6. CASE AppendGroupForInsert \/ AppendGroupForProbe \/ GetProbingSignatures
  BY <1>0, <1>6, IndexesStay
     DEF AppendGroupForInsert, AppendGroupForProbe, GetProbingSignatures, setVars, joinVars,
         callVars, argVars, instanceVars
<1>7. CASE InsertRecord
  BY <1>0, <1>7, InsertRecordIndex
<1>8. CASE InsertDone
  BY <1>0, <1>8, IndexesStay DEF InsertDone, EndInsert, CallEnds, instanceVars, pallocOwnVars
<1>9. CASE BeginSearch \/ ProbeSizeGroup \/ GroupDone \/ SearchDone
  BY <1>0, <1>9, IndexesStay
     DEF BeginSearch, ProbeSizeGroup, GroupDone, SearchDone, GoOn, instanceVars, pallocOwnVars
<1>10. CASE SmallResults \/ ProbePartition
  BY <1>0, <1>10, IndexesStay
     DEF SmallResults, AddSmallResults, ProbePartition, FindMore, instanceVars, pallocOwnVars
<1>11. CASE VerifyCandidates \/ ReturnResults
  BY <1>0, <1>11, IndexesStay
     DEF VerifyCandidates, Verify, ReturnResults, Return, CallEnds, instanceVars, pallocOwnVars
<1>12. ASSUME NEW r, Evict(r)
       PROVE  IndexInv'
  BY <1>0, <1>12, IndexesStay DEF Evict, setVars, joinVars, callVars, argVars, instanceVars
<1> QED
  BY <1>1, <1>2, <1>3, <1>4, <1>5, <1>6, <1>7, <1>8, <1>9, <1>10, <1>11, <1>12 DEF Next

(* The invariant says of every list what the property says.                *)
LEMMA InvImpliesRebuild == IndexInv => IndexIsRebuild
<1> SUFFICES ASSUME IndexInv, NEW a \in Instances
             PROVE  /\ next_id[a] <= bitmap_size[a]
                    /\ IsRebuild(index[a], a, LAMBDA r : Keys(shared_state(a), r))
  BY DEF IndexIsRebuild
<1>1. Counted /\ Built(index[a], KeysOf(a))
  BY DEF IndexInv, Rebuilt
<1>2. next_id[a] <= bitmap_size[a]
  BY <1>1 DEF Counted
<1>3. DOMAIN index[a] = UNION {Keys(shared_state(a), r) : r \in Indexed(a)}
  <2>1. \A k : k \in DOMAIN index[a] <=> \E id \in Ids(a) : k \in Keys(shared_state(a), Record(a, id))
    BY <1>1 DEF Built, KeysOf
  <2> QED  BY <2>1 DEF Indexed
<1>4. ASSUME NEW k \in DOMAIN index[a]
      PROVE  /\ ToSet(index[a][k]) = {id \in Ids(a) : k \in Keys(shared_state(a), Record(a, id))}
             /\ \A m, n \in DOMAIN index[a][k] : m < n => index[a][k][m] < index[a][k][n]
  <2>1. /\ index[a][k] \in Seq(Nat) /\ Ascends(index[a][k])
        /\ \A id : id \in ToSet(index[a][k]) <=>
             id \in Ids(a) /\ k \in Keys(shared_state(a), Record(a, id))
    BY <1>1 DEF Built, KeysOf
  <2>2. DOMAIN index[a][k] = 1 .. Len(index[a][k])
    BY <2>1, LenProperties
  <2>3. ToSet(index[a][k]) = {id \in Ids(a) : k \in Keys(shared_state(a), Record(a, id))}
    BY <2>1
  <2> QED  BY <2>1, <2>2, <2>3 DEF Ascends
<1> QED  BY <1>2, <1>3, <1>4 DEF IsRebuild

(* Whatever was inserted into which instance, merged and probed, with      *)
(* groups that grow in between, presorted or not, the index of an instance *)
(* is that of its records inserted one by one, and its bitmap has a bit    *)
(* for each of them (palloc_join.cc 11-48, 216-217, index.hh insert and    *)
(* merge, signature_join.hh 77-81).                                        *)
THEOREM IndexesAreRebuilds == Spec => []IndexIsRebuild
<1>1. Init => IndexInv
  BY InitIndexes
<1>2. IndexInv /\ [Next]_pallocVars => IndexInv'
  BY IndexStep
<1>3. IndexInv => IndexIsRebuild
  BY InvImpliesRebuild
<1> QED  BY <1>1, <1>2, <1>3, PTL DEF Spec
------------------------------------------------------------------------------
(* Budgets.  The Jaro distance allowed for two lengths is a fraction that   *)
(* grows with the longer one and, if that is long enough, as the shorter   *)
(* one shrinks.                                                            *)
JaroTop(s, x, y) == s.den * ((x + y) * (x + y)) - 2 * ((3 * s.num - s.den) * (x * y))
JaroBottom(s, x, y) == s.den * (x + y)

LEMMA JaroHd ==
  ASSUME NEW s, IsJaro(s), NEW x \in Nat \ {0}, NEW y \in Nat \ {0}
  PROVE  /\ JaroTop(s, x, y) \in Nat /\ JaroBottom(s, x, y) \in Nat \ {0}
         /\ equivalent_hd(s, x, y) = JaroTop(s, x, y) \div JaroBottom(s, x, y)
         /\ equivalent_hd(s, x, y) \in Nat
<1> DEFINE d == s.den
           C == 3 * s.num - d
           f1 == C * x * y
           f2 == d * (x + y)
           top == d * ((x + y) * (x + y)) - 2 * (C * (x * y))
<1>1. d \in Nat \ {0} /\ C \in Nat /\ C <= 2 * d
  BY DEF IsJaro
<1>2. equivalent_hd(s, x, y) = truncate((x + y) * f2 - 2 * f1, f2)
  <2>1. fractional_overlap(s, x, y) = <<f1, f2>>
    BY DEF IsJaro, fractional_overlap
  <2> QED  BY <2>1 DEF equivalent_hd
<1>3. top = JaroTop(s, x, y) /\ f2 = JaroBottom(s, x, y)
  BY DEF JaroTop, JaroBottom
<1> HIDE DEF d, C
<1>4. (x + y) * f2 - 2 * f1 = top
  BY <1>1
<1>5. f2 \in Nat \ {0}
  <2>1. d \in Nat \ {0} /\ x + y \in Nat \ {0}
    BY <1>1
  <2> QED  BY <2>1
<1>6. top \in Nat
  <2>1. top = d * ((x - y) * (x - y)) + 2 * ((2 * d - C) * (x * y))
    BY <1>1
  <2>2. (x - y) * (x - y) \in Nat /\ x * y \in Nat /\ 2 * d - C \in Nat
    BY <1>1
  <2>3. d * ((x - y) * (x - y)) \in Nat /\ (2 * d - C) * (x * y) \in Nat
    BY <1>1, <2>2
  <2> HIDE DEF top
  <2> QED  BY <2>1, <2>3
<1> HIDE DEF top, f1, f2
<1>7. top \div f2 \in Nat
  BY <1>5, <1>6
<1>8. truncate(top, f2) = top \div f2
  BY <1>6 DEF truncate
<1> QED  BY <1>2, <1>3, <1>4, <1>5, <1>6, <1>7, <1>8

(* The longer of two sets grows.                                           *)
LEMMA JaroHdGrows ==
  ASSUME NEW s, IsJaro(s), NEW x \in Nat \ {0}, NEW a \in Nat, NEW b \in Nat, x <= a, a <= b
  PROVE  equivalent_hd(s, x, a) <= equivalent_hd(s, x, b)
<1> DEFINE d == s.den
           C == 3 * s.num - d
<1>1. d \in Nat \ {0} /\ C \in Nat /\ C <= 2 * d /\ a \in Nat \ {0} /\ b \in Nat \ {0}
  BY DEF IsJaro
<1>2. /\ JaroTop(s, x, a) \in Nat /\ JaroTop(s, x, b) \in Nat
      /\ JaroBottom(s, x, a) \in Nat \ {0} /\ JaroBottom(s, x, b) \in Nat \ {0}
      /\ equivalent_hd(s, x, a) = JaroTop(s, x, a) \div JaroBottom(s, x, a)
      /\ equivalent_hd(s, x, b) = JaroTop(s, x, b) \div JaroBottom(s, x, b)
  BY <1>1, JaroHd
<1>3. /\ JaroTop(s, x, a) = d * ((x + a) * (x + a)) - 2 * (C * (x * a))
      /\ JaroTop(s, x, b) = d * ((x + b) * (x + b)) - 2 * (C * (x * b))
      /\ JaroBottom(s, x, a) = d * (x + a) /\ JaroBottom(s, x, b) = d * (x + b)
  BY DEF JaroTop, JaroBottom
<1> HIDE DEF d, C
<1> DEFINE u == (x + a) * (x + b)
           e == d * u - 2 * (C * (x * x))
<1>4. JaroTop(s, x, b) * JaroBottom(s, x, a) - JaroTop(s, x, a) * JaroBottom(s, x, b)
        = d * ((b - a) * e)
  BY <1>1, <1>3
<1>5. e \in Nat
  <2>1. x + a \in Nat /\ x + b \in Nat /\ 2 * x <= x + a /\ 2 * x <= x + b /\ 2 * x \in Nat
    BY <1>1
  <2>2. (2 * x) * (2 * x) <= u /\ u \in Nat
    BY <2>1
  <2>3. (2 * x) * (2 * x) = 4 * (x * x) /\ x * x \in Nat
    OBVIOUS
  <2> HIDE DEF u
  <2>4. d * (4 * (x * x)) <= d * u
    BY <1>1, <2>2, <2>3
  <2>5. C * (x * x) <= (2 * d) * (x * x)
    BY <1>1, <2>3
  <2>6. d * (4 * (x * x)) = 2 * ((2 * d) * (x * x))
    BY <1>1, <2>3
  <2>7. C * (x * x) \in Int /\ (2 * d) * (x * x) \in Int /\ d * u \in Int
    BY <1>1, <2>2, <2>3
  <2> QED  BY <2>4, <2>5, <2>6, <2>7
<1> HIDE DEF e
<1>6. d * ((b - a) * e) \in Nat
  <2>1. b - a \in Nat
    OBVIOUS
  <2>2. (b - a) * e \in Nat
    BY <1>5, <2>1
  <2> QED  BY <1>1, <2>2
<1>7. JaroTop(s, x, a) * JaroBottom(s, x, b) <= JaroTop(s, x, b) * JaroBottom(s, x, a)
  <2>1. /\ JaroTop(s, x, a) * JaroBottom(s, x, b) \in Int
        /\ JaroTop(s, x, b) * JaroBottom(s, x, a) \in Int
    BY <1>2
  <2> QED  BY <1>4, <1>6, <2>1
<1> DEFINE p == JaroTop(s, x, a)
           q == JaroTop(s, x, b)
           v == JaroBottom(s, x, a)
           w == JaroBottom(s, x, b)
<1>8. p \div v <= q \div w
  <2>1. p \in Nat /\ q \in Nat /\ v \in Nat \ {0} /\ w \in Nat \ {0} /\ p * w <= q * v
    BY <1>2, <1>7
  <2> HIDE DEF p, q, v, w
  <2> QED  BY <2>1, QuotientsGrow
<1> QED  BY <1>2, <1>8

(* The shorter one shrinks, when the longer one is long enough.            *)
LEMMA JaroHdShrinks ==
  ASSUME NEW s, IsJaro(s), NEW a \in Nat \ {0}, NEW x \in Nat, NEW b \in Nat, a <= x, x <= b,
         s.den * a <= (3 * s.num - 2 * s.den) * b
  PROVE  equivalent_hd(s, x, b) <= equivalent_hd(s, a, b)
<1> DEFINE d == s.den
           C == 3 * s.num - d
<1>1. d \in Nat \ {0} /\ C \in Nat /\ x \in Nat \ {0} /\ b \in Nat \ {0} /\ s.num \in Nat
  BY DEF IsJaro
<1>2. /\ JaroTop(s, x, b) \in Nat /\ JaroTop(s, a, b) \in Nat
      /\ JaroBottom(s, x, b) \in Nat \ {0} /\ JaroBottom(s, a, b) \in Nat \ {0}
      /\ equivalent_hd(s, x, b) = JaroTop(s, x, b) \div JaroBottom(s, x, b)
      /\ equivalent_hd(s, a, b) = JaroTop(s, a, b) \div JaroBottom(s, a, b)
  BY <1>1, JaroHd
<1>3. /\ JaroTop(s, x, b) = d * ((x + b) * (x + b)) - 2 * (C * (x * b))
      /\ JaroTop(s, a, b) = d * ((a + b) * (a + b)) - 2 * (C * (a * b))
      /\ JaroBottom(s, x, b) = d * (x + b) /\ JaroBottom(s, a, b) = d * (a + b)
  BY DEF JaroTop, JaroBottom
<1>4. d * (a + b) <= C * b
  <2>1. C * b = d * b + (3 * s.num - 2 * s.den) * b /\ d * (a + b) = d * a + d * b
    BY <1>1
  <2>2. d * a \in Int /\ d * b \in Int /\ (3 * s.num - 2 * s.den) * b \in Int
    BY <1>1
  <2> QED  BY <2>1, <2>2
<1> HIDE DEF d, C
<1> DEFINE e == 2 * (C * (b * b)) - d * ((a + b) * (x + b))
<1>5. JaroTop(s, a, b) * JaroBottom(s, x, b) - JaroTop(s, x, b) * JaroBottom(s, a, b)
        = d * ((x - a) * e)
  BY <1>1, <1>3
<1>6. e \in Nat
  <2>1. a + b \in Nat /\ x + b \in Nat /\ x + b <= 2 * b /\ 2 * b \in Nat
    BY <1>1
  <2>2. (a + b) * (x + b) <= (a + b) * (2 * b)
    BY <2>1
  <2>3. d * ((a + b) * (x + b)) <= d * ((a + b) * (2 * b))
    <3>1. (a + b) * (x + b) \in Nat /\ (a + b) * (2 * b) \in Nat
      BY <2>1
    <3> QED  BY <1>1, <2>2, <3>1
  <2>4. d * ((a + b) * (2 * b)) = (d * (a + b)) * (2 * b)
    BY <1>1, <2>1
  <2>5. (d * (a + b)) * (2 * b) <= (C * b) * (2 * b)
    <3>1. d * (a + b) \in Nat /\ C * b \in Nat
      BY <1>1, <2>1
    <3> QED  BY <1>4, <2>1, <3>1
  <2>6. (C * b) * (2 * b) = 2 * (C * (b * b))
    BY <1>1
  <2>7. 2 * (C * (b * b)) \in Int /\ d * ((a + b) * (x + b)) \in Int
        /\ d * ((a + b) * (2 * b)) \in Int
    BY <1>1
  <2> QED  BY <2>3, <2>4, <2>5, <2>6, <2>7
<1> HIDE DEF e
<1>7. d * ((x - a) * e) \in Nat
  <2>1. x - a \in Nat
    OBVIOUS
  <2>2. (x - a) * e \in Nat
    BY <1>6, <2>1
  <2> QED  BY <1>1, <2>2
<1>8. JaroTop(s, x, b) * JaroBottom(s, a, b) <= JaroTop(s, a, b) * JaroBottom(s, x, b)
  <2>1. /\ JaroTop(s, x, b) * JaroBottom(s, a, b) \in Int
        /\ JaroTop(s, a, b) * JaroBottom(s, x, b) \in Int
    BY <1>2
  <2> QED  BY <1>5, <1>7, <2>1
<1> DEFINE p == JaroTop(s, x, b)
           q == JaroTop(s, a, b)
           v == JaroBottom(s, x, b)
           w == JaroBottom(s, a, b)
<1>9. p \div v <= q \div w
  <2>1. p \in Nat /\ q \in Nat /\ v \in Nat \ {0} /\ w \in Nat \ {0} /\ p * w <= q * v
    BY <1>2, <1>8
  <2> HIDE DEF p, q, v, w
  <2> QED  BY <2>1, QuotientsGrow
<1> QED  BY <1>2, <1>9

(* What a group of sizes and a probing set have in common allows no larger *)
(* distance than the group and all sets that can be similar to one of it.  *)
LEMMA SharedDistance ==
  ASSUME NEW s, IsSimilarity(s), NEW L \in Nat \ {0}, NEW U, U = maximum_length_bound(s, L),
         NEW p \in Nat, NEW lo, lo = minimum_length_bound(s, p),
         NEW hi, hi = maximum_length_bound(s, p), lo <= U, L <= hi,
         NEW own, own = max_hd_to(s, greater(L, lo), lesser(U, hi), p, p),
         NEW all, all = max_hd_to(s, L, U, minimum_length_bound(s, L),
                                           maximum_length_bound(s, U))
  PROVE  own \in Int /\ all \in Nat /\ own <= all
<1>1. CASE IsJaccard(s)
  <2> DEFINE n == s.num
             d == s.den
             top == maximum_length_bound(s, U)
             a == lesser(U, hi)
             c == d - n
             e == n + d
  <2>1. n \in Nat \ {0} /\ d \in Nat \ {0} /\ n <= d /\ s.kind = "jaccard"
        /\ c \in Nat /\ e \in Nat \ {0}
    BY <1>1 DEF IsJaccard
  <2>2. U = floor(L * d, n) /\ lo = ceil(p * n, d) /\ hi = floor(p * d, n)
        /\ top = floor(U * d, n)
    BY <2>1 DEF maximum_length_bound, minimum_length_bound
  <2> HIDE DEF n, d, top, a, c, e
  <2>3. U \in Nat /\ lo \in Nat /\ hi \in Nat
    BY <2>1, <2>2, RatioBounds
  <2>4. top \in Nat /\ p <= top
    <3>1. top \in Nat
      BY <2>1, <2>2, <2>3, RatioBounds
    <3> QED  BY <2>1, <2>2, <2>3, <3>1, RatioTurns
  <2>5. a \in Nat /\ a <= U
    BY <2>3 DEF lesser, a
  <2>6. ASSUME NEW x \in Nat, NEW y \in Nat
        PROVE  equivalent_hd(s, x, y) = ((x + y) * c) \div e /\ (x + y) * c \in Nat
    <3>1. fractional_overlap(s, x, y) = <<n * (x + y), e>>
      BY <2>1 DEF fractional_overlap, n, d, e
    <3>2. equivalent_hd(s, x, y) = truncate((x + y) * e - 2 * (n * (x + y)), e)
      BY <3>1 DEF equivalent_hd
    <3>3. (x + y) * e - 2 * (n * (x + y)) = (x + y) * c
      BY <2>1 DEF c, e
    <3>4. (x + y) * c \in Nat
      BY <2>1
    <3> QED  BY <3>2, <3>3, <3>4 DEF truncate
  <2>7. own = equivalent_hd(s, a, p) /\ all = equivalent_hd(s, U, top)
    BY <2>1 DEF max_hd_to, a, top
  <2>8. own = ((a + p) * c) \div e /\ all = ((U + top) * c) \div e
    BY <2>3, <2>4, <2>5, <2>6, <2>7
  <2>9. (a + p) * c \in Nat /\ (U + top) * c \in Nat /\ (a + p) * c <= (U + top) * c
    <3>1. a + p \in Nat /\ U + top \in Nat /\ a + p <= U + top
      BY <2>3, <2>4, <2>5
    <3> QED  BY <2>1, <3>1
  <2> DEFINE x == (a + p) * c
             y == (U + top) * c
  <2> HIDE DEF x, y
  <2>10. x \in Nat /\ y \in Nat /\ x * e <= y * e
    BY <2>1, <2>9 DEF x, y
  <2>11. x \div e \in Nat /\ y \div e \in Nat /\ x \div e <= y \div e
    BY <2>1, <2>10, QuotientsGrow
  <2> QED  BY <2>8, <2>11 DEF x, y
<1>2. CASE s.kind = "structural" /\ s.t \in Nat /\ s.q \in Nat \ {0}
  <2> DEFINE t == s.t
             m == s.q * t
             a == greater(L, lo)
             b == lesser(U, hi)
  <2>1. t \in Nat /\ m \in Nat /\ U = L + t /\ lo = p - t /\ hi = p + t
    BY <1>2 DEF maximum_length_bound, minimum_length_bound
  <2>2. a \in Int /\ b \in Int
    BY <2>1 DEF greater, lesser
  <2>3. minimum_length_bound(s, L) = L - t /\ maximum_length_bound(s, U) = U + t
    BY <1>2 DEF maximum_length_bound, minimum_length_bound
  <2>4. ASSUME NEW x \in Int, NEW y \in Int
        PROVE  /\ equivalent_hd(s, x, y) \in Int
               /\ equivalent_hd(s, x, y) <= 2 * m
               /\ x = y => equivalent_hd(s, x, y) = 2 * m
    <3> DEFINE z == greater(x, y)
               h == (x + y) * 1 - 2 * (z - m)
    <3>1. fractional_overlap(s, x, y) = <<z - m, 1>>
      BY <1>2 DEF fractional_overlap
    <3>2. equivalent_hd(s, x, y) = truncate(h, 1)
      BY <3>1 DEF equivalent_hd
    <3>3. h \in Int /\ h <= 2 * m /\ (x = y => h = 2 * m)
      BY <2>1 DEF greater
    <3> HIDE DEF h
    <3>4. truncate(h, 1) = h
      BY <3>3 DEF truncate
    <3> QED  BY <3>2, <3>3, <3>4
  <2>5. all = equivalent_hd(s, U + t, U + t)
    <3>1. ~(U + t < L) /\ ~(U < L - t)
      BY <2>1
    <3> QED  BY <1>2, <2>3, <3>1 DEF max_hd_to
  <2>6. own \in {equivalent_hd(s, a, p), equivalent_hd(s, b, p), equivalent_hd(s, p, p)}
    BY <1>2 DEF max_hd_to
  <2> HIDE DEF m, t, a, b
  <2>7. U + t \in Int
    BY <2>1
  <2>8. all = 2 * m
    BY <2>4, <2>5, <2>7
  <2>9. own \in Int /\ own <= 2 * m
    <3>1. p \in Int
      OBVIOUS
    <3>2. /\ equivalent_hd(s, a, p) \in Int /\ equivalent_hd(s, a, p) <= 2 * m
          /\ equivalent_hd(s, b, p) \in Int /\ equivalent_hd(s, b, p) <= 2 * m
          /\ equivalent_hd(s, p, p) \in Int /\ equivalent_hd(s, p, p) <= 2 * m
      BY <2>2, <2>4, <3>1
    <3> QED  BY <2>6, <3>2
  <2> QED  BY <2>1, <2>8, <2>9
<1>3. CASE s.kind = "hamming" /\ s.t \in Nat
  <2> DEFINE t == s.t
             a == lesser(U, hi)
             top == maximum_length_bound(s, U)
  <2>1. t \in Nat /\ U = L + t /\ hi = p + t /\ top = U + t
    BY <1>3 DEF maximum_length_bound
  <2>2. a \in Int /\ U \in Int /\ top \in Int
    BY <2>1 DEF lesser
  <2>3. ASSUME NEW x \in Int, NEW y \in Int
        PROVE  equivalent_hd(s, x, y) = t
    <3>1. fractional_overlap(s, x, y) = <<x + y - t, 2>>
      BY <1>3 DEF fractional_overlap
    <3>2. equivalent_hd(s, x, y) = truncate((x + y) * 2 - 2 * (x + y - t), 2)
      BY <3>1 DEF equivalent_hd
    <3>3. (x + y) * 2 - 2 * (x + y - t) = 2 * t
      BY <2>1
    <3>4. truncate(2 * t, 2) = t
      BY <2>1 DEF truncate
    <3> QED  BY <3>2, <3>3, <3>4
  <2>4. own = equivalent_hd(s, a, p) /\ all = equivalent_hd(s, U, top)
    BY <1>3 DEF max_hd_to
  <2> QED  BY <2>1, <2>2, <2>3, <2>4
<1>4. CASE IsJaro(s)
  <2> DEFINE d == s.den
             r == 3 * s.num - 2 * d
             below == minimum_length_bound(s, L)
             top == maximum_length_bound(s, U)
             x == lesser(greater(L, lo), p)
             y == greater(lesser(U, hi), p)
  <2>1. d \in Nat \ {0} /\ r \in Nat \ {0} /\ r <= d /\ s.kind = "jaro_overlap"
    BY <1>4 DEF IsJaro
  <2>2. U = floor(L * d, r) /\ hi = floor(p * d, r) /\ top = floor(U * d, r)
    BY <2>1 DEF maximum_length_bound
  <2> HIDE DEF d, r, below, top, x, y
  <2>3. /\ U \in Nat /\ L <= U /\ r * U <= L * d /\ L * d < r * U + r
        /\ hi \in Nat /\ p <= hi
    BY <2>1, <2>2, RatioBounds
  <2>4. ceil(p * r, d) \in Nat /\ ceil(L * r, d) \in Nat
        /\ top \in Nat /\ U <= top /\ r * top <= U * d /\ U * d < r * top + r
        /\ ceil(L * r, d) <= L /\ L * r <= d * ceil(L * r, d)
        /\ d * ceil(L * r, d) < L * r + d
    BY <2>1, <2>2, <2>3, RatioBounds
  <2>5. lo = ceil(p * r, d) /\ below = ceil(L * r, d)
    <3>1. lo = greater(0, ceil(p * r, d)) /\ below = greater(0, ceil(L * r, d))
      BY <2>1 DEF minimum_length_bound, below, d, r
    <3> QED  BY <2>4, <3>1 DEF greater
  <2>6. p <= top
    BY <2>1, <2>2, <2>3, <2>5, RatioTurns
  <2>7. below <= p
    BY <2>1, <2>2, <2>5, RatioTurns
  <2>8. below \in Nat \ {0}
    <3>1. L * r > 0 /\ d * 0 = 0
      BY <2>1
    <3>2. below # 0
      <4> SUFFICES ASSUME below = 0 PROVE FALSE
        OBVIOUS
      <4>1. L * r <= d * below
        BY <2>4, <2>5
      <4> QED  BY <2>1, <3>1, <4>1
    <3> QED  BY <2>4, <2>5, <3>2
  <2>9. own = equivalent_hd(s, x, y) /\ all = equivalent_hd(s, below, top)
    <3>1. lesser(L, below) = below /\ greater(U, top) = top
      BY <2>3, <2>4, <2>5 DEF lesser, greater
    <3> QED  BY <2>1, <3>1 DEF max_hd_to, x, y, below, top
  <2>10. /\ x \in Nat \ {0} /\ y \in Nat \ {0} /\ x <= y /\ y <= top /\ below <= x
    BY <2>3, <2>4, <2>5, <2>6, <2>7, <2>8 DEF lesser, greater, x, y
  <2>11. below = top \/ d * below <= r * top
    <3>1. CASE U = L
      <4>1. top = U
        BY <2>2, <3>1 DEF top
      <4>2. d * L < d * below + d
        <5>1. d * L = L * d /\ L * r = r * L /\ r * U = r * L /\ L * d \in Int /\ r * L \in Int
          BY <2>1, <3>1
        <5>2. d * below \in Int
          BY <2>1, <2>8
        <5> QED  BY <2>1, <2>3, <2>4, <2>5, <5>1, <5>2
      <4>3. L <= below
        BY <2>1, <2>8, <4>2, Cancels
      <4> QED  BY <2>4, <2>5, <2>8, <3>1, <4>1, <4>3
    <3>2. CASE L < U
      <4>1. (L + 1) * d <= U * d
        BY <2>1, <2>3, <3>2
      <4>2. (L + 1) * d = L * d + d /\ d * below <= L * d
        BY <2>1, <2>4, <2>5
      <4>3. d * below \in Int /\ r * top \in Int /\ U * d \in Int /\ L * d \in Int
        BY <2>1, <2>3, <2>4, <2>8
      <4> QED  BY <2>1, <2>4, <4>1, <4>2, <4>3
    <3> QED  BY <2>3, <3>1, <3>2
  <2>12. own \in Nat /\ all \in Nat
    <3>1. top \in Nat \ {0}
      BY <2>4, <2>10
    <3> QED  BY <1>4, <2>8, <2>9, <2>10, <3>1, JaroHd
  <2>13. equivalent_hd(s, x, y) <= equivalent_hd(s, x, top)
    BY <1>4, <2>4, <2>10, JaroHdGrows
  <2>14. equivalent_hd(s, x, top) <= equivalent_hd(s, below, top)
    <3>1. CASE below = top
      <4>1. x = below
        BY <2>8, <2>10, <3>1
      <4>2. top \in Nat \ {0}
        BY <2>4, <2>10
      <4>3. equivalent_hd(s, x, top) \in Nat
        BY <1>4, <2>10, <4>2, JaroHd
      <4> QED  BY <4>1, <4>3
    <3>2. CASE d * below <= r * top
      <4>1. x <= top
        BY <2>4, <2>10
      <4> QED  BY <1>4, <2>4, <2>8, <2>10, <3>2, <4>1, JaroHdShrinks DEF d, r
    <3> QED  BY <2>11, <3>1, <3>2
  <2>15. equivalent_hd(s, x, top) \in Nat
    <3>1. top \in Nat \ {0}
      BY <2>4, <2>10
    <3> QED  BY <1>4, <2>10, <3>1, JaroHd
  <2> QED  BY <2>9, <2>12, <2>13, <2>14, <2>15
<1> QED  BY <1>1, <1>2, <1>3, <1>4 DEF IsSimilarity, IsJaccard, IsJaro

(* So a group has partitions enough for the budget of a set that may be    *)
(* similar to one of its sets.                                             *)
LEMMA BudgetFits ==
  ASSUME setting \in Settings, size(probe) \in Nat, NEW n \in Nat \ {0}, NEW g, g = GroupFrom(n),
         minimum_size <= g.upper, n <= maximum_size
  PROVE  /\ g.partition_count \in Nat /\ Budget(n, g.upper) \in Int
         /\ Budget(n, g.upper) <= g.partition_count + (IF ENABLE_DELETION THEN g.partition_count ELSE 0)
<1> DEFINE U == g.upper
           own == max_hd_to(sim, greater(n, minimum_size), lesser(U, maximum_size),
                            size(probe), size(probe))
           all == max_hd_to(sim, n, U, minimum_length_bound(sim, n), maximum_length_bound(sim, U))
<1>1. IsSimilarity(sim)
  BY SetAssumption DEF sim
<1>2. U = maximum_length_bound(sim, n) /\ g.partition_count = get_partition_count(n, U)
  <2>1. maximum_length_bound(sim, n) \in Nat
    BY <1>1, LengthsAround
  <2>2. next_size_lb(n) - 1 = maximum_length_bound(sim, n)
    BY <2>1 DEF next_size_lb
  <2> QED  BY <2>2 DEF GroupFrom
<1>3. own \in Int /\ all \in Nat /\ own <= all
  <2> HIDE DEF U
  <2>1. minimum_size <= U /\ n <= maximum_size
    BY DEF U
  <2> QED  BY <1>1, <1>2, <2>1, SharedDistance DEF minimum_size, maximum_size
<1>4. Budget(n, U) = own + 1
  BY DEF Budget
<1>5. g.partition_count = (IF ENABLE_DELETION THEN all \div 2 ELSE all) + 1
  BY <1>2 DEF get_partition_count
<1> HIDE DEF own, all
<1> QED  BY <1>3, <1>4, <1>5

LEMMA PartitionsToLookUp ==
  ASSUME NEW n \in Nat
  PROVE  /\ IsFiniteSet([partition_id : 0 .. n - 1, is_normal : {TRUE}])
         /\ Cardinality([partition_id : 0 .. n - 1, is_normal : {TRUE}]) = n
<1> DEFINE S == [partition_id : 0 .. n - 1, is_normal : {TRUE}]
           f == [p \in 0 .. n - 1 |-> [partition_id |-> p, is_normal |-> TRUE]]
<1>1. IsFiniteSet(0 .. n - 1) /\ Cardinality(0 .. n - 1) = n
  <2>1. 0 \in Int /\ n - 1 \in Int /\ (IF 0 > n - 1 THEN 0 ELSE n - 1 - 0 + 1) = n
    OBVIOUS
  <2> QED  BY <2>1, FS_Interval
<1>2. f \in [0 .. n - 1 -> S]
  OBVIOUS
<1>3. \A p, q \in 0 .. n - 1 : f[p] = f[q] => p = q
  OBVIOUS
<1>4. ASSUME NEW e \in S PROVE e.partition_id \in 0 .. n - 1 /\ f[e.partition_id] = e
  <2>1. /\ e.partition_id \in 0 .. n - 1 /\ e.is_normal = TRUE
        /\ e = [partition_id |-> e.partition_id, is_normal |-> e.is_normal]
    OBVIOUS
  <2>2. f[e.partition_id] = [partition_id |-> e.partition_id, is_normal |-> TRUE]
    BY <2>1
  <2> QED  BY <2>1, <2>2
<1> HIDE DEF f, S
<1>5. f \in Bijection(0 .. n - 1, S)
  BY <1>2, <1>3, <1>4 DEF Bijection, Injection, Surjection, IsInjective
<1>6. ExistsBijection(0 .. n - 1, S)
  BY <1>5 DEF ExistsBijection
<1> QED  BY <1>1, <1>6, FS_Bijection DEF S

------------------------------------------------------------------------------
(* The inductive invariant of a search.  Cached signatures are those of    *)
(* the groups that can have similar sets; a partition is in the heap once; *)
(* the budget does not exceed the lookups that are left.                   *)
SearchStages == {"small", "search", "probe"}

Probed ==
  /\ pc \in SearchStages \cup {"prepare"} => probe \in 1 .. Len(setting.data)
  /\ pc \in SearchStages => probe \in DOMAIN cached_signatures

Fits(r, g, gs) ==
  /\ g \in 1 .. Len(gs)
  /\ minimum_length_bound(sim, size(r)) <= gs[g].upper
  /\ gs[g].lower <= maximum_length_bound(sim, size(r))

CachedFits ==
  \A r \in DOMAIN cached_signatures : \A g \in DOMAIN cached_signatures[r] :
    \E s \in SharedStates : Fits(r, g, size_groups[s])

Normal(entries) == {e \in entries : e.is_normal}

Lookups(entries) ==
  Cardinality(entries) + (IF ENABLE_DELETION THEN Cardinality(Normal(entries)) ELSE 0)

Heap(entries) ==
  /\ IsFiniteSet(entries)
  /\ entries \subseteq [partition_id : Nat, is_normal : BOOLEAN]
  /\ \A e, f \in entries : e.partition_id = f.partition_id => e = f

Covered == pc = "probe" => Heap(costs) /\ remaining \in Int /\ remaining <= Lookups(costs)

SearchInv == IndexInv /\ Probed /\ CachedFits /\ Covered

(* An iteration takes one lookup from the heap.                            *)
LEMMA OneLookupLess ==
  ASSUME NEW entries, Heap(entries), NEW entry \in entries,
         NEW left, left = (entries \ {entry}) \cup NextLookup(entry)
  PROVE  Heap(left) /\ Lookups(left) \in Int /\ Lookups(left) = Lookups(entries) - 1
<1> DEFINE rest == entries \ {entry}
           second == [entry EXCEPT !.is_normal = FALSE]
<1>1. /\ IsFiniteSet(entries) /\ entries \subseteq [partition_id : Nat, is_normal : BOOLEAN]
      /\ \A e, f \in entries : e.partition_id = f.partition_id => e = f
  BY DEF Heap
<1>2. IsFiniteSet(rest) /\ Cardinality(rest) = Cardinality(entries) - 1
  BY <1>1, FS_RemoveElement
<1>3. Cardinality(entries) \in Nat /\ Cardinality(rest) \in Nat
  BY <1>1, <1>2, FS_CardinalityType
<1>4. IsFiniteSet(Normal(entries)) /\ Cardinality(Normal(entries)) \in Nat
  <2>1. Normal(entries) \in SUBSET entries
    BY DEF Normal
  <2>2. IsFiniteSet(Normal(entries))
    BY <1>1, <2>1, FS_Subset
  <2> QED  BY <2>2, FS_CardinalityType
<1>5. CASE entry.is_normal /\ ENABLE_DELETION
  <2>1. left = rest \cup {second}
    BY <1>5 DEF NextLookup
  <2>2. /\ second.partition_id = entry.partition_id /\ ~second.is_normal
        /\ second \in [partition_id : Nat, is_normal : BOOLEAN]
    BY <1>1
  <2> HIDE DEF second
  <2>3. \A e \in rest : e.partition_id # entry.partition_id
    BY <1>1
  <2>4. second \notin rest
    BY <2>2, <2>3
  <2>5. IsFiniteSet(left) /\ Cardinality(left) = Cardinality(entries)
    <3> HIDE DEF rest
    <3>1. /\ IsFiniteSet(rest \cup {second})
          /\ Cardinality(rest \cup {second}) = Cardinality(rest) + 1
      BY <1>2, <2>4, FS_AddElement
    <3>2. left = rest \cup {second}
      BY <2>1
    <3>3. Cardinality(rest) + 1 = Cardinality(entries)
      BY <1>2, <1>3
    <3> QED  BY <3>1, <3>2, <3>3, Zenon
  <2>6. Heap(left)
    BY <1>1, <2>1, <2>2, <2>3, <2>5 DEF Heap
  <2>7. Normal(left) = Normal(entries) \ {entry} /\ entry \in Normal(entries)
    BY <1>5, <2>1, <2>2 DEF Normal
  <2>8. Cardinality(Normal(left)) = Cardinality(Normal(entries)) - 1
    BY <1>4, <2>7, FS_RemoveElement
  <2> QED  BY <1>3, <1>4, <1>5, <2>5, <2>6, <2>8 DEF Lookups
<1>6. CASE ~(entry.is_normal /\ ENABLE_DELETION)
  <2>1. left = rest
    BY <1>6 DEF NextLookup
  <2>2. Heap(left)
    BY <1>1, <1>2, <2>1 DEF Heap
  <2>3. ENABLE_DELETION => Normal(left) = Normal(entries)
    BY <1>6, <2>1 DEF Normal
  <2> QED  BY <1>2, <1>3, <1>4, <2>1, <2>2, <2>3 DEF Lookups
<1> QED  BY <1>5, <1>6

LEMMA FitsNext ==
  ASSUME Extends, setting' = setting, NEW s \in SharedStates, NEW r, NEW g,
         Fits(r, g, size_groups[s])
  PROVE  Fits(r, g, size_groups[s])'
BY DEF Extends, Fits, sim, size

(* What is cached fits, whatever is evicted and however groups grow.       *)
LEMMA CachedStays ==
  ASSUME CachedFits, Extends, setting' = setting,
         \A r \in DOMAIN cached_signatures' :
           r \in DOMAIN cached_signatures /\ cached_signatures'[r] = cached_signatures[r]
  PROVE  CachedFits'
<1> SUFFICES ASSUME NEW r \in DOMAIN cached_signatures', NEW g \in DOMAIN cached_signatures'[r]
             PROVE  \E s \in SharedStates : Fits(r, g, size_groups[s])'
  BY DEF CachedFits
<1>1. PICK s \in SharedStates : Fits(r, g, size_groups[s])
  BY DEF CachedFits
<1> QED  BY <1>1, FitsNext

(* get_probing_signatures: the groups between the bounds of the record.    *)
LEMMA UppersAscend ==
  ASSUME GroupsInv, NEW s \in SharedStates, NEW m \in 1 .. Len(size_groups[s]),
         NEW g \in 1 .. Len(size_groups[s]), m <= g
  PROVE  size_groups[s][m].upper <= size_groups[s][g].upper
<1> DEFINE gs == size_groups[s]
           T == {h \in 1 .. Len(gs) : m <= h /\ ~(gs[m].upper <= gs[h].upper)}
<1>1. /\ \A h \in 1 .. Len(gs) : gs[h].upper \in Nat /\ gs[h].lower \in Nat
                                 /\ gs[h].lower <= gs[h].upper
      /\ \A h \in 1 .. Len(gs) : h # 1 => gs[h].lower = gs[h - 1].upper + 1
      /\ Len(gs) \in Nat
  BY GroupOfState, StateGroups DEF GroupsInv, Chained, IsGroups
<1> SUFFICES ASSUME T # {} PROVE FALSE
  OBVIOUS
<1>2. T \subseteq Nat
  BY <1>1
<1>3. PICK h \in T : \A k \in T : h <= k
  BY <1>2, LeastElement
<1>10. ~(gs[m].upper <= gs[h].upper)
  BY <1>3
<1> HIDE DEF gs
<1>4. h \in 1 .. Len(gs) /\ m < h /\ m \in 1 .. Len(gs)
  <2>1. h # m
    BY <1>1, <1>3 DEF gs
  <2> QED  BY <1>1, <1>3, <2>1 DEF gs
<1>5. h - 1 \in 1 .. Len(gs) /\ m <= h - 1 /\ h - 1 < h
  BY <1>1, <1>4
<1>6. h - 1 \notin T
  <2>1. h \in Nat
    BY <1>4
  <2> HIDE DEF T
  <2> QED  BY <1>3, <1>5, <2>1
<1>7. gs[m].upper <= gs[h - 1].upper
  BY <1>5, <1>6
<1>8. gs[h].lower = gs[h - 1].upper + 1
  BY <1>1, <1>4
<1>9. gs[m].upper \in Nat /\ gs[h - 1].upper \in Nat /\ gs[h].upper \in Nat
      /\ gs[h].lower \in Nat /\ gs[h].lower <= gs[h].upper
  BY <1>1, <1>4, <1>5
<1> QED  BY <1>7, <1>8, <1>9, <1>10

LEMMA SignaturesFit ==
  ASSUME SearchInv, GetProbingSignatures
  PROVE  \A g \in DOMAIN ProbingSignatures(shared_state(caller)) :
           Fits(probe, g, size_groups[shared_state(caller)])
<1> DEFINE s == shared_state(caller)
           gs == size_groups[s]
           k == Len(gs)
           m == GroupIn(gs, minimum_size)
<1>1. /\ GroupsInv /\ Typed /\ setting \in Settings /\ pc = "prepare" /\ caller \in Instances
      /\ s \in SharedStates /\ k > 0 /\ ~(Back(s).lower < maximum_size)
  <2>1. GroupsInv /\ Typed /\ Started /\ pc = "prepare" /\ ~(Back(s).lower < maximum_size)
    BY DEF SearchInv, IndexInv, GroupsInv, GetProbingSignatures
  <2>2. setting \in Settings /\ caller \in Instances /\ k > 0
    BY <2>1 DEF Typed, Started
  <2> QED  BY <2>1, <2>2, StateOfInstance
<1>2. /\ minimum_size \in Int /\ maximum_size \in Int /\ minimum_size <= maximum_size
  <2>1. IsSimilarity(sim)
    BY <1>1, SetAssumption DEF sim
  <2>2. probe \in 1 .. Len(setting.data)
    BY <1>1 DEF SearchInv, Probed
  <2>3. size(probe) \in Nat
    BY <1>1, <2>2, DataFacts
  <2> QED  BY <2>1, <2>3, LengthsAround DEF minimum_size, maximum_size
<1>3. IsGroups(gs) /\ GroupOf(s, minimum_size) = m
  BY <1>1, StateGroups
<1>4. Reaches(gs, minimum_size)
  <2>1. k \in 1 .. k
    BY <1>1, <1>3 DEF IsGroups
  <2>2. gs[k].lower \in Nat /\ gs[k].upper \in Nat /\ gs[k].lower <= gs[k].upper
    BY <1>1, <2>1, GroupOfState
  <2>3. maximum_size <= gs[k].lower
    BY <1>1, <1>2, <2>2 DEF Back
  <2> QED  BY <1>2, <2>1, <2>2, <2>3 DEF Reaches
<1>5. m \in 1 .. k /\ minimum_size <= gs[m].upper
  BY <1>2, <1>3, <1>4, GroupInFacts
<1>6. ASSUME NEW g \in DOMAIN ProbingSignatures(s) PROVE Fits(probe, g, gs)
  <2>1. g \in 1 .. k /\ m <= g /\ gs[g].lower <= maximum_size
    BY <1>3 DEF ProbingSignatures, IsGroups
  <2>2. gs[m].upper <= gs[g].upper
    BY <1>1, <1>5, <2>1, UppersAscend
  <2>3. gs[m].upper \in Nat /\ gs[g].upper \in Nat
    BY <1>3, <1>5, <2>1 DEF IsGroups
  <2> QED  BY <1>2, <1>5, <2>1, <2>2, <2>3 DEF Fits, minimum_size, maximum_size
<1> QED  BY <1>6

LEMMA SignaturesSearch ==
  ASSUME SearchInv, IndexInv', Extends, GetProbingSignatures
  PROVE  SearchInv'
<1> DEFINE s == shared_state(caller)
           new == ProbingSignatures(s)
<1>1. /\ pc = "prepare" /\ UNCHANGED <<setting, pc, probe>>
      /\ cached_signatures' =
           [r \in DOMAIN cached_signatures \cup {probe} |->
              IF r = probe THEN new ELSE cached_signatures[r]]
  BY DEF GetProbingSignatures, setVars, joinVars, callVars, argVars
<1>2. Probed /\ CachedFits /\ s \in SharedStates
  <2>1. setting \in Settings /\ caller \in Instances
    BY <1>1 DEF SearchInv, IndexInv, GroupsInv, Typed
  <2> QED  BY <2>1, StateOfInstance DEF SearchInv
<1>3. \A g \in DOMAIN new : Fits(probe, g, size_groups[s])
  BY SignaturesFit
<1> HIDE DEF new, s
<1>4. CachedFits'
  <2> SUFFICES ASSUME NEW r \in DOMAIN cached_signatures \cup {probe},
                      NEW g \in DOMAIN cached_signatures'[r]
               PROVE  \E u \in SharedStates : Fits(r, g, size_groups[u])'
    BY <1>1 DEF CachedFits
  <2>1. PICK u \in SharedStates : Fits(r, g, size_groups[u])
    <3>1. CASE r = probe
      BY <1>1, <1>2, <1>3, <3>1
    <3>2. CASE r # probe
      <4>1. r \in DOMAIN cached_signatures /\ g \in DOMAIN cached_signatures[r]
        BY <1>1, <3>2
      <4> QED  BY <1>2, <4>1 DEF CachedFits
    <3> QED  BY <3>1, <3>2
  <2> QED  BY <1>1, <2>1, FitsNext
<1>5. Probed' /\ Covered'
  BY <1>1, <1>2 DEF Probed, Covered, SearchStages
<1> QED  BY <1>4, <1>5 DEF SearchInv

(* An index has groups of its state only.                                  *)
LEMMA GroupsIndexed ==
  ASSUME IndexInv, caller \in Instances, NEW g \in Groups(index[caller])
  PROVE  g \in 1 .. Len(size_groups[shared_state(caller)])
<1> DEFINE s == shared_state(caller)
           gs == size_groups[s]
<1>1. GroupsInv /\ Typed /\ Counted /\ s \in SharedStates
  <2>1. GroupsInv /\ Typed /\ Counted /\ setting \in Settings
    BY DEF IndexInv, GroupsInv, Typed
  <2> QED  BY <2>1, StateOfInstance
<1>2. PICK k \in DOMAIN index[caller] : g = k[1]
  BY DEF Groups
<1>3. PICK id \in Ids(caller) : k \in Keys(s, Record(caller, id))
  BY DEF IndexInv, Rebuilt, Built, KeysOf
<1> DEFINE n == size(Record(caller, id))
<1>4. n \in Nat
  BY <1>1, RecordFacts
<1>5. Reaches(gs, n)
  BY DEF IndexInv, Grouped
<1>6. g = GroupOf(s, n)
  BY <1>2, <1>3 DEF Keys
<1>7. IsGroups(gs) /\ GroupOf(s, n) = GroupIn(gs, n)
  BY <1>1, StateGroups
<1> HIDE DEF gs, n
<1>8. g \in 1 .. Len(gs)
  BY <1>4, <1>5, <1>6, <1>7, GroupInFacts
<1> QED  BY <1>8 DEF gs

(* _probe_size_group: the group is one of the index and of the signatures. *)
LEMMA GroupSearch ==
  ASSUME SearchInv, IndexInv', Extends, ProbeSizeGroup
  PROVE  SearchInv'
<1> DEFINE s == shared_state(caller)
           gs == size_groups[s]
<1>1. /\ pc = "search" /\ pc' = "probe"
      /\ UNCHANGED <<setting, probe, size_groups, cached_signatures>>
  BY DEF ProbeSizeGroup, GoOn, argVars
<1>2. PICK g \in GroupsToProbe :
        /\ costs' = [partition_id : 0 .. gs[g].partition_count - 1, is_normal : {TRUE}]
        /\ remaining' = Budget(gs[g].lower, gs[g].upper)
  BY DEF ProbeSizeGroup
<1>3. /\ IndexInv /\ GroupsInv /\ Typed /\ setting \in Settings /\ caller \in Instances
      /\ s \in SharedStates
      /\ probe \in DOMAIN cached_signatures /\ probe \in 1 .. Len(setting.data)
  <2>1. IndexInv /\ GroupsInv /\ Typed /\ Probed
    BY DEF SearchInv, IndexInv, GroupsInv
  <2>2. setting \in Settings /\ caller \in Instances
    BY <1>1, <2>1 DEF Typed
  <2> QED  BY <1>1, <2>1, <2>2, StateOfInstance DEF Probed, SearchStages
<1>4. g \in 1 .. Len(gs)
  BY <1>3, GroupsIndexed DEF GroupsToProbe
<1>5. Fits(probe, g, gs)
  <2>1. g \in DOMAIN cached_signatures[probe]
    BY DEF GroupsToProbe
  <2>2. PICK u \in SharedStates : Fits(probe, g, size_groups[u])
    BY <1>3, <2>1 DEF SearchInv, CachedFits
  <2>3. gs[g] = size_groups[u][g]
    BY <1>3, <1>4, <2>2 DEF GroupsInv, StatesAgree, Fits
  <2> QED  BY <1>4, <2>2, <2>3 DEF Fits
<1>6. gs[g].lower \in Nat \ {0} /\ gs[g] = GroupFrom(gs[g].lower)
  BY <1>3, <1>4, GroupOfState
<1>7. size(probe) \in Nat
  BY <1>3, DataFacts
<1> DEFINE n == gs[g].partition_count
<1>8. /\ n \in Nat /\ remaining' \in Int
      /\ remaining' <= n + (IF ENABLE_DELETION THEN n ELSE 0)
  BY <1>2, <1>3, <1>5, <1>6, <1>7, BudgetFits DEF Fits, minimum_size, maximum_size
<1> HIDE DEF n
<1>9. costs' = [partition_id : 0 .. n - 1, is_normal : {TRUE}]
  BY <1>2 DEF n
<1>10. IsFiniteSet(costs') /\ Cardinality(costs') = n /\ Normal(costs') = costs'
  <2>1. Normal(costs') = costs'
    BY <1>9 DEF Normal
  <2> QED  BY <1>8, <1>9, <2>1, PartitionsToLookUp
<1>11. Heap(costs')
  <2>1. ASSUME NEW e \in costs' PROVE e \in [partition_id : Nat, is_normal : BOOLEAN]
    <3>1. /\ e = [partition_id |-> e.partition_id, is_normal |-> TRUE]
          /\ e.partition_id \in 0 .. n - 1
      BY <1>9
    <3>2. \A p \in Nat :
            [partition_id |-> p, is_normal |-> TRUE] \in [partition_id : Nat, is_normal : BOOLEAN]
      OBVIOUS
    <3>3. e.partition_id \in Nat
      BY <1>8, <3>1
    <3> QED  BY <3>1, <3>2, <3>3, Zenon
  <2>2. ASSUME NEW e \in costs', NEW f \in costs', e.partition_id = f.partition_id
        PROVE  e = f
    <3>1. /\ e = [partition_id |-> e.partition_id, is_normal |-> TRUE]
          /\ f = [partition_id |-> f.partition_id, is_normal |-> TRUE]
      BY <1>9
    <3> QED  BY <2>2, <3>1
  <2> QED  BY <1>10, <2>1, <2>2 DEF Heap
<1>12. Lookups(costs)' = n + (IF ENABLE_DELETION THEN n ELSE 0)
  <2>1. ENABLE_DELETION' = ENABLE_DELETION /\ Normal(costs)' = Normal(costs')
    BY <1>1 DEF ENABLE_DELETION, Normal
  <2> QED  BY <1>8, <1>10, <2>1 DEF Lookups
<1>13. Covered'
  BY <1>8, <1>11, <1>12 DEF Covered, Heap
<1>14. Probed'
  BY <1>1, <1>3 DEF Probed
<1>15. CachedFits'
  BY <1>1, CachedStays DEF SearchInv
<1> QED  BY <1>13, <1>14, <1>15 DEF SearchInv

LEMMA LookupSearch ==
  ASSUME SearchInv, IndexInv', Extends, ProbePartition
  PROVE  SearchInv'
<1>1. /\ pc = "probe" /\ pc' = "probe" /\ remaining > 0 /\ remaining' = remaining - 1
      /\ UNCHANGED <<setting, probe, cached_signatures>>
  BY DEF ProbePartition, FindMore, argVars
<1>2. PICK entry \in costs : costs' = (costs \ {entry}) \cup NextLookup(entry)
  BY DEF ProbePartition
<1>3. Heap(costs) /\ remaining \in Int /\ remaining <= Lookups(costs)
  BY <1>1 DEF SearchInv, Covered
<1>4. Heap(costs') /\ Lookups(costs') \in Int /\ Lookups(costs') = Lookups(costs) - 1
  BY <1>2, <1>3, OneLookupLess
<1>5. Lookups(costs)' = Lookups(costs') /\ Heap(costs)' = Heap(costs')
  BY <1>1 DEF Lookups, Normal, ENABLE_DELETION, Heap
<1>6. Covered'
  <2>1. Lookups(costs) \in Int
    <3>1. IsFiniteSet(costs) /\ Normal(costs) \in SUBSET costs
      BY <1>3 DEF Heap, Normal
    <3>2. Cardinality(costs) \in Nat /\ Cardinality(Normal(costs)) \in Nat
      BY <3>1, FS_Subset, FS_CardinalityType
    <3> QED  BY <3>2 DEF Lookups
  <2> QED  BY <1>1, <1>3, <1>4, <1>5, <2>1 DEF Covered
<1>7. Probed' /\ CachedFits'
  BY <1>1, CachedStays DEF SearchInv, Probed
<1> QED  BY <1>6, <1>7 DEF SearchInv

(* Steps that go on with a call or begin one, outside a group.             *)
LEMMA SearchStays ==
  ASSUME SearchInv, IndexInv', Extends, setting' = setting,
         cached_signatures' = cached_signatures, pc' # "probe",
         pc' \in SearchStages \cup {"prepare"} => probe' \in 1 .. Len(setting.data),
         pc' \in SearchStages => probe' \in DOMAIN cached_signatures
  PROVE  SearchInv'
<1>1. CachedFits'
  BY CachedStays DEF SearchInv
<1> QED  BY <1>1 DEF SearchInv, Probed, Covered, SearchStages

LEMMA SearchStep ==
  ASSUME SearchInv, [Next]_pallocVars
  PROVE  SearchInv'
<1>0. IndexInv' /\ Extends /\ Probed /\ setting \in Settings
  BY IndexStep, GroupsExtend DEF SearchInv, IndexInv, GroupsInv, Typed
<1>1. CASE UNCHANGED pallocVars
  <2>1. UNCHANGED <<setting, pc, probe, cached_signatures, costs, remaining>>
    BY <1>1 DEF pallocVars, setVars, joinVars, callVars, argVars, pallocOwnVars, searchVars
  <2>2. Probed' /\ CachedFits'
    BY <1>0, <2>1, CachedStays DEF Probed, SearchInv
  <2>3. Covered'
    BY <2>1 DEF SearchInv, Covered, Heap, Lookups, Normal, ENABLE_DELETION
  <2> QED  BY <1>0, <2>2, <2>3 DEF SearchInv
<1>2. ASSUME NEW a \in Instances, NEW r, Construct(a, r)
      PROVE  SearchInv'
  <2>1. pc = "idle" /\ UNCHANGED <<setting, pc, probe, cached_signatures>>
    BY <1>2 DEF Construct, ConstructFor, callVars, argVars
  <2> QED  BY <1>0, <2>1, SearchStays DEF SearchStages
<1>3. ASSUME NEW a \in Instances, NEW n, InsertBatch(a, n)
      PROVE  SearchInv'
  <2>1. pc' = "insert" /\ UNCHANGED <<setting, cached_signatures>>
    BY <1>3 DEF InsertBatch, CallInsert, pallocOwnVars
  <2> QED  BY <1>0, <2>1, SearchStays DEF SearchStages
<1>4. ASSUME NEW a \in Instances, NEW r \in setting.probes, NEW f, JoinBatch(a, r, f)
      PROVE  SearchInv'
  <2>1. pc' = "prepare" /\ probe' = r /\ UNCHANGED <<setting, cached_signatures>>
    BY <1>4 DEF JoinBatch, CallJoin, pallocOwnVars
  <2>2. r \in 1 .. Len(setting.data)
    BY <1>0, DatasetAssumption
  <2> QED  BY <1>0, <2>1, <2>2, SearchStays DEF SearchStages
<1>5. ASSUME NEW a \in Instances, NEW b \in Instances, Merge(a, b)
      PROVE  SearchInv'
  <2>1. pc = "idle" /\ UNCHANGED <<setting, pc, cached_signatures>>
    BY <1>5 DEF Merge, MergeSets, MergeInto, callVars
  <2> QED  BY <1>0, <2>1, SearchStays DEF SearchStages
<1>6. CASE AppendGroupForInsert \/ InsertRecord \/ AppendGroupForProbe
  <2>1. /\ pc \in {"insert", "prepare"}
        /\ UNCHANGED <<setting, pc, probe, cached_signatures>>
    BY <1>6 DEF AppendGroupForInsert, InsertRecord, InsertSet, InsertNext, AppendGroupForProbe,
                setVars, joinVars, callVars, argVars
  <2> QED  BY <1>0, <2>1, SearchStays DEF SearchStages, Probed
<1>7. CASE InsertDone \/ ReturnResults
  <2>1. pc' = "idle" /\ UNCHANGED <<setting, cached_signatures>>
    BY <1>7 DEF InsertDone, EndInsert, ReturnResults, Return, CallEnds, pallocOwnVars
  <2> QED  BY <1>0, <2>1, SearchStays DEF SearchStages
<1>8. CASE GetProbingSignatures
  BY <1>0, <1>8, SignaturesSearch
<1>9. CASE BeginSearch
  <2>1. /\ pc = "prepare" /\ pc' = "small" /\ probe \in DOMAIN cached_signatures
        /\ UNCHANGED <<setting, probe, cached_signatures>>
    BY <1>9 DEF BeginSearch, GoOn, argVars, pallocOwnVars
  <2> QED  BY <1>0, <2>1, SearchStays DEF SearchStages, Probed
<1>10. CASE SmallResults \/ GroupDone
  <2>1. /\ pc \in {"small", "probe"} /\ pc' = "search"
        /\ UNCHANGED <<setting, probe, cached_signatures>>
    BY <1>10 DEF SmallResults, AddSmallResults, FindMore, GroupDone, GoOn, argVars, pallocOwnVars
  <2> QED  BY <1>0, <2>1, SearchStays DEF SearchStages, Probed
<1>11. CASE ProbeSizeGroup
  BY <1>0, <1>11, GroupSearch
<1>12. CASE ProbePartition
  BY <1>0, <1>12, LookupSearch
<1>13. CASE SearchDone \/ VerifyCandidates
  <2>1. pc' \in {"verify", "return"} /\ UNCHANGED <<setting, cached_signatures>>
    BY <1>13 DEF SearchDone, GoOn, VerifyCandidates, Verify, pallocOwnVars
  <2> QED  BY <1>0, <2>1, SearchStays DEF SearchStages
<1>14. ASSUME NEW r, Evict(r)
       PROVE  SearchInv'
  <2>1. /\ pc = "idle" /\ UNCHANGED <<setting, pc>>
        /\ cached_signatures' =
             [q \in DOMAIN cached_signatures \ {r} |-> cached_signatures[q]]
    BY <1>14 DEF Evict, setVars, joinVars, callVars
  <2>2. \A q \in DOMAIN cached_signatures' :
          q \in DOMAIN cached_signatures /\ cached_signatures'[q] = cached_signatures[q]
    BY <2>1
  <2>3. CachedFits'
    BY <1>0, <2>1, <2>2, CachedStays DEF SearchInv
  <2>4. Probed' /\ Covered'
    BY <2>1 DEF Probed, Covered, SearchStages
  <2> QED  BY <1>0, <2>3, <2>4 DEF SearchInv
<1> QED
  BY <1>1, <1>2, <1>3, <1>4, <1>5, <1>6, <1>7, <1>8, <1>9, <1>10, <1>11, <1>12, <1>13, <1>14
     DEF Next

(* Whatever similarity the join has, however its groups came to be and for *)
(* whatever state signatures were cached, the budget of a probing set is   *)
(* never more than the lookups its partitions allow: no entry is taken     *)
(* from an empty heap (palloc_join.cc 199-200, 264-292, similarity.hh      *)
(* max_hd_to).                                                             *)
THEOREM BudgetsAreCovered == Spec => []BudgetIsCovered
<1>1. Init => SearchInv
  <2> SUFFICES ASSUME Init PROVE SearchInv
    OBVIOUS
  <2>1. IndexInv /\ pc = "idle" /\ cached_signatures = <<>>
    BY InitIndexes DEF Init, InitSets, InitJoin
  <2> QED  BY <2>1 DEF SearchInv, Probed, CachedFits, Covered, SearchStages
<1>2. SearchInv /\ [Next]_pallocVars => SearchInv'
  BY SearchStep
<1>3. SearchInv => BudgetIsCovered
  <2> SUFFICES ASSUME SearchInv, pc = "probe" PROVE remaining <= LookupsLeft
    BY DEF BudgetIsCovered
  <2>1. remaining <= Lookups(costs)
    BY DEF SearchInv, Covered
  <2> QED  BY <2>1 DEF LookupsLeft, Lookups, Normal
<1> QED  BY <1>1, <1>2, <1>3, PTL DEF Spec
------------------------------------------------------------------------------
(* The merge of two token lists.  It is a function defined by recursion,   *)
(* and there is one: the places are ordered by what is left to be read, so *)
(* it can be defined for one more token left at a time.                    *)
ToRead(p, r, s) == (Len(r) - p[1]) + (Len(s) - p[2]) + 3

Goes(p, r, s, required) ==
  /\ ~(Len(r) - (p[1] - 1 - p[3]) < required) /\ ~(Len(s) - (p[2] - 1 - p[3]) < required)
  /\ p[3] < required

LEMMA PlaceFacts ==
  ASSUME NEW r \in Seq(Int), NEW s \in Seq(Int), NEW required \in Int, NEW p \in Places(r, s)
  PROVE  /\ p[1] \in 1 .. Len(r) + 1 /\ p[2] \in 1 .. Len(s) + 1 /\ p[3] \in Nat
         /\ p[3] < p[1] /\ p[3] < p[2] /\ p[3] <= Len(r) /\ p = <<p[1], p[2], p[3]>>
         /\ ToRead(p, r, s) \in Nat \ {0} /\ ToRead(p, r, s) <= Len(r) + Len(s) + 1
         /\ Len(r) \in Nat /\ Len(s) \in Nat
         /\ Goes(p, r, s, required) =>
              /\ p[1] \in 1 .. Len(r) /\ p[2] \in 1 .. Len(s)
              /\ r[p[1]] \in Int /\ s[p[2]] \in Int
<1>1. Len(r) \in Nat /\ Len(s) \in Nat
  BY LenProperties
<1>2. /\ p[1] \in 1 .. Len(r) + 1 /\ p[2] \in 1 .. Len(s) + 1 /\ p[3] \in 0 .. Len(r)
      /\ p[3] < p[1] /\ p[3] < p[2] /\ p = <<p[1], p[2], p[3]>>
  BY DEF Places
<1>3. ToRead(p, r, s) \in Nat \ {0} /\ ToRead(p, r, s) <= Len(r) + Len(s) + 1
  BY <1>1, <1>2 DEF ToRead
<1>4. ASSUME Goes(p, r, s, required)
      PROVE  p[1] \in 1 .. Len(r) /\ p[2] \in 1 .. Len(s)
  <2> DEFINE i == p[1]
             j == p[2]
             o == p[3]
             m == Len(r)
             n == Len(s)
  <2>1. ~(m - (i - 1 - o) < required) /\ ~(n - (j - 1 - o) < required) /\ o < required
    BY <1>4 DEF Goes
  <2>2. i \in 1 .. m + 1 /\ j \in 1 .. n + 1 /\ o \in Nat /\ m \in Nat /\ n \in Nat
    BY <1>1, <1>2
  <2> HIDE DEF i, j, o, m, n
  <2>3. i \in 1 .. m /\ j \in 1 .. n
    BY <2>1, <2>2
  <2> QED  BY <2>3 DEF i, j, m, n
<1>5. ASSUME Goes(p, r, s, required) PROVE r[p[1]] \in Int /\ s[p[2]] \in Int
  BY <1>4, <1>5, ElementOfSeq
<1> QED  BY <1>1, <1>2, <1>3, <1>4, <1>5

LEMMA NextPlaces ==
  ASSUME NEW r \in Seq(Int), NEW s \in Seq(Int), NEW required \in Int, NEW p \in Places(r, s),
         Goes(p, r, s, required),
         NEW q \in {<<p[1] + 1, p[2] + 1, p[3] + 1>>, <<p[1] + 1, p[2], p[3]>>,
                    <<p[1], p[2] + 1, p[3]>>}
  PROVE  q \in Places(r, s) /\ ToRead(q, r, s) < ToRead(p, r, s)
<1>1. /\ p[1] \in 1 .. Len(r) /\ p[2] \in 1 .. Len(s) /\ p[3] \in Nat
      /\ p[3] < p[1] /\ p[3] < p[2] /\ Len(r) \in Nat /\ Len(s) \in Nat
  BY PlaceFacts
<1> DEFINE i == p[1]
           j == p[2]
           o == p[3]
<1> HIDE DEF i, j, o
<1> DEFINE m == Len(r)
           n == Len(s)
<1>2. /\ i \in 1 .. m /\ j \in 1 .. n /\ o \in Nat /\ o < i /\ o < j
      /\ m \in Nat /\ n \in Nat
  BY <1>1 DEF i, j, o
<1>3. ASSUME NEW a \in 1 .. m + 1, NEW b \in 1 .. n + 1, NEW c \in 0 .. m, c < a, c < b,
             a + b > i + j, q = <<a, b, c>>
      PROVE  q \in Places(r, s) /\ ToRead(q, r, s) < ToRead(p, r, s)
  <2>1. q \in Places(r, s)
    BY <1>3 DEF Places
  <2>2. q[1] = a /\ q[2] = b
    BY <1>3
  <2>3. ToRead(q, r, s) = (m - a) + (n - b) + 3 /\ ToRead(p, r, s) = (m - i) + (n - j) + 3
    BY <2>2 DEF ToRead, i, j
  <2> HIDE DEF m, n
  <2> QED  BY <1>2, <1>3, <2>1, <2>3
<1> HIDE DEF m, n
<1>4. /\ i + 1 \in 1 .. m + 1 /\ j + 1 \in 1 .. n + 1 /\ i \in 1 .. m + 1 /\ j \in 1 .. n + 1
      /\ o \in 0 .. m /\ o + 1 \in 0 .. m /\ o < i + 1 /\ o < j + 1 /\ o < i /\ o < j
      /\ o + 1 < i + 1 /\ o + 1 < j + 1
      /\ (i + 1) + (j + 1) > i + j /\ (i + 1) + j > i + j /\ i + (j + 1) > i + j
  BY <1>2
<1>5. CASE q = <<i + 1, j + 1, o + 1>>
  BY <1>3, <1>4, <1>5
<1>6. CASE q = <<i + 1, j, o>>
  BY <1>3, <1>4, <1>6
<1>7. CASE q = <<i, j + 1, o>>
  BY <1>3, <1>4, <1>7
<1> QED  BY <1>5, <1>6, <1>7 DEF i, j, o

(* Where the merge stops it does not depend on the rest, and otherwise it  *)
(* is what it is at a place with less to be read.                          *)
LEMMA MergeUses ==
  ASSUME NEW r \in Seq(Int), NEW s \in Seq(Int), NEW required \in Int, NEW p \in Places(r, s),
         NEW f, NEW g,
         \A q \in Places(r, s) : ToRead(q, r, s) < ToRead(p, r, s) => f[q] = g[q]
  PROVE  MergeFrom(p, r, s, required, f) = MergeFrom(p, r, s, required, g)
<1> DEFINE both == <<p[1] + 1, p[2] + 1, p[3] + 1>>
           one == <<p[1] + 1, p[2], p[3]>>
           other == <<p[1], p[2] + 1, p[3]>>
<1>1. CASE Goes(p, r, s, required)
  <2>1. f[both] = g[both] /\ f[one] = g[one] /\ f[other] = g[other]
    BY <1>1, NextPlaces
  <2> QED  BY <2>1 DEF MergeFrom
<1>2. CASE ~Goes(p, r, s, required)
  <2>1. /\ Len(r) \in Nat /\ Len(s) \in Nat /\ p[1] \in Int /\ p[2] \in Int /\ p[3] \in Int
    BY PlaceFacts
  <2>2. \/ Len(r) - (p[1] - 1 - p[3]) < required
        \/ Len(s) - (p[2] - 1 - p[3]) < required
        \/ p[3] >= required
    BY <1>2, <2>1 DEF Goes
  <2> QED  BY <2>2 DEF MergeFrom
<1> QED  BY <1>1, <1>2

LEMMA MergeExists ==
  ASSUME NEW r \in Seq(Int), NEW s \in Seq(Int), NEW required \in Int
  PROVE  \E f : f = [p \in Places(r, s) |-> MergeFrom(p, r, s, required, f)]
<1> DEFINE P == Places(r, s)
           Up(n, f) == \A p \in P : ToRead(p, r, s) <= n => f[p] = MergeFrom(p, r, s, required, f)
           T == {n \in Nat : \E f : Up(n, f)}
           N == Len(r) + Len(s) + 1
<1>1. /\ \A p \in P : ToRead(p, r, s) \in Nat \ {0} /\ ToRead(p, r, s) <= N
      /\ N \in Nat \ {0}
  <2>1. Len(r) \in Nat /\ Len(s) \in Nat
    BY LenProperties
  <2> QED  BY <2>1, PlaceFacts
<1>2. ASSUME NEW n \in Nat, NEW f, Up(n, f)
      PROVE  \E g : Up(n + 1, g)
  <2> DEFINE g == [p \in P |-> IF ToRead(p, r, s) <= n THEN f[p]
                               ELSE MergeFrom(p, r, s, required, f)]
  <2>1. ASSUME NEW p \in P, ToRead(p, r, s) <= n + 1
        PROVE  MergeFrom(p, r, s, required, f) = MergeFrom(p, r, s, required, g)
    <3>1. \A q \in P : ToRead(q, r, s) < ToRead(p, r, s) => f[q] = g[q]
      <4> TAKE q \in P
      <4> HAVE ToRead(q, r, s) < ToRead(p, r, s)
      <4>1. ToRead(q, r, s) <= n
        BY <1>1, <2>1
      <4> QED  BY <4>1
    <3>2. p \in Places(r, s)
      OBVIOUS
    <3> HIDE DEF g, T, N, Up
    <3> QED  BY <3>1, <3>2, MergeUses
  <2>2. ASSUME NEW p \in P, ToRead(p, r, s) <= n + 1
        PROVE  g[p] = MergeFrom(p, r, s, required, g)
    <3>1. g[p] = MergeFrom(p, r, s, required, f)
      BY <1>2
    <3> QED  BY <2>1, <2>2, <3>1
  <2> HIDE DEF g
  <2>3. Up(n + 1, g)
    BY <2>2
  <2> QED  BY <2>3
<1>3. 1 \in T
  <2>1. Up(0, <<>>)
    BY <1>1
  <2>2. PICK g : Up(0 + 1, g)
    <3> HIDE DEF Up
    <3>1. \A n \in Nat : \A f : Up(n, f) => \E h : Up(n + 1, h)
      BY <1>2
    <3>2. 0 \in Nat
      OBVIOUS
    <3> QED  BY <2>1, <3>1, <3>2
  <2>3. 0 + 1 = 1
    OBVIOUS
  <2> HIDE DEF Up
  <2> QED  BY <2>2, <2>3
<1>4. \A n \in Nat \ {0} : n \in T => n + 1 \in T
  <2> HIDE DEF Up
  <2> QED  BY <1>2
<1>5. N \in T
  <2> HIDE DEF T, N
  <2> QED  BY <1>1, <1>3, <1>4, SetInduction
<1>6. PICK f : Up(N, f)
  BY <1>5
<1> DEFINE h == [p \in P |-> f[p]]
<1>7. ASSUME NEW p \in P PROVE h[p] = MergeFrom(p, r, s, required, h)
  <2>1. f[p] = MergeFrom(p, r, s, required, f)
    BY <1>1, <1>6
  <2>2. \A q \in P : f[q] = h[q]
    OBVIOUS
  <2> HIDE DEF h
  <2>3. MergeFrom(p, r, s, required, f) = MergeFrom(p, r, s, required, h)
    BY <2>2, MergeUses
  <2> QED  BY <2>1, <2>2, <2>3
<1>8. h = [p \in P |-> MergeFrom(p, r, s, required, h)]
  <2>1. DOMAIN h = P /\ h = [p \in DOMAIN h |-> h[p]]
    OBVIOUS
  <2> HIDE DEF h
  <2> QED  BY <1>7, <2>1
<1> QED  BY <1>8

(* What the merge finds is in both lists.                                  *)
Common(r, s, i, j) == {k \in i .. Len(r) : \E l \in j .. Len(s) : r[k] = s[l]}

LEMMA CommonFacts ==
  ASSUME NEW r \in Seq(Int), NEW s \in Seq(Int), NEW i \in Nat \ {0}, NEW j \in Nat \ {0}
  PROVE  /\ IsFiniteSet(Common(r, s, i, j)) /\ Cardinality(Common(r, s, i, j)) \in Nat
         /\ \A a, b \in Nat : i <= a /\ j <= b =>
              Cardinality(Common(r, s, a, b)) <= Cardinality(Common(r, s, i, j))
         /\ i <= Len(r) /\ j <= Len(s) /\ r[i] = s[j] =>
              Cardinality(Common(r, s, i + 1, j + 1)) + 1 <= Cardinality(Common(r, s, i, j))
<1>0. Len(r) \in Nat /\ Len(s) \in Nat
  BY LenProperties
<1>1. ASSUME NEW a \in Nat, NEW b \in Nat
      PROVE  IsFiniteSet(Common(r, s, a, b)) /\ Cardinality(Common(r, s, a, b)) \in Nat
  <2>1. IsFiniteSet(a .. Len(r))
    BY <1>0, FS_Interval
  <2>2. Common(r, s, a, b) \in SUBSET (a .. Len(r))
    BY DEF Common
  <2>3. IsFiniteSet(Common(r, s, a, b))
    BY <2>1, <2>2, FS_Subset
  <2> QED  BY <2>3, FS_CardinalityType
<1>2. ASSUME NEW a \in Nat, NEW b \in Nat, i <= a, j <= b
      PROVE  Cardinality(Common(r, s, a, b)) <= Cardinality(Common(r, s, i, j))
  <2>1. Common(r, s, a, b) \in SUBSET Common(r, s, i, j)
    BY <1>0, <1>2 DEF Common
  <2> QED  BY <1>1, <2>1, FS_Subset
<1>3. ASSUME i <= Len(r), j <= Len(s), r[i] = s[j]
      PROVE  Cardinality(Common(r, s, i + 1, j + 1)) + 1 <= Cardinality(Common(r, s, i, j))
  <2> DEFINE C == Common(r, s, i + 1, j + 1)
  <2>1. i \notin C
    BY <1>0 DEF Common
  <2>2. C \cup {i} \in SUBSET Common(r, s, i, j)
    BY <1>0, <1>3 DEF Common
  <2>3. IsFiniteSet(C)
    BY <1>1
  <2>4. Cardinality(C \cup {i}) = Cardinality(C) + 1
    BY <2>1, <2>3, FS_AddElement
  <2>5. IsFiniteSet(Common(r, s, i, j))
    BY <1>1
  <2> QED  BY <2>2, <2>4, <2>5, FS_Subset
<1> QED  BY <1>1, <1>2, <1>3

LEMMA MergeFinds ==
  ASSUME NEW r \in Seq(Int), NEW s \in Seq(Int), NEW required \in Int,
         NEW f, f = [p \in Places(r, s) |-> MergeFrom(p, r, s, required, f)]
  PROVE  \A p \in Places(r, s) :
           f[p] => p[3] + Cardinality(Common(r, s, p[1], p[2])) >= required
<1> DEFINE Sound(p) == f[p] \in BOOLEAN /\ (f[p] => p[3] + Cardinality(Common(r, s, p[1], p[2])) >= required)
           T == {n \in Nat : \A p \in Places(r, s) : ToRead(p, r, s) <= n => Sound(p)}
           N == Len(r) + Len(s) + 1
<1>1. /\ \A p \in Places(r, s) : ToRead(p, r, s) \in Nat \ {0} /\ ToRead(p, r, s) <= N
      /\ N \in Nat \ {0}
  <2>1. Len(r) \in Nat /\ Len(s) \in Nat
    BY LenProperties
  <2> QED  BY <2>1, PlaceFacts
<1>2. ASSUME NEW p \in Places(r, s),
             \A q \in Places(r, s) : ToRead(q, r, s) < ToRead(p, r, s) => Sound(q)
      PROVE  Sound(p)
  <2> DEFINE i == p[1]
             j == p[2]
             o == p[3]
             C(a, b) == Cardinality(Common(r, s, a, b))
  <2>1. /\ i \in Nat \ {0} /\ j \in Nat \ {0} /\ o \in Nat
        /\ Len(r) \in Nat /\ Len(s) \in Nat
        /\ Goes(p, r, s, required) =>
             i <= Len(r) /\ j <= Len(s) /\ r[i] \in Int /\ s[j] \in Int
    <3> HIDE DEF i, j, o
    <3>1. /\ i \in 1 .. Len(r) + 1 /\ j \in 1 .. Len(s) + 1 /\ o \in Nat
          /\ Len(r) \in Nat /\ Len(s) \in Nat
          /\ Goes(p, r, s, required) =>
               i \in 1 .. Len(r) /\ j \in 1 .. Len(s) /\ r[i] \in Int /\ s[j] \in Int
      BY PlaceFacts DEF i, j, o
    <3> QED  BY <3>1
  <2>2. f[p] = MergeFrom(p, r, s, required, f)
    OBVIOUS
  <2>3. /\ C(i, j) \in Nat /\ C(i + 1, j + 1) \in Nat /\ C(i + 1, j) \in Nat /\ C(i, j + 1) \in Nat
        /\ C(i + 1, j) <= C(i, j) /\ C(i, j + 1) <= C(i, j)
        /\ i <= Len(r) /\ j <= Len(s) /\ r[i] = s[j] => C(i + 1, j + 1) + 1 <= C(i, j)
    <3>1. i + 1 \in Nat \ {0} /\ j + 1 \in Nat \ {0} /\ i <= i + 1 /\ j <= j + 1 /\ i <= i /\ j <= j
          /\ i \in Nat \ {0} /\ j \in Nat \ {0} /\ i \in Nat /\ j \in Nat /\ i + 1 \in Nat /\ j + 1 \in Nat
      BY <2>1
    <3> HIDE DEF i, j
    <3> QED  BY <3>1, CommonFacts
  <2>4. CASE ~Goes(p, r, s, required)
    <3>1. (o >= required /\ f[p] = TRUE) \/ (~(o >= required) /\ f[p] = FALSE)
      <4>1. \/ Len(r) - (p[1] - 1 - p[3]) < required
            \/ Len(s) - (p[2] - 1 - p[3]) < required
            \/ p[3] >= required
        BY <2>1, <2>4 DEF Goes
      <4>2. f[p] = (o >= required)
        BY <2>2, <4>1 DEF MergeFrom
      <4> DEFINE enough == o >= required
      <4>3. enough \in BOOLEAN /\ f[p] = enough
        BY <4>2
      <4> HIDE DEF enough
      <4>4. (enough /\ f[p] = TRUE) \/ (~enough /\ f[p] = FALSE)
        BY <4>3
      <4> QED  BY <4>4 DEF enough
    <3> HIDE DEF i, j, o, C
    <3>2. f[p] \in BOOLEAN /\ (f[p] => o >= required)
      BY <3>1
    <3>3. f[p] => o + C(i, j) >= required
      <4> SUFFICES ASSUME f[p] PROVE o + C(i, j) >= required
        OBVIOUS
      <4>1. o >= required
        BY <3>2
      <4> QED  BY <2>1, <2>3, <4>1
    <3> QED  BY <3>2, <3>3 DEF i, j, o, C
  <2>5. CASE Goes(p, r, s, required)
    <3> DEFINE both == <<i + 1, j + 1, o + 1>>
               one == <<i + 1, j, o>>
               other == <<i, j + 1, o>>
    <3>1. Sound(both) /\ Sound(one) /\ Sound(other)
      <4> HIDE DEF Sound
      <4> QED  BY <1>2, <2>5, NextPlaces
    <3>2. /\ f[both] \in BOOLEAN /\ f[one] \in BOOLEAN /\ f[other] \in BOOLEAN
          /\ f[both] => o + 1 + C(i + 1, j + 1) >= required
          /\ f[one] => o + C(i + 1, j) >= required
          /\ f[other] => o + C(i, j + 1) >= required
      BY <3>1
    <3>3. \/ r[i] = s[j] /\ f[p] = f[both]
          \/ f[p] = f[one]
          \/ f[p] = f[other]
      <4>1. r[i] = s[j] \/ r[i] < s[j] \/ r[i] > s[j]
        BY <2>1, <2>5
      <4>2. ~(\/ Len(r) - (p[1] - 1 - p[3]) < required
              \/ Len(s) - (p[2] - 1 - p[3]) < required
              \/ p[3] >= required)
        BY <2>1, <2>5 DEF Goes
      <4>3. f[p] = CASE r[i] = s[j] -> f[both]
                     [] r[i] < s[j] -> f[one]
                     [] r[i] > s[j] -> f[other]
        BY <2>2, <4>2 DEF MergeFrom
      <4> HIDE DEF i, j, o, both, one, other
      <4>4. CASE r[i] = s[j]
        <5>1. ~(r[i] < s[j]) /\ ~(r[i] > s[j])
          BY <2>1, <2>5, <4>4
        <5> QED  BY <4>3, <4>4, <5>1
      <4>5. CASE r[i] < s[j]
        <5>1. ~(r[i] = s[j]) /\ ~(r[i] > s[j])
          BY <2>1, <2>5, <4>5
        <5> QED  BY <4>3, <4>5, <5>1
      <4>6. CASE r[i] > s[j]
        <5>1. ~(r[i] = s[j]) /\ ~(r[i] < s[j])
          BY <2>1, <2>5, <4>6
        <5> QED  BY <4>3, <4>6, <5>1
      <4> QED  BY <4>1, <4>4, <4>5, <4>6
    <3> HIDE DEF both, one, other, C, i, j, o
    <3>4. ASSUME f[p] PROVE o + C(i, j) >= required
      <4>1. CASE r[i] = s[j] /\ f[p] = f[both]
        <5>1. o + 1 + C(i + 1, j + 1) >= required
          BY <3>2, <3>4, <4>1
        <5> QED  BY <2>1, <2>3, <2>5, <4>1, <5>1
      <4>2. CASE f[p] = f[one]
        <5>1. o + C(i + 1, j) >= required
          BY <3>2, <3>4, <4>2
        <5> QED  BY <2>1, <2>3, <5>1
      <4>3. CASE f[p] = f[other]
        <5>1. o + C(i, j + 1) >= required
          BY <3>2, <3>4, <4>3
        <5> QED  BY <2>1, <2>3, <5>1
      <4> QED  BY <3>3, <4>1, <4>2, <4>3
    <3>5. f[p] \in BOOLEAN
      BY <3>2, <3>3
    <3> QED  BY <3>4, <3>5 DEF C, i, j, o
  <2> QED  BY <2>4, <2>5
<1>3. 1 \in T
  <2>1. ASSUME NEW p \in Places(r, s), ToRead(p, r, s) <= 1 PROVE Sound(p)
    <3>1. \A q \in Places(r, s) : ~(ToRead(q, r, s) < ToRead(p, r, s))
      BY <1>1, <2>1
    <3> HIDE DEF Sound
    <3> QED  BY <1>2, <3>1
  <2> HIDE DEF Sound
  <2> QED  BY <2>1
<1>4. ASSUME NEW n \in Nat \ {0}, n \in T PROVE n + 1 \in T
  <2>1. ASSUME NEW p \in Places(r, s), ToRead(p, r, s) <= n + 1 PROVE Sound(p)
    <3>1. \A q \in Places(r, s) : ToRead(q, r, s) < ToRead(p, r, s) => Sound(q)
      <4> TAKE q \in Places(r, s)
      <4> HAVE ToRead(q, r, s) < ToRead(p, r, s)
      <4>1. ToRead(q, r, s) <= n
        BY <1>1, <2>1
      <4> HIDE DEF Sound
      <4> QED  BY <1>4, <4>1
    <3> HIDE DEF Sound
    <3> QED  BY <1>2, <3>1
  <2> HIDE DEF Sound
  <2> QED  BY <2>1
<1>5. N \in T
  <2> HIDE DEF T, N
  <2> QED  BY <1>1, <1>3, <1>4, SetInduction
<1> HIDE DEF Sound
<1>6. \A p \in Places(r, s) : Sound(p)
  BY <1>1, <1>5
<1> QED  BY <1>6 DEF Sound

NoTokenTwice(r) == \A i, j \in 1 .. Len(r) : r[i] = r[j] => i = j

LEMMA RangeFacts ==
  ASSUME NEW r \in Seq(Int)
  PROVE  Range(r) = {r[i] : i \in 1 .. Len(r)} /\ Len(r) \in Nat
<1>1. Len(r) \in Nat /\ DOMAIN r = 1 .. Len(r)
  BY LenProperties
<1> QED  BY <1>1 DEF Range

LEMMA TokensCounted ==
  ASSUME NEW r \in Seq(Int), NoTokenTwice(r)
  PROVE  IsFiniteSet(Range(r)) /\ Cardinality(Range(r)) = Len(r)
<1> DEFINE n == Len(r)
<1>1. n \in Nat /\ Range(r) = {r[i] : i \in 1 .. n}
  BY RangeFacts
<1>2. IsFiniteSet(1 .. n) /\ Cardinality(1 .. n) = n
  <2> HIDE DEF n
  <2>1. 1 \in Int /\ n \in Int /\ (IF 1 > n THEN 0 ELSE n - 1 + 1) = n
    BY <1>1
  <2> QED  BY <2>1, FS_Interval
<1> DEFINE f == [i \in 1 .. n |-> r[i]]
<1>3. /\ f \in [1 .. n -> Range(r)] /\ \A i, j \in 1 .. n : f[i] = f[j] => i = j
      /\ \A t \in Range(r) : \E i \in 1 .. n : f[i] = t
  BY <1>1 DEF NoTokenTwice
<1> HIDE DEF f, n
<1>4. f \in Bijection(1 .. n, Range(r))
  BY <1>3 DEF Bijection, Injection, Surjection, IsInjective
<1>5. ExistsBijection(1 .. n, Range(r))
  BY <1>4 DEF ExistsBijection
<1> QED  BY <1>2, <1>5, FS_Bijection DEF n

(* What the merge has yet to find at its start is what the lists share.    *)
LEMMA CommonIsShared ==
  ASSUME NEW r \in Seq(Int), NEW s \in Seq(Int), NoTokenTwice(r)
  PROVE  Cardinality(Common(r, s, 1, 1)) = Cardinality(Range(r) \cap Range(s))
<1> DEFINE C == Common(r, s, 1, 1)
           B == Range(r) \cap Range(s)
           g == [k \in C |-> r[k]]
<1>1. IsFiniteSet(C)
  <2>1. 1 \in Nat \ {0}
    OBVIOUS
  <2> QED  BY <2>1, CommonFacts
<1>2. Range(r) = {r[i] : i \in 1 .. Len(r)} /\ Range(s) = {s[i] : i \in 1 .. Len(s)}
  BY RangeFacts
<1>3. \A k \in C : k \in 1 .. Len(r) /\ r[k] \in Range(s)
  BY <1>2 DEF Common
<1>4. g \in [C -> B]
  BY <1>2, <1>3
<1>5. \A i, j \in C : g[i] = g[j] => i = j
  BY <1>3 DEF NoTokenTwice
<1>6. \A t \in B : \E k \in C : g[k] = t
  <2> TAKE t \in B
  <2>1. PICK k \in 1 .. Len(r) : t = r[k]
    BY <1>2
  <2>2. PICK l \in 1 .. Len(s) : t = s[l]
    BY <1>2
  <2>3. k \in C
    BY <2>1, <2>2 DEF Common
  <2> QED  BY <2>1, <2>3
<1> HIDE DEF g, C, B
<1>7. g \in Bijection(C, B)
  BY <1>4, <1>5, <1>6 DEF Bijection, Injection, Surjection, IsInjective
<1>8. ExistsBijection(C, B)
  BY <1>7 DEF ExistsBijection
<1> QED  BY <1>1, <1>8, FS_Bijection DEF B, C

(* Records that pass have as many tokens in common.                        *)
LEMMA OverlapFound ==
  ASSUME NEW r \in Seq(Int), NEW s \in Seq(Int), NoTokenTwice(r), NEW required \in Int,
         overlap_at_least(r, s, required)
  PROVE  required <= Cardinality(Range(r) \cap Range(s))
<1> DEFINE f == CHOOSE merge : merge = [place \in Places(r, s) |->
                                          MergeFrom(place, r, s, required, merge)]
           C == Common(r, s, 1, 1)
           B == Range(r) \cap Range(s)
<1>1. f = [p \in Places(r, s) |-> MergeFrom(p, r, s, required, f)]
  BY MergeExists
<1>2. f[<<1, 1, 0>>]
  BY DEF overlap_at_least
<1> HIDE DEF f
<1>3. Len(r) \in Nat /\ Len(s) \in Nat
  BY LenProperties
<1>4. <<1, 1, 0>> \in Places(r, s)
  BY <1>3 DEF Places
<1>5. \A p \in Places(r, s) : f[p] => p[3] + Cardinality(Common(r, s, p[1], p[2])) >= required
  BY <1>1, MergeFinds
<1>6. 0 + Cardinality(C) >= required
  <2> DEFINE p == <<1, 1, 0>>
  <2>1. p \in Places(r, s) /\ f[p] /\ p[1] = 1 /\ p[2] = 1 /\ p[3] = 0
    BY <1>2, <1>4
  <2> HIDE DEF p
  <2> QED  BY <1>5, <2>1
<1>7. IsFiniteSet(C) /\ Cardinality(C) \in Nat
  <2>1. 1 \in Nat \ {0}
    OBVIOUS
  <2> QED  BY <2>1, CommonFacts
<1>8. Cardinality(C) = Cardinality(B)
  BY CommonIsShared
<1> QED  BY <1>6, <1>7, <1>8

LEMMA RoundedUp ==
  ASSUME NEW a \in Int, NEW d \in Nat \ {0}, NEW b \in Int, ceil(a, d) <= b
  PROVE  a <= d * b
<1>1. ceil(a, d) \in Int /\ a <= d * ceil(a, d)
  BY DivisionRounds
<1>2. d * ceil(a, d) <= d * b
  BY <1>1
<1> QED  BY <1>1, <1>2

(* The required overlap makes sets of tokens similar, given that neither   *)
(* is too long or too short for the other.                                 *)
LEMMA SimilarByOverlap ==
  ASSUME NEW m, IsSimilarity(m), NEW r \in Seq(Int), NEW s \in Seq(Int),
         NoTokenTwice(r), NoTokenTwice(s), is_in_threshold(m, r, s),
         minimum_length_bound(m, Len(s)) <= Len(r), Len(r) <= maximum_length_bound(m, Len(s))
  PROVE  Similar(m, Range(r), Range(s))
<1> DEFINE R == Range(r)
           S == Range(s)
           nr == Len(r)
           ns == Len(s)
           both == Cardinality(R \cap S)
           required == equivalent_overlap(m, nr, ns)
<1>1. /\ IsFiniteSet(R) /\ Cardinality(R) = nr /\ IsFiniteSet(S) /\ Cardinality(S) = ns
      /\ nr \in Nat /\ ns \in Nat
  BY TokensCounted, LenProperties
<1>2. IsFiniteSet(R \cap S) /\ both \in Nat
  <2>1. R \cap S \in SUBSET R
    OBVIOUS
  <2>2. IsFiniteSet(R \cap S)
    BY <1>1, <2>1, FS_Subset
  <2> QED  BY <2>2, FS_CardinalityType
<1>3. Cardinality(R \cup S) = nr + ns - both
  <2> HIDE DEF R, S
  <2> QED  BY <1>1, FS_Union
<1>4. Cardinality((R \ S) \cup (S \ R)) = nr + ns - 2 * both
  <2> HIDE DEF R, S
  <2>1. /\ IsFiniteSet(R \ S) /\ Cardinality(R \ S) = nr - both
        /\ IsFiniteSet(S \ R) /\ Cardinality(S \ R) = ns - both
    <3>1. S \cap R = R \cap S
      OBVIOUS
    <3> QED  BY <1>1, <3>1, FS_Difference
  <2>2. (R \ S) \cap (S \ R) = {}
    OBVIOUS
  <2>3. Cardinality((R \ S) \cap (S \ R)) = 0
    BY <2>2, FS_EmptySet
  <2>4. Cardinality((R \ S) \cup (S \ R)) = nr - both + (ns - both) - 0
    BY <2>1, <2>3, FS_Union
  <2> QED  BY <1>1, <1>2, <2>4
<1>5. required \in Int => required <= both
  BY OverlapFound DEF is_in_threshold
<1> HIDE DEF R, S, nr, ns, both
<1>6. CASE IsJaccard(m)
  <2> DEFINE a == m.num
             d == m.den
  <2>1. a \in Nat \ {0} /\ d \in Nat \ {0} /\ a + d \in Nat \ {0}
    BY <1>6 DEF IsJaccard
  <2>2. required = ceil(a * (nr + ns), a + d)
    BY <1>6 DEF IsJaccard, equivalent_overlap, fractional_overlap
  <2>3. a * (nr + ns) \in Int
    BY <1>1, <2>1
  <2> HIDE DEF a, d
  <2>4. required \in Int
    BY <2>1, <2>2, <2>3, DivisionRounds
  <2>5. a * (nr + ns) <= (a + d) * both
    BY <1>2, <1>5, <2>1, <2>2, <2>3, <2>4, RoundedUp
  <2>6. d * both >= a * (nr + ns - both)
    <3>1. (a + d) * both = a * both + d * both /\ a * (nr + ns - both) = a * (nr + ns) - a * both
      BY <1>1, <1>2, <2>1
    <3>2. a * both \in Int /\ d * both \in Int
      BY <1>2, <2>1
    <3> QED  BY <2>3, <2>5, <3>1, <3>2
  <2> QED  BY <1>3, <1>6, <2>6 DEF IsJaccard, Similar, both, R, S, a, d
<1>7. CASE m.kind = "hamming" /\ m.t \in Nat
  <2>1. required = ceil(nr + ns - m.t, 2)
    BY <1>7 DEF equivalent_overlap, fractional_overlap
  <2>2. required \in Int
    <3>1. nr + ns - m.t \in Int /\ 2 \in Nat \ {0}
      BY <1>1, <1>7
    <3> HIDE DEF required
    <3> QED  BY <2>1, <3>1, DivisionRounds
  <2>3. nr + ns - m.t <= 2 * both
    <3>1. nr + ns - m.t \in Int /\ 2 \in Nat \ {0} /\ ceil(nr + ns - m.t, 2) <= both
      BY <1>1, <1>5, <1>7, <2>1, <2>2
    <3> QED  BY <1>2, <3>1, RoundedUp
  <2>4. nr + ns - 2 * both <= m.t
    BY <1>1, <1>2, <1>7, <2>3
  <2> QED  BY <1>4, <1>7, <2>4 DEF Similar, R, S
<1>8. CASE m.kind = "structural" /\ m.t \in Nat /\ m.q \in Nat \ {0}
  <2> DEFINE l == m.q * m.t
  <2>1. required = ceil(greater(nr, ns) - l, 1) /\ l \in Nat
    BY <1>8 DEF equivalent_overlap, fractional_overlap
  <2>2. greater(nr, ns) \in Nat
    BY <1>1 DEF greater
  <2> HIDE DEF l
  <2>3. required = greater(nr, ns) - l
    BY <2>1, <2>2 DEF ceil
  <2>4. greater(nr, ns) - both <= l
    BY <1>2, <1>5, <2>1, <2>2, <2>3
  <2>5. greater(nr, ns) - lesser(nr, ns) <= m.t
    <3>1. ns - m.t <= nr /\ nr <= ns + m.t
      BY <1>8 DEF minimum_length_bound, maximum_length_bound, nr, ns
    <3> QED  BY <1>1, <1>8, <3>1 DEF greater, lesser
  <2> QED  BY <1>1, <1>8, <2>4, <2>5 DEF Similar, both, R, S, l
<1>9. CASE IsJaro(m)
  <2> DEFINE a == m.num
             d == m.den
             top == (3 * a - d) * nr * ns
             bottom == d * (nr + ns)
  <2>1. a \in Nat /\ d \in Nat \ {0} /\ m.kind = "jaro_overlap"
    BY <1>9 DEF IsJaro
  <2>2. required = ceil(top, bottom)
    BY <2>1 DEF equivalent_overlap, fractional_overlap
  <2>3. Similar(m, Range(r), Range(s)) <=>
          d * (both * (nr + ns) + nr * ns) >= 3 * a * nr * ns
    BY <1>1, <2>1 DEF Similar, both, R, S
  <2> HIDE DEF a, d
  <2>4. CASE nr + ns = 0
    <3>1. nr = 0 /\ ns = 0
      BY <1>1, <2>4
    <3>2. both * (nr + ns) + nr * ns = 0 /\ 3 * a * nr * ns = 0
      BY <1>2, <2>1, <3>1
    <3> QED  BY <2>1, <2>3, <3>2
  <2>5. CASE nr + ns # 0
    <3>1. nr + ns \in Nat \ {0}
      BY <1>1, <2>5
    <3>2. top \in Int /\ bottom \in Nat \ {0}
      BY <1>1, <2>1, <3>1
    <3> HIDE DEF top, bottom
    <3>3. required \in Int
      BY <2>2, <3>2, DivisionRounds
    <3>4. top <= bottom * both
      BY <1>2, <1>5, <2>2, <3>2, <3>3, RoundedUp
    <3>5. /\ d * (both * (nr + ns) + nr * ns) = bottom * both + d * (nr * ns)
          /\ 3 * a * nr * ns = top + d * (nr * ns)
      BY <1>1, <1>2, <2>1 DEF top, bottom
    <3>6. bottom * both \in Int /\ d * (nr * ns) \in Int
      BY <1>1, <1>2, <2>1, <3>2
    <3> QED  BY <2>3, <3>2, <3>4, <3>5, <3>6
  <2> QED  BY <2>4, <2>5
<1> QED  BY <1>6, <1>7, <1>8, <1>9 DEF IsSimilarity, IsJaccard, IsJaro

------------------------------------------------------------------------------
(* The inductive invariant of what a call finds.  Small entries are those  *)
(* of inserted records; marked are the candidates of the running call and  *)
(* nothing else; a candidate is one of the records of the instance, lies   *)
(* between the bounds and passes the filter.                               *)
Calling == {"prepare", "small", "search", "probe", "verify", "return"}
Finding == {"search", "probe", "verify", "return"}

SmallOfRecords ==
  /\ DOMAIN small_index = Instances
  /\ \A a \in Instances : \A e \in small_index[a] :
       \E id \in Ids(a) : e = <<size(Record(a, id)), id>>

CallMade == pc \in Calling => probe \in 1 .. Len(setting.data) /\ filter \in setting.filters

Marks ==
  /\ already_seen =
       [a \in Instances |->
          IF pc \in Calling \ {"return"} /\ a = caller THEN candidates ELSE {}]
  /\ pc \notin Finding => candidates = {}
  /\ repeated = {}

Fitting(id) ==
  /\ id \in Ids(caller) /\ Admitted(Record(caller, id))
  /\ minimum_size <= size(Record(caller, id)) /\ size(Record(caller, id)) <= maximum_size

CandidatesFit == pc \in Finding => \A id \in candidates : Fitting(id)

FoundInv ==
  /\ IndexInv /\ SmallOfRecords /\ CallMade /\ Marks /\ CandidatesFit
  /\ pc = "return" => emitted \subseteq Expected

(* What neither is skipped nor ends the scan passes the filter.            *)
LEMMA FilterAdmits ==
  ASSUME setting \in Settings, filter \in setting.filters, NEW r \in Int, probe \in Int,
         ~scan_skip_cond(r), ~scan_break_cond(r)
  PROVE  Admitted(r)
<1>1. filter.type \in {"CUTOFF", "CUTOFF_SELFJOIN"} =>
        filter.index_start \in Int /\ filter.index_end \in Int
  BY DatasetAssumption
<1>2. CASE filter.type \in {"SYMMETRIC_PAIRS", "SIMPLE_SELFJOIN"}
  BY <1>2 DEF scan_skip_cond, Admitted
<1>3. CASE filter.type = "CUTOFF"
  <2>1. ~(r < filter.index_start) /\ ~(r > filter.index_end)
    BY <1>3 DEF scan_skip_cond, scan_break_cond
  <2> QED  BY <1>1, <1>3, <2>1 DEF Admitted
<1>4. CASE filter.type = "CUTOFF_SELFJOIN"
  <2>1. ~(r < filter.index_start) /\ r < probe /\ ~(r > filter.index_end)
    BY <1>4 DEF scan_skip_cond, scan_break_cond
  <2> QED  BY <1>1, <1>4, <2>1 DEF Admitted
<1>5. CASE filter.type \notin {"SYMMETRIC_PAIRS", "SIMPLE_SELFJOIN", "CUTOFF", "CUTOFF_SELFJOIN"}
  BY <1>5 DEF Admitted
<1> QED  BY <1>2, <1>3, <1>4, <1>5

(* The lists that are read have ids of the instance.                       *)
LEMMA ListsHaveIds ==
  ASSUME IndexInv, caller \in Instances, NEW list, NEW g, NEW signature,
         list = Find(index[caller], g, signature), NEW n \in DOMAIN list
  PROVE  list[n] \in Ids(caller)
<1>1. Built(index[caller], KeysOf(caller))
  BY DEF IndexInv, Rebuilt
<1>2. CASE <<g, signature>> \in DOMAIN index[caller]
  <2> DEFINE k == <<g, signature>>
  <2>1. list = index[caller][k]
    BY <1>2 DEF Find
  <2> HIDE DEF k
  <2>2. list \in Seq(Nat) /\ \A id : id \in ToSet(list) => id \in DOMAIN KeysOf(caller)
    BY <1>1, <1>2, <2>1 DEF Built, k
  <2>3. list[n] \in ToSet(list)
    BY <2>2 DEF ToSet
  <2> QED  BY <2>2, <2>3 DEF KeysOf
<1>3. CASE <<g, signature>> \notin DOMAIN index[caller]
  BY <1>3 DEF Find
<1> QED  BY <1>2, <1>3

LEMMA HandledFit ==
  ASSUME FoundInv, pc = "probe", NEW entry,
         NEW id \in Handled(UNION {read_filtered(caller, list) : list \in Lists(entry)})
  PROVE  Fitting(id) /\ id \notin candidates
<1>1. /\ IndexInv /\ setting \in Settings /\ caller \in Instances
      /\ probe \in 1 .. Len(setting.data) /\ filter \in setting.filters
      /\ already_seen[caller] = candidates
  BY DEF FoundInv, IndexInv, GroupsInv, Typed, CallMade, Marks, Calling
<1>2. /\ id \notin candidates
      /\ minimum_size <= size(Record(caller, id)) /\ size(Record(caller, id)) <= maximum_size
  BY <1>1 DEF Handled
<1>3. PICK list \in Lists(entry) : id \in read_filtered(caller, list)
  BY DEF Handled
<1>4. PICK n \in DOMAIN list :
        /\ id = list[n] /\ ~scan_skip_cond(Record(caller, list[n]))
        /\ \A m \in 1 .. n : scan_skip_cond(Record(caller, list[m]))
                             \/ ~scan_break_cond(Record(caller, list[m]))
  BY <1>3 DEF read_filtered
<1>5. \E g, signature : list = Find(index[caller], g, signature)
  BY <1>3 DEF Lists
<1>6. id \in Ids(caller)
  BY <1>1, <1>4, <1>5, ListsHaveIds
<1>7. Record(caller, id) \in Int /\ probe \in Int
  <2>1. Record(caller, id) \in 1 .. Len(setting.data)
    BY <1>1, <1>6, RecordFacts DEF IndexInv
  <2> QED  BY <1>1, <2>1
<1>8. n \in 1 .. n
  <2>1. PICK g, signature : list = Find(index[caller], g, signature)
    BY <1>5
  <2>2. CASE <<g, signature>> \in DOMAIN index[caller]
    <3>1. list \in Seq(Nat)
      BY <1>1, <2>1, <2>2 DEF IndexInv, Rebuilt, Built, Find
    <3> QED  BY <1>4, <3>1
  <2>3. CASE <<g, signature>> \notin DOMAIN index[caller]
    BY <1>4, <2>1, <2>3 DEF Find
  <2> QED  BY <2>2, <2>3
<1>9. ~scan_skip_cond(Record(caller, id)) /\ ~scan_break_cond(Record(caller, id))
  BY <1>4, <1>8
<1>10. Admitted(Record(caller, id))
  BY <1>1, <1>7, <1>9, FilterAdmits
<1> QED  BY <1>2, <1>6, <1>10 DEF Fitting

LEMMA SmallFit ==
  ASSUME FoundInv, pc = "small", NEW id \in small_results(caller)
  PROVE  Fitting(id)
<1>1. /\ IndexInv /\ setting \in Settings /\ caller \in Instances
      /\ probe \in 1 .. Len(setting.data) /\ filter \in setting.filters
  BY DEF FoundInv, IndexInv, GroupsInv, Typed, CallMade, Calling
<1>2. PICK e \in small_index[caller] :
        /\ id = e[2] /\ minimum_size <= e[1] /\ e[1] <= maximum_size
        /\ ~scan_skip_cond(Record(caller, e[2])) /\ ~scan_break_cond(Record(caller, e[2]))
  BY DEF small_results
<1>3. PICK i \in Ids(caller) : e = <<size(Record(caller, i)), i>>
  BY <1>1, <1>2 DEF FoundInv, SmallOfRecords
<1>4. i = id /\ e[1] = size(Record(caller, id))
  BY <1>2, <1>3
<1>5. Record(caller, id) \in Int /\ probe \in Int
  <2>1. Record(caller, id) \in 1 .. Len(setting.data)
    BY <1>1, <1>3, <1>4, RecordFacts DEF IndexInv
  <2> QED  BY <1>1, <2>1
<1>6. Admitted(Record(caller, id))
  BY <1>1, <1>2, <1>5, FilterAdmits
<1> QED  BY <1>2, <1>3, <1>4, <1>6 DEF Fitting

(* What is verified is expected.                                           *)
LEMMA VerifiedIsExpected ==
  ASSUME FoundInv, pc = "verify",
         NEW r \in Compared, is_in_threshold(sim, tokens(r), tokens(probe))
  PROVE  r \in Expected
<1>1. /\ IndexInv /\ setting \in Settings /\ caller \in Instances
      /\ probe \in 1 .. Len(setting.data)
  BY DEF FoundInv, IndexInv, GroupsInv, Typed, CallMade, Calling
<1>2. PICK id \in candidates : r = Record(caller, id)
  BY DEF Compared
<1>3. Fitting(id)
  BY <1>2 DEF FoundInv, CandidatesFit, Finding
<1>4. r \in Indexed(caller) /\ r \in 1 .. Len(setting.data)
  BY <1>1, <1>2, <1>3, RecordFacts DEF Fitting, Indexed, IndexInv
<1>5. ASSUME NEW q \in 1 .. Len(setting.data)
      PROVE  tokens(q) \in Seq(Int) /\ NoTokenTwice(tokens(q)) /\ Len(tokens(q)) = size(q)
  <2>1. /\ setting.data \in Seq(Seq(Int))
        /\ \A i, j \in 1 .. Len(setting.data[q]) :
             setting.data[q][i] = setting.data[q][j] => i = j
    BY <1>1, DatasetAssumption
  <2> QED  BY <2>1, ElementOfSeq DEF tokens, NoTokenTwice, size
<1>6. IsSimilarity(sim)
  BY <1>1, SetAssumption DEF sim
<1>7. Similar(sim, TokenSet(r), TokenSet(probe))
  <2>1. /\ minimum_length_bound(sim, Len(tokens(probe))) <= Len(tokens(r))
        /\ Len(tokens(r)) <= maximum_length_bound(sim, Len(tokens(probe)))
    BY <1>1, <1>2, <1>3, <1>4, <1>5 DEF Fitting, minimum_size, maximum_size
  <2> QED  BY <1>1, <1>4, <1>5, <1>6, <2>1, SimilarByOverlap DEF TokenSet
<1> QED  BY <1>2, <1>3, <1>4, <1>7 DEF Expected, Fitting

------------------------------------------------------------------------------
(* Steps.  Outside of calls that probe only the small entries matter.      *)
LEMMA QuietStep ==
  ASSUME FoundInv, IndexInv', SmallOfRecords', pc \notin Calling, pc' \notin Calling,
         UNCHANGED resultVars
  PROVE  FoundInv'
<1>1. CallMade' /\ CandidatesFit' /\ (pc = "return" => emitted \subseteq Expected)'
  BY DEF CallMade, CandidatesFit, Calling, Finding
<1>2. Marks'
  BY DEF FoundInv, Marks, resultVars, Calling, Finding
<1> QED  BY <1>1, <1>2 DEF FoundInv

LEMMA SmallStays ==
  ASSUME SmallOfRecords, UNCHANGED <<setting, first, next_id, small_index>>
  PROVE  SmallOfRecords'
BY DEF SmallOfRecords, Ids, Record, size

LEMMA FittingStays ==
  ASSUME UNCHANGED <<setting, first, next_id, caller, probe, filter>>, NEW id, Fitting(id)
  PROVE  Fitting(id)'
BY DEF Fitting, Ids, Record, size, Admitted, minimum_size, maximum_size, sim

(* Within a call: candidates are added, or nothing is found.               *)
LEMMA FindingStep ==
  ASSUME FoundInv, IndexInv', UNCHANGED <<setting, first, next_id, small_index>>,
         UNCHANGED <<caller, probe, filter>>,
         pc \in Calling \ {"return"}, pc' \in Calling \ {"return"},
         NEW ids, \A id \in ids : Fitting(id) /\ id \notin candidates,
         pc' \notin Finding => pc \notin Finding /\ ids = {},
         candidates' = candidates \cup ids, repeated' = repeated \cup (candidates \cap ids),
         already_seen' = [already_seen EXCEPT ![caller] = @ \cup ids]
  PROVE  FoundInv'
<1>1. /\ SmallOfRecords /\ CallMade /\ Marks /\ CandidatesFit /\ caller \in Instances
  BY DEF FoundInv, IndexInv, GroupsInv, Typed, Calling
<1>2. SmallOfRecords' /\ CallMade'
  BY <1>1, SmallStays DEF CallMade
<1>3. Marks'
  <2>1. candidates \cap ids = {}
    OBVIOUS
  <2>2. repeated' = {}
    BY <1>1, <2>1 DEF Marks
  <2>3. already_seen' = [a \in Instances |-> IF a = caller THEN candidates' ELSE {}]
    <3>1. already_seen = [a \in Instances |-> IF a = caller THEN candidates ELSE {}]
      BY <1>1 DEF Marks
    <3> QED  BY <1>1, <3>1
  <2>4. pc' \notin Finding => candidates' = {}
    BY <1>1 DEF Marks
  <2> QED  BY <1>1, <2>2, <2>3, <2>4 DEF Marks
<1>4. CandidatesFit'
  <2> SUFFICES ASSUME pc' \in Finding, NEW id \in candidates' PROVE Fitting(id)'
    BY DEF CandidatesFit
  <2>1. Fitting(id)
    <3>1. CASE id \in ids
      BY <3>1
    <3>2. CASE id \in candidates
      <4>1. pc \in Finding
        BY <1>1, <3>2 DEF Marks
      <4> QED  BY <1>1, <3>2, <4>1 DEF CandidatesFit
    <3> QED  BY <3>1, <3>2
  <2> QED  BY <2>1, FittingStays
<1> QED  BY <1>2, <1>3, <1>4 DEF FoundInv

LEMMA GoingOnStep ==
  ASSUME FoundInv, IndexInv', UNCHANGED <<setting, first, next_id, small_index>>,
         UNCHANGED <<caller, probe, filter, resultVars>>,
         pc \in Calling \ {"return"}, pc' \in Calling \ {"return"},
         pc' \notin Finding => pc \notin Finding
  PROVE  FoundInv'
<1>1. UNCHANGED <<already_seen, candidates, repeated>>
  BY DEF resultVars
<1>2. already_seen' = [already_seen EXCEPT ![caller] = @ \cup {}]
  <2>1. already_seen = [a \in Instances |-> IF a = caller THEN candidates ELSE {}]
    BY DEF FoundInv, Marks
  <2> QED  BY <1>1, <2>1
<1>3. candidates' = candidates \cup {} /\ repeated' = repeated \cup (candidates \cap {})
  BY <1>1
<1> DEFINE ids == {}
<1>4. /\ \A id \in ids : Fitting(id) /\ id \notin candidates
      /\ pc' \notin Finding => pc \notin Finding /\ ids = {}
      /\ candidates' = candidates \cup ids /\ repeated' = repeated \cup (candidates \cap ids)
      /\ already_seen' = [already_seen EXCEPT ![caller] = @ \cup ids]
  BY <1>2, <1>3
<1> HIDE DEF ids
<1> QED  BY <1>4, FindingStep

LEMMA InsertSmall ==
  ASSUME FoundInv, InsertRecord
  PROVE  SmallOfRecords'
<1> DEFINE x == next_id[caller]
<1>1. /\ IndexInv /\ SmallOfRecords /\ Counted /\ caller \in Instances /\ pc = "insert"
      /\ UNCHANGED <<setting, first>>
      /\ next_id' = [next_id EXCEPT ![caller] = @ + 1]
      /\ small_index' =
           [small_index EXCEPT ![caller] = @ \cup SmallEntries(Record(caller, x), x)]
  BY DEF FoundInv, IndexInv, GroupsInv, Typed, InsertRecord, InsertSet, InsertNext, Inserting
<1>2. ASSUME NEW a \in Instances
      PROVE  /\ next_id[a] \in Nat
             /\ next_id'[a] = IF a = caller THEN x + 1 ELSE next_id[a]
             /\ \A i : Record(a, i)' = Record(a, i) /\ size(Record(a, i))' = size(Record(a, i))
  BY <1>1 DEF Counted, Record, size
<1>3. ASSUME NEW a \in Instances, NEW e \in small_index'[a]
      PROVE  \E id \in Ids(a)' : e = <<size(Record(a, id))', id>>
  <2>1. \A id \in Ids(a) : id \in Ids(a)'
    BY <1>2 DEF Ids
  <2>2. CASE e \in small_index[a]
    <3>1. PICK id \in Ids(a) : e = <<size(Record(a, id)), id>>
      BY <1>1, <2>2 DEF SmallOfRecords
    <3> QED  BY <1>2, <2>1, <3>1
  <2>3. CASE e \notin small_index[a]
    <3>1. a = caller /\ e \in SmallEntries(Record(a, x), x)
      BY <1>1, <2>3 DEF SmallOfRecords
    <3>2. e = <<size(Record(a, x)), x>>
      BY <3>1 DEF SmallEntries
    <3>3. x \in Ids(a)'
      BY <1>1, <1>2, <3>1 DEF Ids
    <3> QED  BY <1>2, <3>2, <3>3
  <2> QED  BY <2>2, <2>3
<1>4. DOMAIN small_index' = Instances
  BY <1>1 DEF SmallOfRecords
<1> QED  BY <1>3, <1>4 DEF SmallOfRecords, size, Record

LEMMA MergeSmall ==
  ASSUME FoundInv, NEW a \in Instances, NEW b \in Instances, Merge(a, b)
  PROVE  SmallOfRecords'
<1>0. PICK n : n = next_id[a]
  OBVIOUS
<1>1. /\ SmallOfRecords /\ Counted /\ a # b /\ first[b] = first[a] + n
      /\ UNCHANGED setting
      /\ next_id' = [next_id EXCEPT ![a] = @ + next_id[b], ![b] = 0]
      /\ first' = [first EXCEPT ![b] = 0]
      /\ small_index' =
           [small_index EXCEPT ![a] = @ \cup {<<e[1], n + e[2]>> : e \in small_index[b]},
                               ![b] = {}]
  BY <1>0 DEF FoundInv, IndexInv, Merge, MergeSets, MergeInto
<1>2. /\ n \in Nat /\ next_id[b] \in Nat /\ first[a] \in Nat /\ first[b] \in Nat
      /\ first'[a] = first[a] /\ next_id'[a] = n + next_id[b] /\ DOMAIN small_index = Instances
  BY <1>0, <1>1 DEF Counted, SmallOfRecords
<1>3. \A r : size(r)' = size(r)
  BY <1>1 DEF size
<1>4. ASSUME NEW c \in Instances, NEW e \in small_index'[c]
      PROVE  \E id \in Ids(c)' : e = <<size(Record(c, id))', id>>
  <2>1. CASE c = a
    <3>1. /\ \A i \in Ids(a) : i \in Ids(a)' /\ Record(a, i)' = Record(a, i)
          /\ \A i \in Ids(b) : n + i \in Ids(a)' /\ Record(a, n + i)' = Record(b, i)
      <4>1. ASSUME NEW i \in Ids(a)
            PROVE  i \in Ids(a)' /\ Record(a, i)' = Record(a, i)
        BY <1>0, <1>2 DEF Ids, Record
      <4>2. ASSUME NEW i \in Ids(b)
            PROVE  n + i \in Ids(a)' /\ Record(a, n + i)' = Record(b, i)
        <5>1. i \in Int /\ 0 <= i /\ i <= next_id[b] - 1
          BY <1>2 DEF Ids
        <5>2. n + i \in 0 .. n + next_id[b] - 1
          BY <1>2, <5>1
        <5>3. first[a] + (n + i) = first[b] + i
          BY <1>1, <1>2, <5>1
        <5>4. n + i \in Ids(a)'
          BY <1>2, <5>2 DEF Ids
        <5>5. Record(a, n + i)' = Record(b, i)
          BY <1>2, <5>3 DEF Record
        <5> QED  BY <5>4, <5>5
      <4> QED  BY <4>1, <4>2
    <3>2. e \in small_index[a] \/ \E d \in small_index[b] : e = <<d[1], n + d[2]>>
      BY <1>1, <1>2, <2>1
    <3>3. CASE e \in small_index[a]
      <4>1. PICK i \in Ids(a) : e = <<size(Record(a, i)), i>>
        BY <1>1, <3>3 DEF SmallOfRecords
      <4>2. size(Record(a, i))' = size(Record(a, i))
        BY <1>1, <3>1 DEF size
      <4> QED  BY <2>1, <3>1, <4>1, <4>2
    <3>4. CASE \E d \in small_index[b] : e = <<d[1], n + d[2]>>
      <4>1. PICK d \in small_index[b] : e = <<d[1], n + d[2]>>
        BY <3>4
      <4>2. PICK i \in Ids(b) : d = <<size(Record(b, i)), i>>
        BY <1>1 DEF SmallOfRecords
      <4>3. e = <<size(Record(b, i)), n + i>>
        BY <4>1, <4>2
      <4>4. n + i \in Ids(a)' /\ size(Record(a, n + i))' = size(Record(b, i))
        BY <1>1, <3>1, <4>2 DEF size
      <4> QED  BY <2>1, <4>3, <4>4
    <3> QED  BY <3>2, <3>3, <3>4
  <2>2. CASE c = b
    BY <1>1, <1>2, <2>2
  <2>3. CASE c # a /\ c # b
    <3>1. small_index'[c] = small_index[c] /\ first'[c] = first[c] /\ next_id'[c] = next_id[c]
      BY <1>1, <1>2, <2>3 DEF Counted
    <3>2. PICK i \in Ids(c) : e = <<size(Record(c, i)), i>>
      BY <1>1, <3>1 DEF SmallOfRecords
    <3>3. i \in Ids(c)' /\ size(Record(c, i))' = size(Record(c, i))
      BY <1>1, <3>1 DEF Ids, Record, size
    <3> QED  BY <3>2, <3>3
  <2> QED  BY <2>1, <2>2, <2>3
<1>5. DOMAIN small_index' = Instances
  BY <1>1, <1>2
<1> QED  BY <1>4, <1>5 DEF SmallOfRecords, size, Record

LEMMA ConstructSmall ==
  ASSUME FoundInv, NEW a \in Instances, NEW r, Construct(a, r)
  PROVE  SmallOfRecords'
<1>1. /\ SmallOfRecords /\ Counted /\ first[a] = 0
      /\ UNCHANGED <<setting, next_id, small_index>>
      /\ first' = [first EXCEPT ![a] = r]
  BY DEF FoundInv, IndexInv, Construct, ConstructFor
<1>2. ASSUME NEW c \in Instances, NEW e \in small_index'[c]
      PROVE  \E id \in Ids(c)' : e = <<size(Record(c, id))', id>>
  <2>1. PICK i \in Ids(c) : e = <<size(Record(c, i)), i>>
    BY <1>1 DEF SmallOfRecords
  <2>2. c # a
    <3> SUFFICES ASSUME c = a PROVE FALSE
      OBVIOUS
    <3>1. next_id[c] = 0
      BY <1>1 DEF Counted
    <3> QED  BY <2>1, <3>1 DEF Ids
  <2>3. first'[c] = first[c]
    BY <1>1, <2>2 DEF Counted
  <2> QED  BY <1>1, <2>1, <2>3 DEF Ids, Record, size
<1> QED  BY <1>1, <1>2 DEF SmallOfRecords, size, Record

LEMMA JoinFound ==
  ASSUME FoundInv, IndexInv', NEW a \in Instances, NEW r \in setting.probes,
         NEW f \in setting.filters, JoinBatch(a, r, f)
  PROVE  FoundInv'
<1>1. /\ pc = "idle" /\ pc' = "prepare" /\ caller' = a /\ probe' = r /\ filter' = f
      /\ UNCHANGED <<setting, first, next_id, small_index, already_seen, candidates, repeated>>
  BY DEF JoinBatch, CallJoin, instanceVars, resultVars
<1>2. SmallOfRecords' /\ Marks
  BY <1>1, SmallStays DEF FoundInv
<1>3. CallMade'
  <2>1. setting \in Settings
    BY DEF FoundInv, IndexInv, GroupsInv, Typed
  <2>2. r \in 1 .. Len(setting.data)
    BY <2>1, DatasetAssumption
  <2> QED  BY <1>1, <2>2 DEF CallMade
<1>4. candidates = {} /\ repeated = {} /\ already_seen = [b \in Instances |-> {}]
  BY <1>1, <1>2 DEF Marks, Calling, Finding
<1>5. Marks' /\ CandidatesFit'
  BY <1>1, <1>4 DEF Marks, CandidatesFit, Finding
<1> QED  BY <1>1, <1>2, <1>3, <1>5 DEF FoundInv

LEMMA VerifyFound ==
  ASSUME FoundInv, IndexInv', VerifyCandidates
  PROVE  FoundInv'
<1>1. /\ pc = "verify" /\ pc' = "return"
      /\ UNCHANGED <<setting, caller, probe, filter, first, next_id, small_index,
                     candidates, repeated>>
      /\ emitted' = {r \in Compared : is_in_threshold(sim, tokens(r), tokens(probe))}
      /\ already_seen' = [already_seen EXCEPT ![caller] = Cleared(caller)]
  BY DEF VerifyCandidates, Verify, argVars, instanceVars
<1>2. SmallOfRecords /\ CallMade /\ Marks /\ CandidatesFit /\ caller \in Instances
  BY <1>1 DEF FoundInv, IndexInv, GroupsInv, Typed
<1>3. SmallOfRecords' /\ CallMade'
  BY <1>1, <1>2, SmallStays DEF CallMade, Calling
<1>4. Marks'
  <2>1. already_seen = [a \in Instances |-> IF a = caller THEN candidates ELSE {}]
        /\ repeated = {}
    BY <1>1, <1>2 DEF Marks, Calling
  <2>2. Cleared(caller) = {}
    BY <1>2, <2>1 DEF Cleared
  <2>3. already_seen' = [a \in Instances |-> {}]
    BY <1>1, <2>1, <2>2
  <2> QED  BY <1>1, <2>1, <2>3 DEF Marks, Finding
<1>5. CandidatesFit'
  BY <1>1, <1>2, FittingStays DEF CandidatesFit, Finding
<1>6. emitted' \subseteq Expected
  BY <1>1, VerifiedIsExpected
<1>7. Expected' = Expected
  BY <1>1 DEF Expected, Indexed, Ids, Record, Admitted, TokenSet, tokens, sim
<1> QED  BY <1>3, <1>4, <1>5, <1>6, <1>7 DEF FoundInv

LEMMA ReturnFound ==
  ASSUME FoundInv, IndexInv', ReturnResults
  PROVE  FoundInv'
<1>1. /\ pc = "return" /\ pc' = "idle"
      /\ UNCHANGED <<setting, first, next_id, small_index, already_seen>>
      /\ candidates' = {} /\ repeated' = {}
  BY DEF ReturnResults, Return, CallEnds, instanceVars
<1>2. SmallOfRecords' /\ Marks
  BY <1>1, SmallStays DEF FoundInv
<1>3. already_seen = [a \in Instances |-> {}]
  BY <1>1, <1>2 DEF Marks
<1>4. Marks' /\ CallMade' /\ CandidatesFit'
  BY <1>1, <1>3 DEF Marks, CallMade, CandidatesFit, Calling, Finding
<1> QED  BY <1>1, <1>2, <1>4 DEF FoundInv

LEMMA FoundStep ==
  ASSUME FoundInv, [Next]_pallocVars
  PROVE  FoundInv'
<1>0. IndexInv' /\ SmallOfRecords /\ Marks
  BY IndexStep DEF FoundInv
<1>1. CASE UNCHANGED pallocVars
  <2>1. UNCHANGED <<setting, pc, caller, probe, filter, first, next_id, already_seen, candidates,
                    repeated, emitted, small_index>>
    BY <1>1 DEF pallocVars, setVars, joinVars, callVars, argVars, instanceVars, resultVars
  <2>2. SmallOfRecords' /\ CallMade' /\ Marks'
    BY <1>0, <2>1, SmallStays DEF FoundInv, CallMade, Marks
  <2>3. CandidatesFit'
    BY <2>1, FittingStays DEF FoundInv, CandidatesFit
  <2>4. Expected' = Expected
    BY <2>1 DEF Expected, Indexed, Ids, Record, Admitted, TokenSet, tokens, sim
  <2> QED  BY <1>0, <2>1, <2>2, <2>3, <2>4 DEF FoundInv
<1>2. ASSUME NEW a \in Instances, NEW r, Construct(a, r)
      PROVE  FoundInv'
  <2>1. pc = "idle" /\ pc' = pc /\ UNCHANGED resultVars
    BY <1>2 DEF Construct, ConstructFor, callVars
  <2> QED  BY <1>0, <1>2, <2>1, ConstructSmall, QuietStep DEF Calling
<1>3. ASSUME NEW a \in Instances, NEW n, InsertBatch(a, n)
      PROVE  FoundInv'
  <2>1. /\ pc = "idle" /\ pc' = "insert" /\ UNCHANGED resultVars
        /\ UNCHANGED <<setting, first, next_id, small_index>>
    BY <1>3 DEF InsertBatch, CallInsert
  <2> QED  BY <1>0, <2>1, SmallStays, QuietStep DEF Calling
<1>4. ASSUME NEW a \in Instances, NEW r \in setting.probes, NEW f \in setting.filters,
             JoinBatch(a, r, f)
      PROVE  FoundInv'
  BY <1>0, <1>4, JoinFound
<1>5. ASSUME NEW a \in Instances, NEW b \in Instances, Merge(a, b)
      PROVE  FoundInv'
  <2>1. pc = "idle" /\ pc' = pc /\ UNCHANGED resultVars
    BY <1>5 DEF Merge, MergeSets, MergeInto, callVars
  <2> QED  BY <1>0, <1>5, <2>1, MergeSmall, QuietStep DEF Calling
<1>6. CASE AppendGroupForInsert \/ InsertDone
  <2>1. /\ pc = "insert" /\ pc' \in {"insert", "idle"} /\ UNCHANGED resultVars
        /\ UNCHANGED <<setting, first, next_id, small_index>>
    BY <1>6 DEF AppendGroupForInsert, InsertDone, EndInsert, CallEnds, setVars, joinVars, callVars,
                instanceVars
  <2> QED  BY <1>0, <2>1, SmallStays, QuietStep DEF Calling
<1>7. CASE InsertRecord
  <2>1. pc = "insert" /\ pc' = pc /\ UNCHANGED resultVars
    BY <1>7 DEF InsertRecord, InsertSet, InsertNext, callVars
  <2> QED  BY <1>0, <1>7, <2>1, InsertSmall, QuietStep DEF Calling
<1>8. CASE AppendGroupForProbe \/ GetProbingSignatures
  <2>1. /\ pc = "prepare" /\ pc' = pc /\ UNCHANGED <<setting, first, next_id, small_index>>
        /\ UNCHANGED <<caller, probe, filter, resultVars>>
    BY <1>8 DEF AppendGroupForProbe, GetProbingSignatures, setVars, joinVars, callVars, argVars,
                instanceVars
  <2> QED  BY <1>0, <2>1, GoingOnStep DEF Calling, Finding
<1>9. CASE BeginSearch \/ ProbeSizeGroup \/ GroupDone \/ SearchDone
  <2>1. /\ pc \in {"prepare", "search", "probe"} /\ pc' \in {"small", "search", "probe", "verify"}
        /\ pc' = "small" => pc = "prepare"
        /\ UNCHANGED <<setting, first, next_id, small_index>>
        /\ UNCHANGED <<caller, probe, filter, resultVars>>
    BY <1>9 DEF BeginSearch, ProbeSizeGroup, GroupDone, SearchDone, GoOn, argVars, instanceVars
  <2> QED  BY <1>0, <2>1, GoingOnStep DEF Calling, Finding
<1>10. CASE SmallResults
  <2>1. /\ pc = "small" /\ pc' = "search" /\ UNCHANGED <<setting, first, next_id, small_index>>
        /\ UNCHANGED <<caller, probe, filter>> /\ Push(caller, small_results(caller))
    BY <1>10 DEF SmallResults, AddSmallResults, FindMore, argVars, instanceVars
  <2>2. \A id \in small_results(caller) : Fitting(id) /\ id \notin candidates
    <3>1. candidates = {}
      BY <1>0, <2>1 DEF Marks, Finding
    <3> QED  BY <2>1, <3>1, SmallFit
  <2> QED  BY <1>0, <2>1, <2>2, FindingStep DEF Push, Marked, Calling, Finding
<1>11. CASE ProbePartition
  <2>1. PICK entry \in costs :
          FindMore("probe", "probe",
                   Handled(UNION {read_filtered(caller, list) : list \in Lists(entry)}))
    BY <1>11 DEF ProbePartition
  <2> DEFINE ids == Handled(UNION {read_filtered(caller, list) : list \in Lists(entry)})
  <2>2. /\ pc = "probe" /\ pc' = "probe" /\ UNCHANGED <<setting, first, next_id>>
        /\ UNCHANGED <<caller, probe, filter>> /\ Push(caller, ids)
    BY <2>1 DEF FindMore, argVars, instanceVars
  <2>3. UNCHANGED small_index
    BY <1>11 DEF ProbePartition
  <2>4. \A id \in ids : Fitting(id) /\ id \notin candidates
    BY <2>2, HandledFit
  <2> HIDE DEF ids
  <2> QED  BY <1>0, <2>2, <2>3, <2>4, FindingStep DEF Push, Marked, Calling, Finding
<1>12. CASE VerifyCandidates
  BY <1>0, <1>12, VerifyFound
<1>13. CASE ReturnResults
  BY <1>0, <1>13, ReturnFound
<1>14. ASSUME NEW r, Evict(r)
       PROVE  FoundInv'
  <2>1. pc = "idle" /\ pc' = pc /\ UNCHANGED <<setting, first, next_id, small_index, resultVars>>
    BY <1>14 DEF Evict, setVars, joinVars, callVars, instanceVars
  <2> QED  BY <1>0, <2>1, SmallStays, QuietStep DEF Calling
<1> QED
  BY <1>1, <1>2, <1>3, <1>4, <1>5, <1>6, <1>7, <1>8, <1>9, <1>10, <1>11, <1>12, <1>13, <1>14
     DEF Next

(* Whatever was inserted, merged, probed and evicted before, and however   *)
(* the lookups of the four similarities and five filters are ordered, a    *)
(* call gives its handler similar sets only, none that its filter keeps    *)
(* out, and has no candidate twice; the marks of one call are gone when    *)
(* the next begins (palloc_join.cc 138-178, 259-324, signature_join.hh).   *)
THEOREM OnlySimilarFound == Spec => []FindsOnlySimilar
<1>1. Init => FoundInv
  <2> SUFFICES ASSUME Init PROVE FoundInv
    OBVIOUS
  <2>1. /\ IndexInv /\ pc = "idle" /\ candidates = {} /\ repeated = {}
        /\ already_seen = [a \in Instances |-> {}]
        /\ small_index = [a \in Instances |-> {}]
    BY InitIndexes DEF Init, InitSets, InitJoin
  <2> QED
    BY <2>1 DEF FoundInv, SmallOfRecords, CallMade, Marks, CandidatesFit, Calling, Finding
<1>2. FoundInv /\ [Next]_pallocVars => FoundInv'
  BY FoundStep
<1>3. FoundInv => FindsOnlySimilar
  BY DEF FoundInv, Marks, FindsOnlySimilar
<1> QED  BY <1>1, <1>2, <1>3, PTL DEF Spec
------------------------------------------------------------------------------
(* What similar sets have in common, in numbers: at least the overlap the  *)
(* code asks for, before it is rounded.                                    *)
LEMMA SetsCounted ==
  ASSUME NEW R, NEW S, IsFiniteSet(R), IsFiniteSet(S)
  PROVE  /\ Cardinality(R) \in Nat /\ Cardinality(S) \in Nat /\ Cardinality(R \cap S) \in Nat
         /\ Cardinality(R \cap S) <= Cardinality(R) /\ Cardinality(R \cap S) <= Cardinality(S)
         /\ Cardinality(R \cup S) = Cardinality(R) + Cardinality(S) - Cardinality(R \cap S)
         /\ IsFiniteSet((R \ S) \cup (S \ R))
         /\ Cardinality((R \ S) \cup (S \ R)) =
              Cardinality(R) + Cardinality(S) - 2 * Cardinality(R \cap S)
<1> DEFINE both == Cardinality(R \cap S)
           nr == Cardinality(R)
           ns == Cardinality(S)
<1>1. IsFiniteSet(R \cap S) /\ both \in Nat /\ nr \in Nat /\ ns \in Nat /\ both <= nr /\ both <= ns
  <2>1. R \cap S \in SUBSET R /\ R \cap S \in SUBSET S
    OBVIOUS
  <2> QED  BY <2>1, FS_Subset, FS_CardinalityType
<1>2. Cardinality(R \cup S) = nr + ns - both
  BY FS_Union
<1>3. /\ IsFiniteSet(R \ S) /\ Cardinality(R \ S) = nr - both
      /\ IsFiniteSet(S \ R) /\ Cardinality(S \ R) = ns - both
  <2>1. S \cap R = R \cap S
    OBVIOUS
  <2> QED  BY <2>1, FS_Difference
<1>4. Cardinality((R \ S) \cap (S \ R)) = 0
  <2>1. (R \ S) \cap (S \ R) = {}
    OBVIOUS
  <2> QED  BY <2>1, FS_EmptySet
<1>5. /\ IsFiniteSet((R \ S) \cup (S \ R))
      /\ Cardinality((R \ S) \cup (S \ R)) = nr - both + (ns - both) - 0
  BY <1>3, <1>4, FS_Union
<1> QED  BY <1>1, <1>2, <1>5

LEMMA SimilarOverlap ==
  ASSUME NEW m, IsSimilarity(m), NEW R, NEW S, IsFiniteSet(R), IsFiniteSet(S),
         NEW nr \in Nat \ {0}, nr = Cardinality(R), NEW ns \in Nat \ {0}, ns = Cardinality(S),
         NEW both \in Nat, both = Cardinality(R \cap S), Similar(m, R, S),
         NEW f, f = fractional_overlap(m, nr, ns)
  PROVE  /\ f[1] \in Int /\ f[2] \in Nat \ {0} /\ f[1] <= f[2] * both
         /\ minimum_length_bound(m, ns) <= nr /\ nr <= maximum_length_bound(m, ns)
<1>1. /\ both <= nr /\ both <= ns /\ Cardinality(R \cup S) = nr + ns - both
      /\ Cardinality((R \ S) \cup (S \ R)) = nr + ns - 2 * both
  BY SetsCounted
<1>2. CASE IsJaccard(m)
  <2> DEFINE a == m.num
             d == m.den
  <2>1. a \in Nat \ {0} /\ d \in Nat \ {0} /\ a <= d
    BY <1>2 DEF IsJaccard
  <2>2. d * both >= a * (nr + ns - both)
    BY <1>1, <1>2 DEF IsJaccard, Similar
  <2>3. /\ f = <<a * (nr + ns), a + d>>
        /\ minimum_length_bound(m, ns) = ceil(ns * a, d)
        /\ maximum_length_bound(m, ns) = floor(ns * d, a)
    BY <1>2 DEF IsJaccard, fractional_overlap, minimum_length_bound, maximum_length_bound
  <2> HIDE DEF a, d
  <2>4. /\ a * (nr + ns - both) = a * (nr + ns) - a * both
        /\ (a + d) * both = a * both + d * both
        /\ a * both \in Nat /\ d * both \in Nat /\ a * (nr + ns) \in Nat /\ a + d \in Nat \ {0}
    BY <1>1, <2>1
  <2>5. a * (nr + ns) <= (a + d) * both
    BY <2>2, <2>4
  <2>6. a * ns <= d * nr /\ a * nr <= d * ns
    <3>1. d * both <= d * nr /\ d * both <= d * ns
      BY <1>1, <2>1
    <3>2. a * ns <= a * (nr + ns - both) /\ a * nr <= a * (nr + ns - both)
      BY <1>1, <2>1
    <3>3. /\ a * ns \in Int /\ a * nr \in Int /\ d * nr \in Int /\ d * ns \in Int
          /\ a * (nr + ns - both) \in Int
      BY <1>1, <2>1
    <3> QED  BY <2>2, <2>4, <3>1, <3>2, <3>3
  <2>7. ceil(ns * a, d) <= nr
    <3>1. ceil(ns * a, d) \in Nat /\ d * ceil(ns * a, d) < ns * a + d
      BY <2>1, RatioBounds
    <3>2. ns * a = a * ns /\ a * ns \in Int /\ d * nr \in Int /\ d * ceil(ns * a, d) \in Int
      BY <2>1, <3>1
    <3>3. d * ceil(ns * a, d) < d * nr + d
      BY <2>1, <2>6, <3>1, <3>2
    <3> QED  BY <2>1, <3>1, <3>3, Cancels
  <2>8. nr <= floor(ns * d, a)
    <3>1. floor(ns * d, a) \in Nat /\ ns * d < a * floor(ns * d, a) + a
      BY <2>1, RatioBounds
    <3>2. ns * d = d * ns /\ d * ns \in Int /\ a * nr \in Int /\ a * floor(ns * d, a) \in Int
      BY <2>1, <3>1
    <3>3. a * nr < a * floor(ns * d, a) + a
      BY <2>1, <2>6, <3>1, <3>2
    <3> QED  BY <2>1, <3>1, <3>3, Cancels
  <2> QED  BY <2>3, <2>4, <2>5, <2>7, <2>8
<1>3. CASE m.kind = "hamming" /\ m.t \in Nat
  <2>1. nr + ns - 2 * both <= m.t
    BY <1>1, <1>3 DEF Similar
  <2>2. /\ f = <<nr + ns - m.t, 2>> /\ minimum_length_bound(m, ns) = greater(0, ns - m.t)
        /\ maximum_length_bound(m, ns) = ns + m.t
    BY <1>3 DEF fractional_overlap, minimum_length_bound, maximum_length_bound
  <2> QED  BY <1>1, <1>3, <2>1, <2>2 DEF greater
<1>4. CASE m.kind = "structural" /\ m.t \in Nat /\ m.q \in Nat \ {0}
  <2> DEFINE l == m.q * m.t
  <2>1. greater(nr, ns) - both <= l /\ greater(nr, ns) - lesser(nr, ns) <= m.t
    BY <1>4 DEF Similar
  <2>2. /\ f = <<greater(nr, ns) - l, 1>> /\ minimum_length_bound(m, ns) = ns - m.t
        /\ maximum_length_bound(m, ns) = ns + m.t
    BY <1>4 DEF fractional_overlap, minimum_length_bound, maximum_length_bound
  <2>3. l \in Nat
    BY <1>4
  <2> HIDE DEF l
  <2> QED  BY <1>1, <1>4, <2>1, <2>2, <2>3 DEF greater, lesser
<1>5. CASE IsJaro(m)
  <2> DEFINE a == m.num
             d == m.den
             r == 3 * m.num - 2 * m.den
  <2>1. a \in Nat /\ d \in Nat \ {0} /\ r \in Nat \ {0} /\ r <= d /\ r = 3 * a - 2 * d
        /\ m.kind = "jaro_overlap"
    BY <1>5 DEF IsJaro
  <2>2. d * (both * (nr + ns) + nr * ns) >= 3 * a * nr * ns
    BY <2>1 DEF Similar
  <2>3. /\ f = <<(3 * a - d) * nr * ns, d * (nr + ns)>>
        /\ minimum_length_bound(m, ns) = greater(0, ceil(ns * r, d))
        /\ maximum_length_bound(m, ns) = floor(ns * d, r)
    BY <2>1 DEF fractional_overlap, minimum_length_bound, maximum_length_bound
  <2> HIDE DEF a, d, r
  <2> DEFINE e == nr * ns
  <2>4. /\ d * (both * (nr + ns) + nr * ns) = (d * (nr + ns)) * both + d * e
        /\ 3 * a * nr * ns = (3 * a - d) * nr * ns + d * e
        /\ (d * (nr + ns)) * both \in Int /\ d * e \in Int /\ (3 * a - d) * nr * ns \in Int
        /\ d * (nr + ns) \in Nat \ {0}
    <3>1. nr + ns \in Nat \ {0} /\ e \in Nat
      OBVIOUS
    <3>2. d * (nr + ns) \in Nat \ {0} /\ d * e \in Int
      BY <2>1, <3>1
    <3>3. d * (both * (nr + ns) + e) = (d * (nr + ns)) * both + d * e
      BY <2>1
    <3>4. 3 * a * nr * ns = (3 * a - d) * nr * ns + d * e
      BY <2>1
    <3>5. (d * (nr + ns)) * both \in Int /\ (3 * a - d) * nr * ns \in Int
      BY <2>1, <3>2
    <3> QED  BY <3>2, <3>3, <3>4, <3>5
  <2>5. (3 * a - d) * nr * ns <= (d * (nr + ns)) * both
    BY <2>2, <2>4
  \* The shorter set has all they have in common.
  <2>6. ASSUME NEW x \in Nat \ {0}, NEW y \in Nat \ {0},
               (3 * a - d) * x * y <= (d * (x + y)) * both, both <= x
        PROVE  r * y <= d * x
    <3>1. (d * (x + y)) * both <= (d * (x + y)) * x
      <4>1. d * (x + y) \in Nat
        BY <2>1
      <4> QED  BY <2>6, <4>1
    <3>2. (3 * a - d) * x * y <= (d * (x + y)) * x
      <4>1. (3 * a - d) * x * y \in Int /\ (d * (x + y)) * both \in Int /\ (d * (x + y)) * x \in Int
        BY <2>1
      <4> QED  BY <2>6, <3>1, <4>1
    <3>3. /\ (3 * a - d) * x * y = x * ((r + d) * y)
          /\ (d * (x + y)) * x = x * (d * (x + y))
      <4>1. 3 * a - d = r + d
        BY <2>1
      <4> QED  BY <2>1, <4>1
    <3> DEFINE u == (r + d) * y
               v == d * (x + y)
    <3>4. u \in Int /\ v \in Int /\ x * u <= x * v
      BY <2>1, <3>2, <3>3
    <3>5. u = r * y + d * y /\ v = d * x + d * y /\ r * y \in Int /\ d * x \in Int /\ d * y \in Int
      BY <2>1
    <3> HIDE DEF u, v
    <3>6. u <= v
      <4>1. x * u < x * v + x
        <5>1. x * u \in Int /\ x * v \in Int
          BY <3>4
        <5> QED  BY <3>4, <5>1
      <4> QED  BY <3>4, <4>1, Cancels
    <3> QED  BY <3>5, <3>6
  <2>7. r * ns <= d * nr
    BY <1>1, <2>5, <2>6
  <2>8. r * nr <= d * ns
    <3>1. (3 * a - d) * nr * ns = (3 * a - d) * ns * nr /\ nr + ns = ns + nr
      BY <2>1
    <3>2. (3 * a - d) * ns * nr <= (d * (ns + nr)) * both
      BY <2>5, <3>1
    <3> QED  BY <1>1, <2>6, <3>2
  <2>9. ceil(ns * r, d) <= nr /\ ceil(ns * r, d) \in Nat
    <3>1. ceil(ns * r, d) \in Nat /\ d * ceil(ns * r, d) < ns * r + d
      BY <2>1, RatioBounds
    <3>2. ns * r = r * ns /\ r * ns \in Int /\ d * nr \in Int /\ d * ceil(ns * r, d) \in Int
      BY <2>1, <3>1
    <3>3. d * ceil(ns * r, d) < d * nr + d
      BY <2>1, <2>7, <3>1, <3>2
    <3> QED  BY <2>1, <3>1, <3>3, Cancels
  <2>10. nr <= floor(ns * d, r)
    <3>1. floor(ns * d, r) \in Nat /\ ns * d < r * floor(ns * d, r) + r
      BY <2>1, RatioBounds
    <3>2. ns * d = d * ns /\ d * ns \in Int /\ r * nr \in Int /\ r * floor(ns * d, r) \in Int
      BY <2>1, <3>1
    <3>3. r * nr < r * floor(ns * d, r) + r
      BY <2>1, <2>8, <3>1, <3>2
    <3> QED  BY <2>1, <3>1, <3>3, Cancels
  <2> QED  BY <2>3, <2>4, <2>5, <2>9, <2>10 DEF greater
<1> QED  BY <1>2, <1>3, <1>4, <1>5 DEF IsSimilarity, IsJaccard, IsJaro

(* So they differ in no more tokens than the code reckons with.            *)
LEMMA SimilarDistance ==
  ASSUME NEW m, IsSimilarity(m), NEW R, NEW S, IsFiniteSet(R), IsFiniteSet(S),
         NEW nr \in Nat \ {0}, nr = Cardinality(R), NEW ns \in Nat \ {0}, ns = Cardinality(S),
         Similar(m, R, S)
  PROVE  Cardinality((R \ S) \cup (S \ R)) <= equivalent_hd(m, nr, ns)
<1> DEFINE both == Cardinality(R \cap S)
           f == fractional_overlap(m, nr, ns)
           D == nr + ns - 2 * both
           b == f[2]
           top == (nr + ns) * b - 2 * f[1]
<1>1. /\ both \in Nat /\ both <= nr /\ both <= ns
      /\ Cardinality((R \ S) \cup (S \ R)) = D
  BY SetsCounted
<1>2. f[1] \in Int /\ b \in Nat \ {0} /\ f[1] <= b * both
  <2> HIDE DEF f, both
  <2>1. both = Cardinality(R \cap S) /\ f = fractional_overlap(m, nr, ns)
    BY DEF f, both
  <2> QED  BY <1>1, <2>1, SimilarOverlap
<1>3. equivalent_hd(m, nr, ns) = truncate(top, b)
  BY DEF equivalent_hd
<1> HIDE DEF both, f
<1>4. D \in Nat /\ top \in Int /\ b * D <= top
  <2>1. b * D = (nr + ns) * b - 2 * (b * both) /\ b * both \in Int /\ (nr + ns) * b \in Int
    BY <1>1, <1>2
  <2> QED  BY <1>1, <1>2, <2>1
<1> HIDE DEF D, b, top
<1>5. top \div b \in Int /\ top < b * (top \div b) + b
  BY <1>2, <1>4, DivisionRounds
<1>6. D <= top \div b
  <2>1. b * D \in Int /\ b * (top \div b) \in Int
    BY <1>2, <1>4, <1>5
  <2>2. b * D < b * (top \div b) + b
    BY <1>2, <1>4, <1>5, <2>1
  <2> QED  BY <1>2, <1>4, <1>5, <2>2, Cancels
<1>7. top >= 0
  <2>1. b * D >= 0 /\ b * D \in Int
    BY <1>2, <1>4
  <2> QED  BY <1>4, <2>1
<1> QED  BY <1>1, <1>3, <1>6, <1>7 DEF truncate

(* The Jaro distance for a longer set is largest for the shortest set that *)
(* can be similar to it: in between, the distance is that of two sets of   *)
(* the longer length at most, which is their difference in length.         *)
LEMMA JaroHdWidest ==
  ASSUME NEW s, IsJaro(s), NEW x \in Nat \ {0}, NEW a \in Nat, NEW y \in Nat, x <= a, a <= y,
         x <= ceil(y * (3 * s.num - 2 * s.den), s.den)
  PROVE  equivalent_hd(s, a, y) <= equivalent_hd(s, x, y)
<1> DEFINE d == s.den
           r == 3 * s.num - 2 * s.den
<1>1. d \in Nat \ {0} /\ r \in Nat \ {0} /\ r <= d /\ a \in Nat \ {0} /\ y \in Nat \ {0}
      /\ 3 * s.num - d = r + d
  BY DEF IsJaro
<1>2. CASE d * x <= r * y
  BY <1>2, JaroHdShrinks
<1>3. CASE r * y <= d * x
  <2>1. /\ JaroTop(s, a, y) \in Nat /\ JaroBottom(s, a, y) \in Nat \ {0}
        /\ equivalent_hd(s, a, y) = JaroTop(s, a, y) \div JaroBottom(s, a, y)
        /\ JaroTop(s, x, y) \in Nat /\ JaroBottom(s, x, y) \in Nat \ {0}
        /\ equivalent_hd(s, x, y) = JaroTop(s, x, y) \div JaroBottom(s, x, y)
        /\ equivalent_hd(s, a, y) \in Nat /\ equivalent_hd(s, x, y) \in Nat
    BY <1>1, JaroHd
  <2>2. /\ JaroTop(s, a, y) = d * ((a + y) * (a + y)) - 2 * ((r + d) * (a * y))
        /\ JaroTop(s, x, y) = d * ((x + y) * (x + y)) - 2 * ((r + d) * (x * y))
        /\ JaroBottom(s, a, y) = d * (a + y) /\ JaroBottom(s, x, y) = d * (x + y)
    BY <1>1 DEF JaroTop, JaroBottom
  <2>3. r * y \in Nat /\ y * r = r * y
    BY <1>1
  <2>4. x <= ceil(y * r, d)
    OBVIOUS
  <2> HIDE DEF d, r
  <2>5. d * ceil(y * r, d) < y * r + d /\ ceil(y * r, d) \in Int
    <3>1. y * r \in Int
      BY <2>3
    <3> QED  BY <1>1, <3>1, DivisionRounds
  <2>6. d * x < r * y + d
    <3> DEFINE c == ceil(y * r, d)
    <3>1. c \in Int /\ d * c < y * r + d /\ x <= c
      BY <2>4, <2>5
    <3> HIDE DEF c
    <3>2. d * x <= d * c /\ d * x \in Int /\ d * c \in Int
      BY <1>1, <3>1
    <3> QED  BY <1>1, <2>3, <3>1, <3>2
  <2> DEFINE w == y - x
             P == JaroTop(s, a, y)
             Q == JaroTop(s, x, y)
             A == a + y
             X == x + y
  <2>7. w \in Nat /\ A \in Nat \ {0} /\ X \in Nat \ {0}
    BY <1>1
  \* The distance at a is less than w + 1, ...
  <2>8. P <= (d * y - r * y) * A
    <3>1. (d * y - r * y) * A - P = (y - a) * (d * a - r * y)
      BY <1>1, <2>2
    <3>2. d * x <= d * a /\ d * x \in Int /\ d * a \in Int
      BY <1>1
    <3>3. d * a - r * y \in Nat
      BY <1>3, <2>3, <3>2 DEF d, r
    <3>4. y - a \in Nat
      BY <1>1
    <3>5. (y - a) * (d * a - r * y) \in Nat
      BY <3>3, <3>4
    <3>6. (d * y - r * y) * A \in Int
      BY <1>1, <2>7
    <3> QED  BY <2>1, <3>1, <3>5, <3>6
  <2>9. (d * y - r * y) < d * w + d
    <3>1. d * w = d * y - d * x /\ d * y \in Int /\ d * x \in Int
      BY <1>1
    <3> QED  BY <1>1, <2>3, <2>6, <3>1
  <2>10. P < (d * A) * w + d * A
    <3>1. (d * y - r * y) * A <= (d * w + d - 1) * A
      <4>1. d * y - r * y \in Int /\ d * w + d - 1 \in Int /\ d * y - r * y <= d * w + d - 1
        <5>1. d * w \in Int /\ d * y \in Int
          BY <1>1, <2>7
        <5> QED  BY <1>1, <2>3, <2>9, <5>1
      <4> QED  BY <2>7, <4>1
    <3>2. (d * w + d - 1) * A = (d * A) * w + d * A - A
      BY <1>1, <2>7
    <3>3. (d * A) * w \in Int /\ d * A \in Int /\ (d * y - r * y) * A \in Int
      BY <1>1, <2>7
    <3> QED  BY <2>1, <2>7, <2>8, <3>1, <3>2, <3>3
  \* ... and at x it is w at least.
  <2>11. (d * X) * w <= Q
    <3>1. Q - (d * X) * w = (2 * x) * (d * x - r * y)
      BY <1>1, <2>2
    <3>2. d * x - r * y \in Nat
      <4>1. d * x \in Int
        BY <1>1
      <4> QED  BY <1>3, <2>3, <4>1 DEF d, r
    <3>3. (2 * x) * (d * x - r * y) \in Nat
      BY <3>2
    <3>4. (d * X) * w \in Int
      BY <1>1, <2>7
    <3> QED  BY <2>1, <3>1, <3>3, <3>4
  <2> DEFINE bA == d * A
             bX == d * X
             ha == P \div bA
             hx == Q \div bX
  <2>12. bA \in Nat \ {0} /\ bX \in Nat \ {0} /\ ha = equivalent_hd(s, a, y)
         /\ hx = equivalent_hd(s, x, y) /\ P \in Nat /\ Q \in Nat
    BY <2>1, <2>2
  <2> HIDE DEF P, Q, A, X, w
  <2>13. P < bA * w + bA /\ bX * w <= Q
    BY <2>10, <2>11
  <2> HIDE DEF bA, bX
  <2>14. ha \in Int /\ hx \in Int /\ bA * ha <= P /\ Q < bX * hx + bX
    BY <2>12, DivisionRounds
  <2> HIDE DEF ha, hx
  <2>15. ha <= w
    <3>1. bA * ha \in Int /\ bA * w \in Int
      BY <2>7, <2>12, <2>14
    <3>2. bA * ha < bA * w + bA
      BY <2>12, <2>13, <2>14, <3>1
    <3> QED  BY <2>7, <2>12, <2>14, <3>2, Cancels
  <2>16. w <= hx
    <3>1. bX * hx \in Int /\ bX * w \in Int
      BY <2>7, <2>12, <2>14
    <3>2. bX * w < bX * hx + bX
      BY <2>12, <2>13, <2>14, <3>1
    <3> QED  BY <2>7, <2>12, <2>14, <3>2, Cancels
  <2> QED  BY <2>7, <2>12, <2>14, <2>15, <2>16
<1>4. d * x \in Int /\ r * y \in Int
  BY <1>1
<1> QED  BY <1>2, <1>3, <1>4

(* The budget for a group covers each of its sets that can be similar.     *)
LEMMA BudgetSuffices ==
  ASSUME NEW s, IsSimilarity(s), NEW L \in Nat \ {0}, NEW U, U = maximum_length_bound(s, L),
         NEW p \in Nat \ {0}, NEW lo, lo = minimum_length_bound(s, p),
         NEW hi, hi = maximum_length_bound(s, p),
         NEW n \in Nat \ {0}, L <= n, n <= U, lo <= n, n <= hi
  PROVE  equivalent_hd(s, n, p) <= max_hd_to(s, greater(L, lo), lesser(U, hi), p, p)
<1> DEFINE own == max_hd_to(s, greater(L, lo), lesser(U, hi), p, p)
<1>1. CASE IsJaccard(s)
  <2> DEFINE k == s.num
             d == s.den
             b == lesser(U, hi)
             c == d - k
             e == k + d
  <2>1. k \in Nat \ {0} /\ d \in Nat \ {0} /\ k <= d /\ s.kind = "jaccard"
        /\ c \in Nat /\ e \in Nat \ {0}
    BY <1>1 DEF IsJaccard
  <2>2. U \in Nat /\ hi \in Nat
    BY LengthsAround
  <2>3. b \in Nat /\ n <= b
    BY <2>2 DEF lesser
  <2>4. own = equivalent_hd(s, b, p)
    BY <2>1 DEF max_hd_to
  <2> HIDE DEF own, k, d, b, c, e
  <2>5. ASSUME NEW x \in Nat
        PROVE  equivalent_hd(s, x, p) = ((x + p) * c) \div e /\ (x + p) * c \in Nat
    <3>1. fractional_overlap(s, x, p) = <<k * (x + p), e>>
      BY <2>1 DEF fractional_overlap, k, d, e
    <3>2. equivalent_hd(s, x, p) = truncate((x + p) * e - 2 * (k * (x + p)), e)
      BY <3>1 DEF equivalent_hd
    <3>3. (x + p) * e - 2 * (k * (x + p)) = (x + p) * c
      BY <2>1 DEF c, e
    <3>4. (x + p) * c \in Nat
      BY <2>1
    <3> QED  BY <3>2, <3>3, <3>4 DEF truncate
  <2> DEFINE x == (n + p) * c
             y == (b + p) * c
  <2>6. x \in Nat /\ y \in Nat /\ x <= y
    <3>1. n + p \in Nat /\ b + p \in Nat /\ n + p <= b + p
      BY <2>3
    <3> QED  BY <2>1, <3>1
  <2>7. equivalent_hd(s, n, p) = x \div e /\ own = y \div e
    BY <2>3, <2>4, <2>5
  <2> HIDE DEF x, y
  <2>8. x * e <= y * e
    BY <2>1, <2>6
  <2>9. x \div e <= y \div e
    BY <2>1, <2>6, <2>8, QuotientsGrow
  <2> QED  BY <2>7, <2>9 DEF own
<1>2. CASE s.kind = "structural" /\ s.t \in Nat /\ s.q \in Nat \ {0}
  <2> DEFINE t == s.t
             l == s.q * t
             a == greater(L, lo)
             b == lesser(U, hi)
  <2>1. t \in Nat /\ l \in Nat /\ U = L + t /\ lo = p - t /\ hi = p + t
    BY <1>2 DEF maximum_length_bound, minimum_length_bound
  <2>2. ASSUME NEW x \in Int
        PROVE  equivalent_hd(s, x, p) = (x + p) - 2 * (greater(x, p) - l)
    <3> DEFINE h == (x + p) * 1 - 2 * (greater(x, p) - l)
    <3>1. fractional_overlap(s, x, p) = <<greater(x, p) - l, 1>>
      BY <1>2 DEF fractional_overlap
    <3>2. equivalent_hd(s, x, p) = truncate(h, 1)
      BY <3>1 DEF equivalent_hd
    <3>3. h \in Int /\ h = (x + p) - 2 * (greater(x, p) - l)
      BY <2>1 DEF greater
    <3> HIDE DEF h
    <3>4. truncate(h, 1) = h
      BY <3>3 DEF truncate
    <3> QED  BY <3>2, <3>3, <3>4
  <2>3. own = CASE p < a -> equivalent_hd(s, a, p)
                [] b < p -> equivalent_hd(s, b, p)
                [] OTHER -> equivalent_hd(s, p, p)
    BY <1>2 DEF max_hd_to
  <2> HIDE DEF own, t, l, a, b
  <2>4. a \in Int /\ b \in Int /\ a <= n /\ n <= b
    BY <2>1 DEF a, b, greater, lesser
  <2>5. CASE p < a
    <3>1. own = (a + p) - 2 * (a - l)
      <4>1. ~(b < p)
        BY <2>4, <2>5
      <4>2. own = equivalent_hd(s, a, p)
        BY <2>3, <2>5, <4>1
      <4> QED  BY <2>2, <2>4, <2>5, <4>2 DEF greater
    <3>2. equivalent_hd(s, n, p) = (n + p) - 2 * (n - l)
      BY <2>2, <2>4, <2>5 DEF greater
    <3> QED  BY <2>1, <2>4, <3>1, <3>2 DEF own
  <2>6. CASE ~(p < a) /\ b < p
    <3>1. own = (b + p) - 2 * (p - l)
      <4>1. own = equivalent_hd(s, b, p)
        BY <2>3, <2>6
      <4> QED  BY <2>2, <2>4, <2>6, <4>1 DEF greater
    <3>2. equivalent_hd(s, n, p) = (n + p) - 2 * (p - l)
      BY <2>2, <2>4, <2>6 DEF greater
    <3> QED  BY <2>1, <2>4, <3>1, <3>2 DEF own
  <2>7. CASE ~(p < a) /\ ~(b < p)
    <3>1. own = (p + p) - 2 * (p - l)
      <4>1. own = equivalent_hd(s, p, p)
        BY <2>3, <2>7
      <4> QED  BY <2>2, <4>1 DEF greater
    <3>2. equivalent_hd(s, n, p) <= (p + p) - 2 * (p - l)
      BY <2>1, <2>2 DEF greater
    <3> QED  BY <3>1, <3>2 DEF own
  <2> QED  BY <2>5, <2>6, <2>7
<1>3. CASE s.kind = "hamming" /\ s.t \in Nat
  <2> DEFINE t == s.t
             b == lesser(U, hi)
  <2>1. t \in Nat /\ U = L + t /\ hi = p + t
    BY <1>3 DEF maximum_length_bound
  <2>2. b \in Int
    BY <2>1 DEF lesser
  <2>3. ASSUME NEW x \in Int
        PROVE  equivalent_hd(s, x, p) = t
    <3>1. fractional_overlap(s, x, p) = <<x + p - t, 2>>
      BY <1>3 DEF fractional_overlap
    <3>2. equivalent_hd(s, x, p) = truncate((x + p) * 2 - 2 * (x + p - t), 2)
      BY <3>1 DEF equivalent_hd
    <3>3. (x + p) * 2 - 2 * (x + p - t) = 2 * t
      BY <2>1
    <3>4. truncate(2 * t, 2) = t
      BY <2>1 DEF truncate
    <3> QED  BY <3>2, <3>3, <3>4
  <2>4. own = equivalent_hd(s, b, p)
    BY <1>3 DEF max_hd_to
  <2> HIDE DEF own, t, b
  <2>5. equivalent_hd(s, n, p) = own
    BY <2>2, <2>3, <2>4
  <2> QED  BY <2>1, <2>2, <2>3, <2>4, <2>5 DEF own
<1>4. CASE IsJaro(s)
  <2> DEFINE d == s.den
             r == 3 * s.num - 2 * s.den
             a == greater(L, lo)
             b == lesser(U, hi)
             x == lesser(a, p)
             y == greater(b, p)
             short == lesser(n, p)
             long == greater(n, p)
  <2>1. d \in Nat \ {0} /\ r \in Nat \ {0} /\ r <= d /\ s.kind = "jaro_overlap"
    BY <1>4 DEF IsJaro
  <2>2. U = floor(L * d, r) /\ hi = floor(p * d, r) /\ lo = greater(0, ceil(p * r, d))
    BY <2>1 DEF maximum_length_bound, minimum_length_bound
  <2>3. own = equivalent_hd(s, x, y)
    BY <2>1 DEF max_hd_to
  <2>4. equivalent_hd(s, n, p) = equivalent_hd(s, short, long)
    <3>1. fractional_overlap(s, n, p) = fractional_overlap(s, p, n)
      <4>1. (3 * s.num - s.den) * n * p = (3 * s.num - s.den) * p * n /\ n + p = p + n
        BY <2>1, <1>4 DEF IsJaro
      <4> QED  BY <2>1, <4>1 DEF fractional_overlap
    <3>2. equivalent_hd(s, n, p) = equivalent_hd(s, p, n)
      <4>1. n + p = p + n
        OBVIOUS
      <4> QED  BY <3>1, <4>1 DEF equivalent_hd
    <3> QED  BY <3>2 DEF lesser, greater
  <2> HIDE DEF own, d, r, a, b, x, y, short, long
  <2>5. U \in Nat /\ hi \in Nat /\ lo \in Nat /\ lo = ceil(p * r, d) /\ p <= hi /\ lo <= p
    <3>1. /\ ceil(p * r, d) \in Nat /\ ceil(p * r, d) <= p
          /\ floor(p * d, r) \in Nat /\ p <= floor(p * d, r)
      <4>1. p \in Nat
        OBVIOUS
      <4> QED  BY <2>1, <4>1, RatioBounds
    <3>2. floor(L * d, r) \in Nat
      <4>1. L \in Nat
        OBVIOUS
      <4> QED  BY <2>1, <4>1, RatioBounds
    <3> QED  BY <2>2, <3>1, <3>2 DEF greater
  <2>6. lo # 0
    <3>1. p * r > 0 /\ d * 0 = 0
      BY <2>1
    <3>2. p * r <= d * lo
      <4>1. p \in Nat
        OBVIOUS
      <4>2. p * r <= d * ceil(p * r, d)
        BY <2>1, <4>1, RatioBounds
      <4> QED  BY <2>5, <4>2
    <3> QED  BY <2>1, <2>5, <3>1, <3>2
  <2>7. /\ x \in Nat \ {0} /\ y \in Nat /\ short \in Nat \ {0} /\ long \in Nat
        /\ x <= short /\ short <= long /\ long <= y /\ p <= y
    BY <2>5, <2>6 DEF x, y, a, b, short, long, lesser, greater
  \* Nothing shorter than x is similar to a set as long as y.
  <2>8. x <= ceil(y * r, d)
    <3>1. ASSUME NEW c \in Nat, NEW z \in Nat, c <= ceil(z * r, d), z <= y
          PROVE  c <= ceil(y * r, d)
      <4> DEFINE i == ceil(z * r, d)
                 j == ceil(y * r, d)
      <4>1. z * r \in Nat /\ y * r \in Nat /\ z * r <= y * r
        BY <2>1, <2>7, <3>1
      <4>2. i \in Int /\ d * i < z * r + d /\ j \in Int /\ y * r <= d * j
        <5>1. z * r \in Int /\ y * r \in Int
          BY <4>1
        <5>2. i \in Int /\ d * i < z * r + d
          BY <2>1, <5>1, DivisionRounds
        <5>3. j \in Int /\ y * r <= d * j
          BY <2>1, <5>1, DivisionRounds
        <5> QED  BY <5>2, <5>3
      <4>3. c <= i
        BY <3>1
      <4> HIDE DEF i, j
      <4>4. d * i < d * j + d
        <5>1. d * i \in Int /\ d * j \in Int
          BY <2>1, <4>2
        <5> QED  BY <2>1, <4>1, <4>2, <5>1
      <4>5. i <= j
        BY <2>1, <4>2, <4>4, Cancels
      <4>6. c <= j
        BY <4>2, <4>3, <4>5
      <4> QED  BY <4>6 DEF j
    \* The longest set for one of c tokens needs one of c tokens at least.
    <3>2. ASSUME NEW c \in Nat, NEW z, z = floor(c * d, r)
          PROVE  z \in Nat /\ c <= ceil(z * r, d)
      <4> DEFINE i == ceil(z * r, d)
      <4>1. z \in Nat /\ c * d < r * z + r
        BY <2>1, <3>2, RatioBounds
      <4>2. z * r \in Nat
        BY <2>1, <4>1
      <4>3. i \in Int /\ z * r <= d * i
        <5>1. z * r \in Int
          BY <4>2
        <5> QED  BY <2>1, <5>1, DivisionRounds
      <4> HIDE DEF i
      <4>4. d * c < d * i + d
        <5>1. c * d = d * c /\ r * z = z * r /\ d * c \in Int /\ d * i \in Int
          BY <2>1, <4>1, <4>3
        <5> QED  BY <2>1, <4>1, <4>2, <4>3, <5>1
      <4>5. c <= i
        BY <2>1, <4>3, <4>4, Cancels
      <4> QED  BY <4>1, <4>5 DEF i
    <3>3. CASE L <= lo
      <4>1. x = lo
        BY <2>5, <3>3 DEF x, a, lesser, greater
      <4>2. lo <= ceil(p * r, d)
        BY <2>5
      <4> QED  BY <2>5, <2>7, <3>1, <4>1, <4>2
    <3>4. CASE ~(L <= lo)
      <4>1. p <= U
        <5>1. ceil(p * r, d) <= L
          BY <2>5, <3>4
        <5> QED  BY <2>1, <2>2, <5>1, RatioTurns
      <4>2. x = lesser(L, p) /\ y = lesser(U, hi) /\ x \in Nat
        BY <2>5, <3>4, <4>1 DEF x, y, a, b, lesser, greater
      <4>3. L <= ceil(U * r, d) /\ p <= ceil(hi * r, d)
        BY <2>2, <3>2
      <4>4. x <= L /\ x <= p
        BY <4>2 DEF lesser
      <4>5. U * r \in Int /\ hi * r \in Int
        BY <2>1, <2>5
      <4>6. ceil(U * r, d) \in Int /\ ceil(hi * r, d) \in Int
        BY <2>1, <4>5, DivisionRounds
      <4>7. x <= ceil(U * r, d) /\ x <= ceil(hi * r, d)
        BY <4>2, <4>3, <4>4, <4>6
      <4>8. y = U \/ y = hi
        BY <4>2 DEF lesser
      <4> QED  BY <4>7, <4>8
    <3> QED  BY <3>3, <3>4
  <2>9. equivalent_hd(s, short, long) <= equivalent_hd(s, short, y)
    BY <1>4, <2>7, JaroHdGrows
  <2>10. equivalent_hd(s, short, y) <= equivalent_hd(s, x, y)
    <3>1. short <= y
      BY <2>7
    <3> QED  BY <1>4, <2>7, <2>8, <3>1, JaroHdWidest DEF d, r
  <2>11. /\ equivalent_hd(s, short, long) \in Nat /\ equivalent_hd(s, short, y) \in Nat
         /\ equivalent_hd(s, x, y) \in Nat
    <3>1. long \in Nat \ {0} /\ y \in Nat \ {0}
      BY <2>7
    <3> QED  BY <1>4, <2>7, <3>1, JaroHd
  <2>12. equivalent_hd(s, n, p) <= own
    BY <2>3, <2>4, <2>9, <2>10, <2>11
  <2> QED  BY <2>12 DEF own
<1> QED  BY <1>1, <1>2, <1>3, <1>4 DEF IsSimilarity, IsJaccard, IsJaro
------------------------------------------------------------------------------
(* The merge of sorted lists misses nothing: what it passes over is not in *)
(* the rest of the other list.                                             *)
LEMMA SortedFacts ==
  ASSUME NEW r \in Seq(Int), Sorted(r)
  PROVE  /\ \A i, j \in 1 .. Len(r) : i < j => r[i] < r[j]
         /\ \A i, j \in 1 .. Len(r) : i <= j => r[i] <= r[j]
         /\ NoTokenTwice(r)
<1>1. DOMAIN r = 1 .. Len(r) /\ Len(r) \in Nat /\ \A i \in 1 .. Len(r) : r[i] \in Int
  BY LenProperties, ElementOfSeq
<1>2. \A i, j \in 1 .. Len(r) : i < j => r[i] < r[j]
  BY <1>1 DEF Sorted
<1>3. \A i, j \in 1 .. Len(r) : i <= j => r[i] <= r[j]
  BY <1>1, <1>2
<1>4. NoTokenTwice(r)
  BY <1>1, <1>2 DEF NoTokenTwice
<1> QED  BY <1>2, <1>3, <1>4

LEMMA CommonAtMost ==
  ASSUME NEW r \in Seq(Int), NEW s \in Seq(Int), NoTokenTwice(r),
         NEW i \in 1 .. Len(r) + 1, NEW j \in 1 .. Len(s) + 1
  PROVE  /\ Cardinality(Common(r, s, i, j)) \in Nat
         /\ Cardinality(Common(r, s, i, j)) <= Len(r) - i + 1
         /\ Cardinality(Common(r, s, i, j)) <= Len(s) - j + 1
<1> DEFINE C == Common(r, s, i, j)
           m == Len(r)
           n == Len(s)
           g == [k \in C |-> CHOOSE l \in j .. n : r[k] = s[l]]
<1>1. m \in Nat /\ n \in Nat
  BY LenProperties
<1>2. IsFiniteSet(C) /\ Cardinality(C) \in Nat
  <2>1. i \in Nat \ {0} /\ j \in Nat \ {0}
    BY <1>1
  <2> QED  BY <2>1, CommonFacts
<1>3. C \in SUBSET (i .. m) /\ \A k \in C : \E l \in j .. n : r[k] = s[l]
  BY DEF Common
<1>4. g \in [C -> j .. n] /\ \A k \in C : r[k] = s[g[k]]
  BY <1>3
<1>5. \A k, l \in C : g[k] = g[l] => k = l
  <2> SUFFICES ASSUME NEW k \in C, NEW l \in C, g[k] = g[l] PROVE k = l
    OBVIOUS
  <2>1. r[k] = r[l]
    BY <1>4
  <2>2. k \in 1 .. m /\ l \in 1 .. m
    <3>1. k \in i .. m /\ l \in i .. m
      BY <1>3
    <3> HIDE DEF C
    <3> QED  BY <1>1, <3>1
  <2> QED  BY <2>1, <2>2 DEF NoTokenTwice
<1> HIDE DEF g, C
<1>6. /\ IsFiniteSet(i .. m) /\ Cardinality(i .. m) = m - i + 1
      /\ IsFiniteSet(j .. n) /\ Cardinality(j .. n) = n - j + 1
  <2> HIDE DEF m, n
  <2>1. /\ i \in Int /\ j \in Int /\ m \in Int /\ n \in Int
        /\ (IF i > m THEN 0 ELSE m - i + 1) = m - i + 1
        /\ (IF j > n THEN 0 ELSE n - j + 1) = n - j + 1
    BY <1>1 DEF m, n
  <2> QED  BY <2>1, FS_Interval
<1>7. Cardinality(C) <= m - i + 1
  BY <1>3, <1>6, FS_Subset
<1>8. Cardinality(C) <= n - j + 1
  <2>1. g \in Injection(C, j .. n)
    BY <1>4, <1>5 DEF Injection, IsInjective
  <2> QED  BY <1>6, <2>1, FS_Injection DEF ExistsInjection
<1> QED  BY <1>2, <1>7, <1>8 DEF C

LEMMA CommonPasses ==
  ASSUME NEW r \in Seq(Int), NEW s \in Seq(Int), Sorted(r), Sorted(s),
         NEW i \in 1 .. Len(r), NEW j \in 1 .. Len(s)
  PROVE  /\ r[i] = s[j] =>
              Cardinality(Common(r, s, i, j)) <= Cardinality(Common(r, s, i + 1, j + 1)) + 1
         /\ r[i] < s[j] => Common(r, s, i + 1, j) = Common(r, s, i, j)
         /\ s[j] < r[i] => Common(r, s, i, j + 1) = Common(r, s, i, j)
<1> DEFINE m == Len(r)
           n == Len(s)
<1>1. /\ m \in Nat /\ n \in Nat
      /\ \A k \in 1 .. m : r[k] \in Int
      /\ \A k \in 1 .. n : s[k] \in Int
  BY LenProperties, ElementOfSeq
<1>2. /\ \A k, l \in 1 .. m : k <= l => r[k] <= r[l]
      /\ \A k, l \in 1 .. n : k <= l => s[k] <= s[l]
      /\ \A k, l \in 1 .. m : k < l => r[k] < r[l]
  BY SortedFacts
<1>3. \A a, b : Common(r, s, a, b) = {k \in a .. m : \E l \in b .. n : r[k] = s[l]}
  BY DEF Common
<1> HIDE DEF m, n
<1>4. /\ i \in 1 .. m /\ j \in 1 .. n
      /\ \A k \in i .. m : k \in 1 .. m /\ r[i] <= r[k] /\ r[k] \in Int /\ (k # i => k \in i + 1 .. m)
      /\ \A l \in j .. n : l \in 1 .. n /\ s[j] <= s[l] /\ s[l] \in Int /\ (l # j => l \in j + 1 .. n)
      /\ r[i] \in Int /\ s[j] \in Int
      /\ i + 1 .. m \subseteq i .. m /\ j + 1 .. n \subseteq j .. n
  BY <1>1, <1>2 DEF m, n
<1>5. ASSUME r[i] < s[j] PROVE Common(r, s, i + 1, j) = Common(r, s, i, j)
  <2>1. \A k \in i .. m : \A l \in j .. n : r[k] = s[l] => k # i
    BY <1>4, <1>5
  <2>2. \A k : (k \in i + 1 .. m /\ \E l \in j .. n : r[k] = s[l])
                <=> (k \in i .. m /\ \E l \in j .. n : r[k] = s[l])
    BY <1>4, <2>1
  <2> QED  BY <1>3, <2>2
<1>6. ASSUME s[j] < r[i] PROVE Common(r, s, i, j + 1) = Common(r, s, i, j)
  <2>1. \A k \in i .. m : \A l \in j .. n : r[k] = s[l] => l # j
    BY <1>4, <1>6
  <2>2. \A k \in i .. m : (\E l \in j + 1 .. n : r[k] = s[l]) <=> (\E l \in j .. n : r[k] = s[l])
    BY <1>4, <2>1
  <2>3. /\ Common(r, s, i, j + 1) = {k \in i .. m : \E l \in j + 1 .. n : r[k] = s[l]}
        /\ Common(r, s, i, j) = {k \in i .. m : \E l \in j .. n : r[k] = s[l]}
    BY <1>3
  <2> QED  BY <2>2, <2>3, Zenon
<1>7. ASSUME r[i] = s[j]
      PROVE  Cardinality(Common(r, s, i, j)) <= Cardinality(Common(r, s, i + 1, j + 1)) + 1
  <2> DEFINE D == Common(r, s, i + 1, j + 1)
  <2>1. Common(r, s, i, j) \in SUBSET (D \cup {i})
    <3> SUFFICES ASSUME NEW k \in Common(r, s, i, j), k # i PROVE k \in D
      OBVIOUS
    <3>1. k \in i .. m /\ \E l \in j .. n : r[k] = s[l]
      BY <1>3
    <3>2. PICK l \in j .. n : r[k] = s[l]
      BY <3>1
    <3>3. r[i] < r[k]
      <4>1. i < k /\ k \in 1 .. m
        BY <1>1, <1>4, <3>1
      <4> QED  BY <1>2, <1>4, <4>1 DEF m
    <3>4. l # j
      BY <1>4, <1>7, <3>2, <3>3
    <3>5. k \in i + 1 .. m /\ l \in j + 1 .. n
      BY <1>4, <3>1, <3>4
    <3>6. D = {x \in i + 1 .. m : \E y \in j + 1 .. n : r[x] = s[y]}
      BY <1>3
    <3> HIDE DEF D
    <3> QED  BY <3>2, <3>5, <3>6
  <2>2. IsFiniteSet(D) /\ Cardinality(D) \in Nat
    <3>1. i + 1 \in Nat \ {0} /\ j + 1 \in Nat \ {0}
      BY <1>4
    <3> QED  BY <3>1, CommonFacts
  <2> HIDE DEF D
  <2>3. IsFiniteSet(D \cup {i}) /\ Cardinality(D \cup {i}) <= Cardinality(D) + 1
    <3>1. Cardinality(D \cup {i}) = IF i \in D THEN Cardinality(D) ELSE Cardinality(D) + 1
      BY <2>2, FS_AddElement
    <3> QED  BY <2>2, <3>1, FS_AddElement
  <2>4. /\ Cardinality(Common(r, s, i, j)) <= Cardinality(D \cup {i})
        /\ Cardinality(D \cup {i}) \in Nat /\ Cardinality(Common(r, s, i, j)) \in Nat
    BY <2>1, <2>3, FS_Subset, FS_CardinalityType
  <2> QED  BY <2>2, <2>3, <2>4 DEF D
<1> QED  BY <1>5, <1>6, <1>7

LEMMA MergeMissesNone ==
  ASSUME NEW r \in Seq(Int), NEW s \in Seq(Int), Sorted(r), Sorted(s), NEW required \in Int,
         NEW f, f = [p \in Places(r, s) |-> MergeFrom(p, r, s, required, f)]
  PROVE  \A p \in Places(r, s) :
           required <= p[3] + Cardinality(Common(r, s, p[1], p[2])) => f[p] = TRUE
<1> DEFINE Full(p) == required <= p[3] + Cardinality(Common(r, s, p[1], p[2])) => f[p] = TRUE
           T == {n \in Nat : \A p \in Places(r, s) : ToRead(p, r, s) <= n => Full(p)}
           N == Len(r) + Len(s) + 1
<1>1. /\ \A p \in Places(r, s) : ToRead(p, r, s) \in Nat \ {0} /\ ToRead(p, r, s) <= N
      /\ N \in Nat \ {0}
  <2>1. Len(r) \in Nat /\ Len(s) \in Nat
    BY LenProperties
  <2> QED  BY <2>1, PlaceFacts
<1>2. ASSUME NEW p \in Places(r, s),
             \A q \in Places(r, s) : ToRead(q, r, s) < ToRead(p, r, s) => Full(q)
      PROVE  Full(p)
  <2> DEFINE i == p[1]
             j == p[2]
             o == p[3]
             C(a, b) == Cardinality(Common(r, s, a, b))
  <2> SUFFICES ASSUME required <= o + C(i, j) PROVE f[p] = TRUE
    OBVIOUS
  <2>1. /\ i \in 1 .. Len(r) + 1 /\ j \in 1 .. Len(s) + 1 /\ o \in Nat
        /\ Len(r) \in Nat /\ Len(s) \in Nat
        /\ Goes(p, r, s, required) =>
             i \in 1 .. Len(r) /\ j \in 1 .. Len(s) /\ r[i] \in Int /\ s[j] \in Int
    <3> HIDE DEF i, j, o
    <3> QED  BY PlaceFacts DEF i, j, o
  <2>2. f[p] = MergeFrom(p, r, s, required, f)
    OBVIOUS
  <2>3. C(i, j) \in Nat /\ C(i, j) <= Len(r) - i + 1 /\ C(i, j) <= Len(s) - j + 1
    <3>1. NoTokenTwice(r)
      BY SortedFacts
    <3> HIDE DEF i, j
    <3> QED  BY <2>1, <3>1, CommonAtMost
  <2>4. CASE ~Goes(p, r, s, required)
    <3>1. ~(Len(r) - (i - 1 - o) < required) /\ ~(Len(s) - (j - 1 - o) < required)
      <4> HIDE DEF i, j, o, C
      <4>1. required <= o + C(i, j)
        BY DEF i, j, o, C
      <4> QED  BY <2>1, <2>3, <4>1
    <3>2. o >= required
      BY <2>1, <2>4, <3>1 DEF Goes
    <3> DEFINE enough == o >= required
    <3>3. f[p] = enough
      BY <2>2, <3>2 DEF MergeFrom
    <3>4. enough = TRUE
      BY <3>2
    <3> QED  BY <3>3, <3>4
  <2>5. CASE Goes(p, r, s, required)
    <3> DEFINE both == <<i + 1, j + 1, o + 1>>
               one == <<i + 1, j, o>>
               other == <<i, j + 1, o>>
    <3>1. Full(both) /\ Full(one) /\ Full(other)
      <4> HIDE DEF Full
      <4> QED  BY <1>2, <2>5, NextPlaces
    <3>2. /\ required <= o + 1 + C(i + 1, j + 1) => f[both] = TRUE
          /\ required <= o + C(i + 1, j) => f[one] = TRUE
          /\ required <= o + C(i, j + 1) => f[other] = TRUE
      BY <3>1
    <3>3. ~(\/ Len(r) - (p[1] - 1 - p[3]) < required
            \/ Len(s) - (p[2] - 1 - p[3]) < required
            \/ p[3] >= required)
      <4>1. p[3] < required /\ p[3] \in Nat
        BY <2>1, <2>5 DEF Goes
      <4>2. ~(p[3] >= required)
        <5> HIDE DEF i, j, o, C
        <5> QED  BY <4>1
      <4> QED  BY <2>5, <4>2 DEF Goes
    <3>4. f[p] = CASE r[i] = s[j] -> f[both]
                   [] r[i] < s[j] -> f[one]
                   [] r[i] > s[j] -> f[other]
      BY <2>2, <3>3 DEF MergeFrom
    <3>5. required <= o + C(i, j)
      OBVIOUS
    <3>6. C(i + 1, j + 1) \in Nat
      <4>1. i + 1 \in Nat \ {0} /\ j + 1 \in Nat \ {0}
        BY <2>1
      <4> HIDE DEF i, j
      <4> QED  BY <4>1, CommonFacts
    <3>7. /\ r[i] = s[j] => C(i, j) <= C(i + 1, j + 1) + 1
          /\ r[i] < s[j] => C(i + 1, j) = C(i, j)
          /\ s[j] < r[i] => C(i, j + 1) = C(i, j)
      <4> HIDE DEF i, j
      <4> QED  BY <2>1, <2>5, CommonPasses
    <3> HIDE DEF i, j, o, both, one, other, C
    <3>8. CASE r[i] = s[j]
      <4>1. ~(r[i] < s[j]) /\ ~(r[i] > s[j])
        BY <2>1, <2>5, <3>8
      <4>2. f[p] = f[both]
        BY <3>4, <3>8, <4>1
      <4>3. required <= o + 1 + C(i + 1, j + 1)
        <5>1. C(i, j) <= C(i + 1, j + 1) + 1
          BY <3>7, <3>8
        <5> QED  BY <2>1, <2>3, <3>5, <3>6, <5>1
      <4> QED  BY <3>2, <4>2, <4>3
    <3>9. CASE r[i] < s[j]
      <4>1. ~(r[i] = s[j]) /\ ~(r[i] > s[j])
        BY <2>1, <2>5, <3>9
      <4>2. f[p] = f[one]
        BY <3>4, <3>9, <4>1
      <4> QED  BY <3>2, <3>5, <3>7, <3>9, <4>2
    <3>10. CASE r[i] > s[j]
      <4>1. ~(r[i] = s[j]) /\ ~(r[i] < s[j]) /\ s[j] < r[i]
        BY <2>1, <2>5, <3>10
      <4>2. f[p] = f[other]
        BY <3>4, <3>10, <4>1
      <4> QED  BY <3>2, <3>5, <3>7, <4>1, <4>2
    <3>11. r[i] = s[j] \/ r[i] < s[j] \/ r[i] > s[j]
      BY <2>1, <2>5
    <3> QED  BY <3>8, <3>9, <3>10, <3>11
  <2> QED  BY <2>4, <2>5
<1>3. 1 \in T
  <2>1. ASSUME NEW p \in Places(r, s), ToRead(p, r, s) <= 1 PROVE Full(p)
    <3>1. \A q \in Places(r, s) : ~(ToRead(q, r, s) < ToRead(p, r, s))
      BY <1>1, <2>1
    <3> HIDE DEF Full
    <3> QED  BY <1>2, <3>1
  <2> HIDE DEF Full
  <2> QED  BY <2>1
<1>4. ASSUME NEW n \in Nat \ {0}, n \in T PROVE n + 1 \in T
  <2>1. ASSUME NEW p \in Places(r, s), ToRead(p, r, s) <= n + 1 PROVE Full(p)
    <3>1. \A q \in Places(r, s) : ToRead(q, r, s) < ToRead(p, r, s) => Full(q)
      <4> TAKE q \in Places(r, s)
      <4> HAVE ToRead(q, r, s) < ToRead(p, r, s)
      <4>1. ToRead(q, r, s) <= n
        BY <1>1, <2>1
      <4> HIDE DEF Full
      <4> QED  BY <1>4, <4>1
    <3> HIDE DEF Full
    <3> QED  BY <1>2, <3>1
  <2> HIDE DEF Full
  <2> QED  BY <2>1
<1>5. N \in T
  <2> HIDE DEF T, N
  <2> QED  BY <1>1, <1>3, <1>4, SetInduction
<1> HIDE DEF Full
<1>6. \A p \in Places(r, s) : Full(p)
  BY <1>1, <1>5
<1> QED  BY <1>6 DEF Full

LEMMA OverlapNotMissed ==
  ASSUME NEW r \in Seq(Int), NEW s \in Seq(Int), Sorted(r), Sorted(s), NEW required \in Int,
         required <= Cardinality(Range(r) \cap Range(s))
  PROVE  overlap_at_least(r, s, required) = TRUE
<1> DEFINE f == CHOOSE merge : merge = [place \in Places(r, s) |->
                                          MergeFrom(place, r, s, required, merge)]
<1>1. f = [p \in Places(r, s) |-> MergeFrom(p, r, s, required, f)]
  BY MergeExists
<1>2. overlap_at_least(r, s, required) = f[<<1, 1, 0>>]
  BY DEF overlap_at_least
<1> HIDE DEF f
<1>3. Len(r) \in Nat /\ Len(s) \in Nat
  BY LenProperties
<1>4. <<1, 1, 0>> \in Places(r, s)
  BY <1>3 DEF Places
<1>5. \A p \in Places(r, s) :
        required <= p[3] + Cardinality(Common(r, s, p[1], p[2])) => f[p] = TRUE
  BY <1>1, MergeMissesNone
<1>6. required <= 0 + Cardinality(Common(r, s, 1, 1))
  <2>1. Cardinality(Common(r, s, 1, 1)) = Cardinality(Range(r) \cap Range(s))
    BY SortedFacts, CommonIsShared
  <2>2. Cardinality(Common(r, s, 1, 1)) \in Nat
    <3>1. 1 \in Nat \ {0}
      OBVIOUS
    <3> QED  BY <3>1, CommonFacts
  <2> QED  BY <2>1, <2>2
<1> DEFINE p == <<1, 1, 0>>
<1>7. p \in Places(r, s) /\ p[1] = 1 /\ p[2] = 1 /\ p[3] = 0
  BY <1>4
<1> HIDE DEF p
<1>8. f[p] = TRUE
  BY <1>5, <1>6, <1>7
<1> QED  BY <1>2, <1>8 DEF p

(* So sorted lists of tokens that are similar pass.                        *)
LEMMA SimilarPass ==
  ASSUME NEW m, IsSimilarity(m), NEW r \in Seq(Int), NEW s \in Seq(Int),
         r # <<>>, s # <<>>, Sorted(r), Sorted(s), Similar(m, Range(r), Range(s))
  PROVE  is_in_threshold(m, r, s) = TRUE
<1> DEFINE R == Range(r)
           S == Range(s)
           nr == Len(r)
           ns == Len(s)
           both == Cardinality(R \cap S)
           f == fractional_overlap(m, nr, ns)
<1>1. /\ IsFiniteSet(R) /\ Cardinality(R) = nr /\ IsFiniteSet(S) /\ Cardinality(S) = ns
      /\ nr \in Nat \ {0} /\ ns \in Nat \ {0}
  <2>1. NoTokenTwice(r) /\ NoTokenTwice(s)
    BY SortedFacts
  <2>2. nr \in Nat \ {0} /\ ns \in Nat \ {0}
    BY LenProperties, EmptySeq
  <2> QED  BY <2>1, <2>2, TokensCounted
<1>2. both \in Nat
  BY <1>1, SetsCounted
<1>3. f[1] \in Int /\ f[2] \in Nat \ {0} /\ f[1] <= f[2] * both
  <2>1. Similar(m, R, S)
    OBVIOUS
  <2> HIDE DEF R, S, nr, ns, f, both
  <2>2. f = fractional_overlap(m, nr, ns) /\ both = Cardinality(R \cap S)
    BY DEF f, both
  <2> QED  BY <1>1, <1>2, <2>1, <2>2, SimilarOverlap
<1>4. equivalent_overlap(m, nr, ns) = ceil(f[1], f[2])
  BY DEF equivalent_overlap
<1> HIDE DEF f
<1> DEFINE c == ceil(f[1], f[2])
<1>5. c \in Int /\ f[2] * c < f[1] + f[2]
  BY <1>3, DivisionRounds
<1> HIDE DEF c, both
<1>6. c <= both
  <2>1. f[2] * c \in Int /\ f[2] * both \in Int
    BY <1>2, <1>3, <1>5
  <2>2. f[2] * c < f[2] * both + f[2]
    BY <1>3, <1>5, <2>1
  <2> QED  BY <1>2, <1>3, <1>5, <2>2, Cancels
<1>7. overlap_at_least(r, s, c) = TRUE
  BY <1>5, <1>6, OverlapNotMissed DEF both, R, S
<1> QED  BY <1>4, <1>7 DEF is_in_threshold, c
------------------------------------------------------------------------------
(* Complete signatures: the groups of some state reached beyond the sets   *)
(* that can be similar when they were made, and all that fit were taken.   *)
LEMMA PartitionsMade ==
  ASSUME Typed, NEW s \in SharedStates, NEW g \in 1 .. Len(size_groups[s])
  PROVE  size_groups[s][g].partition_count \in Nat \ {0}
<1> DEFINE L == size_groups[s][g].lower
           U == maximum_length_bound(sim, L)
           lo == minimum_length_bound(sim, L)
           own == max_hd_to(sim, greater(L, lo), lesser(U, U), L, L)
           all == max_hd_to(sim, L, U, lo, maximum_length_bound(sim, U))
<1>1. setting \in Settings /\ IsSimilarity(sim)
  BY SetAssumption DEF Typed, sim
<1>2. L \in Nat \ {0} /\ size_groups[s][g] = GroupFrom(L)
  BY GroupOfState
<1> HIDE DEF L
<1>3. U \in Nat /\ lo \in Int /\ lo <= L /\ L <= U
  BY <1>1, <1>2, LengthsAround
<1>4. all \in Nat
  <2> HIDE DEF U, lo, own
  <2>1. lo <= U
    BY <1>2, <1>3
  <2>2. U = maximum_length_bound(sim, L) /\ lo = minimum_length_bound(sim, L) /\ L \in Nat
    BY <1>2 DEF U, lo
  <2>3. own = max_hd_to(sim, greater(L, lo), lesser(U, U), L, L)
    BY DEF own
  <2>4. all = max_hd_to(sim, L, U, minimum_length_bound(sim, L), maximum_length_bound(sim, U))
    BY DEF lo
  <2> HIDE DEF all
  <2> QED  BY <1>1, <1>2, <1>3, <2>1, <2>2, <2>3, <2>4, SharedDistance
<1>5. next_size_lb(L) - 1 = U
  BY <1>2, <1>3 DEF next_size_lb
<1>6. size_groups[s][g].partition_count = get_partition_count(L, U)
  BY <1>2, <1>5 DEF GroupFrom
<1>7. get_partition_count(L, U) = (IF ENABLE_DELETION THEN all \div 2 ELSE all) + 1
  BY DEF get_partition_count
<1> HIDE DEF all
<1> QED  BY <1>4, <1>6, <1>7

(* A similar set is not larger than the smallest of group b.               *)
Beyond(q, b, gs) == maximum_length_bound(sim, size(q)) <= gs[b].lower

CachedComplete ==
  \A q \in DOMAIN cached_signatures :
    \E s \in SharedStates : \E b \in 1 .. Len(size_groups[s]) :
      /\ Beyond(q, b, size_groups[s])
      /\ \A g \in 1 .. b : Fits(q, g, size_groups[s]) => g \in DOMAIN cached_signatures[q]

LEMMA CompleteNext ==
  ASSUME Extends, AreGroups, setting' = setting, NEW q, NEW s \in SharedStates,
         NEW b \in 1 .. Len(size_groups[s]), NEW made,
         Beyond(q, b, size_groups[s]),
         \A g \in 1 .. b : Fits(q, g, size_groups[s]) => g \in made
  PROVE  /\ b \in 1 .. Len(size_groups'[s])
         /\ Beyond(q, b, size_groups[s])'
         /\ \A g \in 1 .. b : Fits(q, g, size_groups[s])' => g \in made
<1>1. /\ b \in 1 .. Len(size_groups'[s])
      /\ Len(size_groups[s]) \in Nat
      /\ \A g \in 1 .. Len(size_groups[s]) : size_groups'[s][g] = size_groups[s][g]
  BY DEF Extends, AreGroups, IsGroups
<1>2. \A g \in 1 .. b : g \in 1 .. Len(size_groups[s])
  BY <1>1
<1>3. size(q)' = size(q) /\ sim' = sim
  BY DEF size, sim
<1>4. \A g \in 1 .. b : Fits(q, g, size_groups[s])' => Fits(q, g, size_groups[s])
  BY <1>1, <1>2, <1>3 DEF Fits
<1>5. Beyond(q, b, size_groups[s])'
  BY <1>1, <1>3 DEF Beyond
<1> QED  BY <1>1, <1>4, <1>5

LEMMA CompleteStays ==
  ASSUME CachedComplete, Extends, AreGroups, setting' = setting,
         \A r \in DOMAIN cached_signatures' :
           r \in DOMAIN cached_signatures /\ cached_signatures'[r] = cached_signatures[r]
  PROVE  CachedComplete'
<1> SUFFICES ASSUME NEW q \in DOMAIN cached_signatures'
             PROVE  \E s \in SharedStates : \E b \in 1 .. Len(size_groups'[s]) :
                      /\ Beyond(q, b, size_groups[s])'
                      /\ \A g \in 1 .. b :
                           Fits(q, g, size_groups[s])' => g \in DOMAIN cached_signatures'[q]
  BY DEF CachedComplete
<1>1. PICK s \in SharedStates : \E b \in 1 .. Len(size_groups[s]) :
        /\ Beyond(q, b, size_groups[s])
        /\ \A g \in 1 .. b : Fits(q, g, size_groups[s]) => g \in DOMAIN cached_signatures'[q]
  BY DEF CachedComplete
<1>2. PICK b \in 1 .. Len(size_groups[s]) :
        /\ Beyond(q, b, size_groups[s])
        /\ \A g \in 1 .. b : Fits(q, g, size_groups[s]) => g \in DOMAIN cached_signatures'[q]
  BY <1>1
<1> QED  BY <1>2, CompleteNext

LEMMA CompleteMade ==
  ASSUME SearchInv, CachedComplete, Extends, GetProbingSignatures
  PROVE  CachedComplete'
<1> DEFINE s == shared_state(caller)
           gs == size_groups[s]
           b == Len(gs)
           m == GroupIn(gs, minimum_size)
           new == ProbingSignatures(s)
<1>1. /\ GroupsInv /\ Typed /\ setting \in Settings /\ pc = "prepare" /\ caller \in Instances
      /\ s \in SharedStates /\ b > 0 /\ ~(Back(s).lower < maximum_size) /\ AreGroups
  <2>1. GroupsInv /\ Typed /\ Started /\ pc = "prepare" /\ ~(Back(s).lower < maximum_size)
    BY DEF SearchInv, IndexInv, GroupsInv, GetProbingSignatures
  <2>2. setting \in Settings /\ caller \in Instances /\ b > 0
    BY <2>1 DEF Typed, Started
  <2> QED  BY <2>1, <2>2, StateOfInstance, GroupsAre
<1>2. /\ minimum_size \in Int /\ maximum_size \in Int /\ minimum_size <= maximum_size
  <2>1. IsSimilarity(sim)
    BY <1>1, SetAssumption DEF sim
  <2>2. probe \in 1 .. Len(setting.data)
    BY <1>1 DEF SearchInv, Probed
  <2>3. size(probe) \in Nat
    BY <1>1, <2>2, DataFacts
  <2> QED  BY <2>1, <2>3, LengthsAround DEF minimum_size, maximum_size
<1>3. IsGroups(gs) /\ GroupOf(s, minimum_size) = m
  BY <1>1, StateGroups
<1>4. b \in 1 .. b /\ gs[b].lower \in Nat /\ gs[b].upper \in Nat /\ gs[b].lower <= gs[b].upper
  <2>1. b \in 1 .. b
    BY <1>1, <1>3 DEF IsGroups
  <2> QED  BY <1>1, <2>1, GroupOfState
<1>5. maximum_size <= gs[b].lower
  BY <1>1, <1>2, <1>4 DEF Back
<1>6. m \in 1 .. b /\ \A h \in 1 .. m - 1 : gs[h].upper < minimum_size
  <2>1. Reaches(gs, minimum_size)
    BY <1>2, <1>4, <1>5 DEF Reaches
  <2> QED  BY <1>2, <1>3, <2>1, GroupInFacts
<1>7. ASSUME NEW g \in 1 .. b, Fits(probe, g, gs) PROVE g \in DOMAIN new
  <2>1. minimum_size <= gs[g].upper /\ gs[g].lower <= maximum_size /\ gs[g].upper \in Nat
    BY <1>3, <1>7 DEF Fits, minimum_size, maximum_size, IsGroups
  <2>2. ~(g < m)
    <3> SUFFICES ASSUME g < m PROVE FALSE
      OBVIOUS
    <3>1. g \in 1 .. m - 1
      BY <1>3, <1>6 DEF IsGroups
    <3> QED  BY <1>2, <1>6, <2>1, <3>1
  <2>3. m <= g /\ g \in DOMAIN gs
    BY <1>3, <1>6, <2>2 DEF IsGroups
  <2> QED  BY <1>3, <2>1, <2>3 DEF ProbingSignatures
<1>8. /\ UNCHANGED setting
      /\ cached_signatures' =
           [r \in DOMAIN cached_signatures \cup {probe} |->
              IF r = probe THEN new ELSE cached_signatures[r]]
  BY DEF GetProbingSignatures, setVars, joinVars
<1>9. Beyond(probe, b, size_groups[s])
  BY <1>5 DEF maximum_size, Beyond
<1> HIDE DEF new, b, s
<1> SUFFICES ASSUME NEW q \in DOMAIN cached_signatures \cup {probe}
             PROVE  \E u \in SharedStates : \E c \in 1 .. Len(size_groups'[u]) :
                      /\ Beyond(q, c, size_groups[u])'
                      /\ \A g \in 1 .. c :
                           Fits(q, g, size_groups[u])' => g \in DOMAIN cached_signatures'[q]
  BY <1>8 DEF CachedComplete
<1>10. PICK u \in SharedStates : \E c \in 1 .. Len(size_groups[u]) :
         /\ Beyond(q, c, size_groups[u])
         /\ \A g \in 1 .. c : Fits(q, g, size_groups[u]) => g \in DOMAIN cached_signatures'[q]
  <2>1. CASE q = probe
    <3>1. DOMAIN cached_signatures'[q] = DOMAIN new
      BY <1>8, <2>1
    <3>2. b \in 1 .. Len(size_groups[s])
      BY <1>4 DEF b
    <3> QED  BY <1>1, <1>7, <1>9, <2>1, <3>1, <3>2
  <2>2. CASE q # probe
    <3>1. q \in DOMAIN cached_signatures /\ cached_signatures'[q] = cached_signatures[q]
      BY <1>8, <2>2
    <3> QED  BY <3>1 DEF CachedComplete
  <2> QED  BY <2>1, <2>2
<1>11. PICK c \in 1 .. Len(size_groups[u]) :
         /\ Beyond(q, c, size_groups[u])
         /\ \A g \in 1 .. c : Fits(q, g, size_groups[u]) => g \in DOMAIN cached_signatures'[q]
  BY <1>10
<1>12. /\ c \in 1 .. Len(size_groups'[u]) /\ Beyond(q, c, size_groups[u])'
       /\ \A g \in 1 .. c : Fits(q, g, size_groups[u])' => g \in DOMAIN cached_signatures'[q]
  <2>1. AreGroups /\ setting' = setting
    BY <1>1, <1>8
  <2> QED  BY <1>11, <2>1, CompleteNext
<1> QED  BY <1>12

(* So a group of any state that can have similar sets is among them.       *)
LEMMA FittingIsCached ==
  ASSUME GroupsInv, CachedComplete, NEW q \in DOMAIN cached_signatures, size(q) \in Nat,
         NEW t \in SharedStates, NEW g, Fits(q, g, size_groups[t])
  PROVE  g \in DOMAIN cached_signatures[q]
<1> DEFINE top == maximum_length_bound(sim, size(q))
<1>0. PICK s \in SharedStates : \E b \in 1 .. Len(size_groups[s]) :
        /\ Beyond(q, b, size_groups[s])
        /\ \A h \in 1 .. b : Fits(q, h, size_groups[s]) => h \in DOMAIN cached_signatures[q]
  BY DEF CachedComplete
<1>1. PICK b \in 1 .. Len(size_groups[s]) :
        /\ Beyond(q, b, size_groups[s])
        /\ \A h \in 1 .. b : Fits(q, h, size_groups[s]) => h \in DOMAIN cached_signatures[q]
  BY <1>0
<1>2. /\ IsGroups(size_groups[s]) /\ IsGroups(size_groups[t]) /\ Typed /\ Chained /\ StatesAgree
      /\ setting \in Settings
  BY StateGroups DEF GroupsInv, Typed
<1>3. top \in Int
  <2>1. IsSimilarity(sim)
    BY <1>2, SetAssumption DEF sim
  <2> QED  BY <2>1, LengthsAround
<1>4. /\ g \in 1 .. Len(size_groups[t]) /\ size_groups[t][g].lower <= top
      /\ size_groups[t][g].lower \in Nat
  BY <1>2, GroupOfState DEF Fits
<1>5. Len(size_groups[s]) \in Nat /\ Len(size_groups[t]) \in Nat
  BY <1>2 DEF IsGroups
<1>6. CASE g <= b
  <2>1. g \in 1 .. b /\ g \in 1 .. Len(size_groups[s])
    BY <1>4, <1>5, <1>6
  <2>2. size_groups[s][g] = size_groups[t][g]
    BY <1>2, <1>4, <1>5, <2>1 DEF StatesAgree
  <2>3. Fits(q, g, size_groups[s])
    BY <2>1, <2>2 DEF Fits
  <2> QED  BY <1>1, <2>1, <2>3
<1>7. CASE ~(g <= b)
  <2>1. b \in 1 .. Len(size_groups[t]) /\ g - 1 \in 1 .. Len(size_groups[t]) /\ b <= g - 1 /\ g # 1
    BY <1>4, <1>5, <1>7
  <2>2. size_groups[s][b] = size_groups[t][b]
    BY <1>2, <1>5, <2>1 DEF StatesAgree
  <2>3. size_groups[t][b].upper <= size_groups[t][g - 1].upper
    BY <2>1, UppersAscend
  <2>4. size_groups[t][g].lower = size_groups[t][g - 1].upper + 1
    BY <1>2, <1>4, <2>1 DEF Chained
  <2>5. /\ size_groups[t][b].lower \in Nat /\ size_groups[t][b].upper \in Nat
        /\ size_groups[t][b].lower <= size_groups[t][b].upper
        /\ size_groups[t][g - 1].upper \in Nat
    BY <1>2, <2>1, GroupOfState
  <2>6. top <= size_groups[s][b].lower
    BY <1>1 DEF Beyond
  <2>7. top <= size_groups[t][b].lower /\ size_groups[t][g].lower <= top
    BY <1>4, <2>2, <2>6
  <2> DEFINE x == size_groups[t][b].lower
             y == size_groups[t][b].upper
             z == size_groups[t][g - 1].upper
             w == size_groups[t][g].lower
  <2>8. /\ top \in Int /\ x \in Nat /\ y \in Nat /\ z \in Nat /\ w \in Nat
        /\ top <= x /\ x <= y /\ y <= z /\ w = z + 1 /\ w <= top
    BY <1>3, <1>4, <2>3, <2>4, <2>5, <2>7
  <2> HIDE DEF top, x, y, z, w
  <2> QED  BY <2>8
<1> QED  BY <1>6, <1>7
------------------------------------------------------------------------------
(* The records that a call has to find, and the groups they are in.        *)
Wanted(id) ==
  /\ id \in Ids(caller) /\ Admitted(Record(caller, id))
  /\ Similar(sim, TokenSet(Record(caller, id)), TokenSet(probe))

GroupOfId(id) == GroupOf(shared_state(caller), size(Record(caller, id)))

LEMMA SetFacts ==
  ASSUME setting \in Settings, SortedData, NEW r \in 1 .. Len(setting.data)
  PROVE  /\ tokens(r) \in Seq(Int) /\ tokens(r) # <<>> /\ Sorted(tokens(r))
         /\ size(r) \in Nat \ {0} /\ Len(tokens(r)) = size(r)
         /\ TokenSet(r) = Range(tokens(r))
         /\ IsFiniteSet(TokenSet(r)) /\ Cardinality(TokenSet(r)) = size(r)
<1>1. /\ setting.data \in Seq(Seq(Int))
      /\ \A i, j \in 1 .. Len(setting.data[r]) :
           setting.data[r][i] = setting.data[r][j] => i = j
  BY DatasetAssumption
<1>2. tokens(r) \in Seq(Int) /\ NoTokenTwice(tokens(r)) /\ Len(tokens(r)) = size(r)
  BY <1>1, ElementOfSeq DEF tokens, NoTokenTwice, size
<1>3. r \in DOMAIN setting.data
  BY <1>1, LenProperties
<1>4. tokens(r) # <<>> /\ Sorted(tokens(r))
  BY <1>3 DEF SortedData
<1>5. size(r) \in Nat \ {0}
  BY <1>2, <1>4, LenProperties, EmptySeq
<1> QED  BY <1>2, <1>4, <1>5, TokensCounted DEF TokenSet

LEMMA WantedFacts ==
  ASSUME IndexInv, caller \in Instances, probe \in 1 .. Len(setting.data), SortedData,
         NEW id, Wanted(id), NEW r, r = Record(caller, id), NEW s, s = shared_state(caller),
         NEW g, g = GroupOfId(id)
  PROVE  /\ IsSimilarity(sim) /\ r \in 1 .. Len(setting.data) /\ s \in SharedStates
         /\ minimum_size <= size(r) /\ size(r) <= maximum_size
         /\ g \in 1 .. Len(size_groups[s])
         /\ size_groups[s][g].lower <= size(r) /\ size(r) <= size_groups[s][g].upper
         /\ Fits(probe, g, size_groups[s])
<1> DEFINE gs == size_groups[s]
           n == size(r)
<1>1. /\ GroupsInv /\ Typed /\ Chained /\ Counted /\ setting \in Settings /\ IsSimilarity(sim)
  BY SetAssumption DEF IndexInv, GroupsInv, Typed, sim
<1>2. s \in SharedStates
  BY <1>1, StateOfInstance
<1>3. id \in Ids(caller) /\ r \in 1 .. Len(setting.data)
  BY <1>1, RecordFacts DEF Wanted
<1>4. minimum_size <= n /\ n <= maximum_size
  <2> DEFINE R == TokenSet(r)
             S == TokenSet(probe)
             both == Cardinality(R \cap S)
             f == fractional_overlap(sim, n, size(probe))
  <2>1. Similar(sim, R, S)
    BY DEF Wanted
  <2>2. /\ IsFiniteSet(R) /\ IsFiniteSet(S) /\ n \in Nat \ {0} /\ size(probe) \in Nat \ {0}
        /\ n = Cardinality(R) /\ size(probe) = Cardinality(S)
    BY <1>1, <1>3, SetFacts
  <2>3. both \in Nat
    BY <2>2, SetsCounted
  <2> HIDE DEF R, S, n, f, both
  <2>4. f = fractional_overlap(sim, n, size(probe)) /\ both = Cardinality(R \cap S)
    BY DEF f, both
  <2> QED  BY <1>1, <2>1, <2>2, <2>3, <2>4, SimilarOverlap DEF minimum_size, maximum_size
<1>5. /\ IsGroups(gs) /\ g = GroupIn(gs, n) /\ Reaches(gs, n) /\ n \in Nat
  <2>1. IsGroups(gs) /\ g = GroupIn(gs, n)
    BY <1>1, <1>2, StateGroups DEF GroupOfId
  <2> QED  BY <1>1, <1>3, <2>1, RecordFacts DEF IndexInv, Grouped
<1>6. g \in 1 .. Len(gs) /\ n <= gs[g].upper /\ \A h \in 1 .. g - 1 : gs[h].upper < n
  <2> HIDE DEF gs, n
  <2> QED  BY <1>5, GroupInFacts
<1>7. gs[g].lower <= n
  <2>1. gs[g].lower = IF g = 1 THEN 1 ELSE gs[g - 1].upper + 1
    BY <1>1, <1>2, <1>6 DEF Chained
  <2>2. CASE g = 1
    <3>1. n \in Nat \ {0}
      BY <1>1, <1>3, SetFacts
    <3> QED  BY <2>1, <2>2, <3>1
  <2>3. CASE g # 1
    <3>1. g - 1 \in 1 .. g - 1 /\ g - 1 \in 1 .. Len(gs)
      BY <1>5, <1>6, <2>3 DEF IsGroups
    <3>2. gs[g - 1].upper < n /\ gs[g - 1].upper \in Nat
      BY <1>5, <1>6, <3>1 DEF IsGroups
    <3>3. gs[g].lower = gs[g - 1].upper + 1
      BY <2>1, <2>3
    <3> HIDE DEF gs, n
    <3> QED  BY <1>5, <3>2, <3>3
  <2> QED  BY <2>2, <2>3
<1>8. gs[g].lower \in Nat /\ gs[g].upper \in Nat
  BY <1>1, <1>2, <1>6, GroupOfState
<1>9. minimum_size \in Int /\ maximum_size \in Int
  <2>1. size(probe) \in Nat
    BY <1>1, DataFacts
  <2> QED  BY <1>1, <2>1, LengthsAround DEF minimum_size, maximum_size
<1>10. Fits(probe, g, gs)
  <2>1. minimum_size <= gs[g].upper /\ gs[g].lower <= maximum_size
    <3> HIDE DEF gs, n
    <3> QED  BY <1>4, <1>5, <1>6, <1>7, <1>8, <1>9
  <2> QED  BY <1>6, <2>1 DEF Fits, minimum_size, maximum_size
<1> QED  BY <1>1, <1>2, <1>3, <1>4, <1>6, <1>7, <1>10

(* Its group is one of those that are probed.                              *)
LEMMA WantedGroup ==
  ASSUME SearchInv, CachedComplete, caller \in Instances, probe \in DOMAIN cached_signatures,
         probe \in 1 .. Len(setting.data), SortedData, NEW id, Wanted(id)
  PROVE  /\ GroupOfId(id) \in Groups(index[caller])
         /\ GroupOfId(id) \in DOMAIN cached_signatures[probe]
<1> DEFINE r == Record(caller, id)
           s == shared_state(caller)
           g == GroupOfId(id)
           count == size_groups[s][g].partition_count
<1>1. /\ IndexInv /\ GroupsInv /\ Typed /\ Rebuilt /\ setting \in Settings /\ id \in Ids(caller)
  BY DEF SearchInv, IndexInv, GroupsInv, Typed, Wanted
<1>2. /\ r \in 1 .. Len(setting.data) /\ s \in SharedStates
      /\ g \in 1 .. Len(size_groups[s]) /\ Fits(probe, g, size_groups[s])
  BY <1>1, WantedFacts
<1>3. g \in DOMAIN cached_signatures[probe]
  <2>1. size(probe) \in Nat
    BY <1>1, DataFacts
  <2> QED  BY <1>1, <1>2, <2>1, FittingIsCached
<1>4. g \in Groups(index[caller])
  <2> DEFINE signature == normal_signature(r, 0, count)
             k == <<g, signature>>
  <2>1. count \in Nat \ {0}
    BY <1>1, <1>2, PartitionsMade
  <2>2. 0 \in 0 .. count - 1
    BY <2>1
  <2>3. signature \in indexing_signatures(r, count)
    BY <2>2 DEF indexing_signatures
  <2>4. k \in Keys(s, r)
    BY <2>3 DEF Keys, GroupOfId
  <2>5. k \in KeysOf(caller)[id] /\ id \in DOMAIN KeysOf(caller)
    BY <1>1, <2>4 DEF KeysOf
  <2> HIDE DEF k
  <2>6. k \in DOMAIN index[caller]
    BY <1>1, <2>5 DEF Rebuilt, Built
  <2>7. k[1] = g
    BY DEF k
  <2> QED  BY <2>6, <2>7 DEF Groups
<1> QED  BY <1>3, <1>4
------------------------------------------------------------------------------
(* A list that has the id of a wanted record gives it.                     *)
LEMMA ReadFinds ==
  ASSUME setting \in Settings, filter \in setting.filters, probe \in Int,
         NEW a, first[a] \in Int, NEW list \in Seq(Nat), Ascends(list),
         NEW id \in ToSet(list), Admitted(Record(a, id))
  PROVE  id \in read_filtered(a, list)
<1>1. /\ DOMAIN list = 1 .. Len(list) /\ Len(list) \in Nat
      /\ \A n \in 1 .. Len(list) : list[n] \in Nat
  BY ElementsOfSeq
<1>2. PICK n \in 1 .. Len(list) : id = list[n]
  BY ElementsOfSeq
<1>3. ASSUME NEW m \in 1 .. n
      PROVE  Record(a, list[m]) \in Int /\ Record(a, list[m]) <= Record(a, id)
  <2>1. m \in 1 .. Len(list) /\ m <= n
    BY <1>1
  <2>2. list[m] <= id /\ list[m] \in Nat /\ id \in Nat
    BY <1>1, <1>2, <2>1 DEF Ascends
  <2> QED  BY <2>2 DEF Record
<1>4. Record(a, id) \in Int
  BY <1>1, <1>2 DEF Record
<1>5. filter.type \in {"CUTOFF", "CUTOFF_SELFJOIN"} =>
        filter.index_start \in Int /\ filter.index_end \in Int
  BY DatasetAssumption
<1>6. /\ ~scan_skip_cond(Record(a, id))
      /\ \A m \in 1 .. n : ~scan_break_cond(Record(a, list[m]))
  <2> DEFINE R == Record(a, id)
             Q(m) == Record(a, list[m])
  <2>1. R \in Int /\ \A m \in 1 .. n : Q(m) \in Int /\ Q(m) <= R
    BY <1>3, <1>4
  <2>2. Admitted(R)
    OBVIOUS
  <2> HIDE DEF R, Q
  <2>3. CASE filter.type \in {"SYMMETRIC_PAIRS", "SIMPLE_SELFJOIN"}
    BY <2>2, <2>3 DEF Admitted, scan_skip_cond, scan_break_cond, R, Q
  <2>4. CASE filter.type = "CUTOFF"
    <3>1. R \in filter.index_start .. filter.index_end
      BY <2>2, <2>4 DEF Admitted
    <3>2. /\ ~(R < filter.index_start)
          /\ \A m \in 1 .. n : ~(Q(m) > filter.index_end)
      BY <1>5, <2>1, <2>4, <3>1
    <3> QED  BY <2>4, <3>2 DEF scan_skip_cond, scan_break_cond, R, Q
  <2>5. CASE filter.type = "CUTOFF_SELFJOIN"
    <3>1. R \in filter.index_start .. filter.index_end /\ R < probe
      BY <2>2, <2>5 DEF Admitted
    <3>2. /\ ~(R < filter.index_start)
          /\ \A m \in 1 .. n : ~(~(Q(m) < probe) \/ Q(m) > filter.index_end)
      BY <1>5, <2>1, <2>5, <3>1
    <3> QED  BY <2>5, <3>2 DEF scan_skip_cond, scan_break_cond, R, Q
  <2>6. CASE filter.type \notin {"SYMMETRIC_PAIRS", "SIMPLE_SELFJOIN", "CUTOFF",
                                 "CUTOFF_SELFJOIN"}
    BY <2>6 DEF scan_skip_cond, scan_break_cond
  <2> QED  BY <2>3, <2>4, <2>5, <2>6 DEF R, Q
<1>7. n \in DOMAIN list /\ ~scan_skip_cond(Record(a, list[n]))
  BY <1>1, <1>2, <1>6
<1> QED  BY <1>2, <1>6, <1>7 DEF read_filtered

(* The list of a signature of a record has its id.                         *)
LEMMA KeyFinds ==
  ASSUME IndexInv, caller \in Instances, NEW id \in Ids(caller), NEW signature,
         signature \in indexing_signatures(Record(caller, id),
                         size_groups[shared_state(caller)][GroupOfId(id)].partition_count),
         NEW list, list = Find(index[caller], GroupOfId(id), signature)
  PROVE  list \in Seq(Nat) /\ Ascends(list) /\ id \in ToSet(list) /\ list # <<>>
<1> DEFINE k == <<GroupOfId(id), signature>>
<1>1. k \in Keys(shared_state(caller), Record(caller, id))
  BY DEF Keys, GroupOfId
<1>2. k \in KeysOf(caller)[id] /\ id \in DOMAIN KeysOf(caller)
  BY <1>1 DEF KeysOf
<1>3. list = ListOf(index[caller], k)
  BY DEF Find, ListOf
<1>4. Built(index[caller], KeysOf(caller))
  BY DEF IndexInv, Rebuilt
<1>5. list \in Seq(Nat) /\ Ascends(list) /\ id \in ToSet(list)
  <2> HIDE DEF k
  <2> QED  BY <1>2, <1>3, <1>4, ListFacts
<1>6. ASSUME list = <<>> PROVE FALSE
  BY <1>5, <1>6, NoIds
<1> QED  BY <1>5, <1>6

LEMMA LookupFinds ==
  ASSUME FoundInv, pc = "probe", SortedData, NEW id, Wanted(id), id \notin candidates,
         NEW entry, NEW signature,
         Find(index[caller], GroupOfId(id), signature) \in Lists(entry),
         signature \in indexing_signatures(Record(caller, id),
                         size_groups[shared_state(caller)][GroupOfId(id)].partition_count)
  PROVE  id \in Handled(UNION {read_filtered(caller, list) : list \in Lists(entry)})
<1> DEFINE r == Record(caller, id)
           list == Find(index[caller], GroupOfId(id), signature)
<1>1. /\ IndexInv /\ GroupsInv /\ Counted /\ setting \in Settings /\ caller \in Instances
      /\ probe \in 1 .. Len(setting.data) /\ filter \in setting.filters
      /\ already_seen[caller] = candidates /\ id \in Ids(caller) /\ Admitted(r)
  BY DEF FoundInv, IndexInv, GroupsInv, Typed, CallMade, Marks, Calling, Wanted
<1>2. minimum_size <= size(r) /\ size(r) <= maximum_size
  BY <1>1, WantedFacts
<1>3. list \in Seq(Nat) /\ Ascends(list) /\ id \in ToSet(list)
  BY <1>1, KeyFinds
<1>4. probe \in Int /\ first[caller] \in Int
  BY <1>1, RecordFacts
<1>5. id \in read_filtered(caller, list)
  <2> HIDE DEF list
  <2> QED  BY <1>1, <1>3, <1>4, ReadFinds
<1>6. id \in UNION {read_filtered(caller, l) : l \in Lists(entry)}
  BY <1>5
<1> QED  BY <1>1, <1>2, <1>6 DEF Handled

------------------------------------------------------------------------------
(* What sets have in common, by partitions.                                *)
Difference(r) == (TokenSet(r) \ TokenSet(probe)) \cup (TokenSet(probe) \ TokenSet(r))

Within(tt, p, count) == {t \in tt : partition(t, count) = p}

LEMMA SameParts ==
  ASSUME NEW r, NEW count, NEW p \in 0 .. count - 1, Within(Difference(r), p, count) = {}
  PROVE  normal_signature(probe, p, count) \in indexing_signatures(r, count)
<1>1. Part(r, p, count) = Part(probe, p, count)
  BY DEF Within, Difference, Part
<1>2. normal_signature(probe, p, count) = normal_signature(r, p, count)
  BY <1>1 DEF normal_signature
<1> QED  BY <1>2 DEF indexing_signatures

LEMMA WithDeletion ==
  ASSUME NEW p, NEW tt, NEW s, s = [partition |-> p, tokens |-> tt, deletion |-> FALSE]
  PROVE  [s EXCEPT !.deletion = TRUE] = [partition |-> p, tokens |-> tt, deletion |-> TRUE]
<1> DEFINE e == [s EXCEPT !.deletion = TRUE]
<1>1. s \in [partition : {p}, tokens : {tt}, deletion : BOOLEAN]
  OBVIOUS
<1>2. /\ e \in [partition : {p}, tokens : {tt}, deletion : BOOLEAN]
      /\ e.partition = p /\ e.tokens = tt /\ e.deletion = TRUE
  BY <1>1
<1> HIDE DEF e
<1>3. e = [partition |-> e.partition, tokens |-> e.tokens, deletion |-> e.deletion]
  BY <1>2
<1>4. e = [partition |-> p, tokens |-> tt, deletion |-> TRUE]
  BY <1>2, <1>3
<1> QED  BY <1>4 DEF e

LEMMA OneTokenApart ==
  ASSUME ENABLE_DELETION, NEW r, NEW count, NEW p \in 0 .. count - 1, NEW x,
         Within(Difference(r), p, count) = {x}
  PROVE  \/ [normal_signature(probe, p, count) EXCEPT !.deletion = TRUE]
              \in indexing_signatures(r, count)
         \/ /\ x \in Part(probe, p, count)
            /\ without(probe, x, count, FALSE) \in indexing_signatures(r, count)
<1>1. x \in Difference(r) /\ partition(x, count) = p
  BY DEF Within
<1>2. \A t : t # x /\ partition(t, count) = p => (t \in TokenSet(r) <=> t \in TokenSet(probe))
  BY DEF Within, Difference
<1>3. CASE x \in TokenSet(r) /\ x \notin TokenSet(probe)
  <2>1. Part(r, p, count) \ {x} = Part(probe, p, count)
    BY <1>1, <1>2, <1>3 DEF Part
  <2>2. without(r, x, count, TRUE) = [normal_signature(probe, p, count) EXCEPT !.deletion = TRUE]
    <3> DEFINE P == Part(probe, p, count)
    <3>1. /\ without(r, x, count, TRUE) = [partition |-> p, tokens |-> P, deletion |-> TRUE]
          /\ normal_signature(probe, p, count) = [partition |-> p, tokens |-> P, deletion |-> FALSE]
      BY <1>1, <2>1 DEF without, normal_signature
    <3> HIDE DEF P
    <3> QED  BY <3>1, WithDeletion
  <2>3. without(r, x, count, TRUE) \in indexing_signatures(r, count)
    BY <1>3 DEF indexing_signatures
  <2> QED  BY <2>2, <2>3
<1>4. CASE x \in TokenSet(probe) /\ x \notin TokenSet(r)
  <2>1. Part(probe, p, count) \ {x} = Part(r, p, count) /\ x \in Part(probe, p, count)
    BY <1>1, <1>2, <1>4 DEF Part
  <2>2. without(probe, x, count, FALSE) = normal_signature(r, p, count)
    BY <1>1, <2>1 DEF without, normal_signature
  <2>3. normal_signature(r, p, count) \in indexing_signatures(r, count)
    BY DEF indexing_signatures
  <2> QED  BY <2>1, <2>2, <2>3
<1> QED  BY <1>1, <1>3, <1>4 DEF Difference

(* Tokens that show why a wanted record was not found yet: one for every   *)
(* lookup, none of a partition that is still to be looked up, and one of a *)
(* partition that is to be looked up again.                                *)
Witnesses(tt, id, entries, count) ==
  /\ tt \in SUBSET Difference(Record(caller, id))
  /\ \A e \in entries :
       IF e.is_normal THEN Within(tt, e.partition_id, count) = {}
       ELSE \E x : Within(tt, e.partition_id, count) = {x}

ToLookUp(entries, count) ==
  \A e \in entries : e.partition_id \in 0 .. count - 1 /\ (~e.is_normal => ENABLE_DELETION)

(* A lookup that does not find the record shows another token.             *)
LEMMA LookupMisses ==
  ASSUME FoundInv, pc = "probe", SortedData, NEW id, Wanted(id), id \notin candidates,
         group = GroupOfId(id), NEW count, count = cached_signatures[probe][group],
         count = size_groups[shared_state(caller)][group].partition_count,
         Heap(costs), ToLookUp(costs, count), NEW tt, Witnesses(tt, id, costs, count),
         NEW entry \in costs,
         id \notin Handled(UNION {read_filtered(caller, list) : list \in Lists(entry)})
  PROVE  \E y \in Difference(Record(caller, id)) \ tt :
           Witnesses(tt \cup {y}, id, (costs \ {entry}) \cup NextLookup(entry), count)
<1> DEFINE r == Record(caller, id)
           p == entry.partition_id
           normal == normal_signature(probe, p, count)
           more == [normal EXCEPT !.deletion = TRUE]
           At(signature) == Find(index[caller], group, signature)
           D == Difference(r)
<1>1. /\ p \in 0 .. count - 1 /\ (~entry.is_normal => ENABLE_DELETION)
      /\ \A e \in costs \ {entry} : e.partition_id # p
      /\ tt \in SUBSET D /\ entry.is_normal \in BOOLEAN
  BY DEF ToLookUp, Heap, Witnesses
<1>2. ASSUME NEW signature \in indexing_signatures(r, count) PROVE At(signature) \notin Lists(entry)
  BY LookupFinds
<1>3. Lists(entry) = IF entry.is_normal THEN {At(normal)}
                     ELSE {IF At(more) # <<>> THEN At(more) ELSE At(normal)} \cup
                          {At(without(probe, t, count, FALSE)) : t \in Part(probe, p, count)}
  BY DEF Lists
<1>4. ASSUME NEW y \in D \ tt, partition(y, count) = p
      PROVE  \A e \in costs \ {entry} :
               Within(tt \cup {y}, e.partition_id, count) = Within(tt, e.partition_id, count)
  BY <1>1, <1>4 DEF Within
<1>5. CASE entry.is_normal
  <2>1. Within(D, p, count) # {}
    <3> SUFFICES ASSUME Within(D, p, count) = {} PROVE FALSE
      OBVIOUS
    <3>1. normal \in indexing_signatures(r, count)
      BY <1>1, SameParts
    <3> QED  BY <1>2, <1>3, <1>5, <3>1
  <2>2. PICK y \in D : partition(y, count) = p
    BY <2>1 DEF Within
  <2>3. Within(tt, p, count) = {}
    BY <1>5 DEF Witnesses
  <2>4. y \notin tt /\ Within(tt \cup {y}, p, count) = {y}
    BY <2>2, <2>3 DEF Within
  <2>5. \A e \in NextLookup(entry) : e.partition_id = p /\ ~e.is_normal
    <3>1. entry \in [partition_id : Nat, is_normal : BOOLEAN]
      BY DEF Heap
    <3> QED  BY <3>1 DEF NextLookup
  <2>6. Witnesses(tt \cup {y}, id, (costs \ {entry}) \cup NextLookup(entry), count)
    <3>1. tt \cup {y} \in SUBSET Difference(Record(caller, id))
      BY <1>1, <2>2
    <3>2. \A e \in costs \ {entry} :
            IF e.is_normal THEN Within(tt \cup {y}, e.partition_id, count) = {}
            ELSE \E x : Within(tt \cup {y}, e.partition_id, count) = {x}
      <4>1. \A e \in costs :
              IF e.is_normal THEN Within(tt, e.partition_id, count) = {}
              ELSE \E x : Within(tt, e.partition_id, count) = {x}
        BY DEF Witnesses
      <4>2. \A e \in costs \ {entry} :
              Within(tt \cup {y}, e.partition_id, count) = Within(tt, e.partition_id, count)
        BY <1>4, <2>2, <2>4
      <4> QED  BY <4>1, <4>2
    <3>3. \A e \in NextLookup(entry) :
            IF e.is_normal THEN Within(tt \cup {y}, e.partition_id, count) = {}
            ELSE \E x : Within(tt \cup {y}, e.partition_id, count) = {x}
      BY <2>4, <2>5
    <3> HIDE DEF p, D
    <3> QED  BY <3>1, <3>2, <3>3 DEF Witnesses
  <2> QED  BY <2>2, <2>4, <2>6
<1>6. CASE ~entry.is_normal
  <2>1. PICK x : Within(tt, p, count) = {x}
    BY <1>6 DEF Witnesses
  <2>2. x \in D /\ partition(x, count) = p
    BY <1>1, <2>1 DEF Within
  <2>3. Within(D, p, count) # {x}
    <3> SUFFICES ASSUME Within(D, p, count) = {x} PROVE FALSE
      OBVIOUS
    <3>1. \/ more \in indexing_signatures(r, count)
          \/ /\ x \in Part(probe, p, count)
             /\ without(probe, x, count, FALSE) \in indexing_signatures(r, count)
      BY <1>1, <1>6, OneTokenApart
    <3>2. CASE more \in indexing_signatures(r, count)
      <4>1. At(more) = <<>>
        BY <1>2, <1>3, <1>6, <3>2
      <4>2. At(more) # <<>>
        <5>1. IndexInv /\ caller \in Instances /\ id \in Ids(caller)
          BY DEF FoundInv, IndexInv, GroupsInv, Typed, Wanted
        <5> QED  BY <3>2, <5>1, KeyFinds
      <4> QED  BY <4>1, <4>2
    <3>3. CASE /\ x \in Part(probe, p, count)
               /\ without(probe, x, count, FALSE) \in indexing_signatures(r, count)
      BY <1>2, <1>3, <1>6, <3>3
    <3> QED  BY <3>1, <3>2, <3>3
  <2>4. PICK y \in D : partition(y, count) = p /\ y # x
    BY <2>2, <2>3 DEF Within
  <2>5. y \notin tt
    BY <2>1, <2>4 DEF Within
  <2>6. NextLookup(entry) = {}
    BY <1>6 DEF NextLookup
  <2>7. Witnesses(tt \cup {y}, id, (costs \ {entry}) \cup NextLookup(entry), count)
    <3>1. tt \cup {y} \in SUBSET Difference(Record(caller, id))
      BY <1>1, <2>4
    <3>2. \A e \in costs \ {entry} :
            IF e.is_normal THEN Within(tt \cup {y}, e.partition_id, count) = {}
            ELSE \E z : Within(tt \cup {y}, e.partition_id, count) = {z}
      BY <1>4, <2>4, <2>5 DEF Witnesses
    <3> QED  BY <2>6, <3>1, <3>2 DEF Witnesses
  <2> QED  BY <2>4, <2>5, <2>7
<1> QED  BY <1>1, <1>5, <1>6
------------------------------------------------------------------------------
(* The difference of a wanted record is smaller than the budget.           *)
LEMMA DistanceIsInt ==
  ASSUME NEW f, f[1] \in Int, f[2] \in Nat \ {0}, NEW n \in Nat,
         NEW hd, hd = truncate(n * f[2] - 2 * f[1], f[2])
  PROVE  hd \in Int
<1> DEFINE top == n * f[2] - 2 * f[1]
<1>1. top \in Int
  OBVIOUS
<1>2. hd = IF top >= 0 THEN top \div f[2] ELSE -((-top) \div f[2])
  BY DEF truncate
<1> HIDE DEF top
<1> QED  BY <1>1, <1>2

LEMMA SmallDifference ==
  ASSUME IndexInv, caller \in Instances, probe \in 1 .. Len(setting.data), SortedData,
         NEW id, Wanted(id), NEW r, r = Record(caller, id),
         NEW gs, gs = size_groups[shared_state(caller)], NEW g, g = GroupOfId(id)
  PROVE  /\ IsFiniteSet(Difference(r)) /\ Cardinality(Difference(r)) \in Nat
         /\ Budget(gs[g].lower, gs[g].upper) \in Int
         /\ Cardinality(Difference(r)) < Budget(gs[g].lower, gs[g].upper)
<1> DEFINE L == gs[g].lower
           U == gs[g].upper
           n == size(r)
           p == size(probe)
           lo == minimum_size
           hi == maximum_size
           own == max_hd_to(sim, greater(L, lo), lesser(U, hi), p, p)
           hd == equivalent_hd(sim, n, p)
           R == TokenSet(r)
           S == TokenSet(probe)
           D == (R \ S) \cup (S \ R)
<1>1. /\ IsSimilarity(sim) /\ r \in 1 .. Len(setting.data) /\ shared_state(caller) \in SharedStates
      /\ lo <= n /\ n <= hi /\ g \in 1 .. Len(gs) /\ L <= n /\ n <= U /\ Fits(probe, g, gs)
  BY WantedFacts
<1>2. setting \in Settings /\ Typed /\ GroupsInv
  BY DEF IndexInv, GroupsInv, Typed
<1>3. L \in Nat \ {0} /\ gs[g] = GroupFrom(L)
  BY <1>1, <1>2, GroupOfState
<1>4. U = maximum_length_bound(sim, L)
  <2> HIDE DEF L
  <2>1. U = next_size_lb(L) - 1
    BY <1>3 DEF GroupFrom
  <2>2. maximum_length_bound(sim, L) \in Nat
    BY <1>1, <1>3, LengthsAround
  <2> QED  BY <1>3, <2>1, <2>2 DEF next_size_lb
<1>5. /\ IsFiniteSet(R) /\ Cardinality(R) = n /\ n \in Nat \ {0}
      /\ IsFiniteSet(S) /\ Cardinality(S) = p /\ p \in Nat \ {0}
  BY <1>1, <1>2, SetFacts
<1>6. Similar(sim, R, S)
  BY DEF Wanted
<1>7. lo = minimum_length_bound(sim, p) /\ hi = maximum_length_bound(sim, p)
  BY DEF minimum_size, maximum_size
<1>8. lo <= U /\ L <= hi
  BY <1>1 DEF Fits, minimum_size, maximum_size
<1> HIDE DEF L, U, n, p, lo, hi, R, S
<1>9. IsFiniteSet(D) /\ Cardinality(D) \in Nat
  <2>1. IsFiniteSet(D)
    BY <1>5, SetsCounted
  <2> HIDE DEF D
  <2> QED  BY <2>1, FS_CardinalityType
<1>10. Cardinality(D) <= hd
  BY <1>1, <1>5, <1>6, SimilarDistance
<1>11. hd \in Int
  <2> DEFINE f == fractional_overlap(sim, n, p)
             both == Cardinality(R \cap S)
  <2>1. both \in Nat
    BY <1>5, SetsCounted
  <2>2. f[1] \in Int /\ f[2] \in Nat \ {0}
    <3> HIDE DEF f, both
    <3>1. f = fractional_overlap(sim, n, p) /\ both = Cardinality(R \cap S)
      BY DEF f, both
    <3> QED  BY <1>1, <1>5, <1>6, <2>1, <3>1, SimilarOverlap
  <2>3. hd = truncate((n + p) * f[2] - 2 * f[1], f[2])
    BY DEF equivalent_hd
  <2>4. n + p \in Nat
    BY <1>5
  <2> HIDE DEF f, hd
  <2> QED  BY <2>2, <2>3, <2>4, DistanceIsInt
<1>12. hd <= own
  BY <1>1, <1>3, <1>4, <1>5, <1>7, BudgetSuffices
<1>13. own \in Int
  <2> DEFINE all == max_hd_to(sim, L, U, minimum_length_bound(sim, L), maximum_length_bound(sim, U))
  <2>1. own = max_hd_to(sim, greater(L, lo), lesser(U, hi), p, p) /\ p \in Nat
    BY <1>5
  <2>2. all = max_hd_to(sim, L, U, minimum_length_bound(sim, L), maximum_length_bound(sim, U))
    OBVIOUS
  <2> HIDE DEF own, all
  <2> QED  BY <1>1, <1>3, <1>4, <1>7, <1>8, <2>1, <2>2, SharedDistance
<1>14. Budget(L, U) = own + 1
  BY DEF Budget, lo, hi, p
<1>15. D = Difference(r)
  BY DEF Difference, R, S
<1> HIDE DEF D, own, hd
<1>16. Cardinality(D) < own + 1
  BY <1>9, <1>10, <1>11, <1>12, <1>13
<1>17. Budget(L, U) \in Int /\ Cardinality(D) < Budget(L, U)
  BY <1>13, <1>14, <1>16
<1> QED  BY <1>9, <1>15, <1>17 DEF L, U

------------------------------------------------------------------------------
(* The inductive invariant of what a call misses.  Of the groups before    *)
(* the one that is probed nothing is missing; a record of the group that   *)
(* was not found yet differs in a token for each unit of the budget that   *)
(* was spent.                                                              *)
GroupProbed ==
  /\ group \in Nat
  /\ pc \notin {"search", "probe"} => group = 0
  /\ pc = "probe" =>
       /\ group \in DOMAIN cached_signatures[probe]
       /\ group \in 1 .. Len(size_groups[shared_state(caller)])
       /\ ToLookUp(costs, cached_signatures[probe][group])

BudgetOfGroup ==
  Budget(size_groups[shared_state(caller)][group].lower,
         size_groups[shared_state(caller)][group].upper)

Shown(id) ==
  \E tt : /\ Witnesses(tt, id, costs, cached_signatures[probe][group])
          /\ Cardinality(tt) + remaining = BudgetOfGroup

Progress ==
  /\ pc = "search" => \A id : Wanted(id) /\ GroupOfId(id) <= group => id \in candidates
  /\ pc = "probe" =>
       /\ \A id : Wanted(id) /\ GroupOfId(id) < group => id \in candidates
       /\ \A id : Wanted(id) /\ GroupOfId(id) = group /\ id \notin candidates => Shown(id)
  /\ pc = "verify" => \A id : Wanted(id) => id \in candidates
  /\ pc = "return" => Expected \subseteq emitted

AllInv ==
  FoundInv /\ SearchInv /\ CachedComplete /\ GroupProbed /\ (SortedData => Progress)

LEMMA SettingStays == [Next]_pallocVars => setting' = setting
<1> SUFFICES ASSUME [Next]_pallocVars PROVE setting' = setting
  OBVIOUS
<1>1. CASE UNCHANGED pallocVars
  BY <1>1 DEF pallocVars, setVars, joinVars
<1>2. CASE \E a \in Instances :
             \/ \E r \in setting.starts[a] : Construct(a, r)
             \/ \E n \in setting.batches : InsertBatch(a, n)
             \/ \E r \in setting.probes, f \in setting.filters : JoinBatch(a, r, f)
             \/ \E b \in Instances : Merge(a, b)
  BY <1>2 DEF Construct, ConstructFor, InsertBatch, CallInsert, JoinBatch, CallJoin, Merge,
              MergeSets, MergeInto
<1>3. CASE \/ AppendGroupForInsert \/ InsertRecord \/ InsertDone
           \/ AppendGroupForProbe \/ GetProbingSignatures \/ BeginSearch
           \/ \E r \in setting.probes : Evict(r)
  BY <1>3 DEF AppendGroupForInsert, InsertRecord, InsertSet, InsertNext, InsertDone, EndInsert,
              AppendGroupForProbe, GetProbingSignatures, BeginSearch, GoOn, Evict, setVars, joinVars
<1>4. CASE \/ SmallResults \/ ProbeSizeGroup \/ ProbePartition \/ GroupDone
           \/ SearchDone \/ VerifyCandidates \/ ReturnResults
  BY <1>4 DEF SmallResults, AddSmallResults, ProbeSizeGroup, ProbePartition, GroupDone, SearchDone,
              VerifyCandidates, ReturnResults, GoOn, FindMore, Verify, Return
<1> QED  BY <1>1, <1>2, <1>3, <1>4 DEF Next

LEMMA CompleteStep ==
  ASSUME SearchInv, CachedComplete, [Next]_pallocVars
  PROVE  CachedComplete'
<1>1. GroupsInv /\ AreGroups /\ Extends /\ setting' = setting
  BY GroupsAre, GroupsExtend, SettingStays DEF SearchInv, IndexInv
<1>2. CASE GetProbingSignatures
  BY <1>1, <1>2, CompleteMade
<1>3. CASE cached_signatures' = cached_signatures
  BY <1>1, <1>3, CompleteStays
<1>4. ASSUME NEW r, Evict(r) PROVE CachedComplete'
  <2>1. cached_signatures' = [q \in DOMAIN cached_signatures \ {r} |-> cached_signatures[q]]
    BY <1>4 DEF Evict
  <2>2. \A q \in DOMAIN cached_signatures' :
          q \in DOMAIN cached_signatures /\ cached_signatures'[q] = cached_signatures[q]
    BY <2>1
  <2> QED  BY <1>1, <2>2, CompleteStays
<1>5. \/ GetProbingSignatures \/ cached_signatures' = cached_signatures \/ \E r : Evict(r)
  <2>1. CASE UNCHANGED pallocVars
    BY <2>1 DEF pallocVars, pallocOwnVars
  <2>2. CASE Next
    BY <2>2
       DEF Next, Construct, InsertBatch, JoinBatch, Merge, AppendGroupForInsert, InsertRecord,
           InsertDone, AppendGroupForProbe, BeginSearch, SmallResults, ProbeSizeGroup,
           ProbePartition, GroupDone, SearchDone, VerifyCandidates, ReturnResults, pallocOwnVars
  <2> QED  BY <2>1, <2>2
<1> QED  BY <1>2, <1>3, <1>4, <1>5

(* The partitions of the group that is probed next.                        *)
LEMMA GroupBegun ==
  ASSUME SearchInv, ProbeSizeGroup
  PROVE  /\ group' \in GroupsToProbe /\ \A h \in GroupsToProbe : group' <= h
         /\ group' \in DOMAIN cached_signatures[probe]
         /\ group' \in 1 .. Len(size_groups[shared_state(caller)])
         /\ cached_signatures[probe][group'] =
              size_groups[shared_state(caller)][group'].partition_count
         /\ \A e \in costs' :
              e.partition_id \in 0 .. cached_signatures[probe][group'] - 1 /\ e.is_normal = TRUE
         /\ remaining' = Budget(size_groups[shared_state(caller)][group'].lower,
                                size_groups[shared_state(caller)][group'].upper)
<1> DEFINE s == shared_state(caller)
<1>1. PICK g \in GroupsToProbe :
        /\ \A h \in GroupsToProbe : g <= h
        /\ group' = g
        /\ costs' = [partition_id : 0 .. size_groups[s][g].partition_count - 1, is_normal : {TRUE}]
        /\ remaining' = Budget(size_groups[s][g].lower, size_groups[s][g].upper)
  BY DEF ProbeSizeGroup
<1>2. /\ IndexInv /\ GroupsInv /\ caller \in Instances /\ s \in SharedStates
      /\ probe \in DOMAIN cached_signatures
  <2>1. /\ IndexInv /\ GroupsInv /\ setting \in Settings /\ caller \in Instances
        /\ probe \in DOMAIN cached_signatures
    BY DEF SearchInv, IndexInv, GroupsInv, Typed, Probed, SearchStages, ProbeSizeGroup, GoOn
  <2> QED  BY <2>1, StateOfInstance
<1>3. g \in DOMAIN cached_signatures[probe] /\ g \in Groups(index[caller])
  BY DEF GroupsToProbe
<1>4. g \in 1 .. Len(size_groups[s])
  BY <1>2, <1>3, GroupsIndexed
<1>5. cached_signatures[probe][g] = size_groups[s][g].partition_count
  <2>1. GroupsAgree
    BY <1>2, InvImpliesAgree
  <2>2. g \in DOMAIN size_groups[s]
    BY <1>2, <1>4, StateGroups DEF GroupsInv, IsGroups
  <2> QED  BY <1>2, <1>3, <2>1, <2>2 DEF GroupsAgree
<1>6. \A e \in costs' :
        e.partition_id \in 0 .. cached_signatures[probe][g] - 1 /\ e.is_normal = TRUE
  BY <1>1, <1>5
<1> QED  BY <1>1, <1>3, <1>4, <1>5, <1>6

LEMMA GroupProbedStep ==
  ASSUME SearchInv, GroupProbed, [Next]_pallocVars
  PROVE  GroupProbed'
<1>1. CASE UNCHANGED pallocVars
  <2>1. UNCHANGED <<setting, pc, caller, probe, group, costs, size_groups, cached_signatures>>
    BY <1>1 DEF pallocVars, setVars, joinVars, callVars, argVars, pallocOwnVars, searchVars
  <2> QED  BY <2>1 DEF GroupProbed, ToLookUp, ENABLE_DELETION, shared_state
<1>2. CASE \/ \E a \in Instances :
                \/ \E r \in setting.starts[a] : Construct(a, r)
                \/ \E n \in setting.batches : InsertBatch(a, n)
                \/ \E r \in setting.probes, f \in setting.filters : JoinBatch(a, r, f)
                \/ \E b \in Instances : Merge(a, b)
           \/ \E r \in setting.probes : Evict(r)
  <2>1. pc = "idle" /\ group' = group /\ pc' \in {"idle", "insert", "prepare"}
    BY <1>2 DEF Construct, ConstructFor, InsertBatch, CallInsert, JoinBatch, CallJoin, Merge,
                MergeSets, MergeInto, Evict, setVars, joinVars, callVars, pallocOwnVars, searchVars
  <2> QED  BY <2>1 DEF GroupProbed
<1>3. CASE \/ AppendGroupForInsert \/ InsertRecord \/ InsertDone
           \/ AppendGroupForProbe \/ GetProbingSignatures \/ BeginSearch
  <2>1. /\ pc \in {"insert", "prepare"} /\ group' = group
        /\ pc' \in {"idle", "insert", "prepare", "small"}
    BY <1>3 DEF AppendGroupForInsert, InsertRecord, InsertSet, InsertNext, InsertDone, EndInsert,
                CallEnds, AppendGroupForProbe, GetProbingSignatures, BeginSearch, GoOn, setVars,
                joinVars, callVars, pallocOwnVars, searchVars
  <2> QED  BY <2>1 DEF GroupProbed
<1>4. CASE SmallResults \/ GroupDone
  <2>1. group' = group /\ pc' = "search"
    BY <1>4 DEF SmallResults, AddSmallResults, FindMore, GroupDone, GoOn, pallocOwnVars, searchVars
  <2> QED  BY <2>1 DEF GroupProbed
<1>5. CASE VerifyCandidates \/ ReturnResults
  <2>1. group' = group /\ pc \in {"verify", "return"} /\ pc' \in {"return", "idle"}
    BY <1>5 DEF VerifyCandidates, Verify, ReturnResults, Return, CallEnds, pallocOwnVars, searchVars
  <2> QED  BY <2>1 DEF GroupProbed
<1>6. CASE SearchDone
  <2>1. group' = 0 /\ pc' = "verify"
    BY <1>6 DEF SearchDone, GoOn
  <2> QED  BY <2>1 DEF GroupProbed
<1>7. CASE ProbeSizeGroup
  <2>1. /\ pc' = "probe"
        /\ UNCHANGED <<setting, caller, probe, size_groups, cached_signatures>>
    BY <1>7 DEF ProbeSizeGroup, GoOn, argVars
  <2>2. /\ group' \in DOMAIN cached_signatures[probe]
        /\ group' \in 1 .. Len(size_groups[shared_state(caller)])
        /\ \A e \in costs' :
             e.partition_id \in 0 .. cached_signatures[probe][group'] - 1 /\ e.is_normal = TRUE
    BY <1>7, GroupBegun
  <2>3. Len(size_groups[shared_state(caller)])' = Len(size_groups[shared_state(caller)])
    BY <2>1 DEF shared_state
  <2>4. group' \in Nat
    BY <2>2
  <2> QED  BY <2>1, <2>2, <2>3, <2>4 DEF GroupProbed, ToLookUp
<1>8. CASE ProbePartition
  <2>1. /\ pc = "probe" /\ pc' = "probe"
        /\ UNCHANGED <<setting, caller, probe, size_groups, cached_signatures, group>>
    BY <1>8 DEF ProbePartition, FindMore, argVars
  <2>2. PICK entry \in costs : costs' = (costs \ {entry}) \cup NextLookup(entry)
    BY <1>8 DEF ProbePartition
  <2> DEFINE count == cached_signatures[probe][group]
  <2>3. /\ group \in Nat /\ group \in DOMAIN cached_signatures[probe]
        /\ group \in 1 .. Len(size_groups[shared_state(caller)])
        /\ \A e \in costs : e.partition_id \in 0 .. count - 1 /\ (~e.is_normal => ENABLE_DELETION)
    BY <2>1 DEF GroupProbed, ToLookUp
  <2>4. entry \in [partition_id : Nat, is_normal : BOOLEAN]
    BY <2>1 DEF SearchInv, Covered, Heap
  <2>5. \A e \in NextLookup(entry) : e.partition_id = entry.partition_id /\ ENABLE_DELETION
    BY <2>4 DEF NextLookup
  <2>6. \A e \in costs' : e.partition_id \in 0 .. count - 1 /\ (~e.is_normal => ENABLE_DELETION)
    BY <2>2, <2>3, <2>5
  <2>7. ENABLE_DELETION' = ENABLE_DELETION /\ shared_state(caller)' = shared_state(caller)
    BY <2>1 DEF ENABLE_DELETION, shared_state
  <2> QED  BY <2>1, <2>3, <2>6, <2>7 DEF GroupProbed, ToLookUp
<1> QED  BY <1>1, <1>2, <1>3, <1>4, <1>5, <1>6, <1>7, <1>8 DEF Next
------------------------------------------------------------------------------
(* What is wanted stays so while a call runs.                              *)
LEMMA WantedStays ==
  ASSUME UNCHANGED <<setting, caller, probe, filter, first, next_id>>
  PROVE  /\ Expected' = Expected /\ SortedData' = SortedData
         /\ \A id : Wanted(id)' = Wanted(id)
         /\ \A id : Record(caller, id)' = Record(caller, id)
         /\ size_groups' = size_groups => \A id : GroupOfId(id)' = GroupOfId(id)
<1>1. \A id : Wanted(id)' = Wanted(id)
  BY DEF Wanted, Ids, Record, Admitted, TokenSet, tokens, sim
<1>2. size_groups' = size_groups => \A id : GroupOfId(id)' = GroupOfId(id)
  BY DEF GroupOfId, GroupOf, shared_state, Record, size
<1>3. Expected' = Expected /\ SortedData' = SortedData
  BY DEF Expected, Indexed, Ids, Record, Admitted, TokenSet, tokens, sim, SortedData, Sorted
<1>4. \A id : Record(caller, id)' = Record(caller, id)
  BY DEF Record
<1> QED  BY <1>1, <1>2, <1>3, <1>4


LEMMA CallFacts ==
  ASSUME FoundInv, pc \in Calling
  PROVE  /\ IndexInv /\ setting \in Settings /\ caller \in Instances
         /\ probe \in 1 .. Len(setting.data) /\ filter \in setting.filters
BY DEF FoundInv, IndexInv, GroupsInv, Typed, CallMade, Calling

(* Groups are numbered from 1, so nothing is missing at first.             *)
LEMMA SmallProgress ==
  ASSUME AllInv, SortedData, SmallResults
  PROVE  Progress'
<1>1. /\ pc = "small" /\ pc' = "search" /\ group' = group /\ group = 0
      /\ UNCHANGED <<setting, caller, probe, filter, first, next_id, size_groups>>
  BY DEF SmallResults, AddSmallResults, FindMore, argVars, instanceVars, pallocOwnVars, searchVars,
         AllInv, GroupProbed
<1>2. ASSUME NEW id, Wanted(id) PROVE ~(GroupOfId(id) <= 0)
  <2>1. /\ IndexInv /\ caller \in Instances /\ probe \in 1 .. Len(setting.data)
    BY <1>1, CallFacts DEF AllInv, Calling
  <2>2. GroupOfId(id) \in 1 .. Len(size_groups[shared_state(caller)])
    BY <1>2, <2>1, WantedFacts
  <2> QED  BY <2>2
<1>3. \A id : Wanted(id)' = Wanted(id) /\ GroupOfId(id)' = GroupOfId(id)
  BY <1>1, WantedStays
<1> QED  BY <1>1, <1>2, <1>3 DEF Progress

(* The next group is the next that has a wanted record.                    *)
LEMMA GroupProgress ==
  ASSUME AllInv, SortedData, ProbeSizeGroup, GroupProbed'
  PROVE  Progress'
<1>1. /\ pc = "search" /\ pc' = "probe"
      /\ UNCHANGED <<setting, caller, probe, filter, first, next_id, size_groups,
                     cached_signatures, candidates>>
  BY DEF ProbeSizeGroup, GoOn, argVars, instanceVars, resultVars
<1>2. /\ IndexInv /\ caller \in Instances /\ probe \in 1 .. Len(setting.data)
      /\ SearchInv /\ CachedComplete /\ GroupProbed /\ Progress
      /\ probe \in DOMAIN cached_signatures
  <2>1. SearchInv /\ CachedComplete /\ GroupProbed /\ Progress /\ FoundInv
    BY DEF AllInv
  <2>2. probe \in DOMAIN cached_signatures
    BY <1>1, <2>1 DEF SearchInv, Probed, SearchStages
  <2> QED  BY <1>1, <2>1, <2>2, CallFacts DEF Calling
<1>3. \A id : Wanted(id)' = Wanted(id) /\ GroupOfId(id)' = GroupOfId(id)
  BY <1>1, WantedStays
<1>4. group' \in Nat /\ group \in Nat
  BY <1>2 DEF GroupProbed
<1>5. ASSUME NEW id, Wanted(id), GroupOfId(id) < group' PROVE id \in candidates
  <2>1. GroupOfId(id) \in 1 .. Len(size_groups[shared_state(caller)])
    BY <1>2, <1>5, WantedFacts
  <2>2. CASE GroupOfId(id) <= group
    BY <1>1, <1>2, <1>5, <2>2 DEF Progress
  <2>3. CASE group < GroupOfId(id)
    <3>1. GroupOfId(id) \in GroupsToProbe
      BY <1>2, <1>5, <2>3, WantedGroup DEF GroupsToProbe
    <3>2. group' <= GroupOfId(id)
      BY <1>2, <3>1, GroupBegun
    <3> QED  BY <1>4, <1>5, <2>1, <3>2
  <2> QED  BY <1>4, <2>1, <2>2, <2>3
<1>6. ASSUME NEW id PROVE Shown(id)'
  <2>1. /\ \A e \in costs' : e.is_normal = TRUE
        /\ remaining' = Budget(size_groups[shared_state(caller)][group'].lower,
                               size_groups[shared_state(caller)][group'].upper)
    BY <1>2, GroupBegun
  <2>2. BudgetOfGroup' = remaining'
    BY <1>1, <2>1 DEF BudgetOfGroup, Budget, minimum_size, maximum_size, sim, size, shared_state
  <2>3. Witnesses({}, id, costs, cached_signatures[probe][group])'
    BY <2>1 DEF Witnesses, Within
  <2>4. remaining' \in Int
    <3>1. SearchInv' 
      BY SearchStep DEF AllInv, Next
    <3> QED  BY <1>1, <3>1 DEF SearchInv, Covered
  <2>5. Cardinality({}) + remaining' = BudgetOfGroup'
    <3>1. Cardinality({}) = 0
      BY FS_EmptySet
    <3> QED  BY <2>2, <2>4, <3>1
  <2> QED  BY <2>3, <2>5 DEF Shown
<1>7. \A id : Wanted(id)' /\ GroupOfId(id)' < group' => id \in candidates'
  BY <1>1, <1>3, <1>5
<1> QED  BY <1>1, <1>6, <1>7 DEF Progress

(* A lookup finds a record or shows another token it differs in.           *)
LEMMA LookupProgress ==
  ASSUME AllInv, SortedData, ProbePartition
  PROVE  Progress'
<1>1. PICK entry \in costs :
        /\ FindMore("probe", "probe",
                    Handled(UNION {read_filtered(caller, list) : list \in Lists(entry)}))
        /\ costs' = (costs \ {entry}) \cup NextLookup(entry)
  BY DEF ProbePartition
<1> DEFINE ids == Handled(UNION {read_filtered(caller, list) : list \in Lists(entry)})
           count == cached_signatures[probe][group]
<1>2. /\ pc = "probe" /\ pc' = "probe" /\ remaining' = remaining - 1
      /\ candidates' = candidates \cup ids
      /\ UNCHANGED <<setting, caller, probe, filter, first, next_id, size_groups,
                     cached_signatures, group>>
  BY <1>1 DEF ProbePartition, FindMore, Push, argVars, instanceVars
<1>3. /\ FoundInv /\ SearchInv /\ GroupProbed /\ Progress /\ IndexInv /\ caller \in Instances
      /\ probe \in 1 .. Len(setting.data) /\ Heap(costs) /\ remaining \in Int
  <2>1. FoundInv /\ SearchInv /\ GroupProbed /\ Progress /\ Covered
    BY DEF AllInv, SearchInv
  <2>2. IndexInv /\ caller \in Instances /\ probe \in 1 .. Len(setting.data)
    BY <1>2, <2>1, CallFacts DEF Calling
  <2> QED  BY <1>2, <2>1, <2>2 DEF Covered
<1>4. /\ \A id : Wanted(id)' = Wanted(id) /\ GroupOfId(id)' = GroupOfId(id)
      /\ \A id : Record(caller, id)' = Record(caller, id)
  BY <1>2, WantedStays
<1>5. /\ ToLookUp(costs, count)
      /\ count = size_groups[shared_state(caller)][group].partition_count
  <2>1. /\ group \in DOMAIN cached_signatures[probe] /\ ToLookUp(costs, count)
        /\ group \in 1 .. Len(size_groups[shared_state(caller)])
    BY <1>2, <1>3 DEF GroupProbed
  <2>2. probe \in DOMAIN cached_signatures
    BY <1>2, <1>3 DEF SearchInv, Probed, SearchStages
  <2>3. GroupsInv /\ Typed /\ GroupsAgree /\ shared_state(caller) \in SharedStates
    <3>1. GroupsInv /\ Typed /\ setting \in Settings
      BY <1>3 DEF IndexInv, GroupsInv, Typed
    <3> QED  BY <1>3, <3>1, InvImpliesAgree, StateOfInstance
  <2>4. group \in DOMAIN size_groups[shared_state(caller)]
    BY <2>1, <2>3, StateGroups DEF IsGroups
  <2> QED  BY <2>1, <2>2, <2>3, <2>4 DEF GroupsAgree
<1>6. ASSUME NEW id, Wanted(id), GroupOfId(id) = group, id \notin candidates, id \notin ids
      PROVE  Shown(id)'
  <2>1. PICK tt : Witnesses(tt, id, costs, count) /\ Cardinality(tt) + remaining = BudgetOfGroup
    BY <1>2, <1>3, <1>6 DEF Progress, Shown
  <2>2. PICK y \in Difference(Record(caller, id)) \ tt :
          Witnesses(tt \cup {y}, id, (costs \ {entry}) \cup NextLookup(entry), count)
    <3> HIDE DEF count
    <3>1. count = cached_signatures[probe][group]
      BY DEF count
    <3> QED  BY <1>2, <1>3, <1>5, <1>6, <2>1, <3>1, LookupMisses
  <2>3. IsFiniteSet(tt) /\ Cardinality(tt) \in Nat
    <3>1. IsFiniteSet(Difference(Record(caller, id)))
      BY <1>3, <1>6, SmallDifference
    <3>2. tt \in SUBSET Difference(Record(caller, id))
      BY <2>1 DEF Witnesses
    <3> QED  BY <3>1, <3>2, FS_Subset, FS_CardinalityType
  <2>4. Cardinality(tt \cup {y}) = Cardinality(tt) + 1
    BY <2>2, <2>3, FS_AddElement
  <2>5. BudgetOfGroup' = BudgetOfGroup
    BY <1>2 DEF BudgetOfGroup, Budget, minimum_size, maximum_size, sim, size, shared_state
  <2>6. Cardinality(tt \cup {y}) + remaining' = BudgetOfGroup'
    BY <1>2, <1>3, <2>1, <2>3, <2>4, <2>5
  <2>7. Witnesses(tt \cup {y}, id, costs', count)
    BY <1>1, <2>2
  <2>8. Witnesses(tt \cup {y}, id, costs, cached_signatures[probe][group])'
    BY <1>2, <2>7 DEF Witnesses, Within, Difference, TokenSet, tokens, partition, Record
  <2> QED  BY <2>6, <2>8 DEF Shown
<1>7. \A id : Wanted(id)' /\ GroupOfId(id)' < group' => id \in candidates'
  BY <1>2, <1>3, <1>4 DEF Progress
<1>8. \A id : Wanted(id)' /\ GroupOfId(id)' = group' /\ id \notin candidates' => Shown(id)'
  <2> HIDE DEF ids
  <2> QED  BY <1>2, <1>4, <1>6
<1> QED  BY <1>2, <1>7, <1>8 DEF Progress

(* When the budget is spent, who is missing would differ in too many.      *)
LEMMA DoneProgress ==
  ASSUME AllInv, SortedData, GroupDone
  PROVE  Progress'
<1>1. /\ pc = "probe" /\ pc' = "search" /\ ~(remaining > 0)
      /\ UNCHANGED <<setting, caller, probe, filter, first, next_id, size_groups, group, candidates>>
  BY DEF GroupDone, GoOn, argVars, instanceVars, resultVars
<1>2. /\ GroupProbed /\ Progress /\ IndexInv /\ caller \in Instances
      /\ probe \in 1 .. Len(setting.data) /\ remaining \in Int /\ group \in Nat
  <2>1. FoundInv /\ GroupProbed /\ Progress /\ Covered
    BY DEF AllInv, SearchInv
  <2>2. IndexInv /\ caller \in Instances /\ probe \in 1 .. Len(setting.data)
    BY <1>1, <2>1, CallFacts DEF Calling
  <2> QED  BY <1>1, <2>1, <2>2 DEF Covered, GroupProbed
<1>3. \A id : Wanted(id)' = Wanted(id) /\ GroupOfId(id)' = GroupOfId(id)
  BY <1>1, WantedStays
<1>4. ASSUME NEW id, Wanted(id), GroupOfId(id) = group PROVE id \in candidates
  <2> SUFFICES ASSUME id \notin candidates PROVE FALSE
    OBVIOUS
  <2> DEFINE D == Difference(Record(caller, id))
  <2>1. PICK tt : /\ Witnesses(tt, id, costs, cached_signatures[probe][group])
                  /\ Cardinality(tt) + remaining = BudgetOfGroup
    BY <1>1, <1>2, <1>4 DEF Progress, Shown
  <2>2. /\ IsFiniteSet(D) /\ Cardinality(D) \in Nat /\ BudgetOfGroup \in Int
        /\ Cardinality(D) < BudgetOfGroup
    BY <1>2, <1>4, SmallDifference DEF BudgetOfGroup
  <2>3. tt \in SUBSET D
    BY <2>1 DEF Witnesses
  <2>4. Cardinality(tt) \in Nat /\ Cardinality(tt) <= Cardinality(D)
    BY <2>2, <2>3, FS_Subset, FS_CardinalityType
  <2> HIDE DEF D
  <2> QED  BY <1>1, <1>2, <2>1, <2>2, <2>4
<1>5. ASSUME NEW id, Wanted(id), GroupOfId(id) <= group PROVE id \in candidates
  <2>1. GroupOfId(id) \in 1 .. Len(size_groups[shared_state(caller)])
    BY <1>2, <1>5, WantedFacts
  <2>2. GroupOfId(id) < group \/ GroupOfId(id) = group
    BY <1>2, <1>5, <2>1
  <2> QED  BY <1>1, <1>2, <1>4, <1>5, <2>2 DEF Progress
<1> QED  BY <1>1, <1>3, <1>5 DEF Progress

LEMMA SearchProgress ==
  ASSUME AllInv, SortedData, SearchDone
  PROVE  Progress'
<1>1. /\ pc = "search" /\ pc' = "verify" /\ GroupsToProbe = {}
      /\ UNCHANGED <<setting, caller, probe, filter, first, next_id, candidates>>
  BY DEF SearchDone, GoOn, argVars, instanceVars, resultVars
<1>2. /\ IndexInv /\ caller \in Instances /\ probe \in 1 .. Len(setting.data)
      /\ SearchInv /\ CachedComplete /\ group \in Nat /\ Progress
      /\ probe \in DOMAIN cached_signatures
  <2>1. SearchInv /\ CachedComplete /\ GroupProbed /\ Progress /\ FoundInv
    BY DEF AllInv
  <2>2. probe \in DOMAIN cached_signatures
    BY <1>1, <2>1 DEF SearchInv, Probed, SearchStages
  <2> QED  BY <1>1, <2>1, <2>2, CallFacts DEF Calling, GroupProbed
<1>3. ASSUME NEW id, Wanted(id) PROVE id \in candidates
  <2>1. GroupOfId(id) \in 1 .. Len(size_groups[shared_state(caller)])
    BY <1>2, <1>3, WantedFacts
  <2>2. ~(group < GroupOfId(id))
    BY <1>1, <1>2, <1>3, WantedGroup DEF GroupsToProbe
  <2>3. GroupOfId(id) <= group
    BY <1>2, <2>1, <2>2
  <2> QED  BY <1>1, <1>2, <1>3, <2>3 DEF Progress
<1>4. \A id : Wanted(id)' = Wanted(id)
  BY <1>1, WantedStays
<1> QED  BY <1>1, <1>3, <1>4 DEF Progress

(* Every candidate that is wanted is compared, and passes.                 *)
LEMMA VerifyProgress ==
  ASSUME AllInv, SortedData, VerifyCandidates
  PROVE  Progress'
<1>1. /\ pc = "verify" /\ pc' = "return"
      /\ UNCHANGED <<setting, caller, probe, filter, first, next_id>>
      /\ emitted' = {r \in Compared : is_in_threshold(sim, tokens(r), tokens(probe))}
  BY DEF VerifyCandidates, Verify, argVars, instanceVars
<1>2. /\ Progress /\ IndexInv /\ caller \in Instances /\ setting \in Settings
      /\ probe \in 1 .. Len(setting.data)
  <2>1. Progress /\ FoundInv
    BY DEF AllInv
  <2> QED  BY <1>1, <2>1, CallFacts DEF Calling
<1>3. ASSUME NEW r \in Expected PROVE r \in emitted'
  <2>1. PICK id \in Ids(caller) : r = Record(caller, id)
    BY DEF Expected, Indexed
  <2>2. Wanted(id)
    BY <2>1 DEF Expected, Wanted
  <2>3. id \in candidates
    BY <1>1, <1>2, <2>2 DEF Progress
  <2>4. IsSimilarity(sim) /\ r \in 1 .. Len(setting.data)
    BY <1>2, <2>1, <2>2, WantedFacts
  <2>5. ~(literally_selfjoin /\ probe <= r)
    <3>1. literally_selfjoin => r < probe
      BY DEF Expected, Admitted, literally_selfjoin
    <3> QED  BY <1>2, <2>4, <3>1
  <2>6. r \in Compared
    BY <2>1, <2>3, <2>5 DEF Compared
  <2>7. is_in_threshold(sim, tokens(r), tokens(probe)) = TRUE
    <3>1. /\ tokens(r) \in Seq(Int) /\ tokens(r) # <<>> /\ Sorted(tokens(r))
          /\ tokens(probe) \in Seq(Int) /\ tokens(probe) # <<>> /\ Sorted(tokens(probe))
          /\ TokenSet(r) = Range(tokens(r)) /\ TokenSet(probe) = Range(tokens(probe))
      BY <1>2, <2>4, SetFacts
    <3>2. Similar(sim, Range(tokens(r)), Range(tokens(probe)))
      BY <3>1 DEF Expected
    <3> QED  BY <2>4, <3>1, <3>2, SimilarPass
  <2> QED  BY <1>1, <2>6, <2>7
<1>4. Expected' = Expected
  BY <1>1, WantedStays
<1> QED  BY <1>1, <1>3, <1>4 DEF Progress

LEMMA ProgressStep ==
  ASSUME AllInv, SortedData, [Next]_pallocVars, GroupProbed'
  PROVE  Progress'
<1>1. CASE UNCHANGED pallocVars
  <2>1. /\ UNCHANGED <<setting, pc, caller, probe, filter, first, next_id, candidates, emitted>>
        /\ UNCHANGED <<size_groups, cached_signatures, group, costs, remaining>>
    BY <1>1 DEF pallocVars, setVars, joinVars, callVars, argVars, instanceVars, resultVars,
                pallocOwnVars, searchVars
  <2>2. /\ Expected' = Expected
        /\ \A id : Wanted(id)' = Wanted(id) /\ GroupOfId(id)' = GroupOfId(id)
    BY <2>1, WantedStays
  <2>3. \A id : Shown(id) => Shown(id)'
    BY <2>1 DEF Shown, Witnesses, Within, Difference, TokenSet, tokens, partition, Record,
                BudgetOfGroup, Budget, minimum_size, maximum_size, sim, size, shared_state
  <2> QED  BY <2>1, <2>2, <2>3 DEF AllInv, Progress
<1>2. CASE pc' \notin {"search", "probe", "verify", "return"}
  BY <1>2 DEF Progress
<1>3. CASE Next /\ pc' \in {"search", "probe", "verify", "return"}
  <2>1. \/ SmallResults \/ ProbeSizeGroup \/ ProbePartition \/ GroupDone
        \/ SearchDone \/ VerifyCandidates
    <3>1. CASE \/ \E a \in Instances :
                    \/ \E r \in setting.starts[a] : Construct(a, r)
                    \/ \E n \in setting.batches : InsertBatch(a, n)
                    \/ \E r \in setting.probes, f \in setting.filters : JoinBatch(a, r, f)
                    \/ \E b \in Instances : Merge(a, b)
               \/ \E r \in setting.probes : Evict(r)
      <4>1. pc' \in {"idle", "insert", "prepare"}
        BY <3>1 DEF Construct, ConstructFor, InsertBatch, CallInsert, JoinBatch, CallJoin, Merge,
                    MergeSets, MergeInto, Evict, setVars, joinVars, callVars
      <4> QED  BY <1>3, <4>1
    <3>2. CASE \/ AppendGroupForInsert \/ InsertRecord \/ InsertDone \/ ReturnResults
               \/ AppendGroupForProbe \/ GetProbingSignatures \/ BeginSearch
      <4>1. pc' \in {"idle", "insert", "prepare", "small"}
        BY <3>2 DEF AppendGroupForInsert, InsertRecord, InsertSet, InsertNext, InsertDone,
                    EndInsert, ReturnResults, Return, CallEnds, AppendGroupForProbe,
                    GetProbingSignatures, BeginSearch, GoOn, setVars, joinVars, callVars
      <4> QED  BY <1>3, <4>1
    <3> QED  BY <1>3, <3>1, <3>2 DEF Next
  <2> QED
    BY <2>1, SmallProgress, GroupProgress, LookupProgress, DoneProgress, SearchProgress,
       VerifyProgress
<1> QED  BY <1>1, <1>2, <1>3

(* Whatever was inserted, merged, probed and evicted before, and whatever  *)
(* state the signatures were made for, a call for sets that are sorted and *)
(* not empty finds every similar set that its filter admits: neither       *)
(* groups, partitions and budget nor the filters, the marks and the merge  *)
(* of tokens lose one (palloc_join.cc 138-178, 182-216, 259-324).          *)
THEOREM AllSimilarFound == Spec => []FindsAllSimilar
<1>1. Init => AllInv
  <2> SUFFICES ASSUME Init PROVE AllInv
    OBVIOUS
  <2>1. /\ IndexInv /\ pc = "idle" /\ candidates = {} /\ repeated = {} /\ group = 0
        /\ already_seen = [a \in Instances |-> {}]
        /\ small_index = [a \in Instances |-> {}] /\ cached_signatures = <<>>
    BY InitIndexes DEF Init, InitSets, InitJoin
  <2>2. FoundInv
    BY <2>1 DEF FoundInv, SmallOfRecords, CallMade, Marks, CandidatesFit, Calling, Finding
  <2>3. SearchInv
    BY <2>1 DEF SearchInv, Probed, CachedFits, Covered, SearchStages
  <2>4. CachedComplete /\ GroupProbed /\ Progress
    BY <2>1 DEF CachedComplete, GroupProbed, Progress
  <2> QED  BY <2>2, <2>3, <2>4 DEF AllInv
<1>2. AllInv /\ [Next]_pallocVars => AllInv'
  <2> SUFFICES ASSUME AllInv, [Next]_pallocVars PROVE AllInv'
    OBVIOUS
  <2>1. FoundInv' /\ SearchInv' /\ CachedComplete' /\ GroupProbed'
    BY FoundStep, SearchStep, CompleteStep, GroupProbedStep DEF AllInv
  <2>2. SortedData' = SortedData
    BY SettingStays DEF SortedData, Sorted, tokens
  <2> QED  BY <2>1, <2>2, ProgressStep DEF AllInv
<1>3. AllInv => FindsAllSimilar
  BY DEF AllInv, Progress, FindsAllSimilar
<1> QED  BY <1>1, <1>2, <1>3, PTL DEF Spec
==============================================================================
