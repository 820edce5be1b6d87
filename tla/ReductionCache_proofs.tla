------------------------- MODULE ReductionCache_proofs -------------------------
(***************************************************************************)
(* Proofs about the LRU cache, for every set of keys and values and every  *)
(* capacity: its variables keep their types and its capacity, its list and *)
(* its table hold the same keys, and it evicts by the policy; and about    *)
(* the reduction cache that is made of it, for every set of batches and    *)
(* plans: it answers like a cache that keeps nothing, and reduces nothing  *)
(* that is cached.                                                         *)
(***************************************************************************)
EXTENDS ReductionCache, SequenceTheorems, FiniteSetTheorems, TLAPS

------------------------------------------------------------------------------
(* The LRU cache.                                                          *)

CacheInv == CacheTypeOK /\ ListMatchesTable

(* Erasing at a position closes the gap and changes nothing else.          *)
LEMMA EraseFacts ==
  ASSUME NEW S, NEW s \in Seq(S), NEW i \in 1 .. Len(s)
  PROVE  /\ Erase(s, i) \in Seq(S)
         /\ Len(Erase(s, i)) = Len(s)-1
         /\ \A j \in 1 .. i-1 : Erase(s, i)[j] = s[j]
         /\ \A j \in i .. Len(s)-1 : Erase(s, i)[j] = s[j+1]
<1> DEFINE u == SubSeq(s, 1, i-1)
           v == SubSeq(s, i+1, Len(s))
           n == Len(s)
<1>0. n \in Nat /\ i \in Int /\ 1 <= i /\ i <= n
  OBVIOUS
<1>1. u \in Seq(S) /\ Len(u) = i-1 /\ \A j \in 1 .. i-1 : u[j] = s[j]
  OBVIOUS
<1>2. v \in Seq(S) /\ Len(v) = n-i /\ \A j \in 1 .. n-i : v[j] = s[i+j]
  OBVIOUS
<1> HIDE DEF u, v
<1>3. Erase(s, i) = u \o v
  BY DEF Erase, u, v
<1>4. /\ u \o v \in Seq(S) /\ Len(u \o v) = Len(u) + Len(v)
      /\ \A j \in 1 .. Len(u) + Len(v) :
           (u \o v)[j] = IF j <= Len(u) THEN u[j] ELSE v[j - Len(u)]
  BY <1>1, <1>2, ConcatProperties
<1> HIDE DEF n
<1>5. Erase(s, i) \in Seq(S) /\ Len(Erase(s, i)) = n-1
  BY <1>0, <1>1, <1>2, <1>3, <1>4
<1>6. \A j \in 1 .. i-1 : Erase(s, i)[j] = s[j]
  BY <1>0, <1>1, <1>2, <1>3, <1>4
<1>7. ASSUME NEW j \in i .. n-1
      PROVE  Erase(s, i)[j] = s[j+1]
  <2>1. j \in 1 .. Len(u) + Len(v) /\ ~(j <= Len(u)) /\ j - Len(u) = j-i+1
    BY <1>0, <1>1, <1>2
  <2>2. Erase(s, i)[j] = v[j-i+1]
    BY <1>3, <1>4, <2>1
  <2>3. j-i+1 \in 1 .. n-i /\ i + (j-i+1) = j+1
    BY <1>0
  <2>4. v[j-i+1] = s[j+1]
    BY <1>2, <2>3
  <2>5. QED  BY <2>2, <2>4
<1>8. QED  BY <1>5, <1>6, <1>7 DEF n

(* What is kept is a prefix.                                               *)
LEMMA KeptFacts ==
  ASSUME NEW S, access_list \in Seq(S), NEW n \in 0 .. Len(access_list)
  PROVE  /\ Kept(n) \in Seq(S) /\ Len(Kept(n)) = n
         /\ \A j \in 1 .. n : Kept(n)[j] = access_list[j]
BY DEF Kept

(* The iterator of a key that is in the list points to it.                 *)
LEMMA IteratorFacts ==
  ASSUME CacheInv, NEW k \in DOMAIN values
  PROVE  iterator(k) \in 1 .. Len(access_list) /\ access_list[iterator(k)] = k
<1>1. \E i \in DOMAIN access_list : access_list[i] = k
  BY DEF CacheInv, ListMatchesTable
<1>2. DOMAIN access_list = 1 .. Len(access_list)
  BY DEF CacheInv, CacheTypeOK
<1>3. QED  BY <1>1, <1>2 DEF iterator

(* After a get of a key that is there, the list begins with the key and    *)
(* goes on with the others in their order.                                 *)
LEMMA GetList ==
  ASSUME CacheInv, NEW k \in Keys, contains(k), get(k)
  PROVE  /\ access_list' \in Seq(Keys) /\ Len(access_list') = size
         /\ access_list'[1] = k /\ values' = values
         /\ iterator(k) \in 1 .. size /\ access_list[iterator(k)] = k
         /\ \A h \in 2 .. size :
              LET j == IF h <= iterator(k) THEN h-1 ELSE h
              IN  j \in 1 .. size /\ access_list'[h] = access_list[j]
<1> DEFINE i == iterator(k)
           n == size
           e == Erase(access_list, i)
<1>0. access_list \in Seq(Keys) /\ n \in Nat
  BY DEF CacheInv, CacheTypeOK, size
<1>1. i \in 1 .. n /\ access_list[i] = k
  BY IteratorFacts DEF contains, size
<1>2. /\ e \in Seq(Keys) /\ Len(e) = n-1
      /\ \A j \in 1 .. i-1 : e[j] = access_list[j]
      /\ \A j \in i .. n-1 : e[j] = access_list[j+1]
  BY <1>0, <1>1, EraseFacts DEF size
<1> HIDE DEF i, n, e
<1>3. /\ access_list' \in Seq(Keys) /\ Len(access_list') = n
      /\ access_list'[1] = k
      /\ \A j \in 1 .. n-1 : access_list'[j+1] = e[j]
  <2>1. access_list' = PushFront(k, e) /\ k \in Keys
    BY DEF get, e, i
  <2>2. /\ PushFront(k, e) \in Seq(Keys) /\ Len(PushFront(k, e)) = Len(e)+1
        /\ PushFront(k, e)[1] = k
        /\ \A j \in 1 .. Len(e) : PushFront(k, e)[j+1] = e[j]
    BY <1>2, <2>1 DEF PushFront
  <2>3. (n-1) + 1 = n
    BY <1>0
  <2>4. QED  BY <1>2, <2>1, <2>2, <2>3
<1>4. ASSUME NEW h \in 2 .. n
      PROVE  LET j == IF h <= i THEN h-1 ELSE h
             IN  j \in 1 .. n /\ access_list'[h] = access_list[j]
  <2>1. CASE h <= i
    <3>1. h-1 \in 1 .. i-1 /\ h-1 \in 1 .. n-1 /\ (h-1)+1 = h /\ h-1 \in 1 .. n
      BY <1>0, <1>1, <2>1
    <3>2. access_list'[(h-1)+1] = e[h-1] /\ e[h-1] = access_list[h-1]
      BY <1>2, <1>3, <3>1
    <3>3. QED  BY <2>1, <3>1, <3>2
  <2>2. CASE h > i
    <3>1. h-1 \in i .. n-1 /\ h-1 \in 1 .. n-1 /\ (h-1)+1 = h /\ h \in 1 .. n /\ ~(h <= i)
      BY <1>0, <1>1, <2>2
    <3>2. access_list'[(h-1)+1] = e[h-1] /\ e[h-1] = access_list[(h-1)+1]
      BY <1>2, <1>3, <3>1
    <3>3. QED  BY <3>1, <3>2
  <2>3. QED  BY <1>0, <1>1, <2>1, <2>2
<1>5. values' = values
  BY DEF get
<1>6. QED  BY <1>1, <1>3, <1>4, <1>5 DEF i, n

(* get keeps types and agreement of list and table.                        *)
LEMMA GetInv ==
  ASSUME CacheInv, NEW k \in Keys, get(k)
  PROVE  CacheInv'
<1>1. CASE ~contains(k)
  BY <1>1 DEF get, cacheVars, CacheInv, CacheTypeOK, ListMatchesTable
<1>2. CASE contains(k)
  <2> DEFINE i == iterator(k)
             n == Len(access_list)
             J(h) == IF h <= i THEN h-1 ELSE h
  <2>0. /\ access_list \in Seq(Keys) /\ n \in Nat /\ n <= Capacity
        /\ DOMAIN access_list = 1 .. n
        /\ DOMAIN values = {access_list[j] : j \in 1 .. n}
        /\ \A j, h \in 1 .. n : access_list[j] = access_list[h] => j = h
    BY DEF CacheInv, CacheTypeOK, ListMatchesTable
  <2>1. /\ access_list' \in Seq(Keys) /\ Len(access_list') = n
        /\ access_list'[1] = k /\ values' = values
        /\ i \in 1 .. n /\ access_list[i] = k
        /\ \A h \in 2 .. n : J(h) \in 1 .. n /\ access_list'[h] = access_list[J(h)]
    BY <1>2, GetList DEF size
  <2> HIDE DEF i, n
  <2>2. CacheTypeOK'
    BY <2>0, <2>1 DEF CacheInv, CacheTypeOK
  <2>3. \A j \in 1 .. n : \E h \in 1 .. n : access_list'[h] = access_list[j]
    <3> SUFFICES ASSUME NEW j \in 1 .. n
                 PROVE  \E h \in 1 .. n : access_list'[h] = access_list[j]
      OBVIOUS
    <3>1. CASE j < i
      <4>1. j+1 \in 2 .. n /\ j+1 \in 1 .. n /\ J(j+1) = j
        BY <2>0, <2>1, <3>1
      <4>2. QED  BY <2>1, <4>1
    <3>2. CASE j = i
      <4>1. 1 \in 1 .. n
        BY <2>0, <2>1
      <4>2. QED  BY <4>1, <2>1, <3>2
    <3>3. CASE j > i
      <4>1. j \in 2 .. n /\ J(j) = j
        BY <2>0, <2>1, <3>3
      <4>2. QED  BY <2>1, <4>1
    <3>4. QED  BY <2>0, <2>1, <3>1, <3>2, <3>3
  <2>4. \A h \in 1 .. n : h = 1 \/ h \in 2 .. n
    BY <2>0
  <2>5. {access_list'[h] : h \in 1 .. n} = {access_list[j] : j \in 1 .. n}
    <3>1. \A h \in 1 .. n : \E j \in 1 .. n : access_list'[h] = access_list[j]
      BY <2>1, <2>4
    <3>2. QED  BY <2>3, <3>1
  <2>6. \A h \in 2 .. n : access_list'[h] # k
    BY <2>0, <2>1
  <2>7. \A g, h \in 1 .. n : access_list'[g] = access_list'[h] => g = h
    <3> SUFFICES ASSUME NEW g \in 1 .. n, NEW h \in 1 .. n,
                        access_list'[g] = access_list'[h]
                 PROVE  g = h
      OBVIOUS
    <3>1. CASE g = 1 \/ h = 1
      BY <2>1, <2>4, <2>6, <3>1
    <3>2. CASE g \in 2 .. n /\ h \in 2 .. n
      <4>1. J(g) = J(h)
        BY <2>0, <2>1, <3>2
      <4>2. QED  BY <2>0, <2>1, <2>6, <3>2, <4>1
    <3>3. QED  BY <2>4, <3>1, <3>2
  <2>8. DOMAIN access_list' = 1 .. n
    BY <2>1
  <2>9. ListMatchesTable'
    BY <2>0, <2>1, <2>5, <2>7, <2>8 DEF ListMatchesTable
  <2>10. QED  BY <2>2, <2>9 DEF CacheInv
<1>3. QED  BY <1>1, <1>2

(* The first entries of a list without duplicates, with the part of the    *)
(* table that belongs to them.                                             *)
LEMMA RestrictedFacts ==
  ASSUME CacheInv, NEW m \in 0 .. size
  PROVE  /\ Kept(m) \in Seq(Keys) /\ Len(Kept(m)) = m
         /\ \A j \in 1 .. m : Kept(m)[j] = access_list[j]
         /\ DOMAIN Restricted(values, Kept(m)) = {access_list[j] : j \in 1 .. m}
         /\ DOMAIN Restricted(values, Kept(m)) \subseteq DOMAIN values
         /\ \A l \in DOMAIN Restricted(values, Kept(m)) :
              Restricted(values, Kept(m))[l] = values[l]
<1>1. /\ access_list \in Seq(Keys) /\ size \in Nat
      /\ DOMAIN values = {access_list[j] : j \in 1 .. size}
  BY DEF CacheInv, CacheTypeOK, ListMatchesTable, size
<1>2. /\ Kept(m) \in Seq(Keys) /\ Len(Kept(m)) = m
      /\ \A j \in 1 .. m : Kept(m)[j] = access_list[j]
  BY <1>1, KeptFacts DEF size
<1> DEFINE s == Kept(m)
<1>3. DOMAIN s = 1 .. m
  BY <1>2
<1>4. m \in Nat /\ m <= size
  BY <1>1
<1> HIDE DEF s
<1>5. {s[j] : j \in DOMAIN s} = {access_list[j] : j \in 1 .. m}
  BY <1>2, <1>3 DEF s
<1>6. {access_list[j] : j \in 1 .. m} \subseteq DOMAIN values
  BY <1>1, <1>4
<1>7. QED  BY <1>2, <1>5, <1>6 DEF Restricted, s

(* emplace keeps types and agreement of list and table.                    *)
LEMMA EmplaceInv ==
  ASSUME CacheInv, NEW k \in Keys, NEW v \in Values, emplace(k, v)
  PROVE  CacheInv'
<1>1. CASE contains(k)
  BY <1>1 DEF emplace, cacheVars, CacheInv, CacheTypeOK, ListMatchesTable
<1>2. CASE ~contains(k)
  <2> DEFINE m == Remaining(1)
             kept == Kept(m)
             t == Restricted(values, kept)
  <2>0. size \in Nat /\ Capacity \in Nat \ {0}
    BY CapacityAssumption DEF CacheInv, CacheTypeOK, size
  <2>1. m \in 0 .. size /\ m + 1 <= Capacity
    BY <2>0 DEF Remaining, RoomFor
  <2>2. /\ kept \in Seq(Keys) /\ Len(kept) = m
        /\ \A j \in 1 .. m : kept[j] = access_list[j]
        /\ DOMAIN t = {access_list[j] : j \in 1 .. m}
        /\ DOMAIN t \subseteq DOMAIN values
    BY <2>1, RestrictedFacts
  <2>3. /\ access_list' = PushFront(k, kept)
        /\ values' = [l \in DOMAIN t \cup {k} |-> IF l = k THEN v ELSE values[l]]
    BY <1>2 DEF emplace
  <2> HIDE DEF m, kept, t
  <2>4. /\ access_list' \in Seq(Keys) /\ Len(access_list') = m+1
        /\ access_list'[1] = k
        /\ \A j \in 1 .. m : access_list'[j+1] = kept[j]
    BY <2>1, <2>2, <2>3 DEF PushFront
  <2>5. CacheTypeOK'
    BY <2>1, <2>2, <2>3, <2>4 DEF CacheInv, CacheTypeOK
  <2>6. DOMAIN access_list' = 1 .. m+1 /\ m \in Nat
    BY <2>0, <2>1, <2>4
  <2>7. \A h \in 2 .. m+1 : h-1 \in 1 .. m /\ access_list'[h] = access_list[h-1]
    <3> SUFFICES ASSUME NEW h \in 2 .. m+1
                 PROVE  h-1 \in 1 .. m /\ access_list'[h] = access_list[h-1]
      OBVIOUS
    <3>1. h-1 \in 1 .. m /\ (h-1)+1 = h
      BY <2>6
    <3>2. access_list'[(h-1)+1] = kept[h-1]
      BY <2>4, <3>1
    <3>3. QED  BY <2>2, <3>1, <3>2
  <2>8. DOMAIN values' = {access_list'[h] : h \in 1 .. m+1}
    <3>1. ASSUME NEW l \in DOMAIN t
          PROVE  \E h \in 1 .. m+1 : l = access_list'[h]
      <4>1. PICK j \in 1 .. m : l = access_list[j]
        BY <2>2
      <4>2. j+1 \in 2 .. m+1 /\ (j+1)-1 = j /\ j+1 \in 1 .. m+1
        BY <2>6
      <4>3. access_list'[j+1] = access_list[j]
        BY <2>7, <4>2
      <4>4. QED  BY <4>1, <4>2, <4>3
    <3>2. ASSUME NEW h \in 1 .. m+1
          PROVE  access_list'[h] \in DOMAIN t \cup {k}
      <4>1. CASE h = 1
        BY <2>4, <4>1
      <4>2. CASE h \in 2 .. m+1
        BY <2>2, <2>7, <4>2
      <4>3. QED  BY <2>6, <4>1, <4>2
    <3>3. 1 \in 1 .. m+1
      BY <2>6
    <3>4. QED  BY <2>3, <2>4, <3>1, <3>2, <3>3
  <2>9. \A g, h \in 1 .. m+1 : access_list'[g] = access_list'[h] => g = h
    <3> SUFFICES ASSUME NEW g \in 1 .. m+1, NEW h \in 1 .. m+1,
                        access_list'[g] = access_list'[h]
                 PROVE  g = h
      OBVIOUS
    <3>1. \A i \in 2 .. m+1 : access_list'[i] # k
      BY <1>2, <2>2, <2>7 DEF contains
    <3>2. /\ \A i \in 1 .. m : i \in DOMAIN access_list
          /\ \A i, j \in DOMAIN access_list : access_list[i] = access_list[j] => i = j
      BY <2>0, <2>1 DEF CacheInv, CacheTypeOK, ListMatchesTable, size
    <3>3. CASE g = 1 \/ h = 1
      BY <2>4, <2>6, <3>1, <3>3
    <3>4. CASE g \in 2 .. m+1 /\ h \in 2 .. m+1
      <4>1. g-1 = h-1
        BY <2>7, <3>2, <3>4
      <4>2. QED  BY <2>6, <4>1
    <3>5. QED  BY <2>6, <3>3, <3>4
  <2>10. ListMatchesTable'
    BY <2>6, <2>8, <2>9 DEF ListMatchesTable
  <2>11. QED  BY <2>5, <2>10 DEF CacheInv
<1>3. QED  BY <1>1, <1>2

(* reserve does.                                                           *)
LEMMA ReserveInv ==
  ASSUME CacheInv, NEW n \in 0 .. Capacity-1, reserve(n)
  PROVE  CacheInv'
<1> DEFINE m == Remaining(n+1)
           kept == Kept(m)
           t == Restricted(values, kept)
<1>0. size \in Nat /\ Capacity \in Nat \ {0} /\ size <= Capacity
  BY CapacityAssumption DEF CacheInv, CacheTypeOK, size
<1>1. m \in 0 .. size /\ m <= Capacity /\ m \in Nat
  BY <1>0 DEF Remaining, RoomFor
<1>2. /\ kept \in Seq(Keys) /\ Len(kept) = m
      /\ \A j \in 1 .. m : kept[j] = access_list[j]
      /\ DOMAIN t = {access_list[j] : j \in 1 .. m}
      /\ DOMAIN t \subseteq DOMAIN values
      /\ \A l \in DOMAIN t : t[l] = values[l]
  BY <1>1, RestrictedFacts
<1>3. access_list' = kept /\ values' = t
  BY DEF reserve
<1> HIDE DEF m, kept, t
<1>4. CacheTypeOK'
  BY <1>1, <1>2, <1>3 DEF CacheInv, CacheTypeOK
<1>5. DOMAIN access_list' = 1 .. m
  BY <1>2, <1>3
<1>6. \A i \in 1 .. m : i \in DOMAIN access_list /\ access_list'[i] = access_list[i]
  BY <1>0, <1>1, <1>2, <1>3 DEF CacheInv, CacheTypeOK, size
<1>7. {access_list'[i] : i \in 1 .. m} = {access_list[i] : i \in 1 .. m}
  BY <1>6
<1>8. ListMatchesTable'
  BY <1>2, <1>3, <1>5, <1>6, <1>7 DEF CacheInv, ListMatchesTable
<1>9. QED  BY <1>4, <1>8 DEF CacheInv

(* The empty cache is a correct one.                                       *)
LEMMA EmptyInv ==
  ASSUME access_list = <<>>, values = <<>>
  PROVE  CacheInv
BY CapacityAssumption DEF CacheInv, CacheTypeOK, ListMatchesTable

(* List and table of an LRU cache agree in every reachable state, whatever *)
(* is looked up, emplaced or reserved, and the capacity is never exceeded. *)
THEOREM ListAndTableAgree == CacheSpec => [](CacheTypeOK /\ ListMatchesTable)
<1>1. CacheInit => CacheInv
  BY EmptyInv DEF CacheInit
<1>2. CacheInv /\ [CacheNext]_cacheVars => CacheInv'
  <2> SUFFICES ASSUME CacheInv, [CacheNext]_cacheVars
               PROVE  CacheInv'
    OBVIOUS
  <2>1. CASE UNCHANGED cacheVars
    BY <2>1 DEF cacheVars, CacheInv, CacheTypeOK, ListMatchesTable
  <2>2. CASE \E k \in Keys : get(k)
    BY <2>2, GetInv
  <2>3. CASE \E k \in Keys : \E v \in Values : emplace(k, v)
    BY <2>3, EmplaceInv
  <2>4. CASE \E n \in 0 .. Capacity-1 : reserve(n)
    BY <2>4, ReserveInv
  <2>5. CASE clear
    <3>1. access_list' = <<>> /\ values' = <<>>
      BY <2>5 DEF clear
    <3>2. QED
      BY <3>1, CapacityAssumption DEF CacheInv, CacheTypeOK, ListMatchesTable
  <2>6. QED  BY <2>1, <2>2, <2>3, <2>4, <2>5 DEF CacheNext
<1>3. QED  BY <1>1, <1>2, PTL DEF CacheSpec, CacheInv

------------------------------------------------------------------------------
(* The policy.                                                             *)

Older(s) ==
  {<<s[q[2]], s[q[1]]>> : q \in {p \in (1 .. Len(s)) \X (1 .. Len(s)) : p[1] < p[2]}}

Elements(s) == {s[i] : i \in 1 .. Len(s)}

Distinct(s) == \A i, j \in 1 .. Len(s) : s[i] = s[j] => i = j

(* What the relation is about, and that it is one.                         *)
LEMMA OlderFacts ==
  ASSUME NEW s
  PROVE  /\ \A q \in Older(s) : q = <<q[1], q[2]>> /\ q[1] \in Elements(s) /\ q[2] \in Elements(s)
         /\ \A x, y : <<x, y>> \in Older(s) <=>
              \E a, b \in 1 .. Len(s) : a < b /\ x = s[b] /\ y = s[a]
<1>1. \A q \in Older(s) : \E a, b \in 1 .. Len(s) : a < b /\ q = <<s[b], s[a]>>
  BY DEF Older
<1>2. \A a, b \in 1 .. Len(s) : a < b => <<s[b], s[a]>> \in Older(s)
  <2> SUFFICES ASSUME NEW a \in 1 .. Len(s), NEW b \in 1 .. Len(s), a < b
               PROVE  <<s[b], s[a]>> \in Older(s)
    OBVIOUS
  <2>1. <<a, b>> \in {p \in (1 .. Len(s)) \X (1 .. Len(s)) : p[1] < p[2]}
    OBVIOUS
  <2>2. QED  BY <2>1 DEF Older
<1>3. QED  BY <1>1, <1>2 DEF Elements

(* Two relations are equal if they hold for the same pairs.                *)
LEMMA SameRelation ==
  ASSUME NEW A, NEW B,
         \A q \in A : q = <<q[1], q[2]>>, \A q \in B : q = <<q[1], q[2]>>,
         \A x, y : <<x, y>> \in A <=> <<x, y>> \in B
  PROVE  A = B
OBVIOUS

(* A list that begins with a key, and goes on with entries of another list *)
(* in the order they have there: the key was used last, and nothing else   *)
(* has changed.                                                            *)
LEMMA MovedToFront ==
  ASSUME NEW s \in Seq(Keys), Distinct(s), NEW t \in Seq(Keys), Len(t) >= 1,
         NEW J \in [2 .. Len(t) -> 1 .. Len(s)],
         \A g, h \in 2 .. Len(t) : g < h => J[g] < J[h],
         \A h \in 2 .. Len(t) : t[h] = s[J[h]] /\ t[h] # t[1]
  PROVE  Older(t) = Policy!UsedLast(Elements(t), Older(s), t[1])
<1> DEFINE U == Policy!UsedLast(Elements(t), Older(s), t[1])
           n == Len(t)
<1>0. n \in Nat /\ Len(s) \in Nat /\ 1 \in 1 .. n
  OBVIOUS
<1>1. \A x, y : <<x, y>> \in U <=>
        \/ /\ <<x, y>> \in Older(s) /\ x \in Elements(t) /\ y \in Elements(t)
           /\ x # t[1] /\ y # t[1]
        \/ x \in Elements(t) /\ x # t[1] /\ y = t[1]
  BY DEF Policy!UsedLast
<1>2. \A q \in U : q = <<q[1], q[2]>>
  BY OlderFacts DEF Policy!UsedLast
<1>3. ASSUME NEW x, NEW y, <<x, y>> \in Older(t)
      PROVE  <<x, y>> \in U
  <2>1. PICK a \in 1 .. n, b \in 1 .. n : a < b /\ x = t[b] /\ y = t[a]
    BY <1>3, OlderFacts
  <2>2. b \in 2 .. n /\ x # t[1] /\ x \in Elements(t) /\ y \in Elements(t)
    BY <1>0, <2>1 DEF Elements
  <2>3. CASE a = 1
    BY <1>1, <2>1, <2>2, <2>3
  <2>4. CASE a \in 2 .. n
    <3>1. J[a] < J[b] /\ x = s[J[b]] /\ y = s[J[a]] /\ y # t[1]
      BY <2>1, <2>2, <2>4
    <3>2. <<x, y>> \in Older(s)
      BY <2>2, <2>4, <3>1, OlderFacts
    <3>3. QED  BY <1>1, <2>2, <3>1, <3>2
  <2>5. QED  BY <1>0, <2>1, <2>3, <2>4
<1>4. ASSUME NEW x, NEW y, <<x, y>> \in U
      PROVE  <<x, y>> \in Older(t)
  <2>1. ASSUME NEW z \in Elements(t), z # t[1]
        PROVE  \E h \in 2 .. n : z = t[h] /\ z = s[J[h]]
    <3>1. PICK h \in 1 .. n : z = t[h]
      BY DEF Elements
    <3>2. h \in 2 .. n
      BY <1>0, <2>1, <3>1
    <3>3. QED  BY <3>1, <3>2
  <2>2. CASE x \in Elements(t) /\ x # t[1] /\ y = t[1]
    <3>1. PICK h \in 2 .. n : x = t[h]
      BY <2>1, <2>2
    <3>2. h \in 1 .. n /\ 1 < h
      BY <1>0
    <3>3. QED  BY <1>0, <2>2, <3>1, <3>2, OlderFacts
  <2>3. CASE /\ <<x, y>> \in Older(s) /\ x \in Elements(t) /\ y \in Elements(t)
             /\ x # t[1] /\ y # t[1]
    <3>1. PICK a \in 1 .. Len(s), b \in 1 .. Len(s) : a < b /\ x = s[b] /\ y = s[a]
      BY <2>3, OlderFacts
    <3>2. PICK g \in 2 .. n : y = t[g] /\ y = s[J[g]]
      BY <2>1, <2>3
    <3>3. PICK h \in 2 .. n : x = t[h] /\ x = s[J[h]]
      BY <2>1, <2>3
    <3>4. J[g] = a /\ J[h] = b
      BY <3>1, <3>2, <3>3 DEF Distinct
    <3>5. g < h /\ g \in 1 .. n /\ h \in 1 .. n
      <4>1. ~(h < g) /\ h # g
        BY <1>0, <3>1, <3>4
      <4>2. QED  BY <1>0, <4>1
    <3>6. QED  BY <3>2, <3>3, <3>5, OlderFacts
  <2>4. QED  BY <1>1, <1>4, <2>2, <2>3
<1>5. \A q \in Older(t) : q = <<q[1], q[2]>>
  BY OlderFacts
<1> HIDE DEF U
<1>6. \A x, y : <<x, y>> \in Older(t) <=> <<x, y>> \in U
  BY <1>3, <1>4
<1>7. Older(t) = U
  BY <1>2, <1>5, <1>6, SameRelation
<1>8. QED  BY <1>7 DEF U

(* What list and table are for the policy.                                 *)
LEMMA PolicyState ==
  ASSUME CacheInv
  PROVE  /\ access_list \in Seq(Keys) /\ Len(access_list) \in Nat
         /\ DOMAIN values = Elements(access_list) /\ Distinct(access_list)
         /\ IsFiniteSet(DOMAIN values) /\ Cardinality(DOMAIN values) = Len(access_list)
<1>1. access_list \in Seq(Keys) /\ DOMAIN access_list = 1 .. Len(access_list)
  BY DEF CacheInv, CacheTypeOK
<1>2. DOMAIN values = Elements(access_list) /\ Distinct(access_list)
  BY <1>1 DEF CacheInv, ListMatchesTable, Elements, Distinct
<1> DEFINE n == Len(access_list)
           f == [i \in 1 .. n |-> access_list[i]]
<1>3. n \in Nat
  BY <1>1
<1>4. f \in Bijection(1 .. n, DOMAIN values)
  BY <1>2 DEF Bijection, Injection, Surjection, IsInjective, Elements, Distinct
<1>5. ExistsBijection(1 .. n, DOMAIN values)
  BY <1>4 DEF ExistsBijection
<1> HIDE DEF n
<1>6. IsFiniteSet(DOMAIN values) /\ Cardinality(DOMAIN values) = n
  BY <1>3, <1>5, FS_CountingElements, FS_NatBijection
<1>7. QED  BY <1>1, <1>2, <1>3, <1>6 DEF n

(* The steps of the policy, said of list and table.                        *)
LEMMA PolicySteps ==
  ASSUME CacheInv, NEW k \in Keys
  PROVE  LET now  == DOMAIN values
             then == DOMAIN values'
             last == Older(access_list') = Policy!UsedLast(then, Older(access_list), k)
         IN  /\ contains(k) /\ then = now /\ last => Policy!Use(k)
             /\ ~contains(k) /\ size < Capacity /\ then = now \cup {k} /\ last
                  => Policy!Put(k)
             /\ \A l \in now :
                  /\ ~contains(k) /\ size >= Capacity
                  /\ \A m \in now : <<m, l>> \notin Older(access_list)
                  /\ then = (now \ {l}) \cup {k} /\ last
                  => Policy!Replace(k, l)
<1> DEFINE old == {<<access_list[q[2]], access_list[q[1]]>> :
                     q \in {p \in (1 .. size) \X (1 .. size) : p[1] < p[2]}}
<1>1. old = Older(access_list) /\ old' = Older(access_list')
  BY DEF Older, size
<1>2. Cardinality(DOMAIN values) = size
  BY PolicyState DEF size
<1>3. Policy!Cardinality(DOMAIN values) = Cardinality(DOMAIN values)
  BY DEF Policy!Cardinality, Cardinality
<1> HIDE DEF old
<1>4. QED
  BY <1>1, <1>2, <1>3 DEF Policy!Use, Policy!Put, Policy!Replace, contains, old

(* The same for entries that go.                                           *)
LEMMA PolicyForgets ==
  ASSUME CacheInv, NEW m \in 0 .. size, access_list' \in Seq(Keys),
         Len(access_list') = m, \A j \in 1 .. m : access_list'[j] = access_list[j],
         DOMAIN values' = {access_list[j] : j \in 1 .. m}
  PROVE  Policy!Forget
<1> DEFINE old == {<<access_list[q[2]], access_list[q[1]]>> :
                     q \in {p \in (1 .. size) \X (1 .. size) : p[1] < p[2]}}
           now == DOMAIN values
           then == DOMAIN values'
<1>1. old = Older(access_list) /\ old' = Older(access_list')
  BY DEF Older, size
<1>2. /\ access_list \in Seq(Keys) /\ size \in Nat /\ m \in Nat /\ m <= size
      /\ now = Elements(access_list) /\ Distinct(access_list)
  BY PolicyState DEF size
<1>3. then = Elements(access_list')
  BY DEF Elements
<1>4. then \subseteq now
  BY <1>2 DEF Elements, size
<1>5. ASSUME NEW l \in then, NEW g \in now \ then
      PROVE  <<g, l>> \in Older(access_list)
  <2>1. PICK a \in 1 .. m : l = access_list[a]
    OBVIOUS
  <2>2. PICK b \in 1 .. size : g = access_list[b]
    BY <1>2 DEF Elements, size
  <2>3. b \notin 1 .. m
    BY <1>5, <2>2
  <2>4. a \in 1 .. size /\ a < b
    BY <1>2, <2>3
  <2>5. QED  BY <2>1, <2>2, <2>4, OlderFacts DEF size
<1> DEFINE R == {q \in Older(access_list) : q[1] \in then /\ q[2] \in then}
<1> HIDE DEF old, now, then
<1>6. ASSUME NEW x, NEW y
      PROVE  <<x, y>> \in Older(access_list') <=> <<x, y>> \in R
  <2>1. ASSUME <<x, y>> \in Older(access_list')
        PROVE  <<x, y>> \in R
    <3>1. PICK a \in 1 .. m, b \in 1 .. m :
             a < b /\ x = access_list'[b] /\ y = access_list'[a]
      BY <2>1, OlderFacts
    <3>2. /\ a \in 1 .. size /\ b \in 1 .. size
          /\ x = access_list[b] /\ y = access_list[a]
      BY <1>2, <3>1
    <3>3. <<x, y>> \in Older(access_list)
      BY <3>1, <3>2, OlderFacts DEF size
    <3>4. x \in then /\ y \in then
      BY <1>3, <3>1 DEF Elements
    <3>5. QED  BY <3>3, <3>4
  <2>2. ASSUME <<x, y>> \in R
        PROVE  <<x, y>> \in Older(access_list')
    <3>1. PICK a \in 1 .. size, b \in 1 .. size :
             a < b /\ x = access_list[b] /\ y = access_list[a]
      BY <2>2, OlderFacts DEF size
    <3>2. PICK g \in 1 .. m : y = access_list[g]
      BY <2>2 DEF then
    <3>3. PICK h \in 1 .. m : x = access_list[h]
      BY <2>2 DEF then
    <3>4. g \in 1 .. size /\ h \in 1 .. size
      BY <1>2
    <3>5. g = a /\ h = b
      BY <1>2, <3>1, <3>2, <3>3, <3>4 DEF Distinct, size
    <3>6. QED  BY <3>1, <3>2, <3>3, <3>5, OlderFacts
  <2>3. QED  BY <2>1, <2>2
<1>7. Older(access_list') = R
  <2>1. \A q \in Older(access_list') : q = <<q[1], q[2]>>
    BY OlderFacts
  <2>2. \A q \in R : q = <<q[1], q[2]>>
    BY OlderFacts
  <2> HIDE DEF R
  <2>3. QED  BY <1>6, <2>1, <2>2, SameRelation
<1>8. QED  BY <1>1, <1>4, <1>5, <1>7 DEF Policy!Forget, now, then, old, R

(* get: a use, or a step that the policy does not see.                     *)
LEMMA GetPolicy ==
  ASSUME CacheInv, NEW k \in Keys, contains(k), get(k)
  PROVE  Policy!Next
<1> DEFINE J == [h \in 2 .. size |-> IF h <= iterator(k) THEN h-1 ELSE h]
<1>1. /\ access_list \in Seq(Keys) /\ size \in Nat /\ Distinct(access_list)
      /\ DOMAIN values = Elements(access_list)
  BY PolicyState DEF size
<1>2. /\ access_list' \in Seq(Keys) /\ Len(access_list') = size
      /\ access_list'[1] = k /\ values' = values
      /\ iterator(k) \in 1 .. size /\ access_list[iterator(k)] = k
      /\ \A h \in 2 .. size : J[h] \in 1 .. size /\ access_list'[h] = access_list[J[h]]
  BY GetList
<1>3. J \in [2 .. size -> 1 .. size]
  BY <1>2
<1>4. \A g, h \in 2 .. size : g < h => J[g] < J[h]
  BY <1>1, <1>2
<1>5. \A h \in 2 .. size : J[h] # iterator(k)
  BY <1>1, <1>2
<1> HIDE DEF J
<1>6. \A h \in 2 .. size : access_list'[h] # access_list'[1]
  BY <1>1, <1>2, <1>5 DEF Distinct, size
<1>7. Older(access_list') = Policy!UsedLast(Elements(access_list'), Older(access_list), k)
  <2>1. size >= 1
    BY <1>1, <1>2
  <2>2. /\ access_list' \in Seq(Keys) /\ Len(access_list') >= 1
        /\ Len(access_list') = size /\ Len(access_list) = size
    BY <1>2, <2>1 DEF size
  <2>3. /\ J \in [2 .. Len(access_list') -> 1 .. Len(access_list)]
        /\ \A g, h \in 2 .. Len(access_list') : g < h => J[g] < J[h]
    BY <1>3, <1>4, <2>2
  <2>4. \A h \in 2 .. Len(access_list') :
          access_list'[h] = access_list[J[h]] /\ access_list'[h] # access_list'[1]
    BY <1>2, <1>6, <2>2
  <2>5. Older(access_list')
          = Policy!UsedLast(Elements(access_list'), Older(access_list), access_list'[1])
    BY <1>1, <2>2, <2>3, <2>4, MovedToFront
  <2>6. QED  BY <1>2, <2>5
<1>8. CacheInv'
  BY GetInv
<1>9. Elements(access_list') = DOMAIN values'
  <2>1. DOMAIN access_list' = 1 .. Len(access_list')
    BY <1>2
  <2>2. QED  BY <1>8, <2>1 DEF CacheInv, ListMatchesTable, Elements
<1>10. Policy!Use(k)
  BY <1>2, <1>7, <1>9, PolicySteps
<1>11. QED  BY <1>10 DEF Policy!Next

(* emplace: a new key is put into a cache with room, and otherwise takes   *)
(* the place of the key at the end of the list.                            *)
LEMMA EmplacePolicy ==
  ASSUME CacheInv, NEW k \in Keys, NEW v \in Values, ~contains(k), emplace(k, v)
  PROVE  Policy!Next
<1> DEFINE m == Remaining(1)
           kept == Kept(m)
           t == Restricted(values, kept)
<1>1. /\ access_list \in Seq(Keys) /\ size \in Nat /\ Distinct(access_list)
      /\ DOMAIN values = Elements(access_list)
      /\ Capacity \in Nat \ {0} /\ size <= Capacity
  BY PolicyState, CapacityAssumption DEF size, CacheInv, CacheTypeOK
<1>2. /\ m \in 0 .. size /\ m \in Nat
      /\ size < Capacity => m = size
      /\ size >= Capacity => size >= 1 /\ m = size-1
  BY <1>1 DEF Remaining, RoomFor
<1>3. /\ kept \in Seq(Keys) /\ Len(kept) = m
      /\ \A j \in 1 .. m : kept[j] = access_list[j]
      /\ DOMAIN t = {access_list[j] : j \in 1 .. m}
  BY <1>2, RestrictedFacts
<1>4. /\ access_list' = PushFront(k, kept)
      /\ values' = [l \in DOMAIN t \cup {k} |-> IF l = k THEN v ELSE values[l]]
  BY DEF emplace
<1> HIDE DEF m, kept, t
<1>5. /\ access_list' \in Seq(Keys) /\ Len(access_list') = m+1
      /\ access_list'[1] = k
      /\ \A j \in 1 .. m : access_list'[j+1] = kept[j]
  BY <1>2, <1>3, <1>4 DEF PushFront
<1> DEFINE J == [h \in 2 .. m+1 |-> h-1]
<1>6. J \in [2 .. m+1 -> 1 .. size] /\ \A g, h \in 2 .. m+1 : g < h => J[g] < J[h]
  BY <1>1, <1>2
<1>7. ASSUME NEW h \in 2 .. m+1
      PROVE  access_list'[h] = access_list[J[h]] /\ access_list'[h] # access_list'[1]
  <2>1. h-1 \in 1 .. m /\ h-1 \in 1 .. size /\ (h-1)+1 = h /\ J[h] = h-1
    BY <1>1, <1>2
  <2>2. access_list'[(h-1)+1] = access_list[h-1]
    BY <1>3, <1>5, <2>1
  <2>3. access_list[h-1] # k
    BY <1>1, <2>1 DEF contains, Elements, size
  <2>4. QED  BY <1>5, <2>1, <2>2, <2>3
<1> HIDE DEF J
<1>8. Older(access_list') = Policy!UsedLast(Elements(access_list'), Older(access_list), k)
  <2>1. m+1 >= 1
    BY <1>2
  <2> DEFINE s == access_list
             u == access_list'
  <2>2. s \in Seq(Keys) /\ Distinct(s) /\ u \in Seq(Keys) /\ Len(u) = m+1 /\ u[1] = k
    BY <1>1, <1>5
  <2>3. J \in [2 .. Len(u) -> 1 .. Len(s)]
    BY <1>6, <2>2 DEF size
  <2>4. /\ \A g, h \in 2 .. Len(u) : g < h => J[g] < J[h]
        /\ \A h \in 2 .. Len(u) : u[h] = s[J[h]] /\ u[h] # u[1]
    BY <1>6, <1>7, <2>2
  <2> HIDE DEF s, u
  <2>5. Older(u) = Policy!UsedLast(Elements(u), Older(s), u[1])
    BY <2>1, <2>2, <2>3, <2>4, MovedToFront
  <2>6. QED  BY <2>2, <2>5 DEF s, u
<1>9. Elements(access_list') = DOMAIN values'
  <2>1. DOMAIN access_list' = 1 .. Len(access_list')
    BY <1>5
  <2>2. CacheInv'
    BY EmplaceInv
  <2>3. QED  BY <2>1, <2>2 DEF CacheInv, ListMatchesTable, Elements
<1>10. DOMAIN values' = {access_list[j] : j \in 1 .. m} \cup {k}
  BY <1>3, <1>4
<1>11. CASE size < Capacity
  <2>1. DOMAIN values' = DOMAIN values \cup {k}
    BY <1>1, <1>2, <1>10, <1>11 DEF Elements, size
  <2>2. Policy!Put(k)
    BY <1>8, <1>9, <1>11, <2>1, PolicySteps
  <2>3. QED  BY <2>2 DEF Policy!Next
<1>12. CASE size >= Capacity
  <2>1. size \in 1 .. size /\ m = size-1
    BY <1>1, <1>2, <1>12
  <2>2. PICK l \in Keys : l = access_list[size] /\ l \in DOMAIN values
    BY <1>1, <2>1 DEF Elements, size
  <2>3. ASSUME NEW g \in DOMAIN values, <<g, l>> \in Older(access_list)
        PROVE  FALSE
    <3>1. PICK a \in 1 .. size, b \in 1 .. size : a < b /\ l = access_list[a]
      BY <2>2, <2>3, OlderFacts DEF size
    <3>2. a = size
      BY <1>1, <2>1, <2>2, <3>1 DEF Distinct, size
    <3>3. QED  BY <1>1, <3>1, <3>2
  <2>4. DOMAIN values' = (DOMAIN values \ {l}) \cup {k}
    <3>1. \A j \in 1 .. size : j \in 1 .. m \/ j = size
      BY <1>1, <2>1
    <3>2. \A j \in 1 .. m : j \in 1 .. size /\ j # size
      BY <1>1, <2>1
    <3>3. \A j \in 1 .. m : access_list[j] # l
      BY <1>1, <2>1, <2>2, <3>2 DEF Distinct, size
    <3>4. {access_list[j] : j \in 1 .. m} = DOMAIN values \ {l}
      BY <1>1, <2>2, <3>1, <3>2, <3>3 DEF Elements, size
    <3>5. QED  BY <1>10, <3>4
  <2>5. Policy!Replace(k, l)
    BY <1>8, <1>9, <1>12, <2>2, <2>3, <2>4, PolicySteps
  <2>6. QED  BY <2>2, <2>5 DEF Policy!Next
<1>13. QED  BY <1>1, <1>11, <1>12

(* reserve and clear: the oldest entries go.                               *)
LEMMA ReservePolicy ==
  ASSUME CacheInv, NEW n \in 0 .. Capacity-1, reserve(n)
  PROVE  Policy!Next
<1> DEFINE m == Remaining(n+1)
<1>1. size \in Nat /\ Capacity \in Nat \ {0} /\ size <= Capacity
  BY CapacityAssumption DEF CacheInv, CacheTypeOK, size
<1>2. m \in 0 .. size
  BY <1>1 DEF Remaining, RoomFor
<1>3. access_list' = Kept(m) /\ values' = Restricted(values, Kept(m))
  BY DEF reserve
<1> HIDE DEF m
<1>4. Policy!Forget
  BY <1>2, <1>3, RestrictedFacts, PolicyForgets
<1>5. QED  BY <1>4 DEF Policy!Next

LEMMA ClearPolicy ==
  ASSUME CacheInv, clear
  PROVE  Policy!Next
<1>1. access_list' = <<>> /\ values' = <<>> /\ 0 \in 0 .. size
  BY DEF clear, CacheInv, CacheTypeOK, size
<1>2. /\ access_list' \in Seq(Keys) /\ Len(access_list') = 0
      /\ DOMAIN values' = {access_list[j] : j \in 1 .. 0}
  BY <1>1
<1>3. Policy!Forget
  BY <1>1, <1>2, PolicyForgets
<1>4. QED  BY <1>3 DEF Policy!Next

(* An LRU cache implements the policy, whatever is looked up, emplaced or  *)
(* reserved: a key that leaves was used before every key that stays, and a *)
(* key leaves for another only if the cache is full.                       *)
THEOREM PolicyRefinement == CacheSpec => ImplementsPolicy
<1>1. CacheInit => Policy!Init
  <2> SUFFICES ASSUME CacheInit PROVE Policy!Init
    OBVIOUS
  <2>1. DOMAIN values = {} /\ size = 0
    BY DEF CacheInit, size
  <2>2. QED  BY <2>1 DEF Policy!Init
<1>2. CacheInv /\ [CacheNext]_cacheVars => [Policy!Next]_(Policy!vars)
  <2> SUFFICES ASSUME CacheInv, [CacheNext]_cacheVars
               PROVE  [Policy!Next]_(Policy!vars)
    OBVIOUS
  <2>1. CASE UNCHANGED cacheVars
    <3>1. access_list' = access_list /\ values' = values
      BY <2>1 DEF cacheVars
    <3>2. QED  BY <3>1 DEF Policy!vars, size
  <2>2. ASSUME NEW k \in Keys, get(k)
        PROVE  UNCHANGED cacheVars \/ Policy!Next
    BY <2>2, GetPolicy DEF get
  <2>3. ASSUME NEW k \in Keys, NEW v \in Values, emplace(k, v)
        PROVE  UNCHANGED cacheVars \/ Policy!Next
    BY <2>3, EmplacePolicy DEF emplace
  <2>4. CASE \E n \in 0 .. Capacity-1 : reserve(n)
    BY <2>4, ReservePolicy
  <2>5. CASE clear
    BY <2>5, ClearPolicy
  <2>6. QED  BY <2>1, <2>2, <2>3, <2>4, <2>5 DEF CacheNext
<1>3. CacheSpec => []CacheInv
  BY ListAndTableAgree, PTL DEF CacheInv
<1>4. QED
  BY <1>1, <1>2, <1>3, PTL DEF CacheSpec, ImplementsPolicy, Policy!Spec


------------------------------------------------------------------------------
(* The reduction cache.                                                    *)

(* The running call, between two steps: while it searches, nothing below   *)
(* its position is cached; after that it holds the data of the step above  *)
(* its position, and nothing from there on is cached.                      *)
CallOK ==
  request # None =>
    /\ rit \in 0 .. Target(request)+1
    /\ \A i \in 1 .. Target(request) :
         i > rit \/ (i = rit /\ result # None) => ~contains(StepKey(request, i))
    /\ IF result = None
       THEN rit <= Target(request)
       ELSE rit >= 2 /\ result = Data(request.batch, SubSeq(request.plan, 1, rit-1))

CallInv == TypeOK /\ ListMatchesTable /\ CachedDataIsReduced /\ CallOK

(* What a request refers to.                                               *)
LEMMA RequestFacts ==
  ASSUME NEW r \in Requests
  PROVE  /\ r.batch \in Batches /\ r.plan \in Plans /\ r.plan \in Seq(Steps)
         /\ Len(r.plan) \in Nat \ {0}
         /\ Target(r) \in 1 .. Len(r.plan)
         /\ \A i \in 1 .. Len(r.plan) : StepKey(r, i) \in Keys
<1>1. PICK p \in Plans : r \in [batch : Batches, plan : {p}, level : 0 .. Len(p)-1]
  BY DEF Requests
<1>2. r.batch \in Batches /\ r.plan = p /\ r.level \in 0 .. Len(p)-1
  BY <1>1
<1>3. p \in Seq(Steps) /\ p # <<>>
  BY PlanAssumption
<1>4. Len(p) \in Nat \ {0} /\ \A i \in 1 .. Len(p) : p[i] \in Steps
  BY <1>3, EmptySeq
<1>5. Target(r) \in 1 .. Len(p)
  BY <1>2, <1>4 DEF Target
<1>6. \A i \in 1 .. Len(p) : StepKey(r, i) \in Keys
  BY <1>2, <1>4, KeyAssumption DEF StepKey, Key
<1>7. QED  BY <1>2, <1>3, <1>4, <1>5, <1>6

(* The steps of a plan have keys of their own.                             *)
LEMMA StepKeyDistinct ==
  ASSUME NEW r \in Requests, NEW i \in 1 .. Len(r.plan), NEW j \in 1 .. Len(r.plan),
         StepKey(r, i) = StepKey(r, j)
  PROVE  i = j
<1>1. r.plan[i] = r.plan[j]
  BY DEF StepKey, Key
<1>2. QED  BY <1>1, RequestFacts, PlanAssumption

(* One more step of a plan makes the path to it.                           *)
LEMMA ReducedFurther ==
  ASSUME NEW r \in Requests, NEW i \in 1 .. Len(r.plan)
  PROVE  /\ reduce_data(Data(r.batch, SubSeq(r.plan, 1, i-1)), r.plan[i])
              = Data(r.batch, SubSeq(r.plan, 1, i))
         /\ Data(r.batch, SubSeq(r.plan, 1, i)) \in Values
<1>1. r.batch \in Batches /\ r.plan \in Plans /\ r.plan \in Seq(Steps) /\ Len(r.plan) \in Nat
  BY RequestFacts
<1>2. SubSeq(r.plan, 1, i) = Append(SubSeq(r.plan, 1, i-1), r.plan[i])
  <2>1. 1 \in 1 .. Len(r.plan) /\ i \in 1 .. Len(r.plan) /\ r.plan[i] \in Steps
    BY <1>1
  <2>2. SubSeq(r.plan, 1, i) = SubSeq(r.plan, 1, i-1) \o <<r.plan[i]>>
    BY <1>1, <2>1, SubSeqRecursiveSecond
  <2>3. SubSeq(r.plan, 1, i-1) \in Seq(Steps)
    BY <1>1
  <2>4. QED  BY <2>1, <2>2, <2>3, AppendIsConcat
<1>3. \A b, path, s : reduce_data(Data(b, path), s) = Data(b, Append(path, s))
  <2> TAKE b, path, s
  <2>1. Data(b, path).path = path
    BY DEF Data
  <2>2. reduce_data(Data(b, path), s) = [Data(b, path) EXCEPT !.path = Append(path, s)]
    BY <2>1 DEF reduce_data
  <2> DEFINE new == Append(path, s)
  <2> HIDE DEF new
  <2>3. [Data(b, path) EXCEPT !.path = new] = Data(b, new)
    BY DEF Data
  <2>4. QED  BY <2>2, <2>3 DEF new
<1>4. Data(r.batch, SubSeq(r.plan, 1, i)) \in Values
  BY <1>1, ValueAssumption
<1> DEFINE path == SubSeq(r.plan, 1, i-1)
           longer == SubSeq(r.plan, 1, i)
           step == r.plan[i]
<1> HIDE DEF path, longer, step
<1>5. reduce_data(Data(r.batch, path), step) = Data(r.batch, Append(path, step))
  BY <1>3
<1>6. longer = Append(path, step)
  BY <1>2 DEF path, longer, step
<1>7. reduce_data(Data(r.batch, path), step) = Data(r.batch, longer)
  BY <1>5, <1>6
<1>8. QED  BY <1>4, <1>7 DEF path, longer, step

(* Plans that share a step share the path to it.                           *)
LEMMA SharedPath ==
  ASSUME NEW p \in Plans, NEW q \in Plans, NEW i \in 1 .. Len(p), NEW j \in 1 .. Len(q),
         p[i] = q[j]
  PROVE  i = j /\ SubSeq(p, 1, i) = SubSeq(q, 1, j)
<1>1. p \in Seq(Steps) /\ q \in Seq(Steps)
  BY PlanAssumption
<1>2. i = j /\ \A h \in 1 .. i : p[h] = q[h]
  BY PlanAssumption
<1>3. SubSeq(p, 1, i) = SubSeq(q, 1, i)
  BY <1>1, <1>2
<1>4. QED  BY <1>2, <1>3

(* What emplace does to the table.                                         *)
LEMMA EmplaceFacts ==
  ASSUME CacheInv, NEW k, NEW v, emplace(k, v)
  PROVE  /\ DOMAIN values' \subseteq DOMAIN values \cup {k}
         /\ k \in DOMAIN values' /\ values'[k] = emplaced(k, v)
         /\ \A l \in DOMAIN values' \ {k} : values'[l] = values[l]
<1>1. CASE contains(k)
  BY <1>1 DEF emplace, emplaced, cacheVars, contains
<1>2. CASE ~contains(k)
  <2> DEFINE t == Restricted(values, Kept(Remaining(1)))
  <2>1. values' = [l \in DOMAIN t \cup {k} |-> IF l = k THEN v ELSE values[l]]
    BY <1>2 DEF emplace
  <2>2. Remaining(1) \in 0 .. size
    BY CapacityAssumption DEF CacheInv, CacheTypeOK, size, Remaining, RoomFor
  <2>3. DOMAIN t \subseteq DOMAIN values
    BY <2>2, RestrictedFacts
  <2> HIDE DEF t
  <2>4. QED  BY <1>2, <2>1, <2>3 DEF emplaced
<1>3. QED  BY <1>1, <1>2

LEMMA InitOK == Init => CallInv
<1> SUFFICES ASSUME Init PROVE CallInv
  OBVIOUS
<1>1. access_list = <<>> /\ values = <<>> /\ DOMAIN values = {}
  BY DEF Init, CacheInit
<1>2. CacheTypeOK /\ ListMatchesTable
  BY <1>1, EmptyInv DEF CacheInv
<1>3. TypeOK
  BY <1>2 DEF Init, TypeOK
<1>4. CachedDataIsReduced
  BY <1>1 DEF CachedDataIsReduced
<1>5. CallOK
  BY DEF Init, CallOK
<1>6. QED  BY <1>2, <1>3, <1>4, <1>5 DEF CallInv

(* A call starts below everything it searches.                             *)
LEMMA CallStep ==
  ASSUME CallInv, NEW r \in Requests, Call(r)
  PROVE  CallInv'
<1>1. Target(r) \in Nat
  BY RequestFacts
<1>2. UNCHANGED cacheVars /\ request' = r /\ rit' = Target(r) /\ result' = None /\ answer' = None
  BY DEF Call
<1>3. TypeOK'
  BY <1>1, <1>2 DEF CallInv, TypeOK, CacheTypeOK, cacheVars
<1>4. ListMatchesTable' /\ CachedDataIsReduced'
  BY <1>2 DEF CallInv, ListMatchesTable, CachedDataIsReduced, cacheVars
<1>5. CallOK'
  BY <1>1, <1>2 DEF CallOK
<1>6. QED  BY <1>3, <1>4, <1>5 DEF CallInv

(* A lookup moves up, or has the data of the step above its new position.  *)
LEMMA SearchStep ==
  ASSUME CallInv, Search
  PROVE  CallInv'
<1> DEFINE k == StepKey(request, rit)
           n == Target(request)
<1>1. /\ request \in Requests /\ request # None /\ result = None
      /\ request' = request /\ answer' = answer /\ get(k)
  BY DEF Search, Searching, CallInv, TypeOK
<1>2. /\ n \in 1 .. Len(request.plan) /\ rit \in 1 .. n
      /\ \A i \in 1 .. n : i > rit => ~contains(StepKey(request, i))
  <2>1. n \in 1 .. Len(request.plan)
    BY <1>1, RequestFacts
  <2>2. QED  BY <1>1, <2>1 DEF Search, Searching, CallInv, CallOK
<1>3. rit \in 1 .. Len(request.plan) /\ Len(request.plan) \in Nat /\ n \in Nat /\ k \in Keys
  BY <1>1, <1>2, RequestFacts
<1>4. CacheInv'
  BY <1>1, <1>3, GetInv DEF CallInv, TypeOK, CacheInv
<1>5. values' = values
  BY <1>1 DEF get, cacheVars
<1>6. CachedDataIsReduced'
  BY <1>5 DEF CallInv, CachedDataIsReduced
<1>7. \A i : contains(StepKey(request, i))' <=> contains(StepKey(request, i))
  BY <1>1, <1>5 DEF contains, StepKey, Key
<1> HIDE DEF k, n
<1>8. CASE contains(k)
  <2>1. result' = values[k] /\ rit' = rit+1
    BY <1>8 DEF Search, WalkDown, k
  <2>2. values[k] = Data(request.batch, SubSeq(request.plan, 1, rit))
    <3>1. request.plan \in Plans
      BY <1>1, RequestFacts
    <3>2. k.batch_id = request.batch /\ k.reduction_id = request.plan[rit]
      BY DEF k, StepKey, Key
    <3>3. QED  BY <1>3, <1>8, <3>1, <3>2 DEF CallInv, CachedDataIsReduced, contains
  <2>3. result' \in Values /\ result' # None
    BY <1>8, <2>1, NoneAssumption DEF CallInv, TypeOK, CacheTypeOK, contains
  <2>4. TypeOK'
    BY <1>1, <1>3, <1>4, <2>1, <2>3 DEF CallInv, TypeOK, CacheInv
  <2>5. \A i \in 1 .. n : i >= rit+1 => ~contains(StepKey(request, i))
    BY <1>2, <1>3
  <2>6. CallOK'
    <3>1. rit' \in 0 .. n+1 /\ rit' >= 2 /\ rit'-1 = rit
      BY <1>2, <1>3, <2>1
    <3>2. \A i \in 1 .. n : i > rit' \/ i = rit' => ~contains(StepKey(request, i))'
      BY <1>3, <1>7, <2>1, <2>5
    <3>3. n = Target(request)'
      BY <1>1 DEF n
    <3>4. QED  BY <1>1, <2>1, <2>2, <2>3, <3>1, <3>2, <3>3 DEF CallOK
  <2>7. QED  BY <1>4, <1>6, <2>4, <2>6 DEF CallInv, CacheInv
<1>9. CASE ~contains(k)
  <2>1. result' = None /\ rit' = rit-1
    BY <1>1, <1>9 DEF Search, WalkUp, k
  <2>2. TypeOK'
    BY <1>1, <1>2, <1>3, <1>4, <2>1 DEF CallInv, TypeOK, CacheInv
  <2>3. \A i \in 1 .. n : i > rit-1 => ~contains(StepKey(request, i))
    <3> SUFFICES ASSUME NEW i \in 1 .. n, i > rit-1 PROVE ~contains(StepKey(request, i))
      OBVIOUS
    <3>1. i = rit \/ i > rit
      BY <1>2, <1>3
    <3>2. QED  BY <1>2, <1>9, <3>1 DEF k
  <2>4. CallOK'
    <3>1. rit' \in 0 .. n+1 /\ rit' <= n
      BY <1>2, <1>3, <2>1
    <3>2. \A i \in 1 .. n : i > rit' => ~contains(StepKey(request, i))'
      BY <1>7, <2>1, <2>3
    <3>3. n = Target(request)'
      BY <1>1 DEF n
    <3>4. QED  BY <1>1, <2>1, <3>1, <3>2, <3>3 DEF CallOK
  <2>5. QED  BY <1>4, <1>6, <2>2, <2>4 DEF CallInv, CacheInv
<1>10. QED  BY <1>8, <1>9

(* A reduction gives the data of one more step of the plan.                *)
LEMMA ReduceStep ==
  ASSUME CallInv, Reduce
  PROVE  CallInv'
<1> DEFINE n == Target(request)
           plan == request.plan
           i == IF result = None THEN 1 ELSE rit
           k == StepKey(request, i)
           from == IF result = None THEN Data(request.batch, <<>>) ELSE result
           data == reduce_data(from, plan[i])
<1>1. /\ request \in Requests /\ request # None
      /\ request' = request /\ answer' = answer
  BY DEF Reduce, Reducing, CallInv, TypeOK
<1>2. /\ plan \in Plans /\ plan \in Seq(Steps) /\ Len(plan) \in Nat \ {0}
      /\ n \in 1 .. Len(plan) /\ request.batch \in Batches
  BY <1>1, RequestFacts
<1>3. /\ rit \in 0 .. n+1
      /\ \A j \in 1 .. n :
           j > rit \/ (j = rit /\ result # None) => ~contains(StepKey(request, j))
      /\ result # None => rit >= 2 /\ result = Data(request.batch, SubSeq(plan, 1, rit-1))
  BY <1>1 DEF CallInv, CallOK
<1>4. result = None => rit = 0
  BY <1>1, <1>2, <1>3 DEF Reduce, Reducing, Searching
<1>5. result # None => rit <= n
  BY DEF Reduce, Reducing
<1>6. i \in 1 .. n /\ i \in 1 .. Len(plan)
  BY <1>2, <1>3, <1>5
<1>7. from = Data(request.batch, SubSeq(plan, 1, i-1))
  <2>1. CASE result = None
    <3>1. SubSeq(plan, 1, 0) = <<>>
      BY SubSeqEmpty
    <3>2. i-1 = 0 /\ from = Data(request.batch, <<>>)
      BY <2>1
    <3>3. QED  BY <3>1, <3>2
  <2>2. CASE result # None
    BY <1>3, <2>2
  <2>3. QED  BY <2>1, <2>2
<1>8. data = Data(request.batch, SubSeq(plan, 1, i)) /\ data \in Values
  BY <1>1, <1>6, <1>7, ReducedFurther
<1>9. emplace(k, data) /\ result' = emplaced(k, data) /\ rit' = i+1
  BY DEF Reduce, WalkDown
<1>10. k \in Keys /\ k.batch_id = request.batch /\ k.reduction_id = plan[i]
  <2>1. k \in Keys
    BY <1>1, <1>6, RequestFacts
  <2>2. QED  BY <2>1 DEF StepKey, Key
<1>11. CacheInv
  BY DEF CallInv, TypeOK, CacheInv
<1> HIDE DEF n, i, k, from, data, plan
<1>12. CacheInv'
  BY <1>8, <1>9, <1>10, <1>11, EmplaceInv
<1>13. /\ DOMAIN values' \subseteq DOMAIN values \cup {k}
       /\ k \in DOMAIN values' /\ values'[k] = emplaced(k, data)
       /\ \A l \in DOMAIN values' \ {k} : values'[l] = values[l]
  BY <1>9, <1>11, EmplaceFacts
<1>14. emplaced(k, data) = data
  BY <1>2, <1>6, <1>8, <1>10 DEF emplaced, contains, CallInv, CachedDataIsReduced
<1>15. CachedDataIsReduced'
  <2> SUFFICES ASSUME NEW l \in DOMAIN values', NEW q \in Plans, NEW j \in 1 .. Len(q),
                      q[j] = l.reduction_id
               PROVE  values'[l] = Data(l.batch_id, SubSeq(q, 1, j))
    BY DEF CachedDataIsReduced
  <2>1. CASE l = k
    <3>1. SubSeq(plan, 1, i) = SubSeq(q, 1, j)
      BY <1>2, <1>6, <1>10, <2>1, SharedPath
    <3>2. QED  BY <1>8, <1>10, <1>13, <1>14, <2>1, <3>1
  <2>2. CASE l # k
    BY <1>13, <2>2 DEF CallInv, CachedDataIsReduced
  <2>3. QED  BY <2>1, <2>2
<1>16. result' = data /\ result' # None
  BY <1>8, <1>9, <1>14, NoneAssumption
<1>17. TypeOK'
  BY <1>1, <1>2, <1>6, <1>8, <1>9, <1>12, <1>16 DEF CallInv, TypeOK, CacheInv
<1>18. CallOK'
  <2>1. n = Target(request)' /\ plan = request.plan' /\ n \in Nat
    BY <1>1, <1>2 DEF n, plan
  <2>2. rit' \in 0 .. n+1 /\ rit' >= 2 /\ rit'-1 = i
    BY <1>6, <1>9, <2>1
  <2>3. \A j \in 1 .. n : j > rit' \/ j = rit' => ~contains(StepKey(request, j))'
    <3> SUFFICES ASSUME NEW j \in 1 .. n, j >= i+1
                 PROVE  ~contains(StepKey(request, j))'
      BY <1>6, <1>9, <2>1
    <3>1. j > rit \/ (j = rit /\ result # None)
      BY <1>3, <1>4, <1>6, <2>1 DEF i
    <3>2. StepKey(request, j) \notin DOMAIN values
      BY <1>3, <3>1 DEF contains
    <3>3. StepKey(request, j) # k
      <4>1. j \in 1 .. Len(request.plan) /\ i \in 1 .. Len(request.plan) /\ i # j
        BY <1>2, <1>6, <2>1 DEF plan
      <4>2. QED  BY <1>1, <4>1, StepKeyDistinct DEF k
    <3>4. StepKey(request, j)' = StepKey(request, j)
      BY <1>1 DEF StepKey, Key
    <3>5. QED  BY <1>13, <3>2, <3>3, <3>4 DEF contains
  <2>4. result' = Data(request.batch, SubSeq(request.plan, 1, rit-1))'
    BY <1>1, <1>8, <1>16, <2>1, <2>2 DEF Data, plan
  <2>5. QED  BY <1>1, <1>16, <2>1, <2>2, <2>3, <2>4 DEF CallOK
<1>19. QED  BY <1>12, <1>15, <1>17, <1>18 DEF CallInv, CacheInv

(* What is returned is the data at the level that was asked for.           *)
LEMMA ReturnStep ==
  ASSUME CallInv, Return
  PROVE  CallInv' /\ answer' = Fresh(request)
<1> DEFINE n == Target(request)
<1>1. /\ request \in Requests /\ request # None
      /\ request' = None /\ answer' = result /\ rit' = 0 /\ result' = None
      /\ UNCHANGED cacheVars
  BY DEF Return, CallInv, TypeOK
<1>2. n \in Nat
  BY <1>1, RequestFacts
<1>3. result # None /\ rit = n+1
  BY <1>1, <1>2 DEF Return, Reducing, Searching, CallInv, CallOK
<1>4. result = Data(request.batch, SubSeq(request.plan, 1, n))
  <2>1. rit-1 = n
    BY <1>2, <1>3
  <2>2. QED  BY <1>1, <1>3, <2>1 DEF CallInv, CallOK
<1>5. TypeOK'
  BY <1>1 DEF CallInv, TypeOK, CacheTypeOK, cacheVars
<1>6. ListMatchesTable' /\ CachedDataIsReduced' /\ CallOK'
  BY <1>1 DEF CallInv, ListMatchesTable, CachedDataIsReduced, CallOK, cacheVars
<1>7. QED  BY <1>1, <1>4, <1>5, <1>6 DEF CallInv, Fresh, Target

LEMMA StepOK == CallInv /\ [Next]_vars => CallInv'
<1> SUFFICES ASSUME CallInv, [Next]_vars PROVE CallInv'
  OBVIOUS
<1>1. CASE UNCHANGED vars
  BY <1>1 DEF vars, cacheVars, requestVars, CallInv, TypeOK, CacheTypeOK,
     ListMatchesTable, CachedDataIsReduced, CallOK, contains
<1>2. CASE \E r \in Requests : Call(r)
  BY <1>2, CallStep
<1>3. CASE Search
  BY <1>3, SearchStep
<1>4. CASE Reduce
  BY <1>4, ReduceStep
<1>5. CASE Return
  BY <1>5, ReturnStep
<1>6. QED  BY <1>1, <1>2, <1>3, <1>4, <1>5 DEF Next

(* Whatever is asked in whatever order, and whatever is evicted, cached    *)
(* data is the batch reduced along the path of its step.                   *)
THEOREM CachedDataCorrect == Spec => [](TypeOK /\ CachedDataIsReduced)
<1>1. CallInv => TypeOK /\ CachedDataIsReduced
  BY DEF CallInv
<1>2. QED  BY <1>1, InitOK, StepOK, PTL DEF Spec

(* No call reduces data that is cached.                                    *)
THEOREM NothingIsReducedTwice == Spec => []NothingReducedTwice
<1>1. CallInv => NothingReducedTwice
  <2> SUFFICES ASSUME CallInv, request # None, result # None,
                      NEW i \in rit .. Target(request)
               PROVE  ~contains(StepKey(request, i))
    BY DEF NothingReducedTwice
  <2>1. request \in Requests
    BY DEF CallInv, TypeOK
  <2>2. Target(request) \in Nat /\ rit \in Nat /\ rit >= 2
    BY <2>1, RequestFacts DEF CallInv, CallOK, TypeOK
  <2>3. i \in 1 .. Target(request) /\ (i > rit \/ i = rit)
    BY <2>2
  <2>4. QED  BY <2>3 DEF CallInv, CallOK
<1>2. QED  BY <1>1, InitOK, StepOK, PTL DEF Spec

(* The cache implements the oracle: every call returns what a fresh        *)
(* reduction of its batch to its level would give.                         *)
THEOREM AnswersLikeFresh == Spec => ImplementsOracle
<1>1. Init => Oracle!Init
  BY DEF Init, Oracle!Init
<1>2. CallInv /\ [Next]_vars => [Oracle!Next]_Oracle!vars
  <2> SUFFICES ASSUME CallInv, [Next]_vars
               PROVE  Oracle!Next \/ UNCHANGED Oracle!vars
    OBVIOUS
  <2>1. CASE UNCHANGED vars
    BY <2>1 DEF vars, requestVars, Oracle!vars
  <2>2. CASE \E r \in Requests : Call(r)
    BY <2>2 DEF Call, Oracle!Next, Oracle!Ask
  <2>3. CASE Search
    BY <2>3 DEF Search, Oracle!vars
  <2>4. CASE Reduce
    BY <2>4 DEF Reduce, Oracle!vars
  <2>5. CASE Return
    <3>1. answer' = Fresh(request)
      BY <2>5, ReturnStep
    <3>2. QED  BY <2>5, <3>1 DEF Return, Oracle!Next, Oracle!Answer
  <2>6. QED  BY <2>1, <2>2, <2>3, <2>4, <2>5 DEF Next
<1>3. QED  BY <1>1, <1>2, InitOK, StepOK, PTL DEF Spec, Oracle!Spec, ImplementsOracle
==============================================================================
