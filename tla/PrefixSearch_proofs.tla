------------------------- MODULE PrefixSearch_proofs -------------------------
(***************************************************************************)
(* What a prefix join finds, for every dataset, similarity and set of      *)
(* frequent tokens: similar sets only, and all of them but longer ones     *)
(* that several edits of several tokens can make, and unsorted ones that a *)
(* presorted join indexed.  Similar sets meet in a token of both their     *)
(* prefixes, at a position where the sizes that are looked up include that *)
(* of the other set.                                                       *)
(***************************************************************************)
EXTENDS PrefixSearch, PallocJoin_proofs

(* Sorting by the number of smaller tokens.                                *)
LEMMA AscendSorts ==
  ASSUME NEW T, T \subseteq Int, IsFiniteSet(T), NEW s, s = Ascend(T)
  PROVE  /\ s \in Seq(Int) /\ Sorted(s) /\ Len(s) = Cardinality(T) /\ Range(s) = T
<1> DEFINE n == Cardinality(T)
           Below(t) == {u \in T : u < t}
           rank == [t \in T |-> Cardinality(Below(t)) + 1]
<1>1. n \in Nat
  BY FS_CardinalityType
<1>2. ASSUME NEW t \in T
      PROVE  /\ IsFiniteSet(Below(t)) /\ Cardinality(Below(t)) \in Nat
             /\ Cardinality(Below(t)) < n
  <2>1. Below(t) \in SUBSET T /\ Below(t) # T
    OBVIOUS
  <2> HIDE DEF Below
  <2>2. IsFiniteSet(Below(t)) /\ Cardinality(Below(t)) <= n /\ Cardinality(Below(t)) # n
    BY <2>1, FS_Subset
  <2>3. Cardinality(Below(t)) \in Nat
    BY <2>2, FS_CardinalityType
  <2> QED  BY <1>1, <2>2, <2>3
<1>3. ASSUME NEW t \in T, NEW u \in T, t < u
      PROVE  Cardinality(Below(t)) < Cardinality(Below(u))
  <2>1. Below(t) \in SUBSET Below(u) /\ t \in Below(u) /\ t \notin Below(t)
    <3>1. \A v \in T : v < t => v < u
      BY <1>3
    <3>2. ~(t < t)
      OBVIOUS
    <3> QED  BY <1>3, <3>1, <3>2
  <2>2. IsFiniteSet(Below(u)) /\ Cardinality(Below(u)) \in Nat /\ Cardinality(Below(t)) \in Nat
    BY <1>2
  <2> HIDE DEF Below
  <2>3. Cardinality(Below(t)) <= Cardinality(Below(u)) /\ Below(t) # Below(u)
    BY <2>1, <2>2, FS_Subset
  <2>4. Cardinality(Below(t)) # Cardinality(Below(u))
    BY <2>1, <2>2, <2>3, FS_Subset
  <2> QED  BY <2>2, <2>3, <2>4
<1>4. rank \in [T -> 1 .. n]
  <2>1. ASSUME NEW t \in T PROVE Cardinality(Below(t)) + 1 \in 1 .. n
    <3>1. Cardinality(Below(t)) \in Nat /\ Cardinality(Below(t)) < n
      BY <1>2
    <3> HIDE DEF n, Below
    <3> QED  BY <1>1, <3>1
  <2> QED  BY <2>1
<1>5. \A t, u \in T : t < u => rank[t] < rank[u]
  <2> TAKE t, u \in T
  <2> HAVE t < u
  <2>1. Cardinality(Below(t)) < Cardinality(Below(u))
    BY <1>3
  <2>2. Cardinality(Below(t)) \in Nat /\ Cardinality(Below(u)) \in Nat
    BY <1>2
  <2>3. rank[t] = Cardinality(Below(t)) + 1 /\ rank[u] = Cardinality(Below(u)) + 1
    OBVIOUS
  <2> HIDE DEF Below, rank
  <2> QED  BY <2>1, <2>2, <2>3
<1>6. \A t \in T : \A m \in Int : Cardinality({u \in T : u < t}) = m - 1 <=> rank[t] = m
  <2> TAKE t \in T
  <2> TAKE m \in Int
  <2>1. Cardinality(Below(t)) \in Nat /\ rank[t] = Cardinality(Below(t)) + 1
    BY <1>2
  <2> HIDE DEF rank
  <2> QED  BY <2>1
<1> HIDE DEF rank
<1>7. rank \in Surjection(T, 1 .. n)
  <2>1. \A t, u \in T : rank[t] = rank[u] => t = u
    <3> TAKE t, u \in T
    <3>1. rank[t] \in Int /\ rank[u] \in Int /\ t \in Int /\ u \in Int
      BY <1>4
    <3> QED  BY <1>5, <3>1
  <2>2. rank \in Injection(T, 1 .. n)
    BY <1>4, <2>1 DEF Injection, IsInjective
  <2>3. IsFiniteSet(1 .. n) /\ Cardinality(1 .. n) = n
    <3> HIDE DEF n
    <3>1. 1 \in Int /\ n \in Int /\ (IF 1 > n THEN 0 ELSE n - 1 + 1) = n
      BY <1>1
    <3> QED  BY <3>1, FS_Interval
  <2> QED  BY <2>2, <2>3, FS_Injection
<1>8. \A m \in 1 .. n : \E t \in T : rank[t] = m
  BY <1>7 DEF Surjection
<1>9. s = [m \in 1 .. n |-> CHOOSE t \in T : Cardinality({u \in T : u < t}) = m - 1]
  BY DEF Ascend
<1>10. ASSUME NEW m \in 1 .. n PROVE s[m] \in T /\ rank[s[m]] = m
  <2>1. s[m] = CHOOSE t \in T : Cardinality({u \in T : u < t}) = m - 1
    BY <1>9
  <2>2. \E t \in T : Cardinality({u \in T : u < t}) = m - 1
    BY <1>6, <1>8
  <2>3. s[m] \in T /\ Cardinality({u \in T : u < s[m]}) = m - 1
    BY <2>1, <2>2
  <2>4. m \in Int
    BY <1>1
  <2> QED  BY <1>6, <2>3, <2>4
<1> HIDE DEF n
<1>11. s \in Seq(Int) /\ Len(s) = n /\ DOMAIN s = 1 .. n
  <2>1. s \in [1 .. n -> Int]
    BY <1>9, <1>10
  <2> QED  BY <1>1, <2>1, LenProperties
<1>12. Sorted(s)
  <2> SUFFICES ASSUME NEW i \in 1 .. n, NEW j \in 1 .. n, i < j PROVE s[i] < s[j]
    BY <1>11 DEF Sorted
  <2>1. s[i] \in T /\ s[j] \in T /\ rank[s[i]] = i /\ rank[s[j]] = j /\ s[i] \in Int /\ s[j] \in Int
    BY <1>10
  <2>2. ~(s[j] < s[i]) /\ s[i] # s[j]
    BY <1>5, <2>1
  <2> QED  BY <2>1, <2>2
<1>13. Range(s) = T
  <2>1. Range(s) = {s[m] : m \in 1 .. n}
    BY <1>11 DEF Range
  <2>2. ASSUME NEW t \in T PROVE \E m \in 1 .. n : s[m] = t
    <3>1. rank[t] \in 1 .. n
      BY <1>4
    <3>2. s[rank[t]] \in T /\ rank[s[rank[t]]] = rank[t]
      BY <1>10, <3>1
    <3>3. s[rank[t]] = t
      <4>1. s[rank[t]] \in Int /\ t \in Int /\ rank[t] \in Int
        <5>1. rank[t] \in Int
          BY <1>1, <3>1 DEF n
        <5> QED  BY <3>2, <5>1
      <4> QED  BY <1>5, <3>2, <4>1
    <3> QED  BY <3>1, <3>3
  <2>3. Range(s) \subseteq T
    BY <1>10, <2>1
  <2>4. T \subseteq Range(s)
    BY <2>1, <2>2
  <2> QED  BY <2>3, <2>4
<1> QED  BY <1>11, <1>12, <1>13 DEF n

(* Images under a mapping of tokens that keeps them apart.                 *)
LEMMA ImageCounted ==
  ASSUME NEW A, NEW f, \A t, u \in A : f[t] = f[u] => t = u, IsFiniteSet(A),
         NEW B, B = {f[t] : t \in A}
  PROVE  IsFiniteSet(B) /\ Cardinality(B) = Cardinality(A)
<1> DEFINE g == [t \in A |-> f[t]]
<1>1. g \in [A -> B] /\ \A t, u \in A : g[t] = g[u] => t = u
  OBVIOUS
<1>2. \A b \in B : \E t \in A : g[t] = b
  OBVIOUS
<1> HIDE DEF g
<1>3. g \in Bijection(A, B)
  BY <1>1, <1>2 DEF Bijection, Injection, Surjection, IsInjective
<1>4. ExistsBijection(A, B)
  BY <1>3 DEF ExistsBijection
<1> QED  BY <1>4, FS_Bijection

(* Similarity does not depend on what the tokens are.                      *)
LEMMA SimilarImages ==
  ASSUME NEW m, IsSimilarity(m), NEW A, NEW B, IsFiniteSet(A), IsFiniteSet(B),
         NEW f, \A t, u \in A \cup B : f[t] = f[u] => t = u,
         NEW A2, A2 = {f[t] : t \in A}, NEW B2, B2 = {f[t] : t \in B}
  PROVE  Similar(m, A2, B2) <=> Similar(m, A, B)
<1> DEFINE C == A \cap B
<1>1. A2 \cap B2 = {f[t] : t \in C}
  OBVIOUS
<1>2. IsFiniteSet(A2) /\ Cardinality(A2) = Cardinality(A)
  BY ImageCounted
<1>3. IsFiniteSet(B2) /\ Cardinality(B2) = Cardinality(B)
  BY ImageCounted
<1>4. Cardinality(A2 \cap B2) = Cardinality(C)
  <2>1. C \in SUBSET A /\ \A t, u \in C : f[t] = f[u] => t = u
    OBVIOUS
  <2> HIDE DEF C
  <2>2. IsFiniteSet(C)
    BY <2>1, FS_Subset
  <2>3. PICK E : E = A2 \cap B2
    OBVIOUS
  <2>4. E = {f[t] : t \in C}
    BY <1>1, <2>3
  <2>5. PICK F : F = C
    OBVIOUS
  <2>6. Cardinality(E) = Cardinality(F)
    <3>1. E = {f[t] : t \in F} /\ IsFiniteSet(F) /\ \A t, u \in F : f[t] = f[u] => t = u
      BY <2>1, <2>2, <2>4, <2>5
    <3> QED  BY <3>1, ImageCounted
  <2> QED  BY <2>3, <2>5, <2>6
<1>5. /\ Cardinality(A2 \cup B2) = Cardinality(A \cup B)
      /\ Cardinality((A2 \ B2) \cup (B2 \ A2)) = Cardinality((A \ B) \cup (B \ A))
  <2>1. /\ Cardinality(A \cup B) = Cardinality(A) + Cardinality(B) - Cardinality(A \cap B)
        /\ Cardinality((A \ B) \cup (B \ A)) =
             Cardinality(A) + Cardinality(B) - 2 * Cardinality(A \cap B)
    BY SetsCounted
  <2>2. /\ Cardinality(A2 \cup B2) = Cardinality(A2) + Cardinality(B2) - Cardinality(A2 \cap B2)
        /\ Cardinality((A2 \ B2) \cup (B2 \ A2)) =
             Cardinality(A2) + Cardinality(B2) - 2 * Cardinality(A2 \cap B2)
    BY <1>2, <1>3, SetsCounted
  <2> QED  BY <1>2, <1>3, <1>4, <2>1, <2>2
<1> QED  BY <1>2, <1>3, <1>4, <1>5 DEF Similar, IsSimilarity

------------------------------------------------------------------------------
(* Converted sets: frequent tokens are apart from each other and from all  *)
(* others, so a set keeps its size and what it shares with another.        *)
LEMMA TokensOf ==
  ASSUME setting \in Settings, NEW r \in 1 .. Len(setting.data)
  PROVE  /\ tokens(r) \in Seq(Int) /\ NoTokenTwice(tokens(r)) /\ Len(tokens(r)) = size(r)
         /\ size(r) \in Nat /\ TokenSet(r) = Range(tokens(r)) /\ TokenSet(r) \subseteq Int
         /\ IsFiniteSet(TokenSet(r)) /\ Cardinality(TokenSet(r)) = size(r)
         /\ \A t \in TokenSet(r) : t + Len(setting.heavy) <= MaxToken
<1>1. /\ setting.data \in Seq(Seq(Int))
      /\ \A i, j \in 1 .. Len(setting.data[r]) :
           setting.data[r][i] = setting.data[r][j] => i = j
  BY DatasetAssumption
<1>2. tokens(r) \in Seq(Int) /\ NoTokenTwice(tokens(r)) /\ Len(tokens(r)) = size(r)
  BY <1>1, ElementOfSeq DEF tokens, NoTokenTwice, size
<1>3. size(r) \in Nat /\ Range(tokens(r)) = {tokens(r)[i] : i \in 1 .. size(r)}
  BY <1>2, RangeFacts
<1>4. \A i \in 1 .. size(r) : tokens(r)[i] \in Int
  BY <1>2, ElementOfSeq
<1>5. \A i \in 1 .. size(r) : tokens(r)[i] + Len(setting.heavy) <= MaxToken
  BY <1>2, PrefixSearchAssumption DEF tokens
<1> QED  BY <1>2, <1>3, <1>4, <1>5, TokensCounted DEF TokenSet

LEMMA ConvertedToken ==
  ASSUME setting \in Settings, NEW t \in Int, t + Len(setting.heavy) <= MaxToken
  PROVE  /\ convert(t) \in Int
         /\ \/ convert(t) = t /\ t <= MaxToken - Len(setting.heavy)
            \/ \E n \in 1 .. Len(setting.heavy) :
                 setting.heavy[n] = t /\ convert(t) = MaxToken + 1 - n
<1>1. MaxToken \in Nat /\ setting.heavy \in Seq(Int)
  BY PrefixSearchAssumption
<1>2. Len(setting.heavy) \in Nat /\ DOMAIN setting.heavy = 1 .. Len(setting.heavy)
  BY <1>1, LenProperties
<1>3. CASE \E n \in DOMAIN setting.heavy : setting.heavy[n] = t
  <2> DEFINE k == CHOOSE n \in DOMAIN setting.heavy : setting.heavy[n] = t
  <2>1. k \in 1 .. Len(setting.heavy) /\ setting.heavy[k] = t
    BY <1>2, <1>3
  <2>2. convert(t) = MaxToken + 1 - k
    BY <1>3 DEF convert
  <2> HIDE DEF k
  <2> QED  BY <1>1, <1>2, <2>1, <2>2
<1>4. CASE ~ \E n \in DOMAIN setting.heavy : setting.heavy[n] = t
  <2>1. convert(t) = t
    BY <1>4 DEF convert
  <2> QED  BY <1>1, <1>2, <2>1
<1> QED  BY <1>3, <1>4

LEMMA ConvertKeepsApart ==
  ASSUME setting \in Settings, NEW t \in Int, t + Len(setting.heavy) <= MaxToken,
         NEW u \in Int, u + Len(setting.heavy) <= MaxToken, convert(t) = convert(u)
  PROVE  t = u
<1>1. MaxToken \in Nat /\ Len(setting.heavy) \in Nat
  BY PrefixSearchAssumption, LenProperties
<1>2. CASE convert(t) = t /\ t <= MaxToken - Len(setting.heavy)
  <2>1. \A n \in 1 .. Len(setting.heavy) : convert(u) # MaxToken + 1 - n
    BY <1>1, <1>2
  <2> QED  BY <1>2, <2>1, ConvertedToken
<1>3. CASE \E n \in 1 .. Len(setting.heavy) :
             setting.heavy[n] = t /\ convert(t) = MaxToken + 1 - n
  <2>1. PICK n \in 1 .. Len(setting.heavy) :
          setting.heavy[n] = t /\ convert(t) = MaxToken + 1 - n
    BY <1>3
  <2>2. ~(convert(u) = u /\ u <= MaxToken - Len(setting.heavy))
    BY <1>1, <2>1
  <2>3. PICK k \in 1 .. Len(setting.heavy) :
          setting.heavy[k] = u /\ convert(u) = MaxToken + 1 - k
    BY <2>2, ConvertedToken
  <2>4. k = n
    <3>1. MaxToken + 1 - k = MaxToken + 1 - n
      BY <2>1, <2>3
    <3>2. k \in Int /\ n \in Int
      OBVIOUS
    <3> QED  BY <1>1, <3>1, <3>2
  <2> QED  BY <2>1, <2>3, <2>4
<1> QED  BY <1>2, <1>3, ConvertedToken

LEMMA ConvertedFacts ==
  ASSUME setting \in Settings, NEW r \in 1 .. Len(setting.data)
  PROVE  /\ converted(r) \in Seq(Int) /\ Sorted(converted(r)) /\ NoTokenTwice(converted(r))
         /\ Len(converted(r)) = size(r)
         /\ Range(converted(r)) = {convert(t) : t \in TokenSet(r)}
<1> DEFINE f == [t \in Int |-> convert(t)]
           T == {convert(t) : t \in TokenSet(r)}
<1>1. /\ TokenSet(r) \subseteq Int /\ IsFiniteSet(TokenSet(r))
      /\ Cardinality(TokenSet(r)) = size(r)
      /\ \A t \in TokenSet(r) : t + Len(setting.heavy) <= MaxToken
  BY TokensOf
<1>2. T = {f[t] : t \in TokenSet(r)} /\ T \subseteq Int
  BY <1>1, ConvertedToken
<1>3. \A t, u \in TokenSet(r) : f[t] = f[u] => t = u
  BY <1>1, ConvertKeepsApart
<1>4. converted(r) = Ascend(T)
  BY DEF converted
<1> HIDE DEF f, T
<1>5. IsFiniteSet(T) /\ Cardinality(T) = size(r)
  BY <1>1, <1>2, <1>3, ImageCounted
<1>6. /\ converted(r) \in Seq(Int) /\ Sorted(converted(r)) /\ Len(converted(r)) = size(r)
      /\ Range(converted(r)) = T
  BY <1>2, <1>4, <1>5, AscendSorts
<1> QED  BY <1>6, SortedFacts DEF T

LEMMA ConvertedSimilar ==
  ASSUME setting \in Settings, NEW r \in 1 .. Len(setting.data), NEW q \in 1 .. Len(setting.data)
  PROVE  Similar(sim, Range(converted(r)), Range(converted(q)))
           <=> Similar(sim, TokenSet(r), TokenSet(q))
<1> DEFINE f == [t \in Int |-> convert(t)]
           A == TokenSet(r)
           B == TokenSet(q)
           A2 == {convert(t) : t \in A}
           B2 == {convert(t) : t \in B}
<1>1. /\ A \subseteq Int /\ B \subseteq Int /\ IsFiniteSet(A) /\ IsFiniteSet(B)
      /\ \A t \in A \cup B : t + Len(setting.heavy) <= MaxToken
  BY TokensOf
<1>2. A2 = {f[t] : t \in A} /\ B2 = {f[t] : t \in B}
  BY <1>1
<1>3. \A t, u \in A \cup B : f[t] = f[u] => t = u
  BY <1>1, ConvertKeepsApart
<1>4. Range(converted(r)) = A2 /\ Range(converted(q)) = B2
  BY ConvertedFacts
<1>5. PICK m : m = sim
  OBVIOUS
<1>6. IsSimilarity(m)
  BY <1>5, SetAssumption DEF sim
<1> HIDE DEF f, A, B, A2, B2
<1>7. Similar(m, A2, B2) <=> Similar(m, A, B)
  <2>1. PICK C, D, C2, D2, g : C = A /\ D = B /\ C2 = A2 /\ D2 = B2 /\ g = f
    OBVIOUS
  <2>2. /\ IsFiniteSet(C) /\ IsFiniteSet(D) /\ \A t, u \in C \cup D : g[t] = g[u] => t = u
        /\ C2 = {g[t] : t \in C} /\ D2 = {g[t] : t \in D}
    BY <1>1, <1>2, <1>3, <2>1
  <2>3. Similar(m, C2, D2) <=> Similar(m, C, D)
    BY <1>6, <2>2, SimilarImages
  <2> QED  BY <2>1, <2>3
<1> QED  BY <1>4, <1>5, <1>7 DEF A, B

(* With PRESORTED no token is replaced, and sets are indexed as they are.   *)
LEMMA PreprocessedFacts ==
  ASSUME setting \in Settings, NEW r \in 1 .. Len(setting.data)
  PROVE  /\ preprocessed(r) \in Seq(Int) /\ NoTokenTwice(preprocessed(r))
         /\ Len(preprocessed(r)) = size(r)
         /\ Range(preprocessed(r)) = Range(converted(r))
         /\ Sorted(preprocessed(r)) \/ (setting.PRESORTED /\ ~Sorted(tokens(r)))
<1>1. CASE setting.PRESORTED
  <2>1. preprocessed(r) = tokens(r) /\ setting.heavy = <<>>
    BY <1>1, PrefixSearchAssumption DEF preprocessed
  <2>2. \A t : convert(t) = t
    <3>1. DOMAIN setting.heavy = {}
      BY <2>1
    <3> QED  BY <3>1 DEF convert
  <2>3. Range(converted(r)) = TokenSet(r)
    BY <2>2, ConvertedFacts
  <2> QED  BY <1>1, <2>1, <2>3, TokensOf
<1>2. CASE ~setting.PRESORTED
  BY <1>2, ConvertedFacts DEF preprocessed
<1> QED  BY <1>1, <1>2

LEMMA ProbingFacts ==
  ASSUME setting \in Settings, probe \in 1 .. Len(setting.data)
  PROVE  /\ probing_set \in Seq(Int) /\ NoTokenTwice(probing_set)
         /\ Len(probing_set) = size(probe)
         /\ Range(probing_set) = Range(converted(probe))
         /\ \/ Sorted(probing_set)
            \/ setting.PRESORTED /\ literally_selfjoin /\ ~Sorted(tokens(probe))
<1>1. CASE literally_selfjoin
  BY <1>1, PreprocessedFacts DEF probing_set
<1>2. CASE ~literally_selfjoin
  BY <1>2, ConvertedFacts DEF probing_set
<1> QED  BY <1>1, <1>2

LEMMA PreparedSimilar ==
  ASSUME setting \in Settings, probe \in 1 .. Len(setting.data), NEW r \in 1 .. Len(setting.data)
  PROVE  Similar(sim, Range(preprocessed(r)), Range(probing_set))
           <=> Similar(sim, TokenSet(r), TokenSet(probe))
<1>1. PICK R, S : R = Range(converted(r)) /\ S = Range(converted(probe))
  OBVIOUS
<1>2. Range(preprocessed(r)) = R /\ Range(probing_set) = S
  BY <1>1, PreprocessedFacts, ProbingFacts
<1>3. Similar(sim, R, S) <=> Similar(sim, TokenSet(r), TokenSet(probe))
  BY <1>1, ConvertedSimilar
<1> QED  BY <1>2, <1>3

------------------------------------------------------------------------------
(* Similar sets meet in their prefixes.                                    *)
LEMMA CeilAtMost ==
  ASSUME NEW a \in Int, NEW d \in Nat \ {0}, NEW b \in Int, a <= d * b
  PROVE  ceil(a, d) \in Int /\ ceil(a, d) <= b
<1> DEFINE c == ceil(a, d)
<1>1. c \in Int /\ d * c < a + d
  BY DivisionRounds
<1> HIDE DEF c
<1>2. d * c \in Int /\ d * b \in Int
  BY <1>1
<1>3. d * c < d * b + d
  BY <1>1, <1>2
<1> QED  BY <1>1, <1>3, Cancels DEF c

LEMMA FloorAtLeast ==
  ASSUME NEW a \in Int, NEW d \in Nat \ {0}, NEW b \in Int, d * b <= a
  PROVE  floor(a, d) \in Int /\ b <= floor(a, d)
<1> DEFINE c == a \div d
<1>1. c \in Int /\ a < d * c + d
  BY DivisionRounds
<1> HIDE DEF c
<1>2. d * c \in Int /\ d * b \in Int
  BY <1>1
<1>3. d * b < d * c + d
  BY <1>1, <1>2
<1> QED  BY <1>1, <1>3, Cancels DEF c, floor

LEMMA SimilarTurned ==
  ASSUME NEW m, IsSimilarity(m), NEW R, NEW S, IsFiniteSet(R), IsFiniteSet(S), Similar(m, R, S)
  PROVE  Similar(m, S, R)
<1> DEFINE nr == Cardinality(R)
           ns == Cardinality(S)
           both == Cardinality(R \cap S)
<1>1. nr \in Nat /\ ns \in Nat /\ both \in Nat
  BY SetsCounted
<1>2. S \cap R = R \cap S /\ S \cup R = R \cup S /\ (S \ R) \cup (R \ S) = (R \ S) \cup (S \ R)
  OBVIOUS
<1>3. greater(ns, nr) = greater(nr, ns) /\ lesser(ns, nr) = lesser(nr, ns)
  BY <1>1 DEF greater, lesser
<1>4. CASE IsJaro(m)
  <2> DEFINE a == m.num
             d == m.den
  <2>1. a \in Nat /\ d \in Nat
    BY <1>4 DEF IsJaro
  <2>2. d * (both * (nr + ns) + nr * ns) >= 3 * a * nr * ns
    BY <1>4 DEF Similar, IsJaro
  <2> HIDE DEF nr, ns, both, a, d
  <2>3. nr * ns = ns * nr /\ nr + ns = ns + nr /\ 3 * a * nr * ns = 3 * a * ns * nr
    BY <1>1, <2>1
  <2>4. d * (both * (ns + nr) + ns * nr) >= 3 * a * ns * nr
    BY <2>2, <2>3
  <2> QED  BY <1>2, <1>4, <2>4 DEF Similar, IsJaro, nr, ns, both, a, d
<1>5. CASE ~IsJaro(m)
  <2>1. m.kind # "jaro_overlap"
    BY <1>5 DEF IsSimilarity, IsJaro
  <2> HIDE DEF nr, ns, both
  <2> QED  BY <1>2, <1>3, <2>1 DEF Similar, IsSimilarity, nr, ns, both
<1> QED  BY <1>4, <1>5

LEMMA FirstCommon ==
  ASSUME NEW x \in Seq(Int), NEW y \in Seq(Int), Sorted(x), Sorted(y),
         Range(x) \cap Range(y) # {}
  PROVE  \E i \in 1 .. Len(x), j \in 1 .. Len(y) :
           /\ x[i] = y[j]
           /\ Cardinality(Range(x) \cap Range(y)) <= Len(x) - i + 1
           /\ Cardinality(Range(x) \cap Range(y)) <= Len(y) - j + 1
<1>1. /\ Len(x) \in Nat /\ Len(y) \in Nat
      /\ Range(x) = {x[i] : i \in 1 .. Len(x)} /\ Range(y) = {y[j] : j \in 1 .. Len(y)}
      /\ \A i \in 1 .. Len(x) : x[i] \in Int
      /\ \A j \in 1 .. Len(y) : y[j] \in Int
  BY RangeFacts, ElementOfSeq
<1> DEFINE I == {i \in 1 .. Len(x) : \E j \in 1 .. Len(y) : x[i] = y[j]}
<1>2. I \subseteq Nat /\ I # {}
  <2>1. PICK t : t \in Range(x) /\ t \in Range(y)
    OBVIOUS
  <2>2. PICK i \in 1 .. Len(x) : t = x[i]
    BY <1>1, <2>1
  <2>3. PICK j \in 1 .. Len(y) : t = y[j]
    BY <1>1, <2>1
  <2>4. i \in I
    BY <2>2, <2>3
  <2>5. \A k \in 1 .. Len(x) : k \in Nat
    BY <1>1
  <2> QED  BY <2>4, <2>5
<1>3. PICK i \in I : \A k \in I : i <= k
  BY <1>2, LeastElement
<1>4. PICK j \in 1 .. Len(y) : x[i] = y[j]
  BY <1>3
<1>5. Common(x, y, 1, 1) = Common(x, y, i, j)
  <2>1. ASSUME NEW k \in 1 .. Len(x), NEW l \in 1 .. Len(y), x[k] = y[l]
        PROVE  i <= k /\ j <= l
    <3>1. k \in I
      BY <2>1
    <3>2. i <= k
      BY <1>3, <3>1
    <3>3. x[i] <= x[k]
      BY <3>2, SortedFacts
    <3>4. ~(l < j)
      <4> SUFFICES ASSUME l < j PROVE FALSE
        OBVIOUS
      <4>1. y[l] < y[j]
        BY SortedFacts
      <4>2. y[j] <= y[l]
        BY <1>4, <2>1, <3>3
      <4>3. y[l] \in Int /\ y[j] \in Int
        BY <1>1
      <4> QED  BY <4>1, <4>2, <4>3
    <3> QED  BY <1>1, <3>2, <3>4
  <2>2. i \in 1 .. Len(x)
    BY <1>3
  <2> HIDE DEF I
  <2>3. ASSUME NEW k PROVE k \in Common(x, y, 1, 1) <=> k \in Common(x, y, i, j)
    <3>1. k \in Common(x, y, i, j) => k \in Common(x, y, 1, 1)
      <4> SUFFICES ASSUME k \in Common(x, y, i, j) PROVE k \in Common(x, y, 1, 1)
        OBVIOUS
      <4>1. k \in i .. Len(x) /\ \E l \in j .. Len(y) : x[k] = y[l]
        BY DEF Common
      <4>2. PICK l \in j .. Len(y) : x[k] = y[l]
        BY <4>1
      <4>3. k \in 1 .. Len(x) /\ l \in 1 .. Len(y)
        BY <1>1, <2>2, <4>1, <4>2
      <4> QED  BY <4>2, <4>3 DEF Common
    <3>2. k \in Common(x, y, 1, 1) => k \in Common(x, y, i, j)
      <4> SUFFICES ASSUME k \in Common(x, y, 1, 1) PROVE k \in Common(x, y, i, j)
        OBVIOUS
      <4>1. PICK l \in 1 .. Len(y) : x[k] = y[l]
        BY DEF Common
      <4>2. k \in 1 .. Len(x)
        BY DEF Common
      <4>3. i <= k /\ j <= l
        BY <2>1, <4>1, <4>2
      <4>4. k \in i .. Len(x) /\ l \in j .. Len(y)
        BY <1>1, <2>2, <4>2, <4>3
      <4> QED  BY <4>1, <4>4 DEF Common
    <3> QED  BY <3>1, <3>2
  <2> QED  BY <2>3
<1>6. i \in 1 .. Len(x)
  BY <1>3
<1> HIDE DEF I
<1>7. i \in 1 .. Len(x) + 1 /\ j \in 1 .. Len(y) + 1 /\ NoTokenTwice(x)
  BY <1>1, <1>6, SortedFacts
<1>8. /\ Cardinality(Common(x, y, i, j)) <= Len(x) - i + 1
      /\ Cardinality(Common(x, y, i, j)) <= Len(y) - j + 1
  BY <1>7, CommonAtMost
<1>9. Cardinality(Common(x, y, 1, 1)) = Cardinality(Range(x) \cap Range(y))
  BY <1>7, CommonIsShared
<1> QED  BY <1>4, <1>5, <1>6, <1>8, <1>9

(* What the sizes of a prefix allow for: the smallest set that can be      *)
(* similar needs no more tokens in common than any other.                  *)
LEMMA OverlapShrinks ==
  ASSUME NEW m, IsSimilarity(m), NEW n \in Nat \ {0}, NEW k \in Nat \ {0}, NEW both \in Nat,
         NEW f, f = fractional_overlap(m, k, n), f[1] \in Int, f[2] \in Nat \ {0},
         f[1] <= f[2] * both,
         NEW low, low = minimum_length_bound(m, n), low <= k
  PROVE  equivalent_overlap(m, low, n) \in Int /\ equivalent_overlap(m, low, n) <= both
<1> DEFINE g == fractional_overlap(m, low, n)
<1>1. low \in Int /\ low <= n
  BY LengthsAround
<1>2. g[1] \in Int /\ g[2] \in Nat \ {0} /\ g[1] <= g[2] * both
  <2>1. CASE IsJaccard(m)
    <3> DEFINE a == m.num
               d == m.den
    <3>1. a \in Nat \ {0} /\ d \in Nat /\ a + d \in Nat \ {0}
      BY <2>1 DEF IsJaccard
    <3>2. f = <<a * (k + n), a + d>> /\ g = <<a * (low + n), a + d>>
      BY <2>1 DEF IsJaccard, fractional_overlap
    <3> HIDE DEF a, d, g
    <3>3. a * (low + n) \in Int /\ a * (k + n) \in Int /\ a * (low + n) <= a * (k + n)
      BY <1>1, <3>1
    <3>4. a * (k + n) <= (a + d) * both /\ (a + d) * both \in Int
      BY <3>1, <3>2
    <3> QED  BY <3>1, <3>2, <3>3, <3>4
  <2>2. CASE m.kind = "hamming" /\ m.t \in Nat
    <3>1. f = <<k + n - m.t, 2>> /\ g = <<low + n - m.t, 2>>
      BY <2>2 DEF fractional_overlap
    <3> HIDE DEF g
    <3> QED  BY <1>1, <2>2, <3>1
  <2>3. CASE m.kind = "structural" /\ m.t \in Nat /\ m.q \in Nat \ {0}
    <3> DEFINE l == m.q * m.t
    <3>1. l \in Nat
      BY <2>3
    <3>2. f = <<greater(k, n) - l, 1>> /\ g = <<greater(low, n) - l, 1>>
      BY <2>3 DEF fractional_overlap
    <3>3. greater(low, n) = n /\ greater(k, n) \in Nat /\ n <= greater(k, n)
      BY <1>1 DEF greater
    <3> HIDE DEF l, g
    <3> QED  BY <3>1, <3>2, <3>3
  <2>4. CASE IsJaro(m)
    <3> DEFINE c == 3 * m.num - m.den
               d == m.den
    <3>1. c \in Nat \ {0} /\ d \in Nat \ {0}
      BY <2>4 DEF IsJaro
    <3>2. /\ f = <<c * k * n, d * (k + n)>> /\ g = <<c * low * n, d * (low + n)>>
      BY <2>4 DEF IsJaro, fractional_overlap
    <3>3. low \in Nat
      BY <1>1, <2>4 DEF IsJaro, minimum_length_bound, greater
    <3> HIDE DEF c, d, g
    <3>4. c * k * n <= d * (k + n) * both
      BY <3>2
    <3>5. d * (low + n) \in Nat \ {0} /\ c * low * n \in Int /\ k + n \in Nat \ {0}
      BY <3>1, <3>3
    <3>6. (c * low * n) * (k + n) <= (d * (low + n) * both) * (k + n)
      <4>1. (c * low * n) * (k + n) = (c * n * k) * low + (c * n * n) * low
        BY <3>1, <3>3
      <4>2. (c * n * n) * low <= (c * n * n) * k
        <5>1. c * n * n \in Nat
          BY <3>1
        <5> HIDE DEF c
        <5> QED  BY <3>3, <5>1
      <4>3. (c * n * k) * low + (c * n * n) * k = (c * k * n) * (low + n)
        BY <3>1, <3>3
      <4>4. (c * k * n) * (low + n) <= (d * (k + n) * both) * (low + n)
        <5>1. c * k * n \in Int /\ d * (k + n) * both \in Int /\ low + n \in Nat
          BY <3>1, <3>3
        <5> QED  BY <3>4, <5>1
      <4>5. (d * (k + n) * both) * (low + n) = (d * (low + n) * both) * (k + n)
        BY <3>1, <3>3
      <4>6. /\ (c * n * k) * low \in Int /\ (c * n * n) * low \in Int /\ (c * n * n) * k \in Int
            /\ (c * k * n) * (low + n) \in Int /\ (d * (k + n) * both) * (low + n) \in Int
        BY <3>1, <3>3
      <4> QED  BY <4>1, <4>2, <4>3, <4>4, <4>5, <4>6
    <3>7. c * low * n <= d * (low + n) * both
      <4> DEFINE p == c * low * n
                 r == d * (low + n) * both
                 w == k + n
      <4>1. p \in Int /\ r \in Int /\ w \in Nat \ {0} /\ p * w <= r * w
        BY <3>1, <3>3, <3>5, <3>6
      <4> HIDE DEF p, r, w
      <4>2. ~(r + 1 <= p)
        <5> SUFFICES ASSUME r + 1 <= p PROVE FALSE
          OBVIOUS
        <5>1. (r + 1) * w <= p * w /\ (r + 1) * w = r * w + w /\ r * w \in Int /\ p * w \in Int
          BY <4>1
        <5> QED  BY <4>1, <5>1
      <4>3. p <= r
        BY <4>1, <4>2
      <4> QED  BY <4>3 DEF p, r
    <3> QED  BY <3>2, <3>5, <3>7
  <2> QED  BY <2>1, <2>2, <2>3, <2>4 DEF IsSimilarity, IsJaccard, IsJaro
<1>3. equivalent_overlap(m, low, n) = ceil(g[1], g[2])
  BY DEF equivalent_overlap
<1> HIDE DEF g
<1>4. ceil(g[1], g[2]) \in Int /\ ceil(g[1], g[2]) <= both
  <2>1. PICK a, d : a = g[1] /\ d = g[2]
    OBVIOUS
  <2>2. a \in Int /\ d \in Nat \ {0} /\ a <= d * both /\ both \in Int
    BY <1>2, <2>1
  <2>3. ceil(a, d) \in Int /\ ceil(a, d) <= both
    BY <2>2, CeilAtMost
  <2> QED  BY <2>1, <2>3
<1> QED  BY <1>3, <1>4

(* The longest set to be looked up at a position is as long as any set     *)
(* that shares no token before it - but for structural similarity, when    *)
(* several edits may change several tokens each and it is longer.          *)
LEMMA SizeInReach ==
  ASSUME NEW m, IsSimilarity(m), NEW n \in Nat \ {0}, NEW k \in Nat \ {0}, NEW both \in Nat,
         NEW f, f = fractional_overlap(m, k, n), f[1] \in Int, f[2] \in Nat \ {0},
         f[1] <= f[2] * both, k <= maximum_length_bound(m, n),
         NEW j \in Nat, both <= n - j,
         ~(m.kind = "structural" /\ m.q > 1 /\ m.t > 1 /\ k > n)
  PROVE  k <= maximum_length_pel(m, n, j)
<1>1. CASE IsJaccard(m)
  <2> DEFINE a == m.num
             d == m.den
             top == n * d - (d + a) * j
  <2>1. a \in Nat \ {0} /\ d \in Nat /\ a + d \in Nat \ {0}
    BY <1>1 DEF IsJaccard
  <2>2. f = <<a * (k + n), a + d>> /\ maximum_length_pel(m, n, j) = floor(top, a)
    BY <1>1 DEF IsJaccard, fractional_overlap, maximum_length_pel
  <2> HIDE DEF a, d
  <2>3. a * k <= top
    <3>1. a * (k + n) <= (a + d) * both
      BY <2>2
    <3>2. (a + d) * both <= (a + d) * (n - j)
      BY <2>1
    <3>3. /\ a * (k + n) = a * k + a * n /\ (a + d) * (n - j) = a * n + n * d - (d + a) * j
          /\ a * k \in Int /\ a * n \in Int /\ n * d \in Int /\ (d + a) * j \in Int
          /\ (a + d) * both \in Int
      BY <2>1
    <3> QED  BY <3>1, <3>2, <3>3
  <2>4. top \in Int
    BY <2>1
  <2> HIDE DEF top
  <2> QED  BY <2>1, <2>2, <2>3, <2>4, FloorAtLeast
<1>2. CASE m.kind = "hamming" /\ m.t \in Nat
  BY <1>2 DEF maximum_length_pel
<1>3. CASE m.kind = "structural" /\ m.t \in Nat /\ m.q \in Nat \ {0}
  <2> DEFINE q == m.q
             t == m.t
             l == q * t
             step == j \div q
  <2>1. q \in Nat \ {0} /\ t \in Nat /\ l \in Nat /\ step \in Nat /\ q * step <= j
    <3>1. q \in Nat \ {0} /\ t \in Nat
      BY <1>3
    <3> HIDE DEF q, t
    <3>2. l \in Nat
      BY <3>1
    <3>3. j \div q \in Nat
      BY <3>1
    <3>4. q * (j \div q) <= j
      BY <3>1, DivisionRounds
    <3> QED  BY <3>1, <3>2, <3>3, <3>4
  <2>2. f = <<greater(k, n) - l, 1>> /\ maximum_length_bound(m, n) = n + t
        /\ maximum_length_pel(m, n, j) = lesser(n + t, n + t - step)
    BY <1>3 DEF fractional_overlap, maximum_length_bound, maximum_length_pel
  <2>3. lesser(n + t, n + t - step) = n + t - step
    BY <2>1 DEF lesser
  <2>4. ~(q > 1 /\ t > 1 /\ k > n)
    BY <1>3
  <2>5. k <= n + t
    BY <2>2
  <2>6. k - l <= n - j /\ n - l <= n - j
    <3>1. greater(k, n) \in Nat /\ k <= greater(k, n) /\ n <= greater(k, n)
      BY DEF greater
    <3>2. greater(k, n) - l <= both
      BY <2>1, <2>2, <3>1
    <3> HIDE DEF l
    <3> QED  BY <2>1, <3>1, <3>2
  <2>7. k + step <= n + t
    <3>1. CASE k <= n
      <4>1. q * step <= q * t
        BY <2>1, <2>6
      <4>2. step <= t
        <5> HIDE DEF q, t, step, l
        <5>1. q * step \in Int /\ q * t \in Int
          BY <2>1
        <5>2. q * step < q * t + q
          BY <2>1, <4>1, <5>1
        <5> QED  BY <2>1, <5>2, Cancels
      <4> HIDE DEF q, t, step, l
      <4> QED  BY <2>1, <3>1, <4>2
    <3>2. CASE k > n /\ q = 1
      <4>1. l = t /\ step = j
        <5>1. l = t
          BY <2>1, <3>2
        <5>2. j \div 1 = j
          OBVIOUS
        <5> QED  BY <3>2, <5>1, <5>2
      <4> HIDE DEF q, t, step, l
      <4> QED  BY <2>1, <2>6, <4>1
    <3>3. CASE k > n /\ q > 1 /\ t <= 1
      <4>1. t = 1 /\ k = n + 1
        <5> HIDE DEF q, t, step, l
        <5> QED  BY <2>1, <2>5, <3>3
      <4>2. l = q
        BY <2>1, <4>1
      <4>3. j < q
        <5> HIDE DEF q, t, step, l
        <5> QED  BY <2>1, <2>6, <4>1, <4>2
      <4>4. step = 0
        <5> HIDE DEF q, t, step, l
        <5>1. q * step < q * 0 + q
          <6>1. q * step \in Int /\ q * 0 = 0
            BY <2>1
          <6> QED  BY <2>1, <4>3, <6>1
        <5>2. step <= 0
          BY <2>1, <5>1, Cancels
        <5> QED  BY <2>1, <5>2
      <4> HIDE DEF q, t, step, l
      <4> QED  BY <2>1, <4>1, <4>4
    <3> HIDE DEF q, t, step, l
    <3> QED  BY <2>1, <2>4, <3>1, <3>2, <3>3
  <2> HIDE DEF q, t, step, l
  <2> QED  BY <2>1, <2>2, <2>3, <2>7
<1>4. CASE IsJaro(m)
  <2> DEFINE d == m.den
             e == 3 * m.num - 2 * m.den
             top == (n * n - j * n) * d
             bottom == j * d + n * e
  <2>1. d \in Nat \ {0} /\ e \in Nat \ {0} /\ 3 * m.num - m.den = d + e
    BY <1>4 DEF IsJaro
  <2>2. /\ f = <<(d + e) * k * n, d * (k + n)>>
        /\ maximum_length_pel(m, n, j) = floor(top, bottom)
    BY <1>4, <2>1 DEF IsJaro, fractional_overlap, maximum_length_pel
  <2> HIDE DEF d, e
  <2>3. top \in Int /\ bottom \in Nat \ {0}
    <3>1. j * d \in Nat /\ n * e \in Nat \ {0} /\ n * n \in Int /\ j * n \in Int
      BY <2>1
    <3> QED  BY <2>1, <3>1
  <2>4. bottom * k <= top
    <3>1. (d + e) * k * n <= d * (k + n) * both
      BY <2>2
    <3>2. d * (k + n) * both <= d * (k + n) * (n - j)
      <4>1. d * (k + n) \in Nat
        BY <2>1
      <4> QED  BY <4>1
    <3>3. /\ (d + e) * k * n = d * (k * n) + e * (k * n)
          /\ d * (k + n) * (n - j) = d * (k * n) + (n * n - j * n) * d - j * d * k
          /\ bottom * k = j * d * k + e * (k * n)
      BY <2>1
    <3>4. /\ d * (k * n) \in Int /\ e * (k * n) \in Int /\ j * d * k \in Int
          /\ (n * n - j * n) * d \in Int /\ d * (k + n) * both \in Int
      BY <2>1
    <3> HIDE DEF bottom
    <3> QED  BY <3>1, <3>2, <3>3, <3>4
  <2> HIDE DEF top, bottom
  <2> QED  BY <2>2, <2>3, <2>4, FloorAtLeast
<1> QED  BY <1>1, <1>2, <1>3, <1>4 DEF IsSimilarity, IsJaccard, IsJaro

(* The first token two similar sets share is in both prefixes, and the     *)
(* sizes that are looked up at its position include that of the other.     *)
LEMMA PrefixesMeet ==
  ASSUME NEW m, IsSimilarity(m), NEW x \in Seq(Int), NEW y \in Seq(Int), Sorted(x), Sorted(y),
         NEW nx \in Nat \ {0}, nx = Len(x), NEW ny \in Nat \ {0}, ny = Len(y),
         Similar(m, Range(x), Range(y)), Range(x) \cap Range(y) # {},
         ~(m.kind = "structural" /\ m.q > 1 /\ m.t > 1 /\ nx > ny)
  PROVE  \E i \in 1 .. nx, j \in 1 .. ny :
           /\ x[i] = y[j]
           /\ prefix_size(m, nx) \in Int /\ i <= prefix_size(m, nx)
           /\ prefix_size(m, ny) \in Int /\ j <= prefix_size(m, ny)
           /\ minimum_length_bound(m, ny) <= nx /\ nx <= maximum_length_pel(m, ny, j - 1)
<1>1. PICK i \in 1 .. nx, j \in 1 .. ny :
        /\ x[i] = y[j]
        /\ Cardinality(Range(x) \cap Range(y)) <= nx - i + 1
        /\ Cardinality(Range(x) \cap Range(y)) <= ny - j + 1
  BY FirstCommon
<1>2. PICK R, S, both : R = Range(x) /\ S = Range(y) /\ both = Cardinality(R \cap S)
  OBVIOUS
<1>3. IsFiniteSet(R) /\ IsFiniteSet(S) /\ Cardinality(R) = nx /\ Cardinality(S) = ny
  BY <1>2, SortedFacts, TokensCounted
<1>4. both \in Nat /\ S \cap R = R \cap S
  BY <1>2, <1>3, SetsCounted
<1>5. both <= nx - i + 1 /\ both <= ny - j + 1
  BY <1>1, <1>2
<1>6. Similar(m, R, S) /\ Similar(m, S, R)
  BY <1>2, <1>3, SimilarTurned
<1>7. PICK f : f = fractional_overlap(m, nx, ny)
  OBVIOUS
<1>8. /\ f[1] \in Int /\ f[2] \in Nat \ {0} /\ f[1] <= f[2] * both
      /\ minimum_length_bound(m, ny) <= nx /\ nx <= maximum_length_bound(m, ny)
  BY <1>2, <1>3, <1>4, <1>6, <1>7, SimilarOverlap
<1>9. PICK g : g = fractional_overlap(m, ny, nx)
  OBVIOUS
<1>10. /\ g[1] \in Int /\ g[2] \in Nat \ {0} /\ g[1] <= g[2] * both
       /\ minimum_length_bound(m, nx) <= ny
  BY <1>2, <1>3, <1>4, <1>6, <1>9, SimilarOverlap
<1>11. /\ equivalent_overlap(m, minimum_length_bound(m, nx), nx) \in Int
       /\ equivalent_overlap(m, minimum_length_bound(m, nx), nx) <= both
  BY <1>4, <1>9, <1>10, OverlapShrinks
<1>12. /\ equivalent_overlap(m, minimum_length_bound(m, ny), ny) \in Int
       /\ equivalent_overlap(m, minimum_length_bound(m, ny), ny) <= both
  BY <1>4, <1>7, <1>8, OverlapShrinks
<1>13. prefix_size(m, nx) \in Int /\ i <= prefix_size(m, nx)
  <2>1. PICK c : c = equivalent_overlap(m, minimum_length_bound(m, nx), nx)
    OBVIOUS
  <2>2. prefix_size(m, nx) = nx - c + 1 /\ c \in Int /\ c <= both
    BY <1>11, <2>1 DEF prefix_size
  <2> QED  BY <1>4, <1>5, <2>2
<1>14. prefix_size(m, ny) \in Int /\ j <= prefix_size(m, ny)
  <2>1. PICK c : c = equivalent_overlap(m, minimum_length_bound(m, ny), ny)
    OBVIOUS
  <2>2. prefix_size(m, ny) = ny - c + 1 /\ c \in Int /\ c <= both
    BY <1>12, <2>1 DEF prefix_size
  <2> QED  BY <1>4, <1>5, <2>2
<1>15. nx <= maximum_length_pel(m, ny, j - 1)
  <2>1. PICK p : p = j - 1
    OBVIOUS
  <2>2. p \in Nat /\ both <= ny - p
    BY <1>4, <1>5, <2>1
  <2>3. nx <= maximum_length_pel(m, ny, p)
    BY <1>4, <1>7, <1>8, <2>2, SizeInReach
  <2> QED  BY <2>1, <2>3
<1> QED  BY <1>1, <1>8, <1>13, <1>14, <1>15

(* Similar sets that share nothing are small.                              *)
LEMMA NothingShared ==
  ASSUME NEW m, IsSimilarity(m), NEW R, NEW S, IsFiniteSet(R), IsFiniteSet(S),
         NEW nr \in Nat \ {0}, nr = Cardinality(R), NEW ns \in Nat \ {0}, ns = Cardinality(S),
         Similar(m, R, S), R \cap S = {}
  PROVE  nr <= always_similar_below_size(m, ns) /\ nr <= max_asbs(m)
<1>1. Cardinality(R \cap S) = 0
  BY FS_EmptySet
<1>2. /\ Cardinality(R \cup S) = nr + ns
      /\ Cardinality((R \ S) \cup (S \ R)) = nr + ns
  <2>1. /\ Cardinality(R \cup S) = Cardinality(R) + Cardinality(S) - Cardinality(R \cap S)
        /\ Cardinality((R \ S) \cup (S \ R)) =
             Cardinality(R) + Cardinality(S) - 2 * Cardinality(R \cap S)
    BY SetsCounted
  <2>2. PICK u, d, b : /\ u = Cardinality(R \cup S) /\ b = Cardinality(R \cap S)
                       /\ d = Cardinality((R \ S) \cup (S \ R))
    OBVIOUS
  <2>3. u = nr + ns - b /\ d = nr + ns - 2 * b /\ b = 0
    BY <1>1, <2>1, <2>2
  <2> QED  BY <2>2, <2>3
<1>3. ~IsJaccard(m)
  <2> SUFFICES ASSUME IsJaccard(m) PROVE FALSE
    OBVIOUS
  <2>1. m.num \in Nat \ {0} /\ m.den \in Nat
    BY DEF IsJaccard
  <2>2. m.den * 0 >= m.num * (nr + ns)
    BY <1>1, <1>2 DEF IsJaccard, Similar
  <2>3. m.den * 0 = 0 /\ nr + ns \in Nat \ {0}
    BY <2>1
  <2>4. PICK a, b : a = m.num /\ b = nr + ns
    OBVIOUS
  <2>5. a \in Nat \ {0} /\ b \in Nat \ {0} /\ 0 >= a * b
    BY <2>1, <2>2, <2>3, <2>4
  <2>6. a * b > 0
    BY <2>5
  <2> QED  BY <2>5, <2>6
<1>4. ~IsJaro(m)
  <2> SUFFICES ASSUME IsJaro(m) PROVE FALSE
    OBVIOUS
  <2>1. PICK a, d : a = m.num /\ d = m.den
    OBVIOUS
  <2>2. a \in Nat /\ d \in Nat \ {0} /\ 2 * d < 3 * a
    BY <2>1 DEF IsJaro
  <2>3. d * (0 * (nr + ns) + nr * ns) >= 3 * a * nr * ns
    BY <1>1, <2>1 DEF IsJaro, Similar
  <2>4. PICK c : c = nr * ns
    OBVIOUS
  <2>5. c \in Nat \ {0}
    BY <2>4
  <2>6. 3 * a * nr * ns = (3 * a) * c /\ 0 * (nr + ns) + nr * ns = c
    BY <2>2, <2>4
  <2>7. d * c >= (3 * a) * c
    BY <2>3, <2>6
  <2>8. (3 * a) * c >= (d + 1) * c
    <3>1. 3 * a >= d + 1
      BY <2>2
    <3> QED  BY <2>2, <2>5, <3>1
  <2>9. (d + 1) * c = d * c + c /\ d * c \in Int /\ (3 * a) * c \in Int
    BY <2>2, <2>5
  <2> QED  BY <2>5, <2>7, <2>8, <2>9
<1>5. CASE m.kind = "hamming" /\ m.t \in Nat
  <2>1. nr + ns <= m.t
    BY <1>2, <1>5 DEF Similar
  <2>2. ns < m.t
    BY <1>5, <2>1
  <2> QED  BY <1>5, <2>1, <2>2 DEF always_similar_below_size, max_asbs
<1>6. CASE m.kind = "structural" /\ m.t \in Nat /\ m.q \in Nat \ {0}
  <2>1. PICK l : l = m.q * m.t
    OBVIOUS
  <2>2. l \in Nat
    BY <1>6, <2>1
  <2>3. greater(nr, ns) - 0 <= l
    BY <1>1, <1>6, <2>1 DEF Similar
  <2>4. nr <= l /\ ns <= l
    BY <2>2, <2>3 DEF greater
  <2> QED  BY <1>6, <2>1, <2>4 DEF always_similar_below_size, max_asbs
<1> QED  BY <1>3, <1>4, <1>5, <1>6 DEF IsSimilarity, IsJaccard, IsJaro

(* The other way round: a set that is similar to an empty one is small,    *)
(* and the overlap required of the two is none.                            *)
LEMMA EmptyIsSmall ==
  ASSUME NEW m, IsSimilarity(m), m.kind # "jaro_overlap",
         NEW R, NEW S, IsFiniteSet(R), IsFiniteSet(S),
         NEW nr \in Nat, nr = Cardinality(R), NEW ns \in Nat, ns = Cardinality(S),
         nr = 0 \/ ns = 0, Similar(m, R, S)
  PROVE  /\ minimum_length_bound(m, ns) <= nr /\ nr <= maximum_length_bound(m, ns)
         /\ nr <= always_similar_below_size(m, ns) /\ nr <= max_asbs(m)
         /\ equivalent_overlap(m, nr, ns) \in Int /\ equivalent_overlap(m, nr, ns) <= 0
<1>1. PICK both, u, d : /\ both = Cardinality(R \cap S) /\ u = Cardinality(R \cup S)
                        /\ d = Cardinality((R \ S) \cup (S \ R))
  OBVIOUS
<1>2. both = 0 /\ u = nr + ns /\ d = nr + ns
  <2>1. both \in Nat /\ both <= nr /\ both <= ns /\ u = nr + ns - both /\ d = nr + ns - 2 * both
    BY <1>1, SetsCounted
  <2> QED  BY <2>1
<1>3. CASE IsJaccard(m)
  <2>1. PICK a, b : a = m.num /\ b = m.den
    OBVIOUS
  <2>2. a \in Nat \ {0} /\ b \in Nat \ {0} /\ b * 0 >= a * (nr + ns)
    BY <1>1, <1>2, <1>3, <2>1 DEF IsJaccard, Similar
  <2>3. nr = 0 /\ ns = 0
    <3>1. PICK n : n = nr + ns
      OBVIOUS
    <3>2. n \in Nat /\ b * 0 = 0 /\ 0 >= a * n
      BY <2>2, <3>1
    <3>3. n > 0 => a * n > 0
      BY <2>2, <3>2
    <3>4. n = 0
      BY <2>2, <3>2, <3>3
    <3> QED  BY <3>1, <3>4
  <2>4. /\ minimum_length_bound(m, 0) = ceil(0 * a, b) /\ maximum_length_bound(m, 0) = floor(0 * b, a)
        /\ equivalent_overlap(m, 0, 0) = ceil(a * (0 + 0), a + b)
    BY <1>3, <2>1 DEF IsJaccard, minimum_length_bound, maximum_length_bound, equivalent_overlap,
                      fractional_overlap
  <2>5. 0 * a = 0 /\ 0 * b = 0 /\ a * (0 + 0) = 0 /\ a + b \in Nat \ {0} /\ 0 <= b * 0
        /\ a * 0 <= 0 /\ 0 <= (a + b) * 0
    BY <2>2
  <2>6. ceil(0, b) <= 0 /\ 0 <= floor(0, a) /\ ceil(0, a + b) \in Int /\ ceil(0, a + b) <= 0
    BY <2>2, <2>5, CeilAtMost, FloorAtLeast
  <2>7. always_similar_below_size(m, 0) = 0 /\ max_asbs(m) = 0
    BY <1>3 DEF IsJaccard, always_similar_below_size, max_asbs
  <2> QED  BY <2>3, <2>4, <2>5, <2>6, <2>7
<1>4. CASE m.kind = "hamming" /\ m.t \in Nat
  <2>1. nr + ns <= m.t
    BY <1>1, <1>2, <1>4 DEF Similar
  <2>2. PICK c : c = nr + ns - m.t
    OBVIOUS
  <2>3. c \in Int /\ c <= 2 * 0
    BY <1>4, <2>1, <2>2
  <2>4. ceil(c, 2) \in Int /\ ceil(c, 2) <= 0
    BY <2>3, CeilAtMost
  <2>5. equivalent_overlap(m, nr, ns) = ceil(c, 2)
    BY <1>4, <2>2 DEF equivalent_overlap, fractional_overlap
  <2>6. minimum_length_bound(m, ns) <= nr /\ nr <= maximum_length_bound(m, ns)
    BY <1>4, <2>1 DEF minimum_length_bound, maximum_length_bound, greater
  <2>7. nr <= always_similar_below_size(m, ns) /\ nr <= max_asbs(m)
    BY <1>4, <2>1 DEF always_similar_below_size, max_asbs
  <2> QED  BY <2>4, <2>5, <2>6, <2>7
<1>5. CASE m.kind = "structural" /\ m.t \in Nat /\ m.q \in Nat \ {0}
  <2>1. PICK l : l = m.q * m.t
    OBVIOUS
  <2>2. l \in Nat
    BY <1>5, <2>1
  <2>3. greater(nr, ns) - 0 <= l /\ greater(nr, ns) - lesser(nr, ns) <= m.t
    BY <1>1, <1>2, <1>5, <2>1 DEF Similar
  <2>4. nr <= l /\ ns <= l /\ nr - ns <= m.t /\ ns - nr <= m.t /\ greater(nr, ns) \in Nat
    BY <1>5, <2>2, <2>3 DEF greater, lesser
  <2>5. PICK c : c = greater(nr, ns) - l
    OBVIOUS
  <2>6. c \in Int /\ c <= 1 * 0
    BY <2>2, <2>3, <2>4, <2>5
  <2>7. ceil(c, 1) \in Int /\ ceil(c, 1) <= 0
    BY <2>6, CeilAtMost
  <2>8. equivalent_overlap(m, nr, ns) = ceil(c, 1)
    BY <1>5, <2>1, <2>5 DEF equivalent_overlap, fractional_overlap
  <2>9. minimum_length_bound(m, ns) <= nr /\ nr <= maximum_length_bound(m, ns)
    BY <1>5, <2>4 DEF minimum_length_bound, maximum_length_bound
  <2>10. nr <= always_similar_below_size(m, ns) /\ nr <= max_asbs(m)
    BY <1>5, <2>1, <2>4 DEF always_similar_below_size, max_asbs
  <2> QED  BY <2>7, <2>8, <2>9, <2>10
<1> QED  BY <1>3, <1>4, <1>5 DEF IsSimilarity, IsJaccard

LEMMA EmptyPasses ==
  ASSUME NEW m, IsSimilarity(m), m.kind # "jaro_overlap", NEW x \in Seq(Int), NEW y \in Seq(Int),
         Len(x) = 0 \/ Len(y) = 0, Sorted(x), Sorted(y), Similar(m, Range(x), Range(y))
  PROVE  is_in_threshold(m, x, y) = TRUE
<1>1. PICK R, S, nr, ns : R = Range(x) /\ S = Range(y) /\ nr = Len(x) /\ ns = Len(y)
  OBVIOUS
<1>2. /\ IsFiniteSet(R) /\ nr = Cardinality(R) /\ nr \in Nat
      /\ IsFiniteSet(S) /\ ns = Cardinality(S) /\ ns \in Nat
  BY <1>1, SortedFacts, TokensCounted, LenProperties
<1>3. PICK c : c = equivalent_overlap(m, nr, ns)
  OBVIOUS
<1>4. c \in Int /\ c <= 0
  BY <1>1, <1>2, <1>3, EmptyIsSmall
<1>5. c <= Cardinality(Range(x) \cap Range(y))
  <2>1. PICK both : both = Cardinality(R \cap S)
    OBVIOUS
  <2>2. both \in Nat
    BY <1>2, <2>1, SetsCounted
  <2>3. c <= both
    BY <1>4, <2>2
  <2> QED  BY <1>1, <2>1, <2>3
<1>6. overlap_at_least(x, y, c) = TRUE
  BY <1>4, <1>5, OverlapNotMissed
<1> QED  BY <1>1, <1>3, <1>6 DEF is_in_threshold

(* Filters: what is admitted is neither skipped nor ends a scan.           *)
LEMMA AdmittedPasses ==
  ASSUME setting \in Settings, filter \in setting.filters, NEW r \in Int, probe \in Int,
         Admitted(r)
  PROVE  ~scan_skip_cond(r) /\ ~scan_break_cond(r)
<1>1. filter.type \in {"CUTOFF", "CUTOFF_SELFJOIN"} =>
        filter.index_start \in Int /\ filter.index_end \in Int
  BY DatasetAssumption
<1>2. CASE filter.type \in {"SYMMETRIC_PAIRS", "SIMPLE_SELFJOIN"}
  BY <1>2 DEF Admitted, scan_skip_cond, scan_break_cond
<1>3. CASE filter.type = "CUTOFF"
  <2>1. r \in filter.index_start .. filter.index_end
    BY <1>3 DEF Admitted
  <2>2. ~(r < filter.index_start) /\ ~(r > filter.index_end)
    BY <1>1, <1>3, <2>1
  <2> QED  BY <1>3, <2>2 DEF scan_skip_cond, scan_break_cond
<1>4. CASE filter.type = "CUTOFF_SELFJOIN"
  <2>1. r \in filter.index_start .. filter.index_end /\ r < probe
    BY <1>4 DEF Admitted
  <2>2. ~(r < filter.index_start) /\ ~(r > filter.index_end)
    BY <1>1, <1>4, <2>1
  <2> QED  BY <1>4, <2>1, <2>2 DEF scan_skip_cond, scan_break_cond
<1>5. CASE filter.type \notin {"SYMMETRIC_PAIRS", "SIMPLE_SELFJOIN", "CUTOFF", "CUTOFF_SELFJOIN"}
  BY <1>5 DEF scan_skip_cond, scan_break_cond
<1> QED  BY <1>2, <1>3, <1>4, <1>5

(* No set is looked up that is too long to be similar.                     *)
LEMMA ReachAtMost ==
  ASSUME NEW m, IsSimilarity(m), NEW n \in Nat \ {0}, NEW j \in Nat, j < n,
         NEW k \in Nat, k <= maximum_length_pel(m, n, j)
  PROVE  k <= maximum_length_bound(m, n)
<1>1. CASE IsJaccard(m)
  <2> DEFINE a == m.num
             d == m.den
             top == n * d - (d + a) * j
  <2>1. a \in Nat \ {0} /\ d \in Nat
    BY <1>1 DEF IsJaccard
  <2>2. /\ maximum_length_pel(m, n, j) = top \div a
        /\ maximum_length_bound(m, n) = floor(n * d, a)
    BY <1>1 DEF IsJaccard, maximum_length_pel, maximum_length_bound, floor
  <2> HIDE DEF a, d
  <2>3. top \in Int /\ n * d \in Int /\ top <= n * d
    <3>1. n * d \in Int /\ (d + a) * j \in Nat
      BY <2>1
    <3> QED  BY <3>1
  <2> HIDE DEF top
  <2>4. a * (top \div a) <= top /\ top \div a \in Int
    BY <2>1, <2>3, DivisionRounds
  <2>5. a * k <= a * (top \div a)
    BY <2>1, <2>2, <2>4
  <2>6. a * k <= n * d
    <3>1. a * k \in Int /\ a * (top \div a) \in Int
      BY <2>1, <2>4
    <3> QED  BY <2>3, <2>4, <2>5, <3>1
  <2> QED  BY <2>1, <2>2, <2>3, <2>6, FloorAtLeast
<1>2. CASE m.kind = "hamming" /\ m.t \in Nat
  BY <1>2 DEF maximum_length_pel
<1>3. CASE m.kind = "structural" /\ m.t \in Nat /\ m.q \in Nat \ {0}
  <2>1. /\ maximum_length_pel(m, n, j) = lesser(n + m.t, n + m.t - j \div m.q)
        /\ maximum_length_bound(m, n) = n + m.t
    BY <1>3 DEF maximum_length_pel, maximum_length_bound
  <2>2. PICK l : l = n + m.t - j \div m.q
    OBVIOUS
  <2> QED  BY <1>3, <2>1, <2>2 DEF lesser
<1>4. CASE IsJaro(m)
  <2> DEFINE d == m.den
             e == 3 * m.num - 2 * m.den
             top == (n * n - j * n) * d
             bottom == j * d + n * e
  <2>1. d \in Nat \ {0} /\ e \in Nat \ {0}
    BY <1>4 DEF IsJaro
  <2>2. /\ maximum_length_pel(m, n, j) = top \div bottom
        /\ maximum_length_bound(m, n) = floor(n * d, e)
    BY <1>4 DEF IsJaro, maximum_length_pel, maximum_length_bound, floor
  <2> HIDE DEF d, e
  <2>3. /\ top \in Int /\ bottom \in Nat \ {0} /\ n * d \in Int
        /\ top <= n * (n * d) /\ n * (e * k) <= bottom * k
    <3>1. /\ j * d \in Nat /\ n * e \in Nat \ {0} /\ n * n \in Int /\ j * n \in Nat /\ n * d \in Int
          /\ (j * n) * d \in Nat /\ (j * d) * k \in Nat /\ n * (n * d) \in Int
          /\ n * (e * k) \in Int
      BY <2>1
    <3>2. top = n * (n * d) - (j * n) * d /\ bottom * k = (j * d) * k + n * (e * k)
      BY <2>1
    <3> QED  BY <3>1, <3>2
  <2> HIDE DEF top, bottom
  <2>4. bottom * (top \div bottom) <= top /\ top \div bottom \in Int
    BY <2>3, DivisionRounds
  <2>5. bottom * k <= bottom * (top \div bottom)
    BY <2>2, <2>3, <2>4
  <2>6. n * (e * k) <= n * (n * d)
    <3>1. /\ bottom * k \in Int /\ bottom * (top \div bottom) \in Int
          /\ n * (e * k) \in Int /\ n * (n * d) \in Int
      BY <2>1, <2>3, <2>4
    <3> QED  BY <2>3, <2>4, <2>5, <3>1
  <2>7. e * k <= n * d
    <3>1. e * k \in Int
      BY <2>1
    <3>2. n * (e * k) < n * (n * d) + n
      <4>1. n * (e * k) \in Int /\ n * (n * d) \in Int
        BY <2>3, <3>1
      <4> QED  BY <2>6, <4>1
    <3> QED  BY <2>3, <3>1, <3>2, Cancels
  <2> QED  BY <2>1, <2>2, <2>3, <2>7, FloorAtLeast
<1> QED  BY <1>1, <1>2, <1>3, <1>4 DEF IsSimilarity, IsJaccard, IsJaro

(* An overlap of a set and the smallest one that can be similar to it.     *)
LEMMA OverlapIsInt ==
  ASSUME NEW m, IsSimilarity(m), NEW n \in Nat, m.kind = "jaro_overlap" => n # 0
  PROVE  equivalent_overlap(m, minimum_length_bound(m, n), n) \in Int
<1>1. PICK low, g : low = minimum_length_bound(m, n) /\ g = fractional_overlap(m, low, n)
  OBVIOUS
<1>2. low \in Int
  BY <1>1, LengthsAround
<1>3. g[1] \in Int /\ g[2] \in Nat \ {0}
  <2>1. CASE IsJaccard(m)
    <3>1. PICK a, d : a = m.num /\ d = m.den
      OBVIOUS
    <3>2. a \in Nat \ {0} /\ d \in Nat
      BY <2>1, <3>1 DEF IsJaccard
    <3>3. g = <<a * (low + n), a + d>>
      BY <1>1, <2>1, <3>1 DEF IsJaccard, fractional_overlap
    <3>4. a * (low + n) \in Int /\ a + d \in Nat \ {0}
      BY <1>2, <3>2
    <3> QED  BY <3>3, <3>4
  <2>2. CASE m.kind = "hamming" /\ m.t \in Nat
    <3>1. g = <<low + n - m.t, 2>>
      BY <1>1, <2>2 DEF fractional_overlap
    <3> QED  BY <1>2, <2>2, <3>1
  <2>3. CASE m.kind = "structural" /\ m.t \in Nat /\ m.q \in Nat \ {0}
    <3>1. PICK l : l = m.q * m.t
      OBVIOUS
    <3>2. l \in Int
      BY <2>3, <3>1
    <3>3. g = <<greater(low, n) - l, 1>>
      BY <1>1, <2>3, <3>1 DEF fractional_overlap
    <3>4. greater(low, n) \in Int
      BY <1>2 DEF greater
    <3> QED  BY <3>2, <3>3, <3>4
  <2>4. CASE IsJaro(m)
    <3>1. PICK c, d : c = 3 * m.num - m.den /\ d = m.den
      OBVIOUS
    <3>2. c \in Int /\ d \in Nat \ {0} /\ n # 0
      BY <2>4, <3>1 DEF IsJaro
    <3>3. g = <<c * low * n, d * (low + n)>>
      BY <1>1, <2>4, <3>1 DEF IsJaro, fractional_overlap
    <3>4. low \in Nat
      BY <1>1, <1>2, <2>4 DEF IsJaro, minimum_length_bound, greater
    <3>5. c * low * n \in Int /\ d * (low + n) \in Nat \ {0}
      BY <3>2, <3>4
    <3> QED  BY <3>3, <3>5
  <2> QED  BY <2>1, <2>2, <2>3, <2>4 DEF IsSimilarity, IsJaccard, IsJaro
<1>4. ceil(g[1], g[2]) \in Int
  <2>1. PICK a, d : a = g[1] /\ d = g[2]
    OBVIOUS
  <2>2. ceil(a, d) \in Int
    BY <1>3, <2>1, DivisionRounds
  <2> QED  BY <2>1, <2>2
<1> QED  BY <1>1, <1>4 DEF equivalent_overlap

LEMMA NoEmptySet ==
  ASSUME setting \in Settings, NEW r \in 1 .. Len(setting.data), PrefixSizesDefined,
         sim.kind = "jaro_overlap"
  PROVE  size(r) # 0
<1>1. r \in DOMAIN setting.data
  BY LenProperties, DatasetAssumption
<1> QED  BY <1>1, TokensOf, EmptySeq DEF PrefixSizesDefined

LEMMA PrefixLength ==
  ASSUME setting \in Settings, probe \in 1 .. Len(setting.data),
         PrefixSizesDefined, NEW l \in Nat, l < Len(prefix(probing_set))
  PROVE  l < size(probe)
<1>1. PICK x, n : x = probing_set /\ n = size(probe)
  OBVIOUS
<1>2. x \in Seq(Int) /\ Len(x) = n /\ n \in Nat
  BY <1>1, ProbingFacts, TokensOf
<1>3. PICK m : m = lesser(prefix_size(sim, n), n)
  OBVIOUS
<1>4. m \in Int /\ m <= n
  <2>1. sim.kind = "jaro_overlap" => n # 0
    BY <1>1, NoEmptySet
  <2>2. IsSimilarity(sim)
    BY SetAssumption DEF sim
  <2>3. PICK c : c = equivalent_overlap(sim, minimum_length_bound(sim, n), n)
    OBVIOUS
  <2>4. c \in Int
    BY <1>2, <2>1, <2>2, <2>3, OverlapIsInt
  <2>5. prefix_size(sim, n) = n - c + 1
    BY <2>3 DEF prefix_size
  <2> QED  BY <1>2, <1>3, <2>4, <2>5 DEF lesser
<1>5. \A i \in 1 .. m : x[i] \in Int
  <2>1. \A i \in 1 .. m : i \in 1 .. Len(x)
    BY <1>2, <1>4
  <2> QED  BY <1>2, <2>1, ElementOfSeq
<1>6. PICK p : p = SubSeq(x, 1, m)
  OBVIOUS
<1>7. Len(p) = (IF 1 <= m THEN m - 1 + 1 ELSE 0)
  BY <1>4, <1>5, <1>6, SubSeqProperties
<1>8. prefix(probing_set) = p
  BY <1>1, <1>2, <1>3, <1>6 DEF prefix
<1> QED  BY <1>1, <1>2, <1>4, <1>7, <1>8

LEMMA PrefixHas ==
  ASSUME NEW c \in Seq(Int), NEW i \in 1 .. Len(c), prefix_size(sim, Len(c)) \in Int,
         i <= prefix_size(sim, Len(c))
  PROVE  /\ Len(prefix(c)) \in Nat /\ i <= Len(prefix(c))
         /\ prefix(c)[i] = c[i] /\ c[i] \in Range(prefix(c))
<1> DEFINE m == lesser(prefix_size(sim, Len(c)), Len(c))
<1>1. Len(c) \in Nat
  BY LenProperties
<1>2. prefix(c) = SubSeq(c, 1, m)
  BY DEF prefix
<1>3. m \in Int /\ i <= m /\ m <= Len(c)
  BY <1>1 DEF lesser
<1> HIDE DEF m
<1>4. \A l \in 1 .. m : c[l] \in Int
  <2>1. \A l \in 1 .. m : l \in 1 .. Len(c)
    BY <1>1, <1>3
  <2> QED  BY <2>1, ElementOfSeq
<1>5. PICK p : p = SubSeq(c, 1, m)
  OBVIOUS
<1>6. /\ p \in Seq(Int) /\ Len(p) = (IF 1 <= m THEN m - 1 + 1 ELSE 0)
      /\ \A l \in 1 .. m - 1 + 1 : p[l] = c[1 + l - 1]
  BY <1>3, <1>4, <1>5, SubSeqProperties
<1>7. Len(p) = m /\ p[i] = c[i]
  <2>1. i \in 1 .. m - 1 + 1 /\ 1 + i - 1 = i /\ 1 <= m
    BY <1>1, <1>3
  <2> QED  BY <1>3, <1>6, <2>1
<1>8. p[i] \in Range(p)
  <2>1. i \in 1 .. Len(p)
    BY <1>1, <1>3, <1>7
  <2>2. Range(p) = {p[l] : l \in 1 .. Len(p)}
    BY <1>6, RangeFacts
  <2> QED  BY <2>1, <2>2
<1> QED  BY <1>2, <1>3, <1>5, <1>6, <1>7, <1>8

------------------------------------------------------------------------------
(* The inductive invariant of the indexes: ids count records of the        *)
(* dataset, a small entry is there for every small set, and an id is in    *)
(* the list of every token of its prefix, at its size, and in no other.    *)
PrefixKeys(r) == Range(prefix(preprocessed(r))) \X {size(r)}

PrefixTyped ==
  /\ setting \in Settings
  /\ pc # "idle" => caller \in Instances
  /\ position \in Nat /\ (pc # "search" => position = 0)

Numbered ==
  /\ first \in [Instances -> Nat] /\ next_id \in [Instances -> Nat]
  /\ \A a \in Instances :
       /\ first[a] = 0 => next_id[a] = 0
       /\ first[a] + next_id[a] <= Len(setting.data) + 1

BatchOfRecords ==
  pc = "insert" => first[caller] # 0 /\ last \in Nat /\ last <= Len(setting.data)

SmallListed ==
  /\ DOMAIN small_index = Instances
  /\ \A a \in Instances : \A e :
       e \in small_index[a] <=>
         \E id \in Ids(a) :
           e = <<size(Record(a, id)), id>> /\ size(Record(a, id)) <= max_asbs(sim)

PrefixListed ==
  /\ DOMAIN prefix_index = Instances
  /\ \A a \in Instances : \A k, id :
       id \in Ids_at(prefix_index[a], k) <=> id \in Ids(a) /\ k \in PrefixKeys(Record(a, id))

ListInv == PrefixTyped /\ Numbered /\ BatchOfRecords /\ SmallListed /\ PrefixListed

(* Sizes and keys depend on the setting, which never changes.              *)
LEMMA SetsStay ==
  ASSUME UNCHANGED setting
  PROVE  /\ sim' = sim /\ \A r : size(r)' = size(r) /\ preprocessed(r)' = preprocessed(r)
         /\ \A r : PrefixKeys(r)' = PrefixKeys(r) /\ converted(r)' = converted(r)
         /\ \A r : tokens(r)' = tokens(r)
<1>1. sim' = sim /\ \A r : size(r)' = size(r) /\ TokenSet(r)' = TokenSet(r) /\ tokens(r)' = tokens(r)
  BY DEF sim, size, TokenSet, tokens
<1>2. \A t : convert(t)' = convert(t)
  BY DEF convert
<1>3. \A r : converted(r)' = converted(r)
  BY <1>1, <1>2 DEF converted
<1>4. \A r : preprocessed(r)' = preprocessed(r)
  BY <1>1, <1>3 DEF preprocessed
<1>5. \A r : PrefixKeys(r)' = PrefixKeys(r)
  BY <1>1, <1>4 DEF PrefixKeys, prefix
<1> QED  BY <1>1, <1>3, <1>4, <1>5

LEMMA PrefixRecords ==
  ASSUME PrefixTyped, Numbered, NEW a \in Instances, NEW id \in Ids(a)
  PROVE  /\ id \in Nat /\ first[a] \in Nat \ {0} /\ next_id[a] \in Nat
         /\ Record(a, id) \in 1 .. Len(setting.data) /\ size(Record(a, id)) \in Nat
<1>1. setting \in Settings
  BY DEF PrefixTyped
<1>2. /\ first[a] \in Nat /\ next_id[a] \in Nat /\ (first[a] = 0 => next_id[a] = 0)
      /\ first[a] + next_id[a] <= Len(setting.data) + 1 /\ Len(setting.data) \in Nat
  BY <1>1, DataFacts DEF Numbered
<1>3. id \in Nat /\ id < next_id[a]
  BY <1>2 DEF Ids
<1>4. Record(a, id) \in 1 .. Len(setting.data)
  BY <1>2, <1>3 DEF Record
<1> QED  BY <1>1, <1>2, <1>3, <1>4, DataFacts

LEMMA InitLists == InitSets /\ PrefixInit => ListInv
<1> SUFFICES ASSUME InitSets, PrefixInit PROVE ListInv
  OBVIOUS
<1>1. /\ setting \in Settings /\ pc = "idle" /\ position = 0
      /\ first = [a \in Instances |-> 0] /\ next_id = [a \in Instances |-> 0]
      /\ small_index = [a \in Instances |-> {}] /\ prefix_index = [a \in Instances |-> <<>>]
  BY DEF InitSets, InitJoin, PrefixInit
<1>2. Len(setting.data) \in Nat
  BY <1>1, DataFacts
<1>3. PrefixTyped /\ Numbered /\ BatchOfRecords
  BY <1>1, <1>2 DEF PrefixTyped, Numbered, BatchOfRecords
<1>4. \A a \in Instances : Ids(a) = {}
  BY <1>1 DEF Ids
<1>5. \A a \in Instances : \A k : Ids_at(prefix_index[a], k) = {}
  BY <1>1 DEF Ids_at
<1> QED  BY <1>1, <1>3, <1>4, <1>5 DEF ListInv, SmallListed, PrefixListed

LEMMA ListsStay ==
  ASSUME ListInv, UNCHANGED <<setting, first, next_id, small_index, prefix_index>>,
         PrefixTyped', pc' = "insert" => UNCHANGED <<pc, caller, last>>
  PROVE  ListInv'
<1>1. /\ \A a, id : Record(a, id)' = Record(a, id) /\ \A c : Ids(c)' = Ids(c)
      /\ sim' = sim /\ \A r : size(r)' = size(r) /\ PrefixKeys(r)' = PrefixKeys(r)
  BY SetsStay DEF Record, Ids
<1>2. Numbered' /\ BatchOfRecords'
  BY DEF ListInv, Numbered, BatchOfRecords
<1>3. SmallListed'
  BY <1>1 DEF ListInv, SmallListed
<1>4. PrefixListed'
  BY <1>1 DEF ListInv, PrefixListed, Ids_at
<1> QED  BY <1>2, <1>3, <1>4 DEF ListInv

LEMMA ConstructLists ==
  ASSUME ListInv, NEW a \in Instances, NEW r \in setting.starts[a], PrefixConstruct(a, r)
  PROVE  ListInv'
<1>1. /\ pc = "idle" /\ first[a] = 0 /\ first' = [first EXCEPT ![a] = r]
      /\ UNCHANGED <<setting, pc, caller, last, next_id, small_index, prefix_index, position>>
  BY DEF PrefixConstruct, ConstructFor, callVars, argVars, prefixOwnVars
<1>2. PrefixTyped /\ Numbered /\ SmallListed /\ PrefixListed /\ setting \in Settings
  BY DEF ListInv, PrefixTyped
<1>3. r \in 1 .. Len(setting.data) /\ Len(setting.data) \in Nat
  BY <1>2, DataFacts
<1>4. next_id[a] = 0
  BY <1>1, <1>2 DEF Numbered
<1>5. Numbered'
  <2>1. first' \in [Instances -> Nat] /\ first'[a] = r /\ r \in Nat \ {0}
    <3>1. r \in Nat \ {0} /\ first \in [Instances -> Nat]
      BY <1>2, <1>3 DEF Numbered
    <3> QED  BY <1>1, <3>1
  <2>2. \A b \in Instances : b # a => first'[b] = first[b]
    BY <1>1, <1>2 DEF Numbered
  <2>3. r + 0 <= Len(setting.data) + 1
    BY <1>3
  <2> QED  BY <1>1, <1>2, <1>4, <2>1, <2>2, <2>3 DEF Numbered
<1>6. \A b \in Instances : \A id \in Ids(b) : Record(b, id)' = Record(b, id)
  <2> SUFFICES ASSUME NEW b \in Instances, NEW id \in Ids(b) PROVE Record(b, id)' = Record(b, id)
    OBVIOUS
  <2>1. b # a
    BY <1>4 DEF Ids
  <2> QED  BY <1>1, <1>2, <2>1 DEF Record, Numbered
<1>7. /\ \A b : Ids(b)' = Ids(b) /\ sim' = sim
      /\ \A q : size(q)' = size(q) /\ PrefixKeys(q)' = PrefixKeys(q)
  BY <1>1, SetsStay DEF Ids
<1>8. SmallListed'
  BY <1>1, <1>2, <1>6, <1>7 DEF SmallListed
<1>9. PrefixListed'
  BY <1>1, <1>2, <1>6, <1>7 DEF PrefixListed, Ids_at
<1>10. PrefixTyped' /\ BatchOfRecords'
  BY <1>1, <1>2 DEF PrefixTyped, BatchOfRecords
<1> QED  BY <1>5, <1>8, <1>9, <1>10 DEF ListInv

LEMMA InsertBatchLists ==
  ASSUME ListInv, NEW a \in Instances, NEW n \in setting.batches, PrefixInsertBatch(a, n)
  PROVE  ListInv'
<1>1. /\ first[a] # 0 /\ pc = "idle" /\ pc' = "insert" /\ caller' = a
      /\ last' = first[a] + next_id[a] + n - 1 /\ last' <= Len(setting.data)
      /\ UNCHANGED <<setting, first, next_id, small_index, prefix_index, position>>
  BY DEF PrefixInsertBatch, CallInsert, prefixOwnVars
<1>2. PrefixTyped /\ Numbered /\ SmallListed /\ PrefixListed /\ setting \in Settings
  BY DEF ListInv, PrefixTyped
<1>3. n \in Nat \ {0} /\ Len(setting.data) \in Nat /\ first[a] \in Nat /\ next_id[a] \in Nat
  BY <1>2, DataFacts DEF Numbered
<1>4. Numbered' /\ BatchOfRecords' /\ PrefixTyped'
  BY <1>1, <1>2, <1>3 DEF Numbered, BatchOfRecords, PrefixTyped
<1>5. /\ \A b, id : Record(b, id)' = Record(b, id) /\ \A c : Ids(c)' = Ids(c)
      /\ sim' = sim /\ \A r : size(r)' = size(r) /\ PrefixKeys(r)' = PrefixKeys(r)
  BY <1>1, SetsStay DEF Record, Ids
<1>6. SmallListed'
  BY <1>1, <1>2, <1>5 DEF SmallListed
<1>7. PrefixListed'
  BY <1>1, <1>2, <1>5 DEF PrefixListed, Ids_at
<1> QED  BY <1>4, <1>6, <1>7 DEF ListInv

(* The next set gets the next id, in the lists of its keys.                *)
LEMMA InsertLists ==
  ASSUME ListInv, InsertIntoIndex
  PROVE  ListInv'
<1> DEFINE x == next_id[caller]
           r == Record(caller, x)
           ix == prefix_index[caller]
<1>1. /\ PrefixTyped /\ Numbered /\ BatchOfRecords /\ SmallListed /\ PrefixListed
      /\ setting \in Settings /\ pc = "insert" /\ caller \in Instances /\ r <= last
      /\ UNCHANGED <<setting, pc, caller, last, first, position>>
      /\ next_id' = [next_id EXCEPT ![caller] = @ + 1]
      /\ small_index' = [small_index EXCEPT ![caller] = @ \cup SmallEntries(r, x)]
      /\ prefix_index' =
           [prefix_index EXCEPT ![caller] =
              [k \in DOMAIN ix \cup PrefixKeys(r) |->
                 Ids_at(ix, k) \cup (IF k \in PrefixKeys(r) THEN {x} ELSE {})]]
  BY DEF ListInv, PrefixTyped, InsertIntoIndex, InsertSet, InsertNext, Inserting, callVars, argVars,
         PrefixKeys
<1>2. /\ x \in Nat /\ first[caller] \in Nat \ {0} /\ last \in Nat /\ last <= Len(setting.data)
      /\ Len(setting.data) \in Nat
  BY <1>1, DataFacts DEF Numbered, BatchOfRecords
<1>3. r = first[caller] + x
  BY DEF Record
<1>4. /\ \A a, id : Record(a, id)' = Record(a, id)
      /\ sim' = sim /\ \A q : size(q)' = size(q) /\ PrefixKeys(q)' = PrefixKeys(q)
  BY <1>1, SetsStay DEF Record
<1> HIDE DEF r
<1>5. Numbered'
  <2>1. next_id' \in [Instances -> Nat]
    BY <1>1, <1>2 DEF Numbered
  <2>2. first[caller] + (x + 1) <= Len(setting.data) + 1
    BY <1>1, <1>2, <1>3
  <2> HIDE DEF x
  <2>3. \A a \in Instances : next_id'[a] = IF a = caller THEN x + 1 ELSE next_id[a]
    BY <1>1 DEF Numbered, x
  <2> QED  BY <1>1, <1>2, <2>1, <2>2, <2>3 DEF Numbered
<1>6. \A a \in Instances : Ids(a)' = IF a = caller THEN Ids(a) \cup {x} ELSE Ids(a)
  <2>1. \A a \in Instances : next_id'[a] = IF a = caller THEN x + 1 ELSE next_id[a]
    BY <1>1 DEF Numbered
  <2>2. \A a \in Instances \ {caller} : Ids(a)' = Ids(a)
    BY <2>1 DEF Ids
  <2>3. 0 .. x + 1 - 1 = (0 .. x - 1) \cup {x}
    BY <1>2
  <2>4. \A a \in Instances : a = caller => Ids(a)' = 0 .. x + 1 - 1 /\ Ids(a) = 0 .. x - 1
    BY <1>1, <1>2, <2>1 DEF Ids
  <2> QED  BY <2>2, <2>3, <2>4
<1>7. Record(caller, x) = r
  BY DEF r
<1> HIDE DEF x
<1>8. SmallListed'
  <2>1. ASSUME NEW a \in Instances, NEW e
        PROVE  e \in small_index'[a] <=>
                 \E id \in Ids(a)' :
                   e = <<size(Record(a, id)), id>> /\ size(Record(a, id)) <= max_asbs(sim)
    <3>1. CASE a # caller
      <4>1. small_index'[a] = small_index[a] /\ Ids(a)' = Ids(a)
        BY <1>1, <1>6, <3>1 DEF SmallListed
      <4> QED  BY <1>1, <4>1 DEF SmallListed
    <3>2. CASE a = caller
      <4>1. small_index'[a] = small_index[a] \cup SmallEntries(r, x)
        BY <1>1, <3>2 DEF SmallListed
      <4>2. e \in SmallEntries(r, x) <=> e = <<size(r), x>> /\ size(r) <= max_asbs(sim)
        BY DEF SmallEntries
      <4>3. e \in small_index[a] <=>
              \E id \in Ids(a) :
                e = <<size(Record(a, id)), id>> /\ size(Record(a, id)) <= max_asbs(sim)
        BY <1>1 DEF SmallListed
      <4> QED  BY <1>6, <1>7, <3>2, <4>1, <4>2, <4>3
    <3> QED  BY <3>1, <3>2
  <2>2. DOMAIN small_index' = Instances
    BY <1>1 DEF SmallListed
  <2> QED  BY <1>4, <2>1, <2>2 DEF SmallListed
<1>9. PrefixListed'
  <2>1. ASSUME NEW a \in Instances, NEW k, NEW id
        PROVE  id \in Ids_at(prefix_index'[a], k) <=>
                 id \in Ids(a)' /\ k \in PrefixKeys(Record(a, id))
    <3>1. CASE a # caller
      <4>1. prefix_index'[a] = prefix_index[a] /\ Ids(a)' = Ids(a)
        BY <1>1, <1>6, <3>1 DEF PrefixListed
      <4> QED  BY <1>1, <4>1 DEF PrefixListed
    <3>2. CASE a = caller
      <4>1. id \in Ids_at(ix, k) <=> id \in Ids(caller) /\ k \in PrefixKeys(Record(caller, id))
        BY <1>1 DEF PrefixListed
      <4>2. prefix_index'[a] =
              [l \in DOMAIN ix \cup PrefixKeys(r) |->
                 Ids_at(ix, l) \cup (IF l \in PrefixKeys(r) THEN {x} ELSE {})]
        BY <1>1, <3>2 DEF PrefixListed
      <4> HIDE DEF ix
      <4>3. id \in Ids_at(prefix_index'[a], k) <=>
              id \in Ids_at(ix, k) \/ (k \in PrefixKeys(r) /\ id = x)
        BY <4>2 DEF Ids_at
      <4> QED  BY <1>6, <1>7, <3>2, <4>1, <4>3
    <3> QED  BY <3>1, <3>2
  <2>2. DOMAIN prefix_index' = Instances
    BY <1>1 DEF PrefixListed
  <2> QED  BY <1>4, <2>1, <2>2 DEF PrefixListed, Ids_at
<1>10. PrefixTyped' /\ BatchOfRecords'
  BY <1>1 DEF PrefixTyped, BatchOfRecords
<1> QED  BY <1>5, <1>8, <1>9, <1>10 DEF ListInv

LEMMA ListStep ==
  ASSUME ListInv, [PrefixNext]_prefixVars
  PROVE  ListInv'
<1>1. CASE UNCHANGED prefixVars
  <2>1. UNCHANGED <<setting, pc, caller, last, first, next_id, small_index, prefix_index, position>>
    BY <1>1 DEF prefixVars, prefixOwnVars, setVars, joinVars, callVars, argVars, instanceVars
  <2>2. PrefixTyped'
    BY <2>1 DEF ListInv, PrefixTyped
  <2> QED  BY <2>1, <2>2, ListsStay
<1>2. ASSUME NEW a \in Instances, NEW r, NEW f, PrefixJoinBatch(a, r, f)
      PROVE  ListInv'
  <2>1. /\ pc = "idle" /\ pc' = "prepare" /\ caller' = a
        /\ UNCHANGED <<setting, first, next_id, small_index, prefix_index, position>>
    BY <1>2 DEF PrefixJoinBatch, CallJoin, instanceVars, prefixOwnVars
  <2>2. PrefixTyped'
    BY <2>1 DEF ListInv, PrefixTyped
  <2> QED  BY <2>1, <2>2, ListsStay
<1>3. CASE PrefixInsertDone \/ PrefixReturn
  <2>1. /\ pc \in {"insert", "return"} /\ pc' = "idle"
        /\ UNCHANGED <<setting, first, next_id, small_index, prefix_index, position>>
    BY <1>3 DEF PrefixInsertDone, EndInsert, PrefixReturn, Return, CallEnds, instanceVars,
                prefixOwnVars
  <2>2. PrefixTyped'
    BY <2>1 DEF ListInv, PrefixTyped
  <2> QED  BY <2>1, <2>2, ListsStay
<1>4. CASE BeginProbe \/ PrefixSmallResults \/ PrefixVerify
  <2>1. /\ pc \in {"prepare", "small", "verify"} /\ pc' \in {"small", "search", "return"}
        /\ UNCHANGED <<setting, caller, first, next_id, small_index, prefix_index, position>>
    BY <1>4 DEF BeginProbe, GoOn, PrefixSmallResults, AddSmallResults, FindMore, PrefixVerify,
                Verify, argVars, instanceVars, prefixOwnVars
  <2>2. PrefixTyped'
    BY <2>1 DEF ListInv, PrefixTyped
  <2> QED  BY <2>1, <2>2, ListsStay
<1>5. CASE ProbePosition
  <2>1. /\ pc = "search" /\ pc' = "search" /\ position' = position + 1
        /\ UNCHANGED <<setting, caller, first, next_id, small_index, prefix_index>>
    BY <1>5 DEF ProbePosition, FindMore, argVars, instanceVars
  <2>2. PrefixTyped'
    BY <2>1 DEF ListInv, PrefixTyped
  <2> QED  BY <2>1, <2>2, ListsStay
<1>6. CASE PrefixDone
  <2>1. /\ pc = "search" /\ pc' = "verify" /\ position' = 0
        /\ UNCHANGED <<setting, caller, first, next_id, small_index, prefix_index>>
    BY <1>6 DEF PrefixDone, GoOn, argVars, instanceVars
  <2>2. PrefixTyped'
    BY <2>1 DEF ListInv, PrefixTyped
  <2> QED  BY <2>1, <2>2, ListsStay
<1> QED
  BY <1>1, <1>2, <1>3, <1>4, <1>5, <1>6, ConstructLists, InsertBatchLists, InsertLists
     DEF PrefixNext
------------------------------------------------------------------------------
(* Similar sets only, as for PallocJoin: marks, candidates that fit, and   *)
(* what is compared.                                                       *)
PrefixFound ==
  /\ ListInv /\ CallMade /\ Marks /\ CandidatesFit
  /\ pc = "return" => emitted \subseteq Expected

LEMMA PrefixCall ==
  ASSUME PrefixFound, pc \in Calling
  PROVE  /\ ListInv /\ PrefixTyped /\ Numbered /\ setting \in Settings /\ caller \in Instances
         /\ probe \in 1 .. Len(setting.data) /\ filter \in setting.filters
         /\ size(probe) \in Nat /\ IsSimilarity(sim)
<1>1. /\ ListInv /\ PrefixTyped /\ Numbered /\ setting \in Settings /\ caller \in Instances
      /\ probe \in 1 .. Len(setting.data) /\ filter \in setting.filters
  BY DEF PrefixFound, ListInv, PrefixTyped, CallMade, Calling
<1> QED  BY <1>1, DataFacts, SetAssumption DEF sim

LEMMA PrefixSmallFit ==
  ASSUME PrefixFound, pc = "small", NEW id \in small_results(caller)
  PROVE  Fitting(id)
<1>1. /\ ListInv /\ PrefixTyped /\ Numbered /\ setting \in Settings /\ caller \in Instances
      /\ probe \in 1 .. Len(setting.data) /\ filter \in setting.filters
  BY PrefixCall DEF Calling
<1>2. PICK e \in small_index[caller] :
        /\ id = e[2] /\ minimum_size <= e[1] /\ e[1] <= maximum_size
        /\ ~scan_skip_cond(Record(caller, e[2])) /\ ~scan_break_cond(Record(caller, e[2]))
  BY DEF small_results
<1>3. PICK i \in Ids(caller) : e = <<size(Record(caller, i)), i>>
  BY <1>1, <1>2 DEF ListInv, SmallListed
<1>4. i = id /\ e[1] = size(Record(caller, id))
  BY <1>2, <1>3
<1>5. Record(caller, id) \in Int /\ probe \in Int
  <2>1. Record(caller, id) \in 1 .. Len(setting.data)
    BY <1>1, <1>3, <1>4, PrefixRecords
  <2> QED  BY <1>1, <2>1
<1>6. Admitted(Record(caller, id))
  BY <1>1, <1>2, <1>5, FilterAdmits
<1> QED  BY <1>2, <1>3, <1>4, <1>6 DEF Fitting

(* What a position of the probing set finds.                               *)
FoundHere ==
  {id \in (UNION {Ids_at(prefix_index[caller], k) :
                    k \in {prefix(probing_set)[position + 1]} \X sizes(size(probe), position)})
            \ already_seen[caller] :
     /\ ~scan_break_cond(Record(caller, id))
     /\ ~scan_skip_cond(Record(caller, id))}

LEMMA PositionFits ==
  ASSUME PrefixFound, PrefixSizesDefined,
         pc = "search", position < Len(prefix(probing_set)), NEW id \in FoundHere
  PROVE  Fitting(id) /\ id \notin candidates
<1>1. /\ ListInv /\ PrefixTyped /\ Numbered /\ setting \in Settings /\ caller \in Instances
      /\ probe \in 1 .. Len(setting.data) /\ filter \in setting.filters
      /\ size(probe) \in Nat /\ IsSimilarity(sim)
  BY PrefixCall DEF Calling
<1>2. already_seen[caller] = candidates
  BY <1>1 DEF PrefixFound, Marks, Calling
<1>3. PICK k \in {prefix(probing_set)[position + 1]} \X sizes(size(probe), position) :
        id \in Ids_at(prefix_index[caller], k)
  BY DEF FoundHere
<1>4. id \in Ids(caller) /\ k \in PrefixKeys(Record(caller, id))
  BY <1>1, <1>3 DEF ListInv, PrefixListed
<1>5. /\ Record(caller, id) \in 1 .. Len(setting.data) /\ size(Record(caller, id)) \in Nat
  BY <1>1, <1>4, PrefixRecords
<1>6. k[2] = size(Record(caller, id)) /\ k[2] \in sizes(size(probe), position)
  BY <1>3, <1>4 DEF PrefixKeys
<1>7. Admitted(Record(caller, id))
  <2>1. Record(caller, id) \in Int /\ probe \in Int
    BY <1>1, <1>5
  <2> QED  BY <1>1, <2>1, FilterAdmits DEF FoundHere
<1>8. position \in Nat /\ position < size(probe)
  <2>1. position \in Nat
    BY <1>1 DEF PrefixTyped
  <2> QED  BY <1>1, <2>1, PrefixLength DEF PrefixSizesDefined
<1>9. size(Record(caller, id)) <= maximum_size /\ minimum_size <= size(Record(caller, id))
  <2>1. PICK n, m, j, k2 : /\ n = size(probe) /\ m = sim /\ j = position
                           /\ k2 = size(Record(caller, id))
    OBVIOUS
  <2>2. k2 \in minimum_length_bound(m, n) .. maximum_length_pel(m, n, j)
    BY <1>6, <2>1 DEF sizes
  <2>3. minimum_length_bound(m, n) <= k2 /\ k2 <= maximum_length_pel(m, n, j)
    BY <2>2
  <2>4. k2 <= maximum_length_bound(m, n)
    <3>1. IsSimilarity(m) /\ n \in Nat \ {0} /\ j \in Nat /\ j < n /\ k2 \in Nat
      BY <1>1, <1>5, <1>8, <2>1
    <3> QED  BY <2>3, <3>1, ReachAtMost
  <2> QED  BY <2>1, <2>3, <2>4 DEF minimum_size, maximum_size
<1> QED  BY <1>2, <1>4, <1>7, <1>9 DEF Fitting, FoundHere

LEMMA PrefixVerified ==
  ASSUME PrefixFound, pc = "verify",
         NEW r \in Compared, is_in_threshold(sim, preprocessed(r), probing_set)
  PROVE  r \in Expected
<1>1. /\ ListInv /\ PrefixTyped /\ Numbered /\ setting \in Settings /\ caller \in Instances
      /\ probe \in 1 .. Len(setting.data) /\ IsSimilarity(sim)
  BY PrefixCall DEF Calling
<1>2. PICK id \in candidates : r = Record(caller, id)
  BY DEF Compared
<1>3. Fitting(id)
  BY <1>2 DEF PrefixFound, CandidatesFit, Finding
<1>4. r \in Indexed(caller) /\ r \in 1 .. Len(setting.data)
  BY <1>1, <1>2, <1>3, PrefixRecords DEF Fitting, Indexed
<1>5. Similar(sim, TokenSet(r), TokenSet(probe))
  <2>1. PICK x, y : x = preprocessed(r) /\ y = probing_set
    OBVIOUS
  <2>2. /\ x \in Seq(Int) /\ NoTokenTwice(x) /\ Len(x) = size(r)
        /\ y \in Seq(Int) /\ NoTokenTwice(y) /\ Len(y) = size(probe)
    BY <1>1, <1>4, <2>1, PreprocessedFacts, ProbingFacts
  <2>3. minimum_length_bound(sim, Len(y)) <= Len(x) /\ Len(x) <= maximum_length_bound(sim, Len(y))
    BY <1>2, <1>3, <2>2 DEF Fitting, minimum_size, maximum_size
  <2>4. Similar(sim, Range(x), Range(y))
    BY <1>1, <2>1, <2>2, <2>3, SimilarByOverlap
  <2> QED  BY <1>1, <1>4, <2>1, <2>4, PreparedSimilar
<1> QED  BY <1>2, <1>3, <1>4, <1>5 DEF Expected, Fitting

(* Within a call: candidates are added.                                    *)
LEMMA PrefixFinding ==
  ASSUME PrefixFound, ListInv', UNCHANGED <<setting, first, next_id>>,
         UNCHANGED <<caller, probe, filter>>,
         pc \in Calling \ {"return"}, pc' \in Calling \ {"return"},
         NEW ids, \A id \in ids : Fitting(id) /\ id \notin candidates,
         pc' \notin Finding => pc \notin Finding /\ ids = {},
         candidates' = candidates \cup ids, repeated' = repeated \cup (candidates \cap ids),
         already_seen' = [already_seen EXCEPT ![caller] = @ \cup ids]
  PROVE  PrefixFound'
<1>1. CallMade /\ Marks /\ CandidatesFit /\ caller \in Instances
  BY DEF PrefixFound, ListInv, PrefixTyped, Calling
<1>2. CallMade'
  BY <1>1 DEF CallMade
<1>3. Marks'
  <2>1. candidates \cap ids = {}
    OBVIOUS
  <2>2. repeated' = {}
    BY <1>1, <2>1 DEF Marks
  <2>3. already_seen' = [a \in Instances |-> IF a = caller THEN candidates' ELSE {}]
    <3>1. already_seen = [a \in Instances |-> IF a = caller THEN candidates ELSE {}]
      BY <1>1 DEF Marks
    <3> QED  BY <1>1, <3>1
  <2>4. pc' \notin Finding => candidates' = {}
    BY <1>1 DEF Marks
  <2> QED  BY <1>1, <2>2, <2>3, <2>4 DEF Marks
<1>4. CandidatesFit'
  <2> SUFFICES ASSUME pc' \in Finding, NEW id \in candidates' PROVE Fitting(id)'
    BY DEF CandidatesFit
  <2>1. Fitting(id)
    <3>1. CASE id \in ids
      BY <3>1
    <3>2. CASE id \in candidates
      <4>1. pc \in Finding
        BY <1>1, <3>2 DEF Marks
      <4> QED  BY <1>1, <3>2, <4>1 DEF CandidatesFit
    <3> QED  BY <3>1, <3>2
  <2> QED  BY <2>1, FittingStays
<1> QED  BY <1>2, <1>3, <1>4 DEF PrefixFound

LEMMA PrefixGoesOn ==
  ASSUME PrefixFound, ListInv', UNCHANGED <<setting, first, next_id>>,
         UNCHANGED <<caller, probe, filter, resultVars>>,
         pc \in Calling \ {"return"}, pc' \in Calling \ {"return"},
         pc' \notin Finding => pc \notin Finding
  PROVE  PrefixFound'
<1>1. UNCHANGED <<already_seen, candidates, repeated>>
  BY DEF resultVars
<1>2. already_seen' = [already_seen EXCEPT ![caller] = @ \cup {}]
  <2>1. already_seen = [a \in Instances |-> IF a = caller THEN candidates ELSE {}]
    BY DEF PrefixFound, Marks
  <2> QED  BY <1>1, <2>1
<1>3. candidates' = candidates \cup {} /\ repeated' = repeated \cup (candidates \cap {})
  BY <1>1
<1> DEFINE ids == {}
<1>4. /\ \A id \in ids : Fitting(id) /\ id \notin candidates
      /\ pc' \notin Finding => pc \notin Finding /\ ids = {}
      /\ candidates' = candidates \cup ids /\ repeated' = repeated \cup (candidates \cap ids)
      /\ already_seen' = [already_seen EXCEPT ![caller] = @ \cup ids]
  BY <1>2, <1>3
<1> HIDE DEF ids
<1> QED  BY <1>4, PrefixFinding

LEMMA PrefixFoundStep ==
  ASSUME PrefixFound, PrefixSizesDefined, [PrefixNext]_prefixVars
  PROVE  PrefixFound'
<1>0. ListInv' /\ ListInv /\ PrefixTyped /\ CallMade /\ Marks /\ CandidatesFit
  BY ListStep DEF PrefixFound, ListInv
<1>1. CASE UNCHANGED prefixVars
  <2>1. UNCHANGED <<setting, pc, caller, probe, filter, first, next_id, already_seen, candidates,
                    repeated, emitted>>
    BY <1>1 DEF prefixVars, setVars, joinVars, callVars, argVars, instanceVars, resultVars
  <2>2. CallMade' /\ Marks'
    BY <1>0, <2>1 DEF CallMade, Marks
  <2>3. CandidatesFit'
    BY <1>0, <2>1, FittingStays DEF CandidatesFit
  <2>4. Expected' = Expected
    BY <2>1 DEF Expected, Indexed, Ids, Record, Admitted, TokenSet, tokens, sim
  <2> QED  BY <1>0, <2>1, <2>2, <2>3, <2>4 DEF PrefixFound
<1>2. ASSUME pc \notin Calling, pc' \notin Calling, UNCHANGED resultVars
      PROVE  PrefixFound'
  <2>1. CallMade' /\ CandidatesFit' /\ (pc = "return" => emitted \subseteq Expected)'
    BY <1>2 DEF CallMade, CandidatesFit, Calling, Finding
  <2>2. Marks'
    BY <1>0, <1>2 DEF Marks, resultVars, Calling, Finding
  <2> QED  BY <1>0, <2>1, <2>2 DEF PrefixFound
<1>3. ASSUME NEW a \in Instances, NEW r, NEW n, PrefixConstruct(a, r) \/ PrefixInsertBatch(a, n)
      PROVE  PrefixFound'
  <2>1. pc = "idle" /\ pc' \in {"idle", "insert"} /\ UNCHANGED resultVars
    BY <1>3 DEF PrefixConstruct, ConstructFor, callVars, PrefixInsertBatch, CallInsert
  <2> QED  BY <1>2, <2>1 DEF Calling
<1>4. CASE InsertIntoIndex \/ PrefixInsertDone
  <2>1. pc = "insert" /\ pc' \in {"idle", "insert"} /\ UNCHANGED resultVars
    BY <1>4 DEF InsertIntoIndex, InsertSet, InsertNext, callVars, PrefixInsertDone, EndInsert,
                CallEnds
  <2> QED  BY <1>2, <2>1 DEF Calling
<1>5. ASSUME NEW a \in Instances, NEW r \in setting.probes, NEW f \in setting.filters,
             PrefixJoinBatch(a, r, f)
      PROVE  PrefixFound'
  <2>1. /\ pc = "idle" /\ pc' = "prepare" /\ caller' = a /\ probe' = r /\ filter' = f
        /\ UNCHANGED <<setting, already_seen, candidates, repeated>>
    BY <1>5 DEF PrefixJoinBatch, CallJoin, resultVars
  <2>2. CallMade'
    <3>1. r \in 1 .. Len(setting.data)
      BY <1>0, DatasetAssumption DEF PrefixTyped
    <3> QED  BY <2>1, <3>1 DEF CallMade
  <2>3. candidates = {} /\ repeated = {} /\ already_seen = [b \in Instances |-> {}]
    BY <1>0, <2>1 DEF Marks, Calling, Finding
  <2>4. Marks' /\ CandidatesFit'
    BY <2>1, <2>3 DEF Marks, CandidatesFit, Finding
  <2> QED  BY <1>0, <2>1, <2>2, <2>4 DEF PrefixFound
<1>6. CASE BeginProbe \/ PrefixDone
  <2>1. /\ pc \in {"prepare", "search"} /\ pc' \in {"small", "verify"}
        /\ pc' = "small" => pc = "prepare"
        /\ UNCHANGED <<setting, first, next_id, caller, probe, filter, resultVars>>
    BY <1>6 DEF BeginProbe, PrefixDone, GoOn, argVars, instanceVars
  <2> QED  BY <1>0, <2>1, PrefixGoesOn DEF Calling, Finding
<1>7. CASE PrefixSmallResults
  <2>1. /\ pc = "small" /\ pc' = "search" /\ UNCHANGED <<setting, first, next_id>>
        /\ UNCHANGED <<caller, probe, filter>> /\ Push(caller, small_results(caller))
    BY <1>7 DEF PrefixSmallResults, AddSmallResults, FindMore, argVars, instanceVars
  <2>2. \A id \in small_results(caller) : Fitting(id) /\ id \notin candidates
    <3>1. candidates = {}
      BY <1>0, <2>1 DEF Marks, Finding
    <3> QED  BY <2>1, <3>1, PrefixSmallFit
  <2> QED  BY <1>0, <2>1, <2>2, PrefixFinding DEF Push, Marked, Calling, Finding
<1>8. CASE ProbePosition
  <2>1. /\ pc = "search" /\ pc' = "search" /\ position < Len(prefix(probing_set))
        /\ UNCHANGED <<setting, first, next_id, caller, probe, filter>> /\ Push(caller, FoundHere)
    BY <1>8 DEF ProbePosition, FindMore, argVars, instanceVars, FoundHere
  <2>2. \A id \in FoundHere : Fitting(id) /\ id \notin candidates
    BY <2>1, PositionFits
  <2> QED  BY <1>0, <2>1, <2>2, PrefixFinding DEF Push, Marked, Calling, Finding
<1>9. CASE PrefixVerify
  <2>1. /\ pc = "verify" /\ pc' = "return"
        /\ UNCHANGED <<setting, caller, probe, filter, first, next_id, candidates, repeated>>
        /\ emitted' = {r \in Compared : is_in_threshold(sim, preprocessed(r), probing_set)}
        /\ already_seen' = [already_seen EXCEPT ![caller] = Cleared(caller)]
    BY <1>9 DEF PrefixVerify, Verify, argVars, instanceVars
  <2>2. caller \in Instances
    BY <1>0, <2>1 DEF PrefixTyped
  <2>3. CallMade'
    BY <1>0, <2>1 DEF CallMade, Calling
  <2>4. Marks'
    <3>1. /\ already_seen = [a \in Instances |-> IF a = caller THEN candidates ELSE {}]
          /\ repeated = {}
      BY <1>0, <2>1 DEF Marks, Calling
    <3>2. Cleared(caller) = {}
      BY <2>2, <3>1 DEF Cleared
    <3>3. already_seen' = [a \in Instances |-> {}]
      BY <2>1, <3>1, <3>2
    <3> QED  BY <2>1, <3>1, <3>3 DEF Marks, Finding
  <2>5. CandidatesFit'
    BY <1>0, <2>1, FittingStays DEF CandidatesFit, Finding
  <2>6. emitted' \subseteq Expected
    BY <2>1, PrefixVerified
  <2>7. Expected' = Expected
    BY <2>1 DEF Expected, Indexed, Ids, Record, Admitted, TokenSet, tokens, sim
  <2> QED  BY <1>0, <2>3, <2>4, <2>5, <2>6, <2>7 DEF PrefixFound
<1>10. CASE PrefixReturn
  <2>1. /\ pc = "return" /\ pc' = "idle" /\ UNCHANGED already_seen
        /\ candidates' = {} /\ repeated' = {}
    BY <1>10 DEF PrefixReturn, Return, CallEnds
  <2>2. already_seen = [a \in Instances |-> {}]
    BY <1>0, <2>1 DEF Marks
  <2>3. Marks' /\ CallMade' /\ CandidatesFit'
    BY <2>1, <2>2 DEF Marks, CallMade, CandidatesFit, Calling, Finding
  <2> QED  BY <1>0, <2>1, <2>3 DEF PrefixFound
<1> QED
  BY <1>1, <1>3, <1>4, <1>5, <1>6, <1>7, <1>8, <1>9, <1>10 DEF PrefixNext

LEMMA InitFound == InitSets /\ PrefixInit => PrefixFound
<1> SUFFICES ASSUME InitSets, PrefixInit PROVE PrefixFound
  OBVIOUS
<1>1. /\ ListInv /\ pc = "idle" /\ candidates = {} /\ repeated = {}
      /\ already_seen = [a \in Instances |-> {}]
  BY InitLists DEF InitSets, InitJoin
<1> QED
  BY <1>1 DEF PrefixFound, CallMade, Marks, CandidatesFit, Calling, Finding

LEMMA SettingKept == [PrefixNext]_prefixVars => setting' = setting
<1> SUFFICES ASSUME [PrefixNext]_prefixVars PROVE setting' = setting
  OBVIOUS
<1>1. CASE UNCHANGED prefixVars
  BY <1>1 DEF prefixVars, setVars, joinVars
<1>2. ASSUME NEW a, NEW r, NEW n, NEW f,
             \/ PrefixConstruct(a, r) \/ PrefixInsertBatch(a, n) \/ PrefixJoinBatch(a, r, f)
             \/ PrefixReturn
      PROVE  setting' = setting
  BY <1>2 DEF PrefixConstruct, ConstructFor, PrefixInsertBatch, CallInsert, PrefixJoinBatch,
              CallJoin, PrefixReturn, Return
<1>3. CASE InsertIntoIndex \/ PrefixInsertDone \/ BeginProbe \/ PrefixSmallResults
  BY <1>3 DEF InsertIntoIndex, InsertSet, InsertNext, PrefixInsertDone, EndInsert, BeginProbe, GoOn,
              PrefixSmallResults, AddSmallResults, FindMore
<1>4. CASE ProbePosition \/ PrefixDone \/ PrefixVerify
  BY <1>4 DEF ProbePosition, FindMore, PrefixDone, GoOn, PrefixVerify, Verify
<1> QED  BY <1>1, <1>2, <1>3, <1>4 DEF PrefixNext

LEMMA PremiseStays ==
  ASSUME setting' = setting
  PROVE  PrefixSizesDefined' = PrefixSizesDefined
BY DEF PrefixSizesDefined, sim, tokens

(* Whatever was indexed and probed before, and whichever tokens are        *)
(* replaced as frequent, a call of a prefix join gives its handler similar *)
(* sets only, none that its filter keeps out, and has no candidate twice - *)
(* with JaroOverlapSimilarity if no set is empty (prefix_join.cc 41-68,    *)
(* 141-213, signature_join.hh).                                            *)
THEOREM PrefixSimilarOnly == PrefixSpec => [](PrefixSizesDefined => FindsOnlySimilar)
<1> DEFINE Inv == ListInv /\ (PrefixSizesDefined => PrefixFound)
<1>1. InitSets /\ PrefixInit => Inv
  BY InitFound, InitLists
<1>2. Inv /\ [PrefixNext]_prefixVars => Inv'
  <2> SUFFICES ASSUME Inv, [PrefixNext]_prefixVars PROVE Inv'
    OBVIOUS
  <2>1. PrefixSizesDefined' = PrefixSizesDefined
    BY SettingKept, PremiseStays
  <2> QED  BY <2>1, ListStep, PrefixFoundStep
<1>3. Inv => (PrefixSizesDefined => FindsOnlySimilar)
  BY DEF PrefixFound, Marks, FindsOnlySimilar
<1> HIDE DEF Inv
<1> QED  BY <1>1, <1>2, <1>3, PTL DEF PrefixSpec
------------------------------------------------------------------------------
(* Every similar set: it is a candidate by its size alone, or one by a     *)
(* token of its prefix at a position that is still to come.                *)
Sought(id) ==
  /\ Wanted(id) /\ ~LeftUnsorted(Record(caller, id))
  /\ ~(sim.kind = "structural" /\ sim.q > 1 /\ sim.t > 1
       /\ size(Record(caller, id)) > size(probe))

FoundAt(id, j) ==
  /\ j \in Nat /\ j < Len(prefix(probing_set))
  /\ prefix(probing_set)[j + 1] \in Range(prefix(preprocessed(Record(caller, id))))
  /\ size(Record(caller, id)) \in sizes(size(probe), j)

AllButLonger ==
  \A r \in Expected \ emitted :
    \/ LeftUnsorted(r)
    \/ /\ sim.kind = "structural" /\ sim.q > 1 /\ sim.t > 1
       /\ size(r) > size(probe)

PrefixProgress ==
  /\ pc = "search" =>
       \A id : Sought(id) => id \in candidates \/ \E j : position <= j /\ FoundAt(id, j)
  /\ pc = "verify" => \A id : Sought(id) => id \in candidates
  /\ pc = "return" => AllButLonger

LEMMA SoughtStays ==
  ASSUME UNCHANGED <<setting, caller, probe, filter, first, next_id>>
  PROVE  /\ \A id : Sought(id)' = Sought(id)
         /\ \A id, j : FoundAt(id, j)' = FoundAt(id, j)
         /\ Expected' = Expected
         /\ \A r : LeftUnsorted(r)' = LeftUnsorted(r)
<1>1. /\ sim' = sim /\ \A r : size(r)' = size(r) /\ preprocessed(r)' = preprocessed(r)
      /\ \A r : converted(r)' = converted(r) /\ tokens(r)' = tokens(r)
  BY SetsStay
<1>2. \A id : Record(caller, id)' = Record(caller, id)
  BY DEF Record
<1>3. Expected' = Expected /\ \A id : Wanted(id)' = Wanted(id)
  BY DEF Expected, Indexed, Wanted, Ids, Record, Admitted, TokenSet, tokens, sim
<1>4. \A r : LeftUnsorted(r)' = LeftUnsorted(r)
  BY <1>1 DEF LeftUnsorted, literally_selfjoin
<1>5. \A id : Sought(id)' = Sought(id)
  BY <1>1, <1>2, <1>3, <1>4 DEF Sought
<1>6. \A n, j : sizes(n, j)' = sizes(n, j)
  BY <1>1 DEF sizes
<1>7. probing_set' = probing_set
  BY <1>1 DEF probing_set, literally_selfjoin
<1>8. \A id, j : FoundAt(id, j)' = FoundAt(id, j)
  BY <1>1, <1>2, <1>6, <1>7 DEF FoundAt, prefix
<1> QED  BY <1>3, <1>4, <1>5, <1>8

LEMMA SoughtFacts ==
  ASSUME PrefixFound, pc \in Calling, PrefixSizesDefined, NEW id, Wanted(id), NEW r, r = Record(caller, id)
  PROVE  /\ r \in 1 .. Len(setting.data) /\ size(r) \in Nat /\ size(probe) \in Nat
         /\ size(r) = 0 \/ size(probe) = 0 => sim.kind # "jaro_overlap"
         /\ Similar(sim, Range(preprocessed(r)), Range(probing_set))
         /\ minimum_size <= size(r) /\ size(r) <= maximum_size
         /\ ~scan_skip_cond(r) /\ ~scan_break_cond(r)
<1>1. /\ PrefixTyped /\ Numbered /\ setting \in Settings /\ caller \in Instances
      /\ probe \in 1 .. Len(setting.data) /\ filter \in setting.filters /\ IsSimilarity(sim)
  BY PrefixCall
<1>2. r \in 1 .. Len(setting.data)
  BY <1>1, PrefixRecords DEF Wanted
<1>3. /\ size(r) \in Nat /\ size(probe) \in Nat
      /\ size(r) = 0 \/ size(probe) = 0 => sim.kind # "jaro_overlap"
  <2>1. size(r) \in Nat /\ size(probe) \in Nat
    BY <1>1, <1>2, TokensOf
  <2>2. sim.kind = "jaro_overlap" => size(r) # 0 /\ size(probe) # 0
    BY <1>1, <1>2, NoEmptySet
  <2> QED  BY <2>1, <2>2
<1>4. Similar(sim, Range(preprocessed(r)), Range(probing_set))
  BY <1>1, <1>2, PreparedSimilar DEF Wanted
<1>5. minimum_size <= size(r) /\ size(r) <= maximum_size
  <2>1. PICK m, R, S, nr, ns : /\ m = sim /\ R = TokenSet(r) /\ S = TokenSet(probe)
                               /\ nr = size(r) /\ ns = size(probe)
    OBVIOUS
  <2>2. PICK both, f : both = Cardinality(R \cap S) /\ f = fractional_overlap(m, nr, ns)
    OBVIOUS
  <2>3. /\ IsFiniteSet(R) /\ IsFiniteSet(S) /\ nr = Cardinality(R) /\ ns = Cardinality(S)
        /\ nr \in Nat /\ ns \in Nat
    BY <1>1, <1>2, <1>3, <2>1, TokensOf
  <2>4. both \in Nat
    BY <2>2, <2>3, SetsCounted
  <2>5. /\ IsSimilarity(m) /\ Similar(m, R, S)
        /\ nr = 0 \/ ns = 0 => m.kind # "jaro_overlap"
    BY <1>1, <1>3, <2>1 DEF Wanted
  <2>6. minimum_length_bound(m, ns) <= nr /\ nr <= maximum_length_bound(m, ns)
    <3>1. CASE nr # 0 /\ ns # 0
      BY <2>2, <2>3, <2>4, <2>5, <3>1, SimilarOverlap
    <3>2. CASE nr = 0 \/ ns = 0
      BY <2>3, <2>5, <3>2, EmptyIsSmall
    <3> QED  BY <3>1, <3>2
  <2> QED  BY <2>1, <2>6 DEF minimum_size, maximum_size
<1>6. ~scan_skip_cond(r) /\ ~scan_break_cond(r)
  <2>1. r \in Int /\ probe \in Int /\ Admitted(r)
    BY <1>1, <1>2 DEF Wanted
  <2> QED  BY <1>1, <2>1, AdmittedPasses
<1> QED  BY <1>1, <1>2, <1>3, <1>4, <1>5, <1>6

(* At first all positions are to come, and small sets are candidates.      *)
LEMMA PrefixSmallProgress ==
  ASSUME PrefixFound, PrefixSizesDefined, PrefixSmallResults
  PROVE  PrefixProgress'
<1>1. /\ pc = "small" /\ pc' = "search" /\ position' = position
      /\ UNCHANGED <<setting, caller, probe, filter, first, next_id>>
      /\ candidates' = candidates \cup small_results(caller)
  BY DEF PrefixSmallResults, AddSmallResults, FindMore, Push, argVars, instanceVars, prefixOwnVars
<1>2. /\ ListInv /\ setting \in Settings /\ caller \in Instances /\ position = 0
      /\ probe \in 1 .. Len(setting.data) /\ IsSimilarity(sim)
  <2>1. /\ ListInv /\ PrefixTyped /\ setting \in Settings /\ caller \in Instances
        /\ probe \in 1 .. Len(setting.data) /\ IsSimilarity(sim)
    BY <1>1, PrefixCall DEF Calling
  <2> QED  BY <1>1, <2>1 DEF PrefixTyped
<1>3. ASSUME NEW id, Sought(id)
      PROVE  id \in small_results(caller) \/ \E j : 0 <= j /\ FoundAt(id, j)
  <2> DEFINE r == Record(caller, id)
             x == preprocessed(r)
             y == probing_set
             nx == size(r)
             ny == size(probe)
  <2>1. id \in Ids(caller) /\ Wanted(id)
    BY <1>3 DEF Sought, Wanted
  <2>2. /\ r \in 1 .. Len(setting.data) /\ nx \in Nat /\ ny \in Nat
        /\ nx = 0 \/ ny = 0 => sim.kind # "jaro_overlap"
        /\ Similar(sim, Range(x), Range(y)) /\ minimum_size <= nx /\ nx <= maximum_size
        /\ ~scan_skip_cond(r) /\ ~scan_break_cond(r)
    BY <1>1, <2>1, SoughtFacts DEF Calling
  <2>3. /\ x \in Seq(Int) /\ Sorted(x) /\ NoTokenTwice(x) /\ Len(x) = nx
        /\ y \in Seq(Int) /\ Sorted(y) /\ NoTokenTwice(y) /\ Len(y) = ny
    <3>1. ~LeftUnsorted(r)
      BY <1>3 DEF Sought
    <3> QED  BY <1>2, <2>2, <3>1, PreprocessedFacts, ProbingFacts DEF LeftUnsorted
  <2>4. CASE Range(x) \cap Range(y) = {}
    <3>1. PICK R, S : R = Range(x) /\ S = Range(y)
      OBVIOUS
    <3>2. IsFiniteSet(R) /\ IsFiniteSet(S) /\ nx = Cardinality(R) /\ ny = Cardinality(S)
      BY <2>3, <3>1, TokensCounted
    <3>3. Similar(sim, R, S) /\ R \cap S = {}
      BY <2>2, <2>4, <3>1
    <3> HIDE DEF r, x, y, nx, ny
    <3>4. nx <= always_similar_below_size(sim, ny) /\ nx <= max_asbs(sim)
      <4>1. CASE nx # 0 /\ ny # 0
        BY <1>2, <2>2, <3>2, <3>3, <4>1, NothingShared
      <4>2. CASE nx = 0 \/ ny = 0
        BY <1>2, <2>2, <3>2, <3>3, <4>2, EmptyIsSmall
      <4> QED  BY <4>1, <4>2
    <3>5. PICK e : e = <<nx, id>>
      OBVIOUS
    <3>6. e \in small_index[caller]
      BY <1>2, <2>1, <3>4, <3>5 DEF ListInv, SmallListed, r, nx
    <3>7. e[1] = nx /\ e[2] = id
      BY <3>5
    <3>8. id \in small_results(caller)
      BY <2>2, <3>4, <3>6, <3>7 DEF small_results, r, ny
    <3> QED  BY <3>8
  <2>5. CASE Range(x) \cap Range(y) # {}
    <3>1. ~(sim.kind = "structural" /\ sim.q > 1 /\ sim.t > 1 /\ nx > ny)
      BY <1>3 DEF Sought
    <3>2. PICK m, x2, y2 : m = sim /\ x2 = x /\ y2 = y
      OBVIOUS
    <3>9. nx \in Nat \ {0} /\ ny \in Nat \ {0}
      BY <2>2, <2>3, <2>5, RangeFacts
    <3> HIDE DEF r, x, y, nx, ny
    <3>3. PICK i \in 1 .. nx, j \in 1 .. ny :
            /\ x2[i] = y2[j]
            /\ prefix_size(m, nx) \in Int /\ i <= prefix_size(m, nx)
            /\ prefix_size(m, ny) \in Int /\ j <= prefix_size(m, ny)
            /\ minimum_length_bound(m, ny) <= nx /\ nx <= maximum_length_pel(m, ny, j - 1)
      BY <1>2, <2>2, <2>3, <2>5, <3>1, <3>2, <3>9, PrefixesMeet
    <3>4. x[i] \in Range(prefix(x))
      BY <2>3, <3>2, <3>3, PrefixHas
    <3>5. Len(prefix(y)) \in Nat /\ j <= Len(prefix(y)) /\ prefix(y)[j] = y[j]
      BY <2>3, <3>2, <3>3, PrefixHas
    <3>6. j - 1 \in Nat /\ j - 1 < Len(prefix(y)) /\ j - 1 + 1 = j /\ 0 <= j - 1
      BY <2>2, <3>5
    <3>7. nx \in sizes(ny, j - 1)
      <4>1. PICK p : p = maximum_length_pel(m, ny, j - 1)
        OBVIOUS
      <4>2. PICK l : l = minimum_length_bound(m, ny)
        OBVIOUS
      <4>3. nx \in l .. p
        BY <2>2, <3>3, <4>1, <4>2
      <4> QED  BY <3>2, <4>1, <4>2, <4>3 DEF sizes
    <3>8. FoundAt(id, j - 1)
      <4>1. prefix(y)[j] \in Range(prefix(x))
        BY <3>2, <3>3, <3>4, <3>5
      <4>2. PICK k : k = j - 1
        OBVIOUS
      <4>3. prefix(y)[k + 1] \in Range(prefix(x))
        BY <3>6, <4>1, <4>2
      <4> QED  BY <3>6, <3>7, <4>2, <4>3 DEF FoundAt, r, x, y, nx, ny
    <3> QED  BY <3>6, <3>8
  <2> QED  BY <2>4, <2>5
<1>4. /\ \A id : Sought(id)' = Sought(id)
      /\ \A id, j : FoundAt(id, j)' = FoundAt(id, j)
  BY <1>1, SoughtStays
<1> QED  BY <1>1, <1>2, <1>3, <1>4 DEF PrefixProgress

(* Who is found at the position becomes a candidate.                       *)
LEMMA PositionProgress ==
  ASSUME PrefixFound, PrefixSizesDefined, PrefixProgress, ProbePosition
  PROVE  PrefixProgress'
<1>1. /\ pc = "search" /\ pc' = "search" /\ position' = position + 1
      /\ UNCHANGED <<setting, caller, probe, filter, first, next_id>>
      /\ candidates' = candidates \cup FoundHere
  BY DEF ProbePosition, FindMore, Push, argVars, instanceVars, FoundHere
<1>2. ListInv /\ caller \in Instances /\ position \in Nat /\ already_seen[caller] = candidates
  <2>1. ListInv /\ PrefixTyped /\ caller \in Instances /\ Marks
    BY <1>1, PrefixCall DEF Calling, PrefixFound
  <2> QED  BY <1>1, <2>1 DEF PrefixTyped, Marks, Calling
<1>3. ASSUME NEW id, Sought(id), id \notin candidates, FoundAt(id, position)
      PROVE  id \in FoundHere
  <2> DEFINE r == Record(caller, id)
             k == <<prefix(probing_set)[position + 1], size(r)>>
  <2>1. id \in Ids(caller) /\ Wanted(id)
    BY <1>3 DEF Sought, Wanted
  <2>2. ~scan_skip_cond(r) /\ ~scan_break_cond(r)
    BY <1>1, <2>1, SoughtFacts DEF Calling
  <2>3. k \in PrefixKeys(r)
    BY <1>3 DEF FoundAt, PrefixKeys
  <2>4. k \in {prefix(probing_set)[position + 1]} \X sizes(size(probe), position)
    BY <1>3 DEF FoundAt
  <2> HIDE DEF k
  <2>5. id \in Ids_at(prefix_index[caller], k)
    BY <1>2, <2>1, <2>3 DEF ListInv, PrefixListed
  <2> QED  BY <1>2, <1>3, <2>2, <2>4, <2>5 DEF FoundHere
<1>4. ASSUME NEW id, Sought(id), id \notin candidates, id \notin FoundHere
      PROVE  \E j : position + 1 <= j /\ FoundAt(id, j)
  <2>1. PICK j : position <= j /\ FoundAt(id, j)
    BY <1>1, <1>4 DEF PrefixProgress
  <2>2. j # position
    BY <1>3, <1>4, <2>1
  <2>3. j \in Nat
    BY <2>1 DEF FoundAt
  <2> QED  BY <1>2, <2>1, <2>2, <2>3
<1>5. /\ \A id : Sought(id)' = Sought(id)
      /\ \A id, j : FoundAt(id, j)' = FoundAt(id, j)
  BY <1>1, SoughtStays
<1> QED  BY <1>1, <1>4, <1>5 DEF PrefixProgress

LEMMA PrefixDoneProgress ==
  ASSUME PrefixFound, PrefixProgress, PrefixDone
  PROVE  PrefixProgress'
<1>1. /\ pc = "search" /\ pc' = "verify" /\ position = Len(prefix(probing_set))
      /\ UNCHANGED <<setting, caller, probe, filter, first, next_id, candidates>>
  BY DEF PrefixDone, GoOn, argVars, instanceVars, resultVars
<1>2. position \in Nat
  BY DEF PrefixFound, ListInv, PrefixTyped
<1>3. ASSUME NEW id, Sought(id) PROVE id \in candidates
  <2>1. \A j : ~(position <= j /\ FoundAt(id, j))
    BY <1>1, <1>2 DEF FoundAt
  <2> QED  BY <1>1, <1>3, <2>1 DEF PrefixProgress
<1>4. \A id : Sought(id)' = Sought(id)
  BY <1>1, SoughtStays
<1> QED  BY <1>1, <1>3, <1>4 DEF PrefixProgress

LEMMA PrefixVerifyProgress ==
  ASSUME PrefixFound, PrefixSizesDefined, PrefixProgress, PrefixVerify
  PROVE  PrefixProgress'
<1>1. /\ pc = "verify" /\ pc' = "return"
      /\ UNCHANGED <<setting, caller, probe, filter, first, next_id>>
      /\ emitted' = {r \in Compared : is_in_threshold(sim, preprocessed(r), probing_set)}
  BY DEF PrefixVerify, Verify, argVars, instanceVars
<1>2. /\ setting \in Settings /\ caller \in Instances /\ IsSimilarity(sim)
      /\ probe \in 1 .. Len(setting.data)
  BY <1>1, PrefixCall DEF Calling
<1>3. ASSUME NEW id, Sought(id) PROVE Record(caller, id) \in emitted'
  <2>1. PICK r : r = Record(caller, id)
    OBVIOUS
  <2>2. id \in candidates /\ Wanted(id)
    BY <1>1, <1>3 DEF PrefixProgress, Sought
  <2>3. /\ r \in 1 .. Len(setting.data) /\ size(r) \in Nat /\ size(probe) \in Nat
        /\ size(r) = 0 \/ size(probe) = 0 => sim.kind # "jaro_overlap"
        /\ Similar(sim, Range(preprocessed(r)), Range(probing_set))
    BY <1>1, <2>1, <2>2, SoughtFacts DEF Calling
  <2>4. r \in Compared
    <3>1. literally_selfjoin => r < probe
      BY <2>1, <2>2 DEF Wanted, Admitted, literally_selfjoin
    <3>2. ~(literally_selfjoin /\ probe <= r)
      BY <1>2, <2>3, <3>1
    <3> QED  BY <2>1, <2>2, <3>2 DEF Compared
  <2>5. is_in_threshold(sim, preprocessed(r), probing_set) = TRUE
    <3>0. ~LeftUnsorted(r)
      BY <1>3, <2>1 DEF Sought
    <3>1. PICK m, x, y : m = sim /\ x = preprocessed(r) /\ y = probing_set
      OBVIOUS
    <3>2. /\ x \in Seq(Int) /\ Sorted(x) /\ Len(x) = size(r)
          /\ y \in Seq(Int) /\ Sorted(y) /\ Len(y) = size(probe)
      BY <1>2, <2>3, <3>0, <3>1, PreprocessedFacts, ProbingFacts DEF LeftUnsorted
    <3>3. /\ IsSimilarity(m) /\ Similar(m, Range(x), Range(y))
          /\ Len(x) = 0 \/ Len(y) = 0 => m.kind # "jaro_overlap"
      BY <1>2, <2>3, <3>1, <3>2
    <3>4. CASE Len(x) # 0 /\ Len(y) # 0
      <4>1. x # <<>> /\ y # <<>>
        BY <3>4
      <4> QED  BY <3>1, <3>2, <3>3, <4>1, SimilarPass
    <3>5. CASE Len(x) = 0 \/ Len(y) = 0
      BY <3>1, <3>2, <3>3, <3>5, EmptyPasses
    <3> QED  BY <3>4, <3>5
  <2> QED  BY <1>1, <2>1, <2>4, <2>5
<1>4. ASSUME NEW r \in Expected, r \notin emitted'
      PROVE  \/ LeftUnsorted(r)
             \/ sim.kind = "structural" /\ sim.q > 1 /\ sim.t > 1 /\ size(r) > size(probe)
  <2>1. PICK id \in Ids(caller) : r = Record(caller, id)
    BY DEF Expected, Indexed
  <2>2. Wanted(id)
    BY <2>1 DEF Expected, Wanted
  <2>3. ~Sought(id)
    BY <1>3, <1>4, <2>1
  <2> QED  BY <2>1, <2>2, <2>3 DEF Sought
<1>5. /\ Expected' = Expected /\ sim' = sim /\ \A r : size(r)' = size(r) /\ probe' = probe
      /\ \A r : LeftUnsorted(r)' = LeftUnsorted(r)
  BY <1>1, SoughtStays, SetsStay
<1>6. size(probe)' = size(probe)
  BY <1>1 DEF size
<1> QED  BY <1>1, <1>4, <1>5, <1>6 DEF PrefixProgress, AllButLonger

LEMMA PrefixProgressStep ==
  ASSUME PrefixFound, PrefixSizesDefined, PrefixProgress, [PrefixNext]_prefixVars
  PROVE  PrefixProgress'
<1>1. CASE UNCHANGED prefixVars
  <2>1. UNCHANGED <<setting, pc, caller, probe, filter, first, next_id, candidates,
                    emitted, position>>
    BY <1>1 DEF prefixVars, prefixOwnVars, setVars, joinVars, callVars, argVars, instanceVars,
                resultVars
  <2>2. /\ \A id : Sought(id)' = Sought(id)
        /\ \A id, j : FoundAt(id, j)' = FoundAt(id, j)
        /\ Expected' = Expected /\ sim' = sim /\ \A r : size(r)' = size(r)
        /\ \A r : LeftUnsorted(r)' = LeftUnsorted(r)
    BY <2>1, SoughtStays, SetsStay
  <2>3. size(probe)' = size(probe)
    BY <2>1 DEF size
  <2> QED  BY <2>1, <2>2, <2>3 DEF PrefixProgress, AllButLonger
<1>2. CASE pc' \notin {"search", "verify", "return"}
  BY <1>2 DEF PrefixProgress
<1>3. CASE PrefixNext /\ pc' \in {"search", "verify", "return"}
  <2>1. PrefixSmallResults \/ ProbePosition \/ PrefixDone \/ PrefixVerify
    <3>1. CASE \E a \in Instances :
                 \/ \E r \in setting.starts[a] : PrefixConstruct(a, r)
                 \/ \E n \in setting.batches : PrefixInsertBatch(a, n)
                 \/ \E r \in setting.probes, f \in setting.filters : PrefixJoinBatch(a, r, f)
      <4>1. pc' \in {"idle", "insert", "prepare"}
        BY <3>1 DEF PrefixConstruct, ConstructFor, PrefixInsertBatch, CallInsert, PrefixJoinBatch,
                    CallJoin, callVars
      <4> QED  BY <1>3, <4>1
    <3>2. CASE InsertIntoIndex \/ PrefixInsertDone \/ BeginProbe \/ PrefixReturn
      <4>1. pc' \in {"idle", "insert", "small"}
        BY <3>2 DEF InsertIntoIndex, InsertSet, InsertNext, PrefixInsertDone, EndInsert, BeginProbe,
                    GoOn, PrefixReturn, Return, CallEnds, callVars
      <4> QED  BY <1>3, <4>1
    <3> QED  BY <1>3, <3>1, <3>2 DEF PrefixNext
  <2> QED
    BY <2>1, PrefixSmallProgress, PositionProgress, PrefixDoneProgress, PrefixVerifyProgress
<1> QED  BY <1>1, <1>2, <1>3

(* Whatever was indexed and probed before, and whichever tokens are        *)
(* replaced as frequent, a call of a prefix join finds every similar set   *)
(* its filter admits, be the tokens of the dataset sorted or not: neither  *)
(* the prefixes, the small sets, the bounds for a length at a position nor *)
(* the merge of tokens lose one - but for longer sets of several tokens    *)
(* per edit and several edits, and for unsorted sets that a presorted join *)
(* has indexed (prefix_join.cc 24-66, 141-213, similarity.hh 302-308).     *)
THEOREM OnlyLongerLost == PrefixSpec => []LosesOnlyLonger
<1> DEFINE Inv == ListInv /\ (PrefixSizesDefined => PrefixFound /\ PrefixProgress)
<1>1. InitSets /\ PrefixInit => Inv
  <2> SUFFICES ASSUME InitSets, PrefixInit PROVE Inv
    OBVIOUS
  <2>1. PrefixProgress
    BY DEF InitSets, InitJoin, PrefixProgress
  <2> QED  BY <2>1, InitFound, InitLists
<1>2. Inv /\ [PrefixNext]_prefixVars => Inv'
  <2> SUFFICES ASSUME Inv, [PrefixNext]_prefixVars PROVE Inv'
    OBVIOUS
  <2>1. PrefixSizesDefined' = PrefixSizesDefined
    BY SettingKept, PremiseStays
  <2> QED  BY <2>1, ListStep, PrefixFoundStep, PrefixProgressStep
<1>3. Inv => LosesOnlyLonger
  BY DEF PrefixProgress, AllButLonger, LosesOnlyLonger
<1> HIDE DEF Inv
<1> QED  BY <1>1, <1>2, <1>3, PTL DEF PrefixSpec

=============================================================================
