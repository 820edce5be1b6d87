--------------------------- MODULE BlockSlice_proofs ---------------------------
(***************************************************************************)
(* The prefix join and the join in block mode that uses it.  First the     *)
(* indexes of the prefix join: they follow the mapping of their shared     *)
(* state through any sequence of inserts, rebuilds and probes; and if      *)
(* there is one shared state for a cache, an index only meets probe        *)
(* batches that were converted like it.  Then the self-join in block mode, *)
(* for every number of records and of batches and any plans: each pair of  *)
(* records is compared at most once, and when the two loops have ended all *)
(* have been.  Whether they end is not claimed: they do not go on at a     *)
(* batch that starts behind the dataset (Defined).                         *)
(***************************************************************************)
EXTENDS BlockSlice, SequenceTheorems, TLAPS


(* The index of an instance is its data, converted by the mapping of the   *)
(* version that the instance has noted.                                    *)
Index(a) == convert_tokens(indexed_data[a], Mapping(shared_state[a], local_sqs_version[a]))

IndexesExact == preprocessed_sets = [a \in Instances |-> Index(a)]

NoneAhead == \A a \in Instances : local_sqs_version[a] <= sqs_version[shared_state[a]]

(* A prepared batch was converted by a mapping of the version it carries.  *)
CacheExact ==
  \A b \in DOMAIN cached_signatures : \E s \in SharedStates :
    cached_signatures[b].mapping = Mapping(s, cached_signatures[b].version)

PrefixInv == TypeOK /\ IndexesExact /\ NoneAhead

ComparedInv == PrefixInv /\ CacheExact /\ ComparedInOneMapping

(* All instances share one state.                                          *)
OneState == \A s, t \in SharedStates : s = t

------------------------------------------------------------------------------
LEMMA ConvertedLength ==
  ASSUME NEW data \in Seq(Records), NEW m
  PROVE  /\ Len(convert_tokens(data, m)) = Len(data)
         /\ DOMAIN convert_tokens(data, m) = 1 .. Len(data)
         /\ convert_tokens(data, m) \in Seq([record : Records, mapping : {m}])
         /\ \A k \in 1 .. Len(data) :
              convert_tokens(data, m)[k] = [record |-> data[k], mapping |-> m]
<1>1. /\ DOMAIN data = 1 .. Len(data)
      /\ Len(data) \in Nat
      /\ \A k \in 1 .. Len(data) : data[k] \in Records
  BY LenProperties, ElementOfSeq
<1>2. convert_tokens(data, m) = [k \in 1 .. Len(data) |-> [record |-> data[k], mapping |-> m]]
  BY <1>1 DEF convert_tokens
<1> QED  BY <1>1, <1>2

(* Converting what is appended is the same as converting everything again. *)
LEMMA ConvertConcat ==
  ASSUME NEW data \in Seq(Records), NEW batch \in Seq(Records), NEW m
  PROVE  convert_tokens(data, m) \o convert_tokens(batch, m) = convert_tokens(data \o batch, m)
<1> DEFINE c == convert_tokens(data, m)
           d == convert_tokens(batch, m)
           e == convert_tokens(data \o batch, m)
           T == [record : Records, mapping : {m}]
<1>1. /\ data \o batch \in Seq(Records)
      /\ Len(data \o batch) = Len(data) + Len(batch)
      /\ \A k \in 1 .. Len(data) + Len(batch) :
           (data \o batch)[k] = IF k <= Len(data) THEN data[k] ELSE batch[k - Len(data)]
  BY ConcatProperties
<1>2. Len(data) \in Nat /\ Len(batch) \in Nat
  BY LenProperties
<1>3. /\ c \in Seq(T) /\ Len(c) = Len(data)
      /\ \A k \in 1 .. Len(data) : c[k] = [record |-> data[k], mapping |-> m]
  BY ConvertedLength
<1>4. /\ d \in Seq(T) /\ Len(d) = Len(batch)
      /\ \A k \in 1 .. Len(batch) : d[k] = [record |-> batch[k], mapping |-> m]
  BY ConvertedLength
<1>5. /\ e \in Seq(T) /\ Len(e) = Len(data) + Len(batch)
      /\ \A k \in 1 .. Len(data) + Len(batch) :
           e[k] = [record |-> (data \o batch)[k], mapping |-> m]
  <2> HIDE DEF T
  <2> DEFINE whole == data \o batch
  <2>1. whole \in Seq(Records) /\ Len(whole) = Len(data) + Len(batch)
    BY <1>1
  <2> HIDE DEF whole
  <2>2. /\ convert_tokens(whole, m) \in Seq([record : Records, mapping : {m}])
        /\ Len(convert_tokens(whole, m)) = Len(whole)
        /\ \A k \in 1 .. Len(whole) :
             convert_tokens(whole, m)[k] = [record |-> whole[k], mapping |-> m]
    BY <2>1, ConvertedLength
  <2>3. e = convert_tokens(whole, m)
    BY DEF whole
  <2>4. \A k \in 1 .. Len(data) + Len(batch) : whole[k] = (data \o batch)[k]
    BY DEF whole
  <2> HIDE DEF e
  <2> QED  BY <2>1, <2>2, <2>3, <2>4 DEF T
<1> HIDE DEF c, d, e, T
<1>6. /\ c \o d \in Seq(T)
      /\ Len(c \o d) = Len(c) + Len(d)
      /\ \A k \in 1 .. Len(c) + Len(d) :
           (c \o d)[k] = IF k <= Len(c) THEN c[k] ELSE d[k - Len(c)]
  <2>1. c \in Seq(T) /\ d \in Seq(T)
    BY <1>3, <1>4
  <2> QED  BY <2>1, ConcatProperties
<1>7. ASSUME NEW k \in 1 .. Len(data) + Len(batch)  PROVE (c \o d)[k] = e[k]
  <2>1. CASE k <= Len(data)
    <3>1. k \in 1 .. Len(data)
      BY <1>2, <2>1
    <3>2. (c \o d)[k] = c[k] /\ (data \o batch)[k] = data[k]
      BY <1>1, <1>3, <1>4, <1>6, <2>1
    <3> QED  BY <1>3, <1>5, <3>1, <3>2
  <2>2. CASE ~(k <= Len(data))
    <3>1. k - Len(data) \in 1 .. Len(batch)
      BY <1>2, <2>2
    <3>2. (c \o d)[k] = d[k - Len(data)] /\ (data \o batch)[k] = batch[k - Len(data)]
      BY <1>1, <1>3, <1>4, <1>6, <2>2
    <3> QED  BY <1>4, <1>5, <3>1, <3>2
  <2> QED  BY <2>1, <2>2
<1>8. c \o d = e
  <2>1. Len(c \o d) = Len(e)
    BY <1>3, <1>4, <1>5, <1>6
  <2>2. \A k \in 1 .. Len(c \o d) : (c \o d)[k] = e[k]
    BY <1>3, <1>4, <1>6, <1>7
  <2> QED  BY <1>5, <1>6, <2>1, <2>2, SeqEqual
<1> QED  BY <1>8 DEF c, d, e

(* Converted sets have the mapping that converted them.                    *)
LEMMA ConvertedMappings ==
  ASSUME NEW data \in Seq(Records), NEW m
  PROVE  Mappings(convert_tokens(data, m)) \subseteq {m}
<1>1. /\ DOMAIN convert_tokens(data, m) = 1 .. Len(data)
      /\ \A k \in 1 .. Len(data) :
           convert_tokens(data, m)[k] = [record |-> data[k], mapping |-> m]
  BY ConvertedLength
<1>2. \A k \in 1 .. Len(data) : convert_tokens(data, m)[k].mapping = m
  BY <1>1
<1> QED  BY <1>1, <1>2 DEF Mappings

(* An exact index has one mapping and is complete.                         *)
LEMMA ExactIndexes ==
  ASSUME PrefixInv
  PROVE  TypeOK /\ IndexHasOneMapping /\ IndexIsComplete
<1>1. SUFFICES ASSUME NEW a \in Instances
               PROVE  /\ Mappings(preprocessed_sets[a]) \subseteq
                           {Mapping(shared_state[a], local_sqs_version[a])}
                      /\ Len(preprocessed_sets[a]) = Len(indexed_data[a])
                      /\ \A k \in DOMAIN indexed_data[a] :
                           preprocessed_sets[a][k].record = indexed_data[a][k]
  BY DEF PrefixInv, NoneAhead, IndexHasOneMapping, IndexIsComplete
<1> DEFINE data == indexed_data[a]
           m == Mapping(shared_state[a], local_sqs_version[a])
<1>2. data \in Seq(Records) /\ preprocessed_sets[a] = convert_tokens(data, m)
  BY DEF PrefixInv, TypeOK, IndexesExact, Index
<1> HIDE DEF data, m
<1>3. DOMAIN data = 1 .. Len(data)
  BY <1>2, LenProperties
<1>4. /\ Len(convert_tokens(data, m)) = Len(data)
      /\ DOMAIN convert_tokens(data, m) = 1 .. Len(data)
      /\ \A k \in 1 .. Len(data) :
           convert_tokens(data, m)[k] = [record |-> data[k], mapping |-> m]
  BY <1>2, ConvertedLength
<1>5. Mappings(convert_tokens(data, m)) \subseteq {m}
  BY <1>2, ConvertedMappings
<1>6. \A k \in 1 .. Len(data) : convert_tokens(data, m)[k].record = data[k]
  BY <1>4
<1> QED  BY <1>2, <1>3, <1>4, <1>5, <1>6 DEF data, m

LEMMA InitInv == Init => PrefixInv
<1> SUFFICES ASSUME Init PROVE PrefixInv
  OBVIOUS
<1> USE DEF Init, SharedInit
<1>1. TypeOK
  BY PrefixAssumption, EmptySeq DEF TypeOK
<1>2. ASSUME NEW a \in Instances PROVE preprocessed_sets[a] = Index(a)
  <2>1. indexed_data[a] = <<>> /\ preprocessed_sets[a] = <<>>
    OBVIOUS
  <2>2. <<>> \in Seq(Records) /\ Len(<<>>) = 0
    BY EmptySeq
  <2> DEFINE m == Mapping(shared_state[a], local_sqs_version[a])
             T == [record : Records, mapping : {m}]
  <2>3. Index(a) = convert_tokens(<<>>, m)
    BY <2>1 DEF Index
  <2> HIDE DEF m
  <2>4. convert_tokens(<<>>, m) \in Seq(T) /\ Len(convert_tokens(<<>>, m)) = 0
    BY <2>2, ConvertedLength
  <2> HIDE DEF T
  <2>5. convert_tokens(<<>>, m) = <<>>
    BY <2>4, EmptySeq
  <2> QED  BY <2>1, <2>3, <2>5
<1>3. NoneAhead
  BY PrefixAssumption DEF NoneAhead
<1> QED  BY <1>1, <1>2, <1>3 DEF PrefixInv, IndexesExact

(* The version only grows, and an index that is not behind a version       *)
(* already has it.                                                         *)
LEMMA VersionFacts ==
  ASSUME PrefixInv, NEW a \in Instances, NEW n \in TokenCounts
  PROVE  LET s == shared_state[a]  version == VersionAfter(s, n)
         IN  /\ s \in SharedStates
             /\ sqs_version[s] \in Nat /\ version \in Nat /\ sqs_version[s] <= version
             /\ local_sqs_version[a] \in Nat
             /\ ~Rebuild(a, version) => local_sqs_version[a] = version
BY PrefixAssumption DEF PrefixInv, TypeOK, NoneAhead, VersionAfter, NewVersion, Rebuild

(* insert_batch keeps the index exact, rebuilt or extended.                *)
LEMMA InsertKeepsInv ==
  ASSUME PrefixInv, NEW a \in Instances, NEW batch \in Batches, NEW n \in TokenCounts,
         insert_batch(a, batch, n)
  PROVE  PrefixInv'
<1> DEFINE s == shared_state[a]
           version == VersionAfter(s, n)
           total == totally_indexed_tokens[s] + n
           data == indexed_data[a]
<1>1. /\ s \in SharedStates
      /\ sqs_version[s] \in Nat /\ version \in Nat /\ sqs_version[s] <= version
      /\ local_sqs_version[a] \in Nat
      /\ ~Rebuild(a, version) => local_sqs_version[a] = version
  BY VersionFacts
<1>2. data \in Seq(Records) /\ batch \in Seq(Records)
  BY PrefixAssumption DEF PrefixInv, TypeOK
<1>3. /\ totally_indexed_tokens' = [totally_indexed_tokens EXCEPT ![s] = total]
      /\ sqs_version' = [sqs_version EXCEPT ![s] = version]
      /\ next_reindexing' =
           [next_reindexing EXCEPT ![s] = IF total > @ THEN NextReindexing(total) ELSE @]
      /\ indexed_data' = [indexed_data EXCEPT ![a] = data \o batch]
  BY DEF insert_batch
<1>4. /\ preprocessed_sets' =
           [preprocessed_sets EXCEPT ![a] = convert_tokens(data \o batch, Mapping(s, version))]
      /\ local_sqs_version' = [local_sqs_version EXCEPT ![a] = version]
  <2>1. CASE Rebuild(a, version)
    BY <2>1 DEF insert_batch, Rebuilt
  <2>2. CASE ~Rebuild(a, version)
    <3>1. /\ local_sqs_version[a] = version
          /\ local_sqs_version' = local_sqs_version
          /\ preprocessed_sets' =
               [preprocessed_sets EXCEPT
                  ![a] = preprocessed_sets[a] \o convert_tokens(batch, Mapping(s, version))]
      BY <1>1, <2>2 DEF insert_batch
    <3>2. preprocessed_sets[a] = convert_tokens(data, Mapping(s, version))
      BY <3>1 DEF PrefixInv, IndexesExact, Index
    <3>3. convert_tokens(data, Mapping(s, version)) \o convert_tokens(batch, Mapping(s, version))
            = convert_tokens(data \o batch, Mapping(s, version))
      BY <1>2, ConvertConcat
    <3>4. local_sqs_version = [local_sqs_version EXCEPT ![a] = version]
      BY <3>1 DEF PrefixInv, TypeOK
    <3> QED  BY <3>1, <3>2, <3>3, <3>4
  <2> QED  BY <2>1, <2>2
<1> HIDE DEF version, data
<1>5. TypeOK'
  <2>1. sqs_version' \in [SharedStates -> Nat] /\ local_sqs_version' \in [Instances -> Nat]
    BY <1>1, <1>3, <1>4 DEF PrefixInv, TypeOK
  <2>2. /\ totally_indexed_tokens' \in [SharedStates -> Nat]
        /\ next_reindexing' \in [SharedStates -> Nat]
        /\ \A t \in SharedStates : totally_indexed_tokens'[t] <= next_reindexing'[t]
    <3>1. total \in Nat /\ next_reindexing[s] \in Nat
      BY <1>1, PrefixAssumption DEF PrefixInv, TypeOK
    <3> HIDE DEF total
    <3> DEFINE limit == IF total > next_reindexing[s] THEN 4 * total ELSE next_reindexing[s]
    <3>2. limit \in Nat /\ total <= limit
      BY <3>1
    <3>3. next_reindexing' = [next_reindexing EXCEPT ![s] = limit]
      BY <1>3 DEF NextReindexing
    <3> HIDE DEF limit
    <3> QED  BY <1>1, <1>3, <3>1, <3>2, <3>3 DEF PrefixInv, TypeOK
  <2>3. data \o batch \in Seq(Records)
    BY <1>2, ConcatProperties
  <2>4. /\ DOMAIN preprocessed_sets' = Instances
        /\ indexed_data' \in [Instances -> Seq(Records)]
    BY <1>3, <1>4, <2>3 DEF PrefixInv, TypeOK
  <2> QED  BY <2>1, <2>2, <2>4 DEF TypeOK
<1>6. IndexesExact'
  <2>1. ASSUME NEW b \in Instances, b = a PROVE preprocessed_sets'[b] = Index(b)'
    BY <1>3, <1>4, <2>1 DEF PrefixInv, TypeOK, Index
  <2>2. ASSUME NEW b \in Instances, b # a PROVE preprocessed_sets'[b] = Index(b)'
    BY <1>3, <1>4, <2>2 DEF PrefixInv, TypeOK, Index, IndexesExact
  <2>3. preprocessed_sets' = [b \in Instances |-> preprocessed_sets'[b]]
    BY <1>4 DEF PrefixInv, TypeOK
  <2> QED  BY <2>1, <2>2, <2>3 DEF IndexesExact
<1>7. NoneAhead'
  <2>1. ASSUME NEW b \in Instances
        PROVE  local_sqs_version'[b] <= sqs_version'[shared_state[b]]
    <3>1. /\ shared_state[b] \in SharedStates
          /\ local_sqs_version[b] \in Nat /\ sqs_version[shared_state[b]] \in Nat
          /\ local_sqs_version[b] <= sqs_version[shared_state[b]]
      BY PrefixAssumption DEF PrefixInv, TypeOK, NoneAhead
    <3>2. local_sqs_version'[b] = IF b = a THEN version ELSE local_sqs_version[b]
      BY <1>4 DEF PrefixInv, TypeOK
    <3>3. sqs_version'[shared_state[b]] =
            IF shared_state[b] = s THEN version ELSE sqs_version[shared_state[b]]
      BY <1>3, <3>1 DEF PrefixInv, TypeOK
    <3> QED  BY <1>1, <3>1, <3>2, <3>3
  <2> QED  BY <2>1 DEF NoneAhead
<1> QED  BY <1>5, <1>6, <1>7 DEF PrefixInv

(* update_index keeps the index exact and brings it to the shared version. *)
LEMMA UpdateKeepsInv ==
  ASSUME PrefixInv, NEW a \in Instances, update_index(a),
         UNCHANGED <<sharedVars, indexed_data>>
  PROVE  /\ PrefixInv'
         /\ preprocessed_sets'[a] =
              convert_tokens(indexed_data[a],
                             Mapping(shared_state[a], sqs_version[shared_state[a]]))
<1> DEFINE s == shared_state[a]
           m == Mapping(s, sqs_version[s])
           data == indexed_data[a]
<1>1. s \in SharedStates /\ sqs_version[s] \in Nat /\ local_sqs_version[a] \in Nat
  BY PrefixAssumption DEF PrefixInv, TypeOK
<1>2. /\ preprocessed_sets' = [preprocessed_sets EXCEPT ![a] = convert_tokens(data, m)]
      /\ local_sqs_version' = [local_sqs_version EXCEPT ![a] = sqs_version[s]]
  <2>1. CASE local_sqs_version[a] < sqs_version[s]
    BY <2>1 DEF update_index
  <2>2. CASE ~(local_sqs_version[a] < sqs_version[s])
    <3>1. local_sqs_version[a] = sqs_version[s]
      BY <1>1, <2>2 DEF PrefixInv, NoneAhead
    <3>2. preprocessed_sets[a] = convert_tokens(data, m)
      BY <3>1 DEF PrefixInv, IndexesExact, Index
    <3>3. UNCHANGED <<preprocessed_sets, local_sqs_version>>
      BY <2>2 DEF update_index
    <3>4. local_sqs_version = [local_sqs_version EXCEPT ![a] = sqs_version[s]]
      BY <3>1 DEF PrefixInv, TypeOK
    <3>5. preprocessed_sets = [preprocessed_sets EXCEPT ![a] = preprocessed_sets[a]]
      BY DEF PrefixInv, IndexesExact
    <3>6. preprocessed_sets' = [preprocessed_sets EXCEPT ![a] = convert_tokens(data, m)]
      BY <3>2, <3>3, <3>5
    <3> QED  BY <3>3, <3>4, <3>6
  <2> QED  BY <2>1, <2>2
<1> HIDE DEF m
<1>3. TypeOK'
  BY <1>1, <1>2 DEF PrefixInv, TypeOK, sharedVars
<1>4. IndexesExact'
  <2>1. ASSUME NEW b \in Instances, b = a PROVE preprocessed_sets'[b] = Index(b)'
    BY <1>2, <2>1 DEF PrefixInv, TypeOK, Index, m
  <2>2. ASSUME NEW b \in Instances, b # a PROVE preprocessed_sets'[b] = Index(b)'
    BY <1>2, <2>2 DEF PrefixInv, TypeOK, Index, IndexesExact
  <2>3. preprocessed_sets' = [b \in Instances |-> preprocessed_sets'[b]]
    BY <1>2 DEF PrefixInv, TypeOK
  <2> QED  BY <2>1, <2>2, <2>3 DEF IndexesExact
<1>5. NoneAhead'
  BY <1>1, <1>2, PrefixAssumption DEF PrefixInv, TypeOK, NoneAhead, sharedVars
<1>6. preprocessed_sets'[a] = convert_tokens(data, m)
  BY <1>2 DEF PrefixInv, TypeOK
<1> QED  BY <1>3, <1>4, <1>5, <1>6 DEF PrefixInv, m

LEMMA StepKeepsInv ==
  ASSUME PrefixInv, [Next]_prefixVars
  PROVE  PrefixInv'
<1>1. CASE UNCHANGED prefixVars
  BY <1>1 DEF prefixVars, sharedVars, instanceVars, PrefixInv, TypeOK, IndexesExact, Index,
              NoneAhead
<1>2. ASSUME NEW a \in Instances, NEW batch \in Batches, NEW n \in TokenCounts,
             Insert(a, batch, n)
      PROVE  PrefixInv'
  BY <1>2, InsertKeepsInv DEF Insert
<1>3. ASSUME NEW a \in Instances, NEW b \in ProbeBatches, Probe(a, b)
      PROVE  PrefixInv'
  BY <1>3, UpdateKeepsInv DEF Probe
<1>4. ASSUME NEW a \in Instances, ProbeUncached(a)
      PROVE  PrefixInv'
  BY <1>4, UpdateKeepsInv DEF ProbeUncached
<1>5. ASSUME NEW b \in ProbeBatches, Evict(b)
      PROVE  PrefixInv'
  BY <1>5 DEF Evict, sharedVars, instanceVars, PrefixInv, TypeOK, IndexesExact, Index, NoneAhead
<1> QED  BY <1>1, <1>2, <1>3, <1>4, <1>5 DEF Next

(* Through any sequence of inserts of any instances, mappings that are     *)
(* rebuilt between them, and probes, every index holds what was inserted   *)
(* (l. 6-66 and 81-105), and all of it in one mapping.                     *)
THEOREM IndexesFollow == Spec => [](TypeOK /\ IndexHasOneMapping /\ IndexIsComplete)
<1>1. Init => PrefixInv
  BY InitInv
<1>2. PrefixInv /\ [Next]_prefixVars => PrefixInv'
  BY StepKeepsInv
<1>3. PrefixInv => TypeOK /\ IndexHasOneMapping /\ IndexIsComplete
  BY ExactIndexes
<1> QED  BY <1>1, <1>2, <1>3, PTL DEF Spec

------------------------------------------------------------------------------
(* What a probe compares, and what it leaves in the cache.                 *)
LEMMA ProbeCompares ==
  ASSUME OneState, ComparedInv, NEW a \in Instances, NEW b \in ProbeBatches, Probe(a, b)
  PROVE  CacheExact' /\ ComparedInOneMapping'
<1> DEFINE s == shared_state[a]
           signatures == probing_signatures(b, s)
           m == Mapping(s, sqs_version[s])
<1>1. s \in SharedStates
  BY PrefixAssumption
<1>2. signatures.mapping = Mapping(s, signatures.version) /\ signatures.mapping = m
  <2>1. CASE b \in DOMAIN cached_signatures /\ ~Outdated(cached_signatures[b].version, s)
    <3>1. signatures = cached_signatures[b] /\ signatures.version = sqs_version[s]
      BY <2>1 DEF probing_signatures, Outdated
    <3>2. PICK t \in SharedStates : signatures.mapping = Mapping(t, signatures.version)
      BY <2>1, <3>1 DEF ComparedInv, CacheExact
    <3>3. t = s
      BY <1>1 DEF OneState
    <3> QED  BY <3>1, <3>2, <3>3
  <2>2. CASE ~(b \in DOMAIN cached_signatures /\ ~Outdated(cached_signatures[b].version, s))
    <3>1. signatures = [mapping |-> m, version |-> sqs_version[s]]
      BY <2>2 DEF probing_signatures, Prepared
    <3> QED  BY <3>1
  <2> QED  BY <2>1, <2>2
<1>3. /\ preprocessed_sets'[a] = convert_tokens(indexed_data[a], m)
      /\ indexed_data[a] \in Seq(Records)
  BY UpdateKeepsInv DEF Probe, ComparedInv, PrefixInv, TypeOK
<1>4. /\ cached_signatures' =
           [c \in DOMAIN cached_signatures \cup {b} |->
              IF c = b THEN signatures ELSE cached_signatures[c]]
      /\ compared' = [index |-> Mappings(preprocessed_sets'[a]), probe |-> signatures.mapping]
  BY DEF Probe, Store, Compare
<1> HIDE DEF signatures, m
<1>5. CacheExact'
  BY <1>1, <1>2, <1>4 DEF ComparedInv, CacheExact
<1>6. Mappings(preprocessed_sets'[a]) \subseteq {m}
  BY <1>3, ConvertedMappings
<1> QED  BY <1>2, <1>4, <1>5, <1>6 DEF ComparedInOneMapping

LEMMA ComparedStep ==
  ASSUME OneState, ComparedInv, [Next]_prefixVars
  PROVE  ComparedInv'
<1>1. PrefixInv'
  BY StepKeepsInv DEF ComparedInv
<1>2. CASE UNCHANGED <<cached_signatures, compared>>
  BY <1>1, <1>2 DEF ComparedInv, CacheExact, ComparedInOneMapping
<1>3. ASSUME NEW a \in Instances, NEW b \in ProbeBatches, Probe(a, b)
      PROVE  CacheExact' /\ ComparedInOneMapping'
  BY <1>3, ProbeCompares
<1>4. ASSUME NEW a \in Instances, ProbeUncached(a)
      PROVE  CacheExact' /\ ComparedInOneMapping'
  <2> DEFINE m == Mapping(shared_state[a], sqs_version[shared_state[a]])
  <2>1. /\ preprocessed_sets'[a] = convert_tokens(indexed_data[a], m)
        /\ indexed_data[a] \in Seq(Records)
    BY <1>4, UpdateKeepsInv DEF ProbeUncached, ComparedInv, PrefixInv, TypeOK
  <2>2. compared' = [index |-> Mappings(preprocessed_sets'[a]), probe |-> m]
    BY <1>4 DEF ProbeUncached, Compare, Prepared
  <2> HIDE DEF m
  <2>3. Mappings(preprocessed_sets'[a]) \subseteq {m}
    BY <2>1, ConvertedMappings
  <2>4. CacheExact'
    BY <1>4 DEF ProbeUncached, ComparedInv, CacheExact
  <2> QED  BY <2>2, <2>3, <2>4 DEF ComparedInOneMapping
<1>5. ASSUME NEW b \in ProbeBatches, Evict(b)
      PROVE  CacheExact' /\ ComparedInOneMapping'
  BY <1>5 DEF Evict, ComparedInv, CacheExact, ComparedInOneMapping
<1>6. CASE UNCHANGED prefixVars
  BY <1>2, <1>6 DEF prefixVars
<1>7. ASSUME NEW a \in Instances, NEW batch \in Batches, NEW n \in TokenCounts,
             Insert(a, batch, n)
      PROVE  ComparedInv'
  BY <1>2, <1>7 DEF Insert
<1> QED  BY <1>1, <1>3, <1>4, <1>5, <1>6, <1>7 DEF Next, ComparedInv

(* As long as a cache of probe batches only meets one shared state - it    *)
(* does in the time-dynamic join, not in block mode -, the test of the     *)
(* version in l. 110 is enough: index and probe batch have one mapping.    *)
THEOREM OneMappingCompared ==
  ASSUME OneState
  PROVE  Spec => []ComparedInOneMapping
<1>1. Init => ComparedInv
  <2>1. Init => PrefixInv
    BY InitInv
  <2>2. Init => CacheExact /\ ComparedInOneMapping
    BY DEF Init, CacheExact, ComparedInOneMapping
  <2> QED  BY <2>1, <2>2 DEF ComparedInv
<1>2. ComparedInv /\ [Next]_prefixVars => ComparedInv'
  BY ComparedStep
<1>3. ComparedInv => ComparedInOneMapping
  BY DEF ComparedInv
<1> QED  BY <1>1, <1>2, <1>3, PTL DEF Spec

--------------------------------------------------------------------------------
(* The join in block mode.                                                 *)

(* The batch of a record, and the probe batches of a round that are done.  *)
BatchOf(id) == id \div size

Handled(ib, j) ==
  IF ib % 2 = 0 THEN {k \in Nat : ib <= k /\ k < j}
                ELSE {k \in Nat : batch_count + ib - j <= k /\ k < batch_count}

(* The pairs of finished rounds, and those of the current one.             *)
Compared(ib, j) ==
  {p \in AllPairs :
     \/ BatchOf(p[1]) < ib
     \/ BatchOf(p[1]) = ib /\ BatchOf(p[2]) \in Handled(ib, j)}

LoopsOK ==
  /\ count \in Nat \ {0} /\ batch_count \in 1 .. count
  /\ index_batch_idx \in Nat /\ i \in Nat
  /\ index_batch_idx <= i /\ i <= batch_count
  /\ selected # None => Running /\ i < batch_count
  /\ None \notin initialized

PairsInv ==
  /\ LoopsOK
  /\ emitted = Compared(index_batch_idx, i)
  /\ repeated = {}

------------------------------------------------------------------------------
(* Division.                                                               *)

LEMMA DivBounds ==
  ASSUME NEW k \in Nat, NEW d \in Nat \ {0}
  PROVE  /\ k \div d \in Nat
         /\ d * (k \div d) <= k
         /\ k < d * (k \div d) + d
  OBVIOUS

LEMMA DivIs ==
  ASSUME NEW q \in Nat, NEW d \in Nat \ {0}, NEW k \in Nat
  PROVE  q \div d = k <=> k * d <= q /\ q < k * d + d
<1> DEFINE n == q \div d
<1>1. n \in Nat /\ d * n <= q /\ q < d * n + d
  BY DivBounds
<1>2. k * d = d * k
  OBVIOUS
<1> HIDE DEF n
<1>3. ASSUME k < n PROVE d * k + d <= d * n
  <2>1. n - k \in Nat /\ n - k >= 1
    BY <1>1, <1>3
  <2>2. d * n = d * k + d * (n - k) /\ d * (n - k) >= d
    BY <1>1, <2>1
  <2>3. QED  BY <1>1, <2>2
<1>4. ASSUME n < k PROVE d * n + d <= d * k
  <2>1. k - n \in Nat /\ k - n >= 1
    BY <1>1, <1>4
  <2>2. d * k = d * n + d * (k - n) /\ d * (k - n) >= d
    BY <1>1, <2>1
  <2>3. QED  BY <1>1, <2>2
<1>5. d * k \in Nat /\ d * n \in Nat
  BY <1>1
<1>6. n = k <=> k * d <= q /\ q < k * d + d
  BY <1>1, <1>2, <1>3, <1>4, <1>5
<1>7. QED  BY <1>6 DEF n

(* Rounded up, the size lets the batches hold every record.                *)
LEMMA SizeFacts ==
  ASSUME LoopsOK
  PROVE  size \in Nat \ {0} /\ count <= batch_count * size
<1> DEFINE b == batch_count
           n == count
           d == n \div b
           r == n % b
<1>1. b \in Nat \ {0} /\ n \in Nat \ {0} /\ b <= n
  BY DEF LoopsOK
<1>2. size = d + (IF r = 0 THEN 0 ELSE 1)
  BY DEF size, get_batch_size
<1>3. d \in Nat /\ n = b * d + r /\ r \in 0 .. b-1
  BY <1>1
<1> HIDE DEF b, n, d, r
<1>4. d # 0
  <2>1. SUFFICES ASSUME d = 0 PROVE FALSE
    OBVIOUS
  <2>2. b * d = 0
    BY <1>1, <2>1
  <2>3. QED  BY <1>1, <1>3, <2>2
<1>5. CASE r = 0
  <2>1. size = d
    BY <1>2, <1>3, <1>5
  <2>2. QED  BY <1>1, <1>3, <1>4, <1>5, <2>1 DEF b, n
<1>6. CASE r # 0
  <2>1. size = d + 1
    BY <1>2, <1>6
  <2>2. b * (d + 1) = b * d + b
    BY <1>1, <1>3
  <2>3. n <= b * (d + 1)
    BY <1>1, <1>3, <2>2
  <2>4. QED  BY <1>3, <2>1, <2>3 DEF b, n
<1>7. QED  BY <1>5, <1>6

(* The batches partition the dataset.                                      *)
LEMMA BatchIs ==
  ASSUME LoopsOK, NEW k \in Nat, NEW q
  PROVE  q \in Ids(k) <=> q \in 0 .. count-1 /\ BatchOf(q) = k
<1> DEFINE d == size
           s == k * d
           n == count
<1>1. d \in Nat \ {0} /\ n \in Nat \ {0}
  BY SizeFacts DEF LoopsOK
<1>2. Ids(k) = s .. (IF s + d < n THEN s + d ELSE n) - 1
  BY DEF Ids, Start, End
<1>3. s \in Nat
  BY <1>1
<1>4. q \in Nat => (q \div d = k <=> s <= q /\ q < s + d)
  <2> HIDE DEF d
  <2>1. QED  BY <1>1, DivIs
<1>5. BatchOf(q) = q \div d
  BY DEF BatchOf
<1> HIDE DEF s, d, n
<1>6. Ids(k) = s .. (IF s + d < n THEN s + d ELSE n) - 1 /\ (q \in Ids(k) => q \in Nat)
  BY <1>1, <1>2, <1>3
<1>7. q \in Ids(k) <=> q \in 0 .. n-1 /\ q \div d = k
  BY <1>1, <1>3, <1>4, <1>6
<1>8. QED  BY <1>5, <1>7 DEF n

LEMMA BatchesOrdered ==
  ASSUME LoopsOK, NEW q \in 0 .. count-1
  PROVE  /\ BatchOf(q) \in Nat /\ BatchOf(q) < batch_count
         /\ \A p \in 0 .. q : BatchOf(p) \in Nat /\ BatchOf(p) <= BatchOf(q)
<1> DEFINE d == size
           b == batch_count
           n == count
           k == q \div d
<1>1. d \in Nat \ {0} /\ n \in Nat \ {0} /\ b \in Nat \ {0} /\ n <= b * d
  BY SizeFacts DEF LoopsOK
<1>2. q \in Nat /\ q < n
  BY <1>1
<1> HIDE DEF d, b, n
<1>3. k \in Nat /\ d * k <= q /\ q < d * k + d
  BY <1>1, <1>2, DivBounds
<1>4. \A p \in 0 .. q : p \div d \in Nat /\ d * (p \div d) <= p
  BY <1>1, DivBounds
<1> HIDE DEF k
<1>5. k < b
  <2>1. SUFFICES ASSUME b <= k PROVE FALSE
    BY <1>1, <1>3
  <2>2. k - b \in Nat
    BY <1>1, <1>3, <2>1
  <2>3. d * k = b * d + d * (k - b) /\ d * (k - b) >= 0
    BY <1>1, <1>3, <2>2
  <2>4. QED  BY <1>1, <1>2, <1>3, <2>3
<1>6. ASSUME NEW p \in 0 .. q PROVE p \div d <= k
  <2> DEFINE h == p \div d
  <2>1. h \in Nat /\ d * h <= p
    BY <1>4
  <2> HIDE DEF h
  <2>2. SUFFICES ASSUME k < h PROVE FALSE
    BY <1>3, <2>1 DEF h
  <2>3. h - k \in Nat /\ h - k >= 1
    BY <1>3, <2>1, <2>2
  <2>4. d * h = d * k + d * (h - k) /\ d * (h - k) >= d
    BY <1>1, <1>3, <2>1, <2>3
  <2>5. p \in Nat /\ p <= q /\ d * k \in Nat
    BY <1>1, <1>2, <1>3
  <2>6. QED  BY <1>1, <1>2, <1>3, <2>1, <2>4, <2>5
<1>7. QED  BY <1>3, <1>4, <1>5, <1>6 DEF BatchOf, d, b, k

------------------------------------------------------------------------------
(* The order of the rounds.                                                *)

(* A round takes every batch from its index batch on, once.                *)
LEMMA HandledFacts ==
  ASSUME LoopsOK, Running
  PROVE  /\ index_batch_idx \in Nat /\ batch_count \in Nat
         /\ i < batch_count =>
              /\ probe_batch_idx \in Nat
              /\ index_batch_idx <= probe_batch_idx /\ probe_batch_idx < batch_count
              /\ probe_batch_idx \notin Handled(index_batch_idx, i)
              /\ Handled(index_batch_idx, i + 1) =
                   Handled(index_batch_idx, i) \cup {probe_batch_idx}
         /\ \A k \in Nat : index_batch_idx <= k /\ k < batch_count =>
              k \in Handled(index_batch_idx, batch_count)
<1>1. /\ batch_count \in Nat /\ index_batch_idx \in Nat /\ i \in Nat
      /\ index_batch_idx <= i /\ index_batch_idx < batch_count
  BY DEF LoopsOK, Running
<1>2. CASE index_batch_idx % 2 = 0
  <2>1. probe_batch_idx = i
    BY <1>2 DEF probe_batch_idx
  <2>2. \A j : Handled(index_batch_idx, j) = {k \in Nat : index_batch_idx <= k /\ k < j}
    BY <1>2 DEF Handled
  <2>3. QED  BY <1>1, <2>1, <2>2
<1>3. CASE index_batch_idx % 2 # 0
  <2>1. probe_batch_idx = batch_count + index_batch_idx - i - 1
    BY <1>3 DEF probe_batch_idx, Backward
  <2>2. \A j : Handled(index_batch_idx, j) =
          {k \in Nat : batch_count + index_batch_idx - j <= k /\ k < batch_count}
    BY <1>3 DEF Handled
  <2> DEFINE ib == index_batch_idx
             b == batch_count
             pb == probe_batch_idx
             before == {k \in Nat : b + ib - i <= k /\ k < b}
             after == {k \in Nat : b + ib - (i+1) <= k /\ k < b}
  <2>3. Handled(ib, i) = before /\ Handled(ib, i+1) = after
    BY <2>2
  <2>4. \A k \in Nat : ib <= k /\ k < b => k \in Handled(ib, b)
    BY <1>1, <2>2
  <2> HIDE DEF ib, b, pb, before, after
  <2>5. /\ b \in Nat /\ ib \in Nat /\ i \in Nat /\ ib <= i
        /\ pb = b + ib - i - 1
    BY <1>1, <2>1 DEF ib, b, pb
  <2>6. i < b => /\ pb \in Nat /\ ib <= pb /\ pb < b
                 /\ pb \notin before /\ after = before \cup {pb}
    BY <2>5 DEF before, after
  <2>7. QED  BY <1>1, <2>3, <2>4, <2>6 DEF ib, b, pb
<1>4. QED  BY <1>2, <1>3

LEMMA NoneHandled ==
  ASSUME LoopsOK, NEW k \in Nat
  PROVE  Handled(k, k) = {}
<1>1. batch_count \in Nat
  BY DEF LoopsOK
<1>2. QED  BY <1>1 DEF Handled

(* Of two batches all pairs are compared, of a batch with itself those in  *)
(* one order.                                                              *)
LEMMA PairsOfBatches ==
  ASSUME LoopsOK, NEW ib \in Nat, NEW pb \in Nat, ib <= pb
  PROVE  PairsOf(ib, pb) = {p \in AllPairs : BatchOf(p[1]) = ib /\ BatchOf(p[2]) = pb}
<1> DEFINE new == {p \in AllPairs : BatchOf(p[1]) = ib /\ BatchOf(p[2]) = pb}
<1>1. \A q : q \in Ids(ib) <=> q \in 0 .. count-1 /\ BatchOf(q) = ib
  BY BatchIs
<1>2. \A q : q \in Ids(pb) <=> q \in 0 .. count-1 /\ BatchOf(q) = pb
  BY BatchIs
<1>3. count \in Nat
  BY DEF LoopsOK
<1>4. ASSUME NEW a \in 0 .. count-1, NEW b \in 0 .. count-1, BatchOf(a) = ib, BatchOf(b) = pb,
             ib # pb
      PROVE  a < b
  <2>1. SUFFICES ASSUME b <= a PROVE FALSE
    BY <1>3
  <2>2. b \in 0 .. a
    BY <1>3, <2>1
  <2>3. BatchOf(b) <= BatchOf(a)
    BY <2>2, BatchesOrdered
  <2>4. QED  BY <1>4, <2>3
<1>5. ASSUME NEW p \in PairsOf(ib, pb)
      PROVE  p \in new
  <2>1. PICK a \in Ids(ib), b \in Ids(pb) : p = <<a, b>>
    BY DEF PairsOf
  <2>2. p[1] = a /\ p[2] = b
    BY <2>1
  <2>3. ib = pb => a < b
    BY <2>2 DEF PairsOf, IsSelfJoin
  <2>4. a < b
    BY <1>1, <1>2, <1>4, <2>3
  <2>5. p \in AllPairs
    BY <1>1, <1>2, <2>1, <2>2, <2>4 DEF AllPairs
  <2>6. QED  BY <1>1, <1>2, <2>2, <2>5
<1>6. ASSUME NEW p \in new
      PROVE  p \in PairsOf(ib, pb)
  <2>1. PICK a \in 0 .. count-1, b \in 0 .. count-1 : p = <<a, b>> /\ a < b
    BY DEF AllPairs
  <2>2. p[1] = a /\ p[2] = b
    BY <2>1
  <2>3. a \in Ids(ib) /\ b \in Ids(pb)
    BY <1>1, <1>2, <2>2
  <2>4. QED  BY <2>1, <2>2, <2>3 DEF PairsOf
<1>7. QED  BY <1>5, <1>6

------------------------------------------------------------------------------
(* The steps.                                                              *)

LEMMA SameInput ==
  ASSUME UNCHANGED inputVars
  PROVE  /\ count' = count /\ batch_count' = batch_count /\ size' = size
         /\ AllPairs' = AllPairs
  BY DEF inputVars, size, AllPairs

LEMMA InitPairs == BlockInit => PairsInv
<1> SUFFICES ASSUME BlockInit PROVE PairsInv
  OBVIOUS
<1>1. /\ index_batch_idx = 0 /\ i = 0 /\ selected = None /\ initialized = {}
      /\ emitted = {} /\ repeated = {}
  BY DEF BlockInit
<1>2. PICK input \in Inputs :
        /\ count = input.count
        /\ batch_count = IF input.count < input.batch_count
                         THEN input.count ELSE input.batch_count
  BY DEF BlockInit
<1>3. count \in Nat \ {0} /\ batch_count \in 1 .. count
  BY <1>2, InputAssumption
<1>4. LoopsOK
  BY <1>1, <1>3 DEF LoopsOK
<1>5. Compared(0, 0) = {}
  <2>1. Handled(0, 0) = {}
    BY <1>4, NoneHandled
  <2>2. ASSUME NEW p \in AllPairs PROVE ~(BatchOf(p[1]) < 0)
    <3>1. p[1] \in 0 .. count-1
      BY DEF AllPairs
    <3>2. BatchOf(p[1]) \in Nat
      BY <1>3, <1>4, <3>1, BatchesOrdered
    <3>3. QED  BY <3>2
  <2>3. QED  BY <2>1, <2>2 DEF Compared
<1>6. QED  BY <1>1, <1>4, <1>5 DEF PairsInv

LEMMA SamePairs ==
  ASSUME PairsInv, UNCHANGED inputVars, index_batch_idx' = index_batch_idx, i' = i,
         emitted' = emitted, repeated' = repeated,
         selected' # None => Running /\ i < batch_count,
         None \notin initialized'
  PROVE  PairsInv'
<1>1. /\ count' = count /\ batch_count' = batch_count /\ size' = size /\ AllPairs' = AllPairs
  BY SameInput
<1>2. LoopsOK'
  BY <1>1 DEF PairsInv, LoopsOK, Running
<1>3. QED  BY <1>1, <1>2 DEF PairsInv, Compared, Handled, BatchOf

LEMMA SelectArmStep == PairsInv /\ SelectArm => PairsInv'
<1> SUFFICES ASSUME PairsInv, SelectArm PROVE PairsInv'
  OBVIOUS
<1>1. /\ UNCHANGED inputVars /\ index_batch_idx' = index_batch_idx /\ i' = i
      /\ emitted' = emitted /\ repeated' = repeated /\ initialized' = initialized
      /\ Running /\ i < batch_count
  BY DEF SelectArm
<1>2. None \notin initialized'
  BY <1>1 DEF PairsInv, LoopsOK
<1>3. QED  BY <1>1, <1>2, SamePairs

LEMMA BuildAlgorithmStep == PairsInv /\ BuildAlgorithm => PairsInv'
<1> SUFFICES ASSUME PairsInv, BuildAlgorithm PROVE PairsInv'
  OBVIOUS
<1>1. /\ UNCHANGED inputVars /\ index_batch_idx' = index_batch_idx /\ i' = i
      /\ emitted' = emitted /\ repeated' = repeated
      /\ selected' = selected /\ selected # None
      /\ initialized' = initialized \cup {selected}
  BY DEF BuildAlgorithm
<1>2. /\ Running /\ i < batch_count /\ None \notin initialized'
  BY <1>1 DEF PairsInv, LoopsOK
<1>3. QED  BY <1>1, <1>2, SamePairs

(* The pairs of the two batches are new: either the index batch or the     *)
(* probe batch of every earlier pair was another one.                      *)
LEMMA JoinBatchesStep == PairsInv /\ JoinBatches => PairsInv'
<1> SUFFICES ASSUME PairsInv, JoinBatches PROVE PairsInv'
  OBVIOUS
<1> DEFINE ib == index_batch_idx
           pb == probe_batch_idx
           new == PairsOf(ib, pb)
<1>1. /\ selected \in initialized /\ UNCHANGED inputVars
      /\ index_batch_idx' = ib /\ i' = i+1 /\ selected' = None
      /\ initialized' = initialized
      /\ emitted' = emitted \cup new
      /\ repeated' = repeated \cup (emitted \cap new)
  BY DEF JoinBatches
<1>2. LoopsOK /\ emitted = Compared(ib, i) /\ repeated = {}
  BY DEF PairsInv
<1>3. Running /\ i < batch_count
  BY <1>1, <1>2 DEF LoopsOK
<1>4. /\ ib \in Nat /\ pb \in Nat /\ ib <= pb /\ pb \notin Handled(ib, i)
      /\ Handled(ib, i+1) = Handled(ib, i) \cup {pb}
  BY <1>2, <1>3, HandledFacts
<1>5. new = {p \in AllPairs : BatchOf(p[1]) = ib /\ BatchOf(p[2]) = pb}
  BY <1>2, <1>4, PairsOfBatches
<1>6. /\ count' = count /\ batch_count' = batch_count /\ size' = size /\ AllPairs' = AllPairs
  BY <1>1, SameInput
<1>7. LoopsOK'
  BY <1>1, <1>2, <1>3, <1>6 DEF LoopsOK
<1> HIDE DEF ib, pb, new
<1>8. \A p \in AllPairs : BatchOf(p[1]) \in Nat
  <2>1. \A p \in AllPairs : p[1] \in 0 .. count-1
    BY DEF AllPairs
  <2>2. QED  BY <1>2, <2>1, BatchesOrdered
<1>9. emitted \cap new = {}
  BY <1>2, <1>4, <1>5, <1>8 DEF Compared
<1>10. emitted \cup new = Compared(ib, i+1)
  BY <1>2, <1>4, <1>5 DEF Compared
<1>11. Compared(ib, i+1) = Compared(index_batch_idx, i)'
  BY <1>1, <1>6 DEF Compared, Handled, BatchOf
<1>12. QED  BY <1>1, <1>2, <1>7, <1>9, <1>10, <1>11 DEF PairsInv

(* At the end of a round all pairs with its index batch first have been    *)
(* compared: the other record is in the same or in a later batch.          *)
LEMMA NextIndexBatchStep == PairsInv /\ NextIndexBatch => PairsInv'
<1> SUFFICES ASSUME PairsInv, NextIndexBatch PROVE PairsInv'
  OBVIOUS
<1> DEFINE ib == index_batch_idx
           b == batch_count
<1>1. /\ Running /\ i = b /\ UNCHANGED inputVars
      /\ index_batch_idx' = ib+1 /\ i' = ib+1 /\ initialized' = {} /\ selected' = selected
      /\ emitted' = emitted /\ repeated' = repeated
  BY DEF NextIndexBatch
<1>2. LoopsOK /\ emitted = Compared(ib, b) /\ repeated = {}
  BY <1>1 DEF PairsInv
<1>3. /\ ib \in Nat /\ b \in Nat
      /\ \A k \in Nat : ib <= k /\ k < b => k \in Handled(ib, b)
  BY <1>1, <1>2, HandledFacts
<1>4. /\ count' = count /\ batch_count' = batch_count /\ size' = size /\ AllPairs' = AllPairs
  BY <1>1, SameInput
<1>5. LoopsOK'
  BY <1>1, <1>2, <1>4 DEF LoopsOK, Running
<1> HIDE DEF ib
<1>6. ASSUME NEW p \in AllPairs
      PROVE  /\ BatchOf(p[1]) \in Nat /\ BatchOf(p[2]) \in Nat
             /\ BatchOf(p[1]) <= BatchOf(p[2]) /\ BatchOf(p[2]) < b
  <2>1. /\ count \in Nat /\ p[2] \in 0 .. count-1
        /\ p[1] \in 0 .. count-1 /\ p[1] < p[2]
    BY <1>2 DEF AllPairs, LoopsOK
  <2>2. p[1] \in 0 .. p[2]
    BY <2>1
  <2>3. QED  BY <1>2, <2>1, <2>2, BatchesOrdered
<1>7. Handled(ib+1, ib+1) = {}
  BY <1>2, <1>3, NoneHandled
<1> HIDE DEF b
<1>8. \A p \in AllPairs :
        (BatchOf(p[1]) < ib \/ (BatchOf(p[1]) = ib /\ BatchOf(p[2]) \in Handled(ib, b))) <=>
          BatchOf(p[1]) < ib+1
  BY <1>3, <1>6
<1>9. Compared(ib, b) = Compared(ib+1, ib+1)
  BY <1>7, <1>8 DEF Compared
<1>10. Compared(ib+1, ib+1) = Compared(index_batch_idx, i)'
  BY <1>1, <1>4 DEF Compared, Handled, BatchOf
<1>11. QED  BY <1>1, <1>2, <1>5, <1>9, <1>10 DEF PairsInv

LEMMA EvictStep == PairsInv /\ EvictSignatures => PairsInv'
<1> SUFFICES ASSUME PairsInv, EvictSignatures PROVE PairsInv'
  OBVIOUS
<1>1. /\ UNCHANGED inputVars /\ index_batch_idx' = index_batch_idx /\ i' = i
      /\ emitted' = emitted /\ repeated' = repeated
      /\ selected' = selected /\ initialized' = initialized
  BY DEF EvictSignatures, loopVars
<1>2. QED  BY <1>1, SamePairs DEF PairsInv, LoopsOK

LEMMA StutterStep == PairsInv /\ UNCHANGED blockVars => PairsInv'
<1> SUFFICES ASSUME PairsInv, UNCHANGED blockVars PROVE PairsInv'
  OBVIOUS
<1>1. /\ UNCHANGED inputVars /\ index_batch_idx' = index_batch_idx /\ i' = i
      /\ emitted' = emitted /\ repeated' = repeated
      /\ selected' = selected /\ initialized' = initialized
  BY DEF blockVars, loopVars
<1>2. QED  BY <1>1, SamePairs DEF PairsInv, LoopsOK

------------------------------------------------------------------------------
(* At any place of the two loops over batches (blockslice.hh 161-178), the *)
(* pairs that were compared are those of the finished rounds and of the    *)
(* part of the current one that is done - its left part in an even round,  *)
(* its right part in an odd one -, and none was compared twice.            *)
THEOREM PairsExact == BlockSpec => []PairsInv
<1>1. PairsInv /\ [BlockNext]_blockVars => PairsInv'
  BY SelectArmStep, BuildAlgorithmStep, JoinBatchesStep, NextIndexBatchStep, EvictStep,
     StutterStep DEF BlockNext
<1>2. QED  BY <1>1, InitPairs, PTL DEF BlockSpec

(* Whatever the order of the rounds, the sizes of the batches and the      *)
(* plans that are selected, as far as the loops get no pair is compared    *)
(* twice and a finished index batch has been compared with every later     *)
(* record.  They get to the end unless a batch starts behind the dataset.  *)
THEOREM PairsComparedOnce == BlockSpec => []EveryPairOnce
<1>1. PairsInv => EveryPairOnce
  BY DEF PairsInv, EveryPairOnce, Compared, BatchOf
<1>2. QED  BY <1>1, PairsExact, PTL

(* Behind the last round every pair is one of a finished index batch.      *)
LEMMA AllAtTheEnd ==
  ASSUME PairsInv, ~Running
  PROVE  emitted = AllPairs
<1>1. LoopsOK /\ emitted = Compared(index_batch_idx, i)
  BY DEF PairsInv
<1>2. batch_count \in Nat /\ index_batch_idx \in Nat /\ batch_count <= index_batch_idx
  BY <1>1 DEF LoopsOK, Running
<1>3. ASSUME NEW p \in AllPairs PROVE BatchOf(p[1]) < index_batch_idx
  <2>1. p[1] \in 0 .. count-1
    BY DEF AllPairs
  <2>2. BatchOf(p[1]) \in Nat /\ BatchOf(p[1]) < batch_count
    BY <1>1, <2>1, BatchesOrdered
  <2>3. QED  BY <1>2, <2>2
<1>4. QED  BY <1>1, <1>3 DEF Compared

(* When both loops have ended, the batches were a partition of the dataset *)
(* also if its size is not a multiple of theirs: every pair of records has *)
(* been compared, whatever the last batches hold.                          *)
THEOREM EndedMeansAll == BlockSpec => [](~Running => emitted = AllPairs)
<1>1. PairsInv => (~Running => emitted = AllPairs)
  BY AllAtTheEnd
<1>2. QED  BY <1>1, PairsExact, PTL
==============================================================================
