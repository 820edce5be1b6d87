------------------------------ MODULE PrefixJoin ------------------------------
(***************************************************************************)
(* join::PrefixSignatureJoin (prefix_join.cc): instances of the prefix     *)
(* join that share a mapping of frequent tokens.  The mapping is rebuilt   *)
(* when enough tokens have been indexed.  Then every index that was built  *)
(* with the old one, and every prepared probe batch in the cache, has to   *)
(* be converted again before the two meet: sets converted by different     *)
(* mappings have neither prefixes nor tokens in common.                    *)
(*                                                                         *)
(* A set is its record.  A mapping is the shared state that built it and   *)
(* how often it was built; before the first time it is the identity.       *)
(***************************************************************************)
EXTENDS Integers, Sequences, SequencesExt

CONSTANTS
  Records,
  SharedStates, Instances,
  shared_state,       \* the shared state of an instance
  Batches,            \* sequences of records that may be indexed at a time
  TokenCounts,        \* the numbers of tokens a batch may have
  ProbeBatches,       \* the ids of the probe batches
  FirstReindexing,    \* 50000 in the code
  MaxIndexed          \* bound on the records of an instance

ASSUME PrefixAssumption ==
  /\ shared_state \in [Instances -> SharedStates]
  /\ Batches \subseteq Seq(Records)
  /\ TokenCounts \subseteq Nat
  /\ FirstReindexing \in Nat
  /\ MaxIndexed \in Nat

VARIABLES
  sqs_version, totally_indexed_tokens, next_reindexing,  \* by shared state
  local_sqs_version,   \* by instance: the version of its index
  preprocessed_sets,   \* by instance: the indexed sets, converted
  indexed_data,        \* by instance: the records its caller has inserted
  cached_signatures,   \* prepared probe batches, by their ids
  compared             \* how index and probe batch of the last join were converted

sharedVars   == <<sqs_version, totally_indexed_tokens, next_reindexing>>
instanceVars == <<local_sqs_version, preprocessed_sets, indexed_data>>
prefixVars   == <<sharedVars, instanceVars, cached_signatures, compared>>

Mapping(s, version) ==
  IF version = 0 THEN [version |-> 0] ELSE [state |-> s, version |-> version]

convert_tokens(data, mapping) ==
  [i \in DOMAIN data |-> [record |-> data[i], mapping |-> mapping]]

(* Faulty forms: a rebuilt index without the new batch, a prepared batch   *)
(* that stays as it was.                                                   *)
Rebuilt_OldData(a, batch) == indexed_data[a]

Outdated_Never(version, s) == FALSE

Rebuilt(a, batch) == indexed_data[a] \o batch

(* The test of a prepared batch and of an index for its version.           *)
Outdated(version, s) == version # sqs_version[s]

Rebuild(a, version) == local_sqs_version[a] < version

NewVersion(s) == sqs_version[s] + 1

NextReindexing(total) == 4 * total

(* The version after n more tokens.                                        *)
VersionAfter(s, n) ==
  IF totally_indexed_tokens[s] + n > next_reindexing[s]
  THEN NewVersion(s) ELSE sqs_version[s]

SharedInit ==
  /\ sqs_version = [s \in SharedStates |-> 0]
  /\ totally_indexed_tokens = [s \in SharedStates |-> 0]
  /\ next_reindexing = [s \in SharedStates |-> FirstReindexing]

Init ==
  /\ SharedInit
  /\ local_sqs_version = [a \in Instances |-> 0]
  /\ preprocessed_sets = [a \in Instances |-> <<>>]
  /\ indexed_data = [a \in Instances |-> <<>>]
  /\ cached_signatures = <<>>
  /\ compared = [index |-> {}, probe |-> [version |-> 0]]

(* insert_batch(indexed_data, batch) for a batch of n tokens.              *)
insert_batch(a, batch, n) ==
  LET s       == shared_state[a]
      version == VersionAfter(s, n)
      total   == totally_indexed_tokens[s] + n
  IN  /\ totally_indexed_tokens' = [totally_indexed_tokens EXCEPT ![s] = total]
      /\ sqs_version' = [sqs_version EXCEPT ![s] = version]
      /\ next_reindexing' =
           [next_reindexing EXCEPT ![s] = IF total > @ THEN NextReindexing(total) ELSE @]
      /\ indexed_data' = [indexed_data EXCEPT ![a] = @ \o batch]
      /\ IF Rebuild(a, version)
         THEN /\ preprocessed_sets' =
                   [preprocessed_sets EXCEPT
                      ![a] = convert_tokens(Rebuilt(a, batch), Mapping(s, version))]
              /\ local_sqs_version' = [local_sqs_version EXCEPT ![a] = version]
         ELSE /\ preprocessed_sets' =
                   [preprocessed_sets EXCEPT
                      ![a] = @ \o convert_tokens(batch, Mapping(s, version))]
              /\ UNCHANGED local_sqs_version

(* The first part of join_batch: the index follows the shared mapping.     *)
update_index(a) ==
  LET s == shared_state[a]
  IN  IF local_sqs_version[a] < sqs_version[s]
      THEN /\ preprocessed_sets' =
                [preprocessed_sets EXCEPT
                   ![a] = convert_tokens(indexed_data[a], Mapping(s, sqs_version[s]))]
           /\ local_sqs_version' = [local_sqs_version EXCEPT ![a] = sqs_version[s]]
      ELSE UNCHANGED <<preprocessed_sets, local_sqs_version>>

Prepared(s) == [mapping |-> Mapping(s, sqs_version[s]), version |-> sqs_version[s]]

(* What get_cached_probing_signatures returns for batch b, once join_batch *)
(* has brought it up to date.                                              *)
probing_signatures(b, s) ==
  IF b \in DOMAIN cached_signatures /\ ~Outdated(cached_signatures[b].version, s)
  THEN cached_signatures[b] ELSE Prepared(s)

Store(b, signatures) ==
  cached_signatures' =
    [c \in DOMAIN cached_signatures \cup {b} |->
       IF c = b THEN signatures ELSE cached_signatures[c]]

Mappings(sets) == {sets[i].mapping : i \in DOMAIN sets}

Compare(a, probe) ==
  compared' = [index |-> Mappings(preprocessed_sets'[a]), probe |-> probe]

------------------------------------------------------------------------------
Insert(a, batch, n) ==
  /\ Len(indexed_data[a]) + Len(batch) <= MaxIndexed
  /\ insert_batch(a, batch, n)
  /\ UNCHANGED <<cached_signatures, compared>>

(* Probe with the cached signatures of a batch.  An instance without data  *)
(* is not probed.                                                          *)
Probe(a, b) ==
  /\ indexed_data[a] # <<>>
  /\ update_index(a)
  /\ \E signatures \in {probing_signatures(b, shared_state[a])} :
       /\ Store(b, signatures)
       /\ Compare(a, signatures.mapping)
  /\ UNCHANGED <<sharedVars, indexed_data>>

(* Probe without a cache, as the static join does.                         *)
ProbeUncached(a) ==
  /\ indexed_data[a] # <<>>
  /\ update_index(a)
  /\ Compare(a, Prepared(shared_state[a]).mapping)
  /\ UNCHANGED <<sharedVars, indexed_data, cached_signatures>>

(* The cache is bounded: whatever is in it may be evicted.                 *)
Evict(b) ==
  /\ b \in DOMAIN cached_signatures
  /\ cached_signatures' = [c \in DOMAIN cached_signatures \ {b} |-> cached_signatures[c]]
  /\ UNCHANGED <<sharedVars, instanceVars, compared>>

Next ==
  \/ \E a \in Instances, batch \in Batches, n \in TokenCounts : Insert(a, batch, n)
  \/ \E a \in Instances, b \in ProbeBatches : Probe(a, b)
  \/ \E a \in Instances : ProbeUncached(a)
  \/ \E b \in ProbeBatches : Evict(b)

Spec == Init /\ [][Next]_prefixVars

------------------------------------------------------------------------------
(* Properties.                                                             *)

(* Every variable has the type the code declares for it, and the mapping   *)
(* is rebuilt in time.                                                     *)
TypeOK ==
  /\ sqs_version \in [SharedStates -> Nat]
  /\ totally_indexed_tokens \in [SharedStates -> Nat]
  /\ next_reindexing \in [SharedStates -> Nat]
  /\ \A s \in SharedStates : totally_indexed_tokens[s] <= next_reindexing[s]
  /\ local_sqs_version \in [Instances -> Nat]
  /\ DOMAIN preprocessed_sets = Instances
  /\ indexed_data \in [Instances -> Seq(Records)]

(* All sets of an index were converted by one mapping, that of the version *)
(* the instance has noted, which the shared state has reached.             *)
IndexHasOneMapping ==
  \A a \in Instances :
    /\ local_sqs_version[a] <= sqs_version[shared_state[a]]
    /\ Mappings(preprocessed_sets[a]) \subseteq
         {Mapping(shared_state[a], local_sqs_version[a])}

(* The index holds the records that were inserted, in that order: the ids  *)
(* in its lists are positions in the caller's data, also after a rebuild   *)
(* in the middle of a sequence of inserts.                                 *)
IndexIsComplete ==
  \A a \in Instances :
    /\ Len(preprocessed_sets[a]) = Len(indexed_data[a])
    /\ \A i \in DOMAIN indexed_data[a] : preprocessed_sets[a][i].record = indexed_data[a][i]

(* Whatever index meets whatever probe batch, cached or not, both were     *)
(* converted by the same mapping.                                          *)
ComparedInOneMapping == compared.index \subseteq {compared.probe}
==============================================================================
