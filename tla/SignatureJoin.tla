---------------------------- MODULE SignatureJoin ----------------------------
(***************************************************************************)
(* What the joins that index signatures have in common: instances that are *)
(* given records, probed and merged; the filters (join_algorithm.hh); the  *)
(* marks of the records that are candidates already (signature_join.hh);   *)
(* the lists of an index (index.hh); and the verification of candidates at *)
(* the end of _join_batch (palloc_join.cc, prefix_join.cc, pass_join.cc).  *)
(*                                                                         *)
(* A record is a position in the dataset, a sequence of tokens or of       *)
(* characters.  An instance numbers the records it was given from 0; the   *)
(* caller gives it consecutive ones.  A batch that probes has one record.  *)
(***************************************************************************)
EXTENDS Integers, Sequences, FiniteSets, SequencesExt

CONSTANTS
  Settings,    \* datasets, similarities and calls to be considered
  Instances    \* the instances of the join

VARIABLES
  setting,         \* what the program was started with
  pc,              \* where the running call is
  caller,          \* the instance that runs, and the arguments:
  last,            \*   the last record of the batch it inserts
  probe, filter,   \*   the record that probes, the filter configuration
  first,           \* by instance: the record that has id 0, 0 if not constructed
  next_id,         \* by instance: the number of records inserted
  bitmap_size,     \* by instance: the size of indexed_bitmap
  already_seen,    \* by instance: the ids marked in indexed_bitmap
  candidates,      \* the ids in the list of candidates
  repeated,        \* those that were put into it more than once
  emitted          \* the records the handler was given by the running call

argVars      == <<caller, last, probe, filter>>
callVars     == <<pc, argVars>>
instanceVars == <<first, next_id, bitmap_size>>
resultVars   == <<already_seen, candidates, repeated, emitted>>
joinVars     == <<setting, callVars, instanceVars, resultVars>>

size(r) == Len(setting.data[r])

Record(a, id) == first[a] + id
Ids(a) == 0..next_id[a] - 1
Indexed(a) == {Record(a, id) : id \in Ids(a)}

------------------------------------------------------------------------------
(* Faulty forms: the end of a filter's range left out, marks that stay     *)
(* after a batch, candidates that are not marked, ids that are not moved   *)
(* in a merge.                                                             *)
scan_break_cond_Exclusive(index_record) ==
  CASE filter.type = "CUTOFF" -> index_record >= filter.index_end
    [] filter.type = "CUTOFF_SELFJOIN" ->
         ~(index_record < probe) \/ index_record >= filter.index_end
    [] OTHER -> FALSE

Cleared_Kept(a) == already_seen[a]

Marked_Nothing(ids) == {}

Merged_SameIds(mine, others, id_offset) ==
  [k \in DOMAIN mine \cup DOMAIN others |->
     (IF k \in DOMAIN mine THEN mine[k] ELSE <<>>) \o
     (IF k \in DOMAIN others THEN others[k] ELSE <<>>)]

(* The filters, for an indexed record and the probing record.              *)
scan_skip_cond(index_record) ==
  CASE filter.type \in {"SYMMETRIC_PAIRS", "SIMPLE_SELFJOIN"} -> ~(index_record < probe)
    [] filter.type \in {"CUTOFF", "CUTOFF_SELFJOIN"} -> index_record < filter.index_start
    [] OTHER -> FALSE

scan_break_cond(index_record) ==
  CASE filter.type = "CUTOFF" -> index_record > filter.index_end
    [] filter.type = "CUTOFF_SELFJOIN" ->
         ~(index_record < probe) \/ index_record > filter.index_end
    [] OTHER -> FALSE

literally_selfjoin == filter.type = "SIMPLE_SELFJOIN"

(* resize_bitmap: at least to the next power of two.                       *)
IsPowerOfTwo(p) == \A d \in 1..p : p % d = 0 => d = 1 \/ d % 2 = 0

Resized(old, n) ==
  IF old >= n THEN old ELSE CHOOSE p \in n..2 * n - 1 : IsPowerOfTwo(p)

Marked(ids) == ids

(* Ids are put into the list of candidates and marked.                     *)
Push(a, ids) ==
  /\ candidates' = candidates \cup ids
  /\ repeated' = repeated \cup (candidates \cap ids)
  /\ already_seen' = [already_seen EXCEPT ![a] = @ \cup Marked(ids)]

(* The ids of a list that pass the filter, up to the first record at which *)
(* the rest of the list is given up.  PassJoin looks for the end first; in *)
(* a list in ascending order that makes no difference.                     *)
read_filtered(a, list) ==
  LET Skip(n)  == scan_skip_cond(Record(a, list[n]))
      Break(n) == scan_break_cond(Record(a, list[n]))
  IN  {list[n] : n \in {n \in DOMAIN list :
                          ~Skip(n) /\ \A m \in 1..n : Skip(m) \/ ~Break(m)}}

Cleared(a) == already_seen[a] \ candidates

------------------------------------------------------------------------------
(* ComplexIndex with two dimensions: a group (or size) and a signature.    *)
Find(ix, g, signature) ==
  IF <<g, signature>> \in DOMAIN ix THEN ix[<<g, signature>>] ELSE <<>>

Inserted(ix, g, signatures, id) ==
  LET keys == {g} \X signatures
  IN  [k \in DOMAIN ix \cup keys |->
         IF k \notin keys THEN ix[k] ELSE Append(Find(ix, k[1], k[2]), id)]

Merged(mine, others, id_offset) ==
  [k \in DOMAIN mine \cup DOMAIN others |->
     Find(mine, k[1], k[2]) \o
     (IF k \in DOMAIN others
      THEN [n \in DOMAIN others[k] |-> others[k][n] + id_offset] ELSE <<>>)]

Groups(ix) == {k[1] : k \in DOMAIN ix}

(* An index is what inserting the records of its instance one after the    *)
(* other would make of it, Keys(r) being the keys of a record: a list has  *)
(* the ids of the records with its key in ascending order.                 *)
IsRebuild(ix, a, Keys(_)) ==
  /\ DOMAIN ix = UNION {Keys(r) : r \in Indexed(a)}
  /\ \A k \in DOMAIN ix :
       /\ ToSet(ix[k]) = {id \in Ids(a) : k \in Keys(Record(a, id))}
       /\ \A m, n \in DOMAIN ix[k] : m < n => ix[k][m] < ix[k][n]

------------------------------------------------------------------------------
AnyInstance == CHOOSE a \in Instances : TRUE

InitJoin ==
  /\ setting \in Settings
  /\ pc = "idle"
  /\ caller = AnyInstance /\ last = 0 /\ probe = 1 /\ filter = [type |-> "NOP"]
  /\ first = [a \in Instances |-> 0]
  /\ next_id = [a \in Instances |-> 0]
  /\ bitmap_size = [a \in Instances |-> 0]
  /\ already_seen = [a \in Instances |-> {}]
  /\ candidates = {} /\ repeated = {} /\ emitted = {}

(* The call is over, and with it its arguments.                            *)
CallEnds(from) ==
  /\ pc = from /\ pc' = "idle"
  /\ caller' = AnyInstance /\ last' = 0 /\ probe' = 1 /\ filter' = [type |-> "NOP"]

(* A new instance, for the records from r on.                              *)
ConstructFor(a, r) ==
  /\ pc = "idle" /\ first[a] = 0
  /\ first' = [first EXCEPT ![a] = r]
  /\ UNCHANGED <<setting, callVars, next_id, bitmap_size, resultVars>>

(* insert_batch is called for the next n records: the data the caller has  *)
(* indexed with the instance includes them.                                *)
CallInsert(a, n) ==
  /\ pc = "idle" /\ first[a] # 0
  /\ pc' = "insert" /\ caller' = a
  /\ last' = first[a] + next_id[a] + n - 1
  /\ last' <= Len(setting.data)
  /\ bitmap_size' = [bitmap_size EXCEPT ![a] = Resized(@, next_id[a] + n)]
  /\ UNCHANGED <<setting, probe, filter, first, next_id, resultVars>>

(* The next record of the batch.                                           *)
Inserting == Record(caller, next_id[caller])

InsertNext ==
  /\ pc = "insert" /\ Inserting <= last
  /\ next_id' = [next_id EXCEPT ![caller] = @ + 1]
  /\ UNCHANGED <<setting, callVars, first, bitmap_size, resultVars>>

EndInsert ==
  /\ CallEnds("insert")
  /\ Inserting > last
  /\ UNCHANGED <<setting, instanceVars, resultVars>>

(* join_batch is called.  An instance without data is not probed, and a    *)
(* simple self-join probes with what is indexed.                           *)
CallJoin(a, r, f) ==
  /\ pc = "idle" /\ next_id[a] > 0
  /\ f.type = "SIMPLE_SELFJOIN" => r \in Indexed(a)
  /\ pc' = "prepare" /\ caller' = a /\ probe' = r /\ filter' = f
  /\ UNCHANGED <<setting, last, instanceVars, resultVars>>

(* The call goes on with its next part, and nothing else changes.          *)
GoOn(from, to) ==
  /\ pc = from /\ pc' = to
  /\ UNCHANGED <<setting, argVars, instanceVars, resultVars>>

(* Candidates are found by a part of the call.                             *)
FindMore(from, to, ids) ==
  /\ pc = from /\ pc' = to
  /\ Push(caller, ids)
  /\ UNCHANGED <<setting, argVars, instanceVars, emitted>>

(* The loop over the candidates at the end of a batch: those it compares   *)
(* with the probe, and, given which of them are similar, what it does.     *)
Compared ==
  {r \in {Record(caller, id) : id \in candidates} : ~(literally_selfjoin /\ probe <= r)}

Verify(similar) ==
  /\ pc = "verify" /\ pc' = "return"
  /\ emitted' = similar
  /\ already_seen' = [already_seen EXCEPT ![caller] = Cleared(caller)]
  /\ UNCHANGED <<setting, argVars, instanceVars, candidates, repeated>>

Return ==
  /\ CallEnds("return")
  /\ candidates' = {} /\ repeated' = {} /\ emitted' = {}
  /\ UNCHANGED <<setting, instanceVars, already_seen>>

(* consolidate() merges an instance with the one that goes on where it     *)
(* ends, and drops the latter.  It never has presorted instances.          *)
MergeInto(a, b) ==
  /\ pc = "idle" /\ a # b /\ ~setting.PRESORTED
  /\ next_id[a] > 0 /\ next_id[b] > 0
  /\ first[b] = first[a] + next_id[a]
  /\ next_id' = [next_id EXCEPT ![a] = @ + next_id[b], ![b] = 0]
  /\ bitmap_size' =
       [bitmap_size EXCEPT ![a] = Resized(@, next_id[a] + next_id[b]), ![b] = 0]
  /\ first' = [first EXCEPT ![b] = 0]
  /\ UNCHANGED <<setting, callVars, resultVars>>

------------------------------------------------------------------------------
(* What the filter of the running call lets through.                       *)
Admitted(r) ==
  CASE filter.type \in {"SYMMETRIC_PAIRS", "SIMPLE_SELFJOIN"} -> r < probe
    [] filter.type = "CUTOFF" -> r \in filter.index_start..filter.index_end
    [] filter.type = "CUTOFF_SELFJOIN" ->
         r \in filter.index_start..filter.index_end /\ r < probe
    [] OTHER -> TRUE
==============================================================================
