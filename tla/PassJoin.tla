------------------------------- MODULE PassJoin -------------------------------
(***************************************************************************)
(* join::PassJoin (pass_join.cc, pass_join.hh, PassJoinSignature): strings *)
(* within a distance of t.  An indexed string is cut into t + 1 parts, and *)
(* t edits leave one of them untouched.  For each length that an indexed   *)
(* string may have, the probing string looks for the parts such a string   *)
(* would have, near the place where they would be.                         *)
(*                                                                         *)
(* A signature is what it is the hash of: a part and its characters.  What *)
(* a probing string looks for depends on nothing else, so it does not      *)
(* matter whether it is cached.  The parts are counted from 0.             *)
(***************************************************************************)
EXTENDS SignatureJoin, EditDistance

VARIABLES
  index,         \* by instance: lists of ids, by length and signature
  index_length   \* the length that was searched last, -1 before the first

passOwnVars == <<index, index_length>>
passVars    == <<joinVars, passOwnVars>>

string(r)  == setting.data[r]
_thresh    == setting.threshold

------------------------------------------------------------------------------
(* Faulty forms: t parts only, and windows that end too early.             *)
partition_count_OfThreshold == IF _thresh = 0 THEN 1 ELSE _thresh

probe_end_pos_Short(p, partition_start, partition_length, string_length) ==
  minimum(string_length - partition_length, partition_start + p - 1)

partition_count == _thresh + 1

partition_size(length, p) ==
  length \div partition_count +
  (IF length % partition_count >= partition_count - p THEN 1 ELSE 0)

(* Where part p starts in a string of this length.                         *)
partition_start(length, p) ==
  FoldLeft(LAMBDA offset, n : offset + partition_size(length, n - 1), 0, UpTo(p))

probe_start_pos(p, start) == IF start - p > 0 THEN start - p ELSE 0

probe_end_pos(p, start, part_size, string_size) ==
  minimum(string_size - part_size, start + p)

(* The character behind the last one, which an empty string that probes is *)
(* asked for, is 0.                                                        *)
signature(p, s, from, n) ==
  [partition |-> p, chars |-> SubSeq(Append(s, 0), from + 1, from + n)]

indexing_signatures(s) ==
  {signature(p, s, partition_start(Len(s), p), partition_size(Len(s), p)) :
     p \in 0..partition_count - 1}

(* Of a part without characters only the first fingerprint is right: those *)
(* that are made of it by removing and adding characters find nothing.     *)
probe_positions(s, length, p) ==
  LET n     == partition_size(length, p)
      start == probe_start_pos(p, partition_start(length, p))
      end   == probe_end_pos(p, partition_start(length, p), n, Len(s))
  IN  {start} \cup (IF n = 0 THEN {} ELSE start + 1..end)

probing_signatures(s, length) ==
  UNION {{signature(p, s, from, partition_size(length, p)) :
            from \in probe_positions(s, length, p)} : p \in 0..partition_count - 1}

(* insert: a presorted index adds to its last length.                      *)
LengthKey(ix, length) ==
  IF setting.PRESORTED /\ \E n \in Groups(ix) : n > length
  THEN CHOOSE n \in Groups(ix) : \A m \in Groups(ix) : m <= n
  ELSE length

------------------------------------------------------------------------------
PassInit ==
  /\ InitJoin
  /\ index = [a \in Instances |-> <<>>]
  /\ index_length = -1

PassConstruct(a, r) == ConstructFor(a, r) /\ UNCHANGED passOwnVars

PassInsertBatch(a, n) == CallInsert(a, n) /\ UNCHANGED passOwnVars

PassInsertRecord ==
  LET s == string(Inserting)
  IN  /\ InsertNext
      /\ index' =
           [index EXCEPT
              ![caller] = Inserted(@, LengthKey(@, Len(s)), indexing_signatures(s), next_id[caller])]
      /\ UNCHANGED index_length

PassInsertDone == EndInsert /\ UNCHANGED passOwnVars

PassJoinBatch(a, r, f) == CallJoin(a, r, f) /\ UNCHANGED passOwnVars

(* get_probing_signatures, for the lengths that are searched.              *)
PassBeginSearch == GoOn("prepare", "search") /\ UNCHANGED passOwnVars

LengthsToProbe ==
  {n \in Groups(index[caller]) :
     /\ shortest_within(_thresh, size(probe)) <= n
     /\ n <= longest_within(_thresh, size(probe))
     /\ index_length < n}

(* query: the next length, and all signatures for it.                      *)
ProbeLength ==
  \E n \in LengthsToProbe :
    LET found == UNION {read_filtered(caller, Find(index[caller], n, sig)) :
                          sig \in probing_signatures(string(probe), n)}
    IN  /\ \A m \in LengthsToProbe : n <= m
        /\ FindMore("search", "search", found \ already_seen[caller])
        /\ index_length' = n
        /\ UNCHANGED index

PassSearchDone ==
  /\ GoOn("search", "verify")
  /\ LengthsToProbe = {}
  /\ index_length' = -1
  /\ UNCHANGED index

PassVerify ==
  /\ Verify({r \in Compared : in_edit_threshold(_thresh, string(r), string(probe))})
  /\ UNCHANGED passOwnVars

PassReturn == Return /\ UNCHANGED passOwnVars

PassMerge(a, b) ==
  /\ MergeInto(a, b)
  /\ index' = [index EXCEPT ![a] = Merged(@, index[b], next_id[a]), ![b] = <<>>]
  /\ UNCHANGED index_length

PassNext ==
  \/ \E a \in Instances :
       \/ \E r \in setting.starts[a] : PassConstruct(a, r)
       \/ \E n \in setting.batches : PassInsertBatch(a, n)
       \/ \E r \in setting.probes, f \in setting.filters : PassJoinBatch(a, r, f)
       \/ \E b \in Instances : PassMerge(a, b)
  \/ PassInsertRecord \/ PassInsertDone
  \/ PassBeginSearch \/ ProbeLength \/ PassSearchDone
  \/ PassVerify \/ PassReturn

PassSpec == PassInit /\ [][PassNext]_passVars

------------------------------------------------------------------------------
(* Properties.                                                             *)

(* Whatever was inserted, merged and searched before, a call finds what is *)
(* within the distance and passes the filter: nothing more, nothing less,  *)
(* nothing twice.                                                          *)
FindsExactly ==
  pc = "return" =>
    /\ emitted = {r \in Indexed(caller) :
                    Admitted(r) /\ similarity(string(r), string(probe)) <= _thresh}
    /\ repeated = {}
==============================================================================
