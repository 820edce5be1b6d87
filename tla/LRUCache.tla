------------------------------- MODULE LRUCache -------------------------------
(***************************************************************************)
(* util::LRUCache (lru_cache.hh).  `access_list' holds the keys, the most  *)
(* recently used first, and `values' the table from keys to values.  The   *)
(* list iterator that the code keeps with a value is the position of its   *)
(* key in the list.                                                        *)
(***************************************************************************)
EXTENDS Integers, Sequences, FiniteSets

CONSTANTS
  Keys,
  Values,
  Capacity    \* cache_capacity; the callers make it at least 1

ASSUME CapacityAssumption == Capacity \in Nat \ {0}

VARIABLES access_list, values

cacheVars == <<access_list, values>>

CacheInit == access_list = <<>> /\ values = <<>>

------------------------------------------------------------------------------
(* Definitions whose names continue another's after a _ are faulty forms   *)
(* of it: the most recent key is evicted, one more is kept than there is   *)
(* room for, a key that moves to the front also stays where it was.        *)
Kept_Newest(n) == SubSeq(access_list, Len(access_list)-n+1, Len(access_list))

RoomFor_OneLess(n) == Capacity - n + 1

Erase_Nothing(s, i) == s

contains(k) == k \in DOMAIN values

size == Len(access_list)

(* The iterator kept with a key's value, and list::erase at an iterator.   *)
iterator(k) == CHOOSE i \in DOMAIN access_list : access_list[i] = k

Erase(s, i) == SubSeq(s, 1, i-1) \o SubSeq(s, i+1, Len(s))

PushFront(k, s) == <<k>> \o s

(* evict() as often as it takes to leave n keys, the most recent ones.     *)
Kept(n) == SubSeq(access_list, 1, n)

Restricted(t, s) == [k \in {s[i] : i \in DOMAIN s} |-> t[k]]

(* The number of keys that may stay where n are to be added.               *)
RoomFor(n) == Capacity - n

Remaining(n) == IF size <= RoomFor(n) THEN size ELSE RoomFor(n)

(* get(key): a key that is there becomes the most recent one; for another  *)
(* key nothing happens.                                                    *)
get(k) ==
  IF contains(k)
  THEN /\ access_list' = PushFront(k, Erase(access_list, iterator(k)))
       /\ UNCHANGED values
  ELSE UNCHANGED cacheVars

(* emplace(key, value): a key that is there keeps its value and its place, *)
(* a new one takes the place of the least recently used key if the cache   *)
(* is full.  emplaced is the value it returns a reference to.              *)
emplace(k, v) ==
  IF contains(k)
  THEN UNCHANGED cacheVars
  ELSE LET kept == Kept(Remaining(1))
       IN  /\ access_list' = PushFront(k, kept)
           /\ values' = [l \in DOMAIN Restricted(values, kept) \cup {k} |->
                           IF l = k THEN v ELSE values[l]]

emplaced(k, v) == IF contains(k) THEN values[k] ELSE v

(* reserve(n): evicts until n more keys leave a place free.  n has to be   *)
(* less than the capacity: evict() on an empty list is undefined.          *)
reserve(n) ==
  LET kept == Kept(Remaining(n + 1))
  IN  access_list' = kept /\ values' = Restricted(values, kept)

clear == access_list' = <<>> /\ values' = <<>>

CacheNext ==
  \/ \E k \in Keys : get(k) \/ \E v \in Values : emplace(k, v)
  \/ \E n \in 0 .. Capacity-1 : reserve(n)
  \/ clear

CacheSpec == CacheInit /\ [][CacheNext]_cacheVars

------------------------------------------------------------------------------
(* Properties.                                                             *)

(* Every variable has the type the code declares for it, and the cache is  *)
(* never larger than its capacity.                                         *)
CacheTypeOK ==
  /\ access_list \in Seq(Keys) /\ Len(access_list) <= Capacity
  /\ DOMAIN values \subseteq Keys
  /\ \A k \in DOMAIN values : values[k] \in Values

(* List and table hold the same keys, each once: no eviction and no move   *)
(* to the front leaves a key in one of them, or an iterator to nowhere.    *)
ListMatchesTable ==
  /\ DOMAIN values = {access_list[i] : i \in DOMAIN access_list}
  /\ \A i, j \in DOMAIN access_list : access_list[i] = access_list[j] => i = j

(* The list is an implementation of the least-recently-used policy: what   *)
(* leaves the cache was used before everything that stays.                 *)
Policy == INSTANCE LRUPolicy WITH
  entries <- DOMAIN values,
  older   <- {<<access_list[q[2]], access_list[q[1]]>> :
                q \in {p \in (1 .. size) \X (1 .. size) : p[1] < p[2]}}

ImplementsPolicy == Policy!Spec
==============================================================================
