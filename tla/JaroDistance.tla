----------------------------- MODULE JaroDistance -----------------------------
(***************************************************************************)
(* JaroSimilarity (similarity.hh): characters of the query are matched, in *)
(* their order, with the first free equal character of the other string    *)
(* within a window; the similarity is lower if the matched characters are  *)
(* in another order there.  The threshold is the fraction num/den.         *)
(***************************************************************************)
EXTENDS Integers, Sequences, FiniteSets, SequencesExt

(* Faulty forms: a window of the length of the query alone, an early end   *)
(* that asks for one match too many.                                       *)
char_distance_OfQuery(query, match) ==
  IF Len(query) \div 2 > 1 THEN Len(query) \div 2 - 1 ELSE 0

too_few_Early(max_query_matches, required) == max_query_matches < required + 1

max_char_distance(query, match) ==
  LET longest == IF Len(query) > Len(match) THEN Len(query) ELSE Len(match)
  IN  IF longest \div 2 > 1 THEN longest \div 2 - 1 ELSE 0

jaro_lookup_matches(n, m, num, den) == -((-(n * m * (3 * num - den))) \div (den * (n + m)))

too_few(max_query_matches, required) == max_query_matches < required

(* The matched positions, in the order of the query; <<0>> at the end if   *)
(* the required matches cannot be reached any more.                        *)
matched(query, match, required) ==
  FoldLeft(LAMBDA found, i :
             LET free == {j \in DOMAIN match :
                            /\ i - max_char_distance(query, match) <= j /\ j <= i + max_char_distance(query, match)
                            /\ match[j] = query[i] /\ \A n \in DOMAIN found : found[n] # j}
             IN  CASE found # <<>> /\ Last(found) = 0 -> found
                   [] too_few(Len(query) - i + 1 + Len(found), required) -> Append(found, 0)
                   [] free = {} -> found
                   [] OTHER -> Append(found, CHOOSE j \in free : \A k \in free : j <= k),
           <<>>, [i \in DOMAIN query |-> i])

(* get_transpositions: the matched characters in the order of the other    *)
(* string, against the order of the query.                                 *)
transpositions(match, found) ==
  LET inOrder == SortSeq(found, <)
  IN  Cardinality({n \in DOMAIN found : match[inOrder[n]] # match[found[n]]})

(* jaro(query, match, threshold) >= threshold.                             *)
in_jaro_threshold(num, den, query, match) ==
  LET n     == Len(query)
      m     == Len(match)
      found == matched(query, match, jaro_lookup_matches(n, m, num, den))
      c     == Len(found)
  IN  IF found = <<>> \/ Last(found) = 0 THEN FALSE
      ELSE den * (2 * c * c * (n + m) + (2 * c - transpositions(match, found)) * n * m)
             >= 3 * num * (2 * c * n * m)
==============================================================================
