------------------------------ MODULE Reductions ------------------------------
(***************************************************************************)
(* The reductions (reduction.hh): a string to the set of its q-grams, a    *)
(* tree to the string of its labels in preorder and to the set of its      *)
(* labels.  A reduction is right if what is similar stays similar: here a  *)
(* string or a tree is edited, one edit after the other, and its reduction *)
(* is compared with the reduction of the original.                         *)
(*                                                                         *)
(* Characters and labels are numbers from 1.  A fingerprint is a number    *)
(* that stands for what was rolled into it, and different windows have     *)
(* different ones.  A tree has a label and a sequence of children.         *)
(***************************************************************************)
EXTENDS SetSimilarity, EditDistance, JaroDistance, FiniteSetsExt

CONSTANTS
  Originals,        \* the strings and trees that are edited
  Alphabet,         \* characters and labels
  MaxEdits,         \* bound on the edits
  MaxLength,        \* bound on the length of a string, the nodes of a tree
  QGramLengths,     \* the q of the q-gram reductions
  Counters          \* the values of a counter: 2^7 for q-grams, 2^3 for labels

ASSUME ReductionsAssumption ==
  /\ Alphabet \subseteq Nat \ {0}
  /\ MaxEdits \in Nat /\ MaxLength \in Nat
  /\ QGramLengths \subseteq Nat \ {0}
  /\ Counters \in Nat \ {0}

VARIABLES original, edited, edits

editVars == <<original, edited, edits>>

PADDING == 0

IsTree(item) == "tree" \in DOMAIN item

(* A number for what was rolled in; a tail's marks are above the alphabet. *)
Base == Cardinality(Alphabet) + 6
Fingerprint(chars) == FoldLeft(LAMBDA n, c : n * Base + c, 1, chars)

(* Faulty forms: the last window is not left before the padding comes, the *)
(* counter is not reset for a new token, a queue instead of a stack.       *)
tail_grams_Late(string, q) ==
  [j \in 1..q - 1 |->
     Fingerprint(<<Base - j>> \o
                 SubSeq(string, greater(1, Len(string) - q + 1), Len(string)))]

numbered_NoReset(list) ==
  [n \in DOMAIN list |->
     list[n] * Counters +
     (IF n > 1 /\ list[n - 1] = list[n]
      THEN (Cardinality({m \in 2..n : list[m] = list[m - 1]}) % Counters) ELSE 0)]

pushed_InFront(stack, node, reversed) == Reverse(node.children) \o Front(stack)

(* generate_qgrams: the windows that end in a character.                   *)
windows(string, q) ==
  LET padded == [i \in 1..q - 1 |-> PADDING] \o string
  IN  [i \in DOMAIN string |-> Fingerprint(SubSeq(padded, i, i + q - 1))]

(* The windows that end in padding.  What is rolled in is not the padding  *)
(* but the fingerprint with it, and what is removed is no longer at the    *)
(* left end of the window: each depends on all of the last characters.     *)
tail_grams(string, q) ==
  [j \in 1..q - 1 |->
     Fingerprint(<<Base - j>> \o SubSeq(string, Len(string) - q + 2, Len(string)))]

(* Shorter strings are read before their first character, or have no token *)
(* to begin with.                                                          *)
LongEnough(string, q) == Len(string) >= q - 1 /\ Len(string) >= 1

(* Sorted tokens, with their duplicates numbered; the counter wraps.       *)
numbered(list) ==
  [n \in DOMAIN list |->
     list[n] * Counters + (Cardinality({m \in 1..n - 1 : list[m] = list[n]}) % Counters)]

qgrams(string, q) ==
  numbered(SortSeq(windows(string, q) \o tail_grams(string, q), <))

(* JaroSetReduction: equal tokens get a number once more.                  *)
jaro_set(string) ==
  LET list == qgrams(string, 1)
  IN  SortSeq([n \in DOMAIN list |->
                 list[n] * MaxLength + Cardinality({m \in 1..n - 1 : list[m] = list[n]})], <)

(* The labels of a tree in the order of a traversal with a stack.          *)
pushed(stack, node, reversed) ==
  Front(stack) \o (IF reversed THEN Reverse(node.children) ELSE node.children)

RECURSIVE traversal(_, _)
traversal(stack, reversed) ==
  IF stack = <<>> THEN <<>>
  ELSE <<Last(stack).label>> \o traversal(pushed(stack, Last(stack), reversed), reversed)

generate_preorder(tree) == traversal(<<tree>>, TRUE)

generate_labelset(tree) == numbered(SortSeq(traversal(<<tree>>, FALSE), <))

Nodes(tree) == Len(traversal(<<tree>>, FALSE))

------------------------------------------------------------------------------
(* One edit.                                                               *)
EditedStrings(s) ==
  {RemoveAt(s, i) : i \in DOMAIN s} \cup
  {ReplaceAt(s, i, c) : i \in DOMAIN s, c \in Alphabet} \cup
  {InsertAt(s, i, c) : i \in 1..Len(s) + 1, c \in Alphabet}

(* A node takes a part of its siblings for its children, or gives way to   *)
(* its children, or gets another label.                                    *)
RECURSIVE EditedForests(_)
EditedForests(forest) ==
  LET Cut(i, j, new) == SubSeq(forest, 1, i - 1) \o new \o SubSeq(forest, j + 1, Len(forest))
      Siblings == {p \in (1..Len(forest) + 1) \X (0..Len(forest)) : p[1] - 1 <= p[2]}
  IN  UNION {{Cut(i, i, forest[i].children)} \cup
             {Cut(i, i, <<[forest[i] EXCEPT !.label = l]>>) : l \in Alphabet} \cup
             {Cut(i, i, <<[forest[i] EXCEPT !.children = f]>>) :
                f \in EditedForests(forest[i].children)} : i \in DOMAIN forest} \cup
      {Cut(p[1], p[2], <<[label |-> l, children |-> SubSeq(forest, p[1], p[2])]>>) :
         p \in Siblings, l \in Alphabet}

EditedTrees(tree) ==
  {forest[1] : forest \in {f \in EditedForests(<<tree>>) : Len(f) = 1}}

EditInit ==
  /\ original \in Originals
  /\ edited = original
  /\ edits = 0

EditString ==
  /\ ~IsTree(edited) /\ edits < MaxEdits
  /\ \E s \in EditedStrings(edited.string) :
       Len(s) <= MaxLength /\ edited' = [string |-> s]
  /\ edits' = edits + 1
  /\ UNCHANGED original

EditTree ==
  /\ IsTree(edited) /\ edits < MaxEdits
  /\ \E t \in EditedTrees(edited.tree) :
       Nodes(t) <= MaxLength /\ edited' = [tree |-> t]
  /\ edits' = edits + 1
  /\ UNCHANGED original

EditNext == EditString \/ EditTree

EditSpec == EditInit /\ [][EditNext]_editVars

------------------------------------------------------------------------------
(* Properties.                                                             *)

OfStrings(P(_, _)) == IsTree(original) \/ P(original.string, edited.string)
OfTrees(P(_, _))   == ~IsTree(original) \/ P(original.tree, edited.tree)

(* reduce_similarity of the q-gram and of the label set reduction.         *)
structural(q) == [kind |-> "structural", t |-> edits, q |-> q]

(* Strings that are t edits apart are similar as sets of q-grams, with the *)
(* similarity that the reduction makes of t, however often the counter of  *)
(* the duplicates wrapped.                                                 *)
QgramsSurvive ==
  OfStrings(LAMBDA s, e : \A q \in QGramLengths :
    LongEnough(s, q) /\ LongEnough(e, q) =>
      is_in_threshold(structural(q), qgrams(s, q), qgrams(e, q)))

(* Trees that are t edits apart are similar as sets of labels, and their   *)
(* traversal strings are at most t edits apart.                            *)
TreesSurvive ==
  OfTrees(LAMBDA t, e :
    /\ is_in_threshold(structural(1), generate_labelset(t), generate_labelset(e))
    /\ in_edit_threshold(edits, generate_preorder(t), generate_preorder(e)))

(* The column distance is the edit distance: no edit sequence is shorter,  *)
(* and there is one of this length.                                        *)
DistanceIsEdits ==
  OfStrings(LAMBDA s, e :
    /\ similarity(s, e) <= edits
    /\ similarity(s, e) = 0 <=> s = e
    /\ s # e => \E f \in EditedStrings(e) : similarity(s, f) = similarity(s, e) - 1)

(* The band decides as the whole matrix does, for every threshold for      *)
(* which the lengths are near enough.                                      *)
BandDecides ==
  OfStrings(LAMBDA s, e : \A t \in absolute(Len(s) - Len(e))..MaxEdits + 1 :
    in_edit_threshold(t, s, e) <=> similarity(s, e) <= t)

(* Which string is the query makes no difference to JaroSimilarity, giving *)
(* up early neither, and what is similar has enough characters in common   *)
(* for JaroOverlapSimilarity.                                              *)
JaroSurvives ==
  OfStrings(LAMBDA s, e : s # <<>> /\ e # <<>> =>
    \A n \in 6..9 :
      /\ in_jaro_threshold(n, 10, s, e) <=> in_jaro_threshold(n, 10, e, s)
      /\ in_jaro_threshold(n, 10, s, e) =>
           is_in_threshold([kind |-> "jaro_overlap", num |-> n, den |-> 10],
                           jaro_set(s), jaro_set(e)))
==============================================================================
