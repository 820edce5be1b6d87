----------------------------- MODULE EditDistance -----------------------------
(***************************************************************************)
(* StringEditDistance (similarity.hh): the distance of two strings by      *)
(* columns, and the test whether it is at most a threshold, which computes *)
(* a band of the matrix only.  Both loops over cells are folds.            *)
(***************************************************************************)
EXTENDS Integers, Sequences, SequencesExt

minimum(a, b) == IF a <= b THEN a ELSE b
absolute(n) == IF n < 0 THEN -n ELSE n

shorter_of(s1, s2) == IF Len(s1) <= Len(s2) THEN s1 ELSE s2
longer_of(s1, s2)  == IF Len(s1) <= Len(s2) THEN s2 ELSE s1

Infinity == 2 ^ 30 - 1   \* half of the largest int32_t

UpTo(n) == [i \in 1..n |-> i]

(* A faulty form: characters are not replaced, only removed and added.     *)
next_column_NoReplacement(str1, column1, c2) ==
  FoldLeft(LAMBDA column2, i :
             Append(column2,
                    IF str1[i] = c2 THEN column1[i] ELSE minimum(column2[i], column1[i + 1]) + 1),
           <<column1[1] + 1>>, UpTo(Len(str1)))

(* similarity(s1, s2).                                                     *)
next_column(str1, column1, c2) ==
  FoldLeft(LAMBDA column2, i :
             Append(column2,
                    minimum(column2[i] + 1,
                            minimum(column1[i + 1] + 1,
                                    column1[i] + (IF str1[i] = c2 THEN 0 ELSE 1)))),
           <<column1[1] + 1>>, UpTo(Len(str1)))

similarity(s1, s2) ==
  LET str1 == shorter_of(s1, s2)
  IN  Last(FoldLeft(LAMBDA column, c : next_column(str1, column, c),
                    [i \in 1..Len(str1) + 1 |-> i - 1], longer_of(s1, s2)))

(* Faulty forms: a band that is a diagonal too narrow, one that starts a   *)
(* diagonal too far to the right.                                          *)
band_margin_Short(t, m, n) == (t - (m - n) - 1) \div 2

first_diagonal_Late(p, m, n) == -p + n - m + 1

(* p and the initial k of is_in_threshold, for lengths m >= n.             *)
band_margin(t, m, n) == (t - (m - n)) \div 2

first_diagonal(p, m, n) == -p + n - m

(* Row i of the band, from the row before: r has a cell without a diagonal *)
(* at either end, and j counts the diagonals from 0.                       *)
next_row(a, b, k, r, i) ==
  FoldLeft(LAMBDA row, d :
             LET j  == d - 1
                 at == j + k + i
             IN  [row EXCEPT ![j + 2] =
                    IF i = 0
                    THEN IF at = 0 THEN 0 ELSE row[j + 1] + 1
                    ELSE minimum(
                           @ + (IF at - 1 \in 0..Len(b) - 1 /\ a[i] = b[at] THEN 0 ELSE 1),
                           minimum(row[j + 3] + 1, row[j + 1] + 1))],
           r, UpTo(Len(r) - 2))

in_edit_threshold(t, s1, s2) ==
  LET b  == shorter_of(s1, s2)
      a  == longer_of(s1, s2)
      n  == Len(b)
      m  == Len(a)
      p  == band_margin(t, m, n)
      kp == first_diagonal(p, m, n)
      initial == [d \in 1..(m - n) + 2 * p + 3 |-> Infinity]
      final   == FoldLeft(LAMBDA r, i : next_row(a, b, kp, r, i - 1), initial, UpTo(m + 1))
  IN  final[(m - n) + 2 * p + kp + 2] <= t

shortest_within(t, n) == IF n - t < 0 THEN 0 ELSE n - t
longest_within(t, n) == n + t
==============================================================================
