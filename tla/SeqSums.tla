------------------------------- MODULE SeqSums -------------------------------
(***************************************************************************)
(* Sums of integer sequences, as a recursive function rather than a fold,  *)
(* so that SeqSumsProofs can say what a sum of an appended sequence is.    *)
(***************************************************************************)
EXTENDS Integers, Sequences

RunningTotals(s) ==
  LET T[n \in 0 .. Len(s)] == IF n = 0 THEN 0 ELSE T[n - 1] + s[n]
  IN  T

Total(s) == RunningTotals(s)[Len(s)]
=============================================================================
