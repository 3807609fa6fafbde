------------------------------- MODULE Totals -------------------------------
(* The sum of a sequence of numbers: of row counts, of sizes, of lengths. *)
EXTENDS Integers, Sequences

Total(s) ==
  LET sum[i \in 0..Len(s)] == IF i = 0 THEN 0 ELSE sum[i - 1] + s[i]
  IN  sum[Len(s)]
=============================================================================
