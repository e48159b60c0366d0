-------------------------------- MODULE Sums --------------------------------
(* Sums of the values of a function on 1..n.                               *)
EXTENDS Integers

(* The sum of the first n values of f.                                     *)
SumOf(f, n) ==
  LET sum[i \in 0..n] == IF i = 0 THEN 0 ELSE sum[i - 1] + f[i]
  IN  sum[n]
=============================================================================
