-------------------------------- MODULE Sums --------------------------------
(* Sums of the values of a function on 1..n, by a recursive function.      *)
EXTENDS Integers

SumTo(f, n) == LET partial[k \in 0..n] == IF k = 0 THEN 0 ELSE partial[k - 1] + f[k]
               IN  partial[n]
=============================================================================
