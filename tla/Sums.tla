-------------------------------- MODULE Sums --------------------------------
(***************************************************************************)
(* Sums over the position accounts of a pool, numbered 1 .. N.  Used by    *)
(* the properties to say what the pool's running totals should be; the     *)
(* program itself never adds up its positions.                             *)
(***************************************************************************)
EXTENDS Integers

CONSTANT N   \* number of position accounts

ASSUME NAssumption == N \in Nat

\* PartialSums(h)[i] is h[1] + ... + h[i].
PartialSums(h) ==
    LET sum[i \in 0 .. N] == IF i = 0 THEN 0 ELSE sum[i - 1] + h[i] IN sum

Total(h) == PartialSums(h)[N]
=============================================================================
