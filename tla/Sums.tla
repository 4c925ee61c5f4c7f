-------------------------------- MODULE Sums --------------------------------
(***************************************************************************)
(* Sums and maxima of the first numbers of a list, as the loops over rows, *)
(* bars and bins of the API and the engine compute them.                   *)
(***************************************************************************)
EXTENDS Integers

\* f[1] + ... + f[n]
SumTo(f, n) == LET upTo[k \in 0..n] == IF k = 0 THEN 0 ELSE upTo[k - 1] + f[k] IN upTo[n]

\* The highest of f[0], ..., f[n].
Higher(a, b) == IF a > b THEN a ELSE b
MaxTo(f, n) == LET upTo[k \in 0..n] == IF k = 0 THEN f[0] ELSE Higher(upTo[k - 1], f[k]) IN upTo[n]
=============================================================================
