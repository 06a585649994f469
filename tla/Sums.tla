--------------------------------- MODULE Sums ---------------------------------
(***************************************************************************)
(* Sums, by a recursive function.                                          *)
(***************************************************************************)
LOCAL INSTANCE Integers

\* The sum of f over 1..k, for a function f of them.
Sum(f, k) == LET sum[i \in 0..k] == IF i = 0 THEN 0 ELSE sum[i - 1] + f[i] IN sum[k]
=============================================================================
