-------------------------------- MODULE Sums --------------------------------
(***************************************************************************)
(* Sums of a function over a set, which the properties of the other        *)
(* modules are stated with.                                                *)
(***************************************************************************)
EXTENDS Integers, FiniteSetsExt

(* The sum of f[x] for the x in S.                                         *)
Total(f, S) == MapThenSumSet(LAMBDA x : f[x], S)
=============================================================================
