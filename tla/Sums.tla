-------------------------------- MODULE Sums --------------------------------
(***************************************************************************)
(* Sums of the values of a function: over its domain, or a part of it.     *)
(***************************************************************************)
EXTENDS Integers, Functions

SumOver(f, S) == FoldFunctionOnSet(+, 0, f, S)

Total(f) == SumOver(f, DOMAIN f)
=============================================================================
