-------------------------------- MODULE Sums --------------------------------
(***************************************************************************)
(* Sums of numbers: of the values of a function, such as a sequence.       *)
(***************************************************************************)
EXTENDS Integers, Functions

Total(f) == FoldFunction(LAMBDA x, y : x + y, 0, f)
=============================================================================
