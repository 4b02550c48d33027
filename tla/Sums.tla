-------------------------------- MODULE Sums --------------------------------
(***************************************************************************)
(* The loops that add up a number per voter, denomination, epoch, message  *)
(* or schedule, as the total of a function.                                *)
(***************************************************************************)
EXTENDS Integers, Functions

Total(f) == FoldFunction(+, 0, f)
=============================================================================
