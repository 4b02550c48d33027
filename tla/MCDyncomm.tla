------------------------------ MODULE MCDyncomm ------------------------------
(***************************************************************************)
(* Instance of Dyncomm for TLC: two validators of which one may have       *)
(* nearly all the power, with the default formula in two parameter sets.   *)
(***************************************************************************)
EXTENDS Dyncomm

\* maxZero 0.5, slopeBase 2, slopeVpImpact 10 and caps of 20% and of 3%
MCParams == {
    [maxZero |-> 50, slopeBase |-> 200, slopeVpImpact |-> 1000, cap |-> 20, minCommissionRate |-> 5],
    [maxZero |-> 50, slopeBase |-> 200, slopeVpImpact |-> 1000, cap |-> 3, minCommissionRate |-> 5]}
=============================================================================
