----------------------------- MODULE RatePolicy -----------------------------
(***************************************************************************)
(* What the treasury promises of a monetary lever, the tax rate or the     *)
(* reward weight, whatever indicators move it: at the end of an epoch the  *)
(* lever lands between the bounds of its policy, at most changeRateMax     *)
(* from where it was.  Only when governance has moved the bounds further   *)
(* away than that does the lever jump, and then to the nearest bound.      *)
(***************************************************************************)
EXTENDS Integers

CONSTANT Policies      \* policies governance may choose

VARIABLES rate, policy

vars == <<rate, policy>>

InBounds(r, p) == r \in p.rateMin..p.rateMax

Init == policy \in Policies /\ InBounds(rate, policy)

NearBy(r, p) == rate - p.changeRateMax <= r /\ r <= rate + p.changeRateMax

Adjust ==
    /\ InBounds(rate', policy)
    /\ \/ NearBy(rate', policy)
       \/ rate' = policy.rateMin /\ rate + policy.changeRateMax < policy.rateMin
       \/ rate' = policy.rateMax /\ rate - policy.changeRateMax > policy.rateMax
    /\ UNCHANGED policy

Amend == policy' \in Policies /\ UNCHANGED rate

Next == Adjust \/ Amend

Spec == Init /\ [][Next]_vars
=============================================================================
