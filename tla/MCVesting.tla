----------------------------- MODULE MCVesting -----------------------------
(***************************************************************************)
(* Instance of Vesting for TLC: overlapping schedules, a cliff, totals     *)
(* that are one only after rounding, and lists that Validate refuses.      *)
(***************************************************************************)
EXTENDS Vesting

Schedule(start, end, ratio) == [start |-> start, end |-> end, ratio |-> ratio]

MCScheduleLists == {
    <<Schedule(0, 2, 500), Schedule(1, 4, 500)>>,
    <<Schedule(2, 2, 1000)>>,
    <<Schedule(0, 3, 333), Schedule(2, 5, 333), Schedule(5, 5, 374)>>,
    <<Schedule(1, 5, 960)>>,
    <<Schedule(0, 2, 400)>>,
    <<Schedule(0, 2, 700), Schedule(1, 3, 700)>>,
    <<Schedule(2, 1, 1000)>>}
=============================================================================
