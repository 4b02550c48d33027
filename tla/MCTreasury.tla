----------------------------- MODULE MCTreasury -----------------------------
(***************************************************************************)
(* Instance of Treasury for TLC: epochs of two blocks, one of probation,   *)
(* windows of one and two epochs.                                          *)
(***************************************************************************)
EXTENDS Treasury, TLC, FiniteSetsExt

CONSTANT KRW

MCTerra == {SDR, KRW}

MCRates == {SDR :> 100 @@ KRW :> 300, SDR :> 150, SDR :> 0 @@ KRW :> 0}

Policy(lo, hi, step, cap) ==
    [rateMin |-> lo, rateMax |-> hi, changeRateMax |-> step, cap |-> cap]

MCTaxPolicies == {Policy(5, 20, 4, 5), Policy(18, 30, 2, 5)}

MCRewardPolicies == {Policy(25, 50, 15, 0), Policy(60, 80, 3, 0)}

MCTaxes == {SDR :> 4 @@ KRW :> 0 @@ Luna :> 0, SDR :> 0 @@ KRW :> 3 @@ Luna :> 1}

MaxSupply == Max(LunaSupplies)

\* The window of two epochs cannot hold taxes that dwarf its seigniorage
ASSUME RewardsWithin(25, 1000, 0..MaxSupply) /\ WindowShort * 1000 <= 25 * (One - 1)
=============================================================================
