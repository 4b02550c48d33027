------------------------------ MODULE MCMarket ------------------------------
(***************************************************************************)
(* Instance of Market for TLC: Luna, SDR and another Terra denomination,   *)
(* whose price moves or is lost between tallies.                           *)
(***************************************************************************)
EXTENDS Market, TLC

CONSTANTS KRW, alice, bob

\* Bob only has what Alice sends
MCCoins == alice :> 40 @@ bob :> 0

MCTerra == {SDR, KRW}

MCRates == {SDR :> 100 @@ KRW :> 300, SDR :> 130 @@ KRW :> 70, SDR :> 100}

MCTaxes == SDR :> 2 @@ KRW :> 35
=============================================================================
