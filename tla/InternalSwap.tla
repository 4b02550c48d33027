---------------------------- MODULE InternalSwap ----------------------------
(***************************************************************************)
(* ComputeInternalSwap of x/market: the exchange at the rates of the       *)
(* oracle, without a spread, that swaps and the treasury's indicators use. *)
(* A store of rates rs maps the Terra denominations that have a rate to    *)
(* the price of one Luna in them.                                          *)
(***************************************************************************)
EXTENDS Dec

CONSTANTS
    Luna,              \* core.MicroLunaDenom
    SDR                \* core.MicroSDRDenom

HasRate(rs, d) == d = Luna \/ d \in DOMAIN rs

GetLunaExchangeRate(rs, d) == IF d = Luna THEN One ELSE rs[d]

InternalAmount(rs, amount, offer, ask) ==
    IF offer = ask THEN amount
    ELSE DecQuo(DecMul(amount, GetLunaExchangeRate(rs, ask)), GetLunaExchangeRate(rs, offer))

\* ComputeInternalSwap divides by a zero rate.  A transaction is rolled back
\* then, an EndBlocker halts the chain.
InternalSwapPanics(rs, offer, ask) ==
    /\ offer # ask
    /\ HasRate(rs, offer) /\ HasRate(rs, ask)
    /\ GetLunaExchangeRate(rs, offer) = 0

\* ComputeInternalSwap returns an amount: it neither panics nor returns an error
CanSwapInternally(rs, amount, offer, ask) ==
    \/ offer = ask
    \/ /\ HasRate(rs, offer) /\ HasRate(rs, ask)
       /\ GetLunaExchangeRate(rs, offer) # 0
       /\ InternalAmount(rs, amount, offer, ask) > 0
=============================================================================
