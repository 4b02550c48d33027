------------------------------- MODULE Market -------------------------------
(***************************************************************************)
(* x/market: swaps between Luna and the Terra denominations at the rates   *)
(* of the oracle, with a fee from a virtual constant-product pool.         *)
(*                                                                         *)
(* A transaction is one step: a swap that returns an error, or panics on   *)
(* a division by zero, is rolled back and is no step.  The rates change    *)
(* where the oracle's EndBlocker sets them, just before the EndBlocker of  *)
(* this module; the oracle is external here and may pick any RateChoices.  *)
(* Coins are integers, rates and pools are decimals (see Dec).             *)
(***************************************************************************)
EXTENDS InternalSwap, Sums, FiniteSets, FiniteSetsExt, Functions

CONSTANTS
    Terra,             \* the Terra denominations, SDR among them
    Traders,
    OracleAccount,     \* the module account that earns the swap fees
    OfferAmounts,      \* amounts of a swap (ValidateBasic: positive)
    InitialCoins,      \* coins of each denomination that each trader starts with
    RateChoices,       \* the rates a tally may leave: functions on sets of Terra
    TobinTaxes,        \* taxes of the oracle module: a function on a set of Terra
    BasePool,
    PoolRecoveryPeriod,
    MinStabilitySpread,
    MaxSwaps           \* bound: swaps in a behaviour

Denoms == Terra \cup {Luna}

Accounts == Traders \cup {OracleAccount}

ASSUME MarketConstants ==
    /\ Luna \notin Terra /\ SDR \in Terra
    /\ IsFiniteSet(Traders) /\ OracleAccount \notin Traders
    /\ OfferAmounts \subseteq Nat \ {0}
    /\ InitialCoins \in [Traders -> Nat]
    /\ \A r \in RateChoices : DOMAIN r \subseteq Terra /\ \A d \in DOMAIN r : r[d] \in Nat
    /\ DOMAIN TobinTaxes \subseteq Terra
    /\ \A d \in DOMAIN TobinTaxes : TobinTaxes[d] \in 0..One
    /\ BasePool \in Nat
    /\ PoolRecoveryPeriod \in Nat \ {0}
    /\ MinStabilitySpread \in 0..One
    /\ MaxSwaps \in Nat

VARIABLES
    rates,             \* exchange rates of Luna in the oracle's store
    terraPoolDelta,
    coins,             \* balances: account -> denomination -> coins
    swaps              \* how many swaps were made (the bound MaxSwaps)

vars == <<rates, terraPoolDelta, coins, swaps>>

Init ==
    /\ rates \in RateChoices
    /\ terraPoolDelta = 0
    /\ coins = [a \in Accounts |-> [d \in Denoms |-> IF a \in Traders THEN InitialCoins[a] ELSE 0]]
    /\ swaps = 0

-----------------------------------------------------------------------------
\* The fee of a swap

BetweenTerra(offer, ask) == offer # Luna /\ ask # Luna

\* Between Terra denominations: the higher of the two Tobin taxes
TobinSpread(offer, ask) ==
    IF TobinTaxes[ask] > TobinTaxes[offer] THEN TobinTaxes[ask] ELSE TobinTaxes[offer]

TerraPool == BasePool + terraPoolDelta

ConstantProduct == DecMul(BasePool, BasePool)

OfferPool(offer) == IF offer = Luna THEN DecQuo(ConstantProduct, TerraPool) ELSE TerraPool

AskPool(offer) == IF offer = Luna THEN TerraPool ELSE DecQuo(ConstantProduct, TerraPool)

\* Neither quotient divides by zero
PoolsQuote(offer, base) == TerraPool > 0 /\ OfferPool(offer) + base > 0

\* Mutant: the swap pays the minimal spread only
PoolSpreadMin(offer, base) == MinStabilitySpread

\* With Luna: what the constant product takes of base (in SDR), at least the minimum
PoolSpread(offer, base) ==
    LET askBase == AskPool(offer) - DecQuo(ConstantProduct, OfferPool(offer) + base)
        spread == DecQuo(base - askBase, base)
    IN  IF spread < MinStabilitySpread THEN MinStabilitySpread ELSE spread

-----------------------------------------------------------------------------
\* ComputeSwap: the offer in SDR, the ask before the fee, and the spread

BaseOffer(offer, amount) == InternalAmount(rates, NewDec(amount), offer, SDR)

SwapAmount(offer, amount, ask) == InternalAmount(rates, BaseOffer(offer, amount), SDR, ask)

CanComputeSwap(offer, amount, ask) ==
    /\ offer # ask
    /\ CanSwapInternally(rates, NewDec(amount), offer, SDR)
    /\ CanSwapInternally(rates, BaseOffer(offer, amount), SDR, ask)
    /\ IF BetweenTerra(offer, ask)
       THEN {offer, ask} \subseteq DOMAIN TobinTaxes
       ELSE PoolsQuote(offer, BaseOffer(offer, amount))

Spread(offer, amount, ask) ==
    IF BetweenTerra(offer, ask)
    THEN TobinSpread(offer, ask)
    ELSE PoolSpread(offer, BaseOffer(offer, amount))

\* The decimals of the fee and of the swap after the fee
FeeAmount(offer, amount, ask) ==
    LET spread == Spread(offer, amount, ask) IN
    IF spread > 0 THEN DecMul(spread, SwapAmount(offer, amount, ask)) ELSE 0

NetAmount(offer, amount, ask) == SwapAmount(offer, amount, ask) - FeeAmount(offer, amount, ask)

\* What the receiver and the oracle account get: the cut decimals join the fee
SwapCoin(offer, amount, ask) == TruncateInt(NetAmount(offer, amount, ask))

\* Mutant: the fee is rounded up
FeeCoinUp(offer, amount, ask) ==
    TruncateInt(FeeAmount(offer, amount, ask)) + 1

FeeCoin(offer, amount, ask) ==
    TruncateInt(FeeAmount(offer, amount, ask)
                + (NetAmount(offer, amount, ask) - NewDec(SwapCoin(offer, amount, ask))))

-----------------------------------------------------------------------------
\* ApplySwapToPool

CanApplySwap(offer, net, ask) ==
    offer = Luna => CanSwapInternally(rates, net, ask, SDR)

AppliedDelta(offer, amount, net, ask) ==
    IF BetweenTerra(offer, ask) THEN terraPoolDelta
    ELSE IF ask = Luna
         THEN terraPoolDelta + BaseOffer(offer, amount)
         ELSE terraPoolDelta - InternalAmount(rates, net, ask, SDR)

\* Mutant: the balance of the trader is not looked at
HasCoinsUnchecked(trader, offer, amount) == TRUE

\* SendCoinsFromAccountToModule succeeds
HasCoins(trader, offer, amount) == coins[trader][offer] >= amount

\* Swap (receiver = trader) and SwapSend: the offer is burned, the swap and
\* its fee are minted
HandleSwapRequest(trader, receiver, offer, amount, ask) ==
    LET net == NetAmount(offer, amount, ask)
        paid == SwapCoin(offer, amount, ask)
        fee == FeeCoin(offer, amount, ask)
    IN
    /\ CanComputeSwap(offer, amount, ask)
    /\ CanApplySwap(offer, net, ask)
    /\ HasCoins(trader, offer, amount)
    /\ paid > 0
    /\ terraPoolDelta' = AppliedDelta(offer, amount, net, ask)
    /\ coins' = [[[coins EXCEPT ![trader][offer] = @ - amount]
                         EXCEPT ![receiver][ask] = @ + paid]
                         EXCEPT ![OracleAccount][ask] = @ + fee]
    /\ UNCHANGED rates

Swap(trader, receiver, offer, amount, ask) ==
    /\ swaps < MaxSwaps
    /\ HandleSwapRequest(trader, receiver, offer, amount, ask)
    /\ swaps' = swaps + 1

-----------------------------------------------------------------------------
\* Mutant: the pool moves away from its base
ReplenishedAway == terraPoolDelta + QuoInt64(terraPoolDelta, PoolRecoveryPeriod)

\* Mutant: a deficit of Terra does not recover
ReplenishedSurplus ==
    IF terraPoolDelta > 0
    THEN terraPoolDelta - QuoInt64(terraPoolDelta, PoolRecoveryPeriod)
    ELSE terraPoolDelta

\* ReplenishPools
Replenished == terraPoolDelta - QuoInt64(terraPoolDelta, PoolRecoveryPeriod)

\* The oracle may have tallied in this block; then the pool recovers
EndBlock ==
    /\ rates' \in RateChoices \cup {rates}
    /\ terraPoolDelta' = Replenished
    /\ UNCHANGED <<coins, swaps>>

Next ==
    \/ EndBlock
    \/ \E trader, receiver \in Traders, offer, ask \in Denoms, amount \in OfferAmounts :
           Swap(trader, receiver, offer, amount, ask)

Spec == Init /\ [][Next]_vars

\* Blocks go on being made
FairSpec == Spec /\ WF_vars(EndBlock)

-----------------------------------------------------------------------------
\* Every variable has its type; no account pays coins it does not have.
TypeOK ==
    /\ rates \in RateChoices
    /\ terraPoolDelta \in Int
    /\ coins \in [Accounts -> [Denoms -> Nat]]
    /\ swaps \in 0..MaxSwaps

\* The pool of Terra is never used up: whatever swaps came before, in
\* whatever blocks and at whatever rates, ComputeSwap can divide by it.
PoolPositive == TerraPool > 0

\* Coins of denomination d in all accounts
Supply(d) == Total([a \in Accounts |-> coins[a][d]])

\* A swap never mints more than the oracle's rates give for what it burns,
\* fee and rounding included: no chain of swaps makes value out of nothing.
NoValueCreated ==
    [][\A o, a \in Denoms :
          LET burned == Supply(o) - Supply(o)'
              minted == Supply(a)' - Supply(a)
          IN  burned > 0 /\ minted > 0 =>
                  minted * GetLunaExchangeRate(rates, o) <= burned * GetLunaExchangeRate(rates, a)]_vars

\* Between swaps the end of a block only ever brings the pool nearer to its
\* base, and never past it (ReplenishPools).
Recovering ==
    \/ terraPoolDelta >= 0 /\ terraPoolDelta' \in 0..terraPoolDelta
    \/ terraPoolDelta <= 0 /\ terraPoolDelta' \in terraPoolDelta..0

PoolRecovers == [][EndBlock => Recovering]_vars

Settled == -PoolRecoveryPeriod < terraPoolDelta /\ terraPoolDelta < PoolRecoveryPeriod

\* Once trading stops, the pool comes back to its base up to the fraction
\* that QuoInt64 cuts off: less than PoolRecoveryPeriod units of the last
\* decimal.
PoolSettles == <>[]Settled
=============================================================================
