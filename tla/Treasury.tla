------------------------------ MODULE Treasury ------------------------------
(***************************************************************************)
(* x/treasury: the taxes and the seigniorage of an epoch, and the monetary *)
(* levers that are set from them when the epoch ends.                      *)
(*                                                                         *)
(* EndBlock is the EndBlocker of the module in one step; a panic there     *)
(* halts the chain.  Taxes come from the ante handler (module FeeTax),     *)
(* rates from the oracle, supply and stake from swaps and staking.         *)
(***************************************************************************)
EXTENDS InternalSwap, Sums, FiniteSets

CONSTANTS
    Terra,             \* the denominations of the oracle's whitelist
    RateChoices,       \* the rates a tally may leave
    LunaSupplies,      \* supplies of Luna that swaps may lead to
    Stakes,            \* total bonded tokens
    TaxChoices,        \* taxes a transaction may pay: denomination -> coins
    TaxPolicies,       \* tax policies governance may choose
    RewardPolicies,    \* reward policies governance may choose
    GenesisTaxRates,   \* tax rates and reward weights of a genesis file
    GenesisRewardWeights,
    SeigniorageBurdenTarget,
    MiningIncrement,
    WindowShort,
    WindowLong,
    WindowProbation,
    BlocksPerWeek,
    MaxHeight,         \* bound: blocks in a behaviour
    MaxProceeds        \* bound: taxes of an epoch in one denomination

Denoms == Terra \cup {Luna}

PolicyConstraints(p) ==
    /\ p.rateMin \in Nat /\ p.rateMax \in Nat /\ p.changeRateMax \in Nat
    /\ p.rateMin <= p.rateMax

ASSUME TreasuryConstants ==
    /\ IsFiniteSet(Terra) /\ Luna \notin Terra /\ SDR \in Terra
    /\ \A r \in RateChoices : DOMAIN r \subseteq Terra /\ \A d \in DOMAIN r : r[d] \in Nat
    /\ LunaSupplies \subseteq Nat /\ Stakes \subseteq Nat
    /\ TaxChoices \subseteq [Denoms -> Nat]
    /\ \A p \in TaxPolicies \cup RewardPolicies : PolicyConstraints(p)
    /\ \A p \in TaxPolicies : p.cap \in Nat
    /\ GenesisTaxRates \subseteq Nat /\ GenesisRewardWeights \subseteq Nat
    /\ SeigniorageBurdenTarget \in Nat /\ MiningIncrement \in Nat
    /\ WindowShort \in Nat /\ WindowLong \in Nat /\ WindowProbation \in Nat
    /\ BlocksPerWeek \in Nat \ {0}
    /\ MaxHeight \in Nat /\ MaxProceeds \in Nat

VARIABLES
    height,
    halted,            \* EndBlock has panicked
    rates,             \* exchange rates of the oracle
    lunaSupply,
    bonded,            \* total bonded tokens
    taxPolicy, rewardPolicy,
    taxRate, rewardWeight,
    taxCaps,           \* caps in the store: denomination -> coins
    taxProceeds,       \* taxes of the epoch: denomination -> coins
    epochInitialIssuance,  \* supply of Luna when the epoch began
    TR, SR, TSL,       \* indicators by epoch
    burnAccount,       \* coins of the burn account: denomination -> coins
    epochBurned        \* history: Luna burned less Luna minted in the epoch

policies == <<taxPolicy, rewardPolicy>>
levers == <<taxRate, rewardWeight, taxCaps>>
indicators == <<TR, SR, TSL, epochInitialIssuance>>
economy == <<rates, lunaSupply, bonded, epochBurned>>
taxes == <<taxProceeds, burnAccount>>
vars == <<height, halted, economy, policies, levers, indicators, taxes>>

Epochs == 0..(MaxHeight \div BlocksPerWeek)

NoCoins == [d \in Denoms |-> 0]

\* ValidateGenesis: a lever starts within the bounds of its policy
ValidGenesisRates(rs, p) == {r \in rs : p.rateMin <= r /\ r <= p.rateMax}

\* The first block has height 1
Init ==
    /\ height = 1
    /\ halted = FALSE
    /\ rates \in RateChoices
    /\ lunaSupply \in LunaSupplies
    /\ bonded \in Stakes
    /\ taxPolicy \in TaxPolicies
    /\ rewardPolicy \in RewardPolicies
    /\ taxRate \in ValidGenesisRates(GenesisTaxRates, taxPolicy)
    /\ rewardWeight \in ValidGenesisRates(GenesisRewardWeights, rewardPolicy)
    /\ taxCaps = [d \in {} |-> 0]
    /\ taxProceeds = NoCoins
    /\ epochInitialIssuance = lunaSupply
    /\ TR = [e \in Epochs |-> 0]
    /\ SR = [e \in Epochs |-> 0]
    /\ TSL = [e \in Epochs |-> 0]
    /\ burnAccount = NoCoins
    /\ epochBurned = 0

Running == ~halted /\ height <= MaxHeight

GetEpoch == height \div BlocksPerWeek

IsLastOfEpoch == (height + 1) % BlocksPerWeek = 0

-----------------------------------------------------------------------------
\* Indicators of the epoch that ends

AlignCoin(rs, amount, d) ==
    IF CanSwapInternally(rs, amount, d, SDR) THEN InternalAmount(rs, amount, d, SDR) ELSE 0

\* alignCoins: the value in SDR of the coins that have a rate
AlignCoins(rs, coins) == Total([d \in Denoms |-> AlignCoin(rs, NewDec(coins[d]), d)])

\* alignCoins meets a denomination of taxes whose rate is zero
AlignCoinsPanics == \E d \in Denoms : taxProceeds[d] > 0 /\ InternalSwapPanics(rates, d, SDR)

TaxReward == AlignCoins(rates, taxProceeds)

\* BurnCoinsFromBurnAccount comes first
SupplyAfterBurn == lunaSupply - burnAccount[Luna]

PeekEpochSeigniorage ==
    IF SupplyAfterBurn > epochInitialIssuance THEN 0 ELSE epochInitialIssuance - SupplyAfterBurn

SeigniorageReward == AlignCoin(rates, rewardWeight * PeekEpochSeigniorage, Luna)

\* UpdateIndicators
EpochTR == [TR EXCEPT ![GetEpoch] = TaxReward]
EpochSR == [SR EXCEPT ![GetEpoch] = SeigniorageReward]
EpochTSL == [TSL EXCEPT ![GetEpoch] = bonded]

\* The last n epochs, as far as there are any
EpochWindow(n) == {e \in 0..GetEpoch : e > GetEpoch - n}

TRL(e) == IF EpochTR[e] = 0 \/ EpochTSL[e] = 0 THEN 0 ELSE QuoInt64(EpochTR[e], EpochTSL[e])

RollingAverageTRL(n) ==
    LET sum == Total([e \in EpochWindow(n) |-> TRL(e)]) IN
    IF n = 0 THEN sum ELSE QuoInt64(sum, Cardinality(EpochWindow(n)))

SumSR(n) == Total([e \in EpochWindow(n) |-> EpochSR[e]])

SumMR(n) == Total([e \in EpochWindow(n) |-> EpochTR[e] + EpochSR[e]])

-----------------------------------------------------------------------------
\* The levers

\* Mutant: bounds first, then the change, as the specification document has it
ClampBoundsFirst(pc, prevRate, newRate) ==
    LET bounded == IF newRate < pc.rateMin THEN pc.rateMin
                   ELSE IF newRate > pc.rateMax THEN pc.rateMax ELSE newRate
    IN  IF bounded > prevRate + pc.changeRateMax THEN prevRate + pc.changeRateMax
        ELSE IF bounded < prevRate - pc.changeRateMax THEN prevRate - pc.changeRateMax
        ELSE bounded

Clamp(pc, prevRate, newRate) ==
    LET limited == IF newRate > prevRate + pc.changeRateMax THEN prevRate + pc.changeRateMax
                   ELSE IF newRate < prevRate - pc.changeRateMax THEN prevRate - pc.changeRateMax
                   ELSE newRate
    IN  IF limited < pc.rateMin THEN pc.rateMin
        ELSE IF limited > pc.rateMax THEN pc.rateMax
        ELSE limited

\* UpdateTaxPolicy before the clamp
ProposedTaxRate ==
    LET tlYear == RollingAverageTRL(WindowLong)
        tlMonth == RollingAverageTRL(WindowShort)
    IN  IF tlMonth = 0 THEN taxPolicy.rateMax
        ELSE DecQuo(DecMul(taxRate, DecMul(tlYear, MiningIncrement)), tlMonth)

NoMiningRewards == SumMR(WindowShort) = 0 \/ SumSR(WindowShort) = 0

SeigniorageBurden == DecQuo(SumSR(WindowShort), SumMR(WindowShort))

\* Mutant: only an epoch without any reward hikes the weight
RewardPolicyPanicsOnSeigniorage ==
    SumMR(WindowShort) # 0 /\ SeigniorageBurden = 0

\* UpdateRewardPolicy divides by a burden that rounds to zero
RewardPolicyPanics == ~NoMiningRewards /\ SeigniorageBurden = 0

\* UpdateRewardPolicy before the clamp
ProposedRewardWeight ==
    IF NoMiningRewards THEN rewardPolicy.rateMax
    ELSE DecMul(rewardWeight, DecQuo(SeigniorageBurdenTarget, SeigniorageBurden))

\* UpdateTaxCap: a denomination without a rate keeps its cap
UpdatedTaxCaps ==
    LET cap == NewDec(taxPolicy.cap)
        priced == {d \in Terra \ {SDR} : CanSwapInternally(rates, cap, SDR, d)}
    IN  [d \in priced \cup DOMAIN taxCaps |->
            IF d \in priced THEN TruncateInt(InternalAmount(rates, cap, SDR, d)) ELSE taxCaps[d]]

\* UpdateTaxCap meets a zero rate of SDR
TaxCapPanics == \E d \in Terra : InternalSwapPanics(rates, SDR, d)

\* A denomination without a cap has the cap of the policy
GetTaxCap(d) == IF d \in DOMAIN taxCaps THEN taxCaps[d] ELSE taxPolicy.cap

InProbation == height < BlocksPerWeek * WindowProbation

UpdateLevers ==
    /\ taxRate' = Clamp(taxPolicy, taxRate, ProposedTaxRate)
    /\ rewardWeight' = Clamp(rewardPolicy, rewardWeight, ProposedRewardWeight)
    /\ taxCaps' = UpdatedTaxCaps

\* Mutant: the issuance is recorded only when the levers are updated
RecordedIssuanceLate == IF InProbation THEN epochInitialIssuance ELSE SupplyAfterBurn

\* RecordEpochInitialIssuance, deferred: also during the probation
RecordedIssuance == SupplyAfterBurn

EndEpoch ==
    /\ TR' = EpochTR /\ SR' = EpochSR /\ TSL' = EpochTSL
    /\ taxProceeds' = NoCoins
    /\ epochInitialIssuance' = RecordedIssuance
    /\ IF InProbation THEN UNCHANGED levers ELSE UpdateLevers

\* The EndBlocker of the treasury
TreasuryEndBlock ==
    /\ burnAccount' = NoCoins
    /\ lunaSupply' = SupplyAfterBurn
    /\ height' = height + 1
    /\ epochBurned' = IF IsLastOfEpoch THEN 0 ELSE epochBurned + burnAccount[Luna]
    /\ IF IsLastOfEpoch THEN EndEpoch ELSE UNCHANGED <<levers, indicators, taxProceeds>>
    /\ UNCHANGED <<halted, rates, bonded, policies>>

EndBlockPanics ==
    /\ IsLastOfEpoch
    /\ AlignCoinsPanics \/ (~InProbation /\ (RewardPolicyPanics \/ TaxCapPanics))

EndBlock == Running /\ ~EndBlockPanics /\ TreasuryEndBlock

\* The chain stops: the block is never committed
Halt ==
    /\ Running
    /\ EndBlockPanics
    /\ halted' = TRUE
    /\ UNCHANGED <<height, economy, policies, levers, indicators, taxes>>

-----------------------------------------------------------------------------
\* What happens around the module

\* The oracle's EndBlocker
Tally ==
    /\ Running
    /\ rates' \in RateChoices
    /\ UNCHANGED <<height, halted, lunaSupply, bonded, epochBurned, policies, levers, indicators, taxes>>

\* Swaps mint and burn Luna, delegators bond and unbond
Trade ==
    /\ Running
    /\ lunaSupply' \in LunaSupplies
    /\ lunaSupply' >= burnAccount[Luna]
    /\ bonded' \in Stakes
    /\ epochBurned' = epochBurned + lunaSupply - lunaSupply'
    /\ UNCHANGED <<height, halted, rates, policies, levers, indicators, taxes>>

\* Parameter change proposals
ChangePolicy ==
    /\ Running
    /\ taxPolicy' \in TaxPolicies
    /\ rewardPolicy' \in RewardPolicies
    /\ UNCHANGED <<height, halted, economy, levers, indicators, taxes>>

\* Mutant: only the last tax of an epoch is kept
RecordLastTaxProceeds(delta) == taxProceeds' = delta

RecordEpochTaxProceeds(delta) == taxProceeds' = [d \in Denoms |-> taxProceeds[d] + delta[d]]

\* The ante handler records the taxes of a transaction and sends a part of
\* them to the burn account
PayTax(delta, burned) ==
    /\ Running
    /\ \A d \in Denoms : taxProceeds[d] + delta[d] <= MaxProceeds
    /\ burned[Luna] + burnAccount[Luna] <= lunaSupply
    /\ RecordEpochTaxProceeds(delta)
    /\ burnAccount' = [d \in Denoms |-> burnAccount[d] + burned[d]]
    /\ UNCHANGED <<height, halted, economy, policies, levers, indicators>>

Next ==
    \/ EndBlock
    \/ Halt
    \/ Tally
    \/ Trade
    \/ ChangePolicy
    \/ \E delta \in TaxChoices : \E burned \in {delta, NoCoins} : PayTax(delta, burned)

Spec == Init /\ [][Next]_vars

-----------------------------------------------------------------------------
TaxLever == INSTANCE RatePolicy WITH rate <- taxRate, policy <- taxPolicy,
                                     Policies <- TaxPolicies

RewardLever == INSTANCE RatePolicy WITH rate <- rewardWeight, policy <- rewardPolicy,
                                        Policies <- RewardPolicies

\* UpdateTaxPolicy keeps the promise of RatePolicy: whatever the indicators
\* say, the tax rate ends an epoch within the bounds that hold then, and
\* jumps only when governance has moved the bounds.
TaxLeverKept == TaxLever!Spec

\* UpdateRewardPolicy keeps the promise of RatePolicy for the reward weight.
RewardLeverKept == RewardLever!Spec

\* No tax of an epoch is worth more than most, and no seigniorage that is
\* worth anything is worth less than least, at any rates of the oracle, for any
\* weight that a reward policy allows and whatever is burned of Luna.
RewardsWithin(least, most, burns) ==
    \A rs \in RateChoices :
        /\ \A coins \in [Denoms -> 0..MaxProceeds] : AlignCoins(rs, coins) <= most
        /\ \A p \in RewardPolicies : \A w \in p.rateMin..p.rateMax : \A burned \in burns :
            AlignCoin(rs, w * burned, Luna) = 0 \/ AlignCoin(rs, w * burned, Luna) >= least

\* While every rate of the oracle is positive, the EndBlocker of the treasury
\* never panics: epochs without taxes, seigniorage, stake or rates, in any
\* order, leave UpdateRewardPolicy no zero to divide by.  (Provided that the
\* taxes of a window do not dwarf the smallest seigniorage, see RewardsWithin:
\* the burden rounds to zero below the last decimal.)
RunsOnPositiveRates == (\A d \in DOMAIN rates : rates[d] > 0) => ~halted

\* The seigniorage that an epoch ends with is the Luna burned in that epoch,
\* all of it and none of an earlier one, also while the levers rest in the
\* probation (the deferred RecordEpochInitialIssuance).
IssuanceTracked == epochInitialIssuance - lunaSupply = epochBurned
=============================================================================
