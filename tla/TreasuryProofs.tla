--------------------------- MODULE TreasuryProofs ---------------------------
(***************************************************************************)
(* The levers of the treasury implement RatePolicy, for every policy, every*)
(* length of the windows and whatever the indicators propose.  The         *)
(* indicators are sums over a window of epochs: TypeInv says that every    *)
(* number they are made of is a natural one.  RewardInv bounds the rewards *)
(* of each epoch, so that the burden of a window is never rounded to zero  *)
(* and the EndBlocker does not panic while the rates are positive.         *)
(*                                                                         *)
(* The ante handler that feeds the treasury, for every set of transactions *)
(* and whatever the treasury makes of the taxes: oracle transactions are   *)
(* free once per height, a fee covers what its transaction burns, and a    *)
(* tax is counted once.  The last two speak of transactions in one         *)
(* denomination, as checkTxFee asks for the fee in any one of those it     *)
(* demands.                                                                *)
(***************************************************************************)
EXTENDS FeeTax, NumberLemmas, TLAPS

\* The strengthening: the state is made of natural numbers, under policies
\* that passed validation.
TypeInv ==
    /\ height \in Nat
    /\ rates \in RateChoices /\ bonded \in Stakes
    /\ taxPolicy \in TaxPolicies /\ rewardPolicy \in RewardPolicies
    /\ taxRate \in Nat /\ rewardWeight \in Nat
    /\ taxProceeds \in [Denoms -> Nat]
    /\ TR \in [Epochs -> Nat] /\ SR \in [Epochs -> Nat] /\ TSL \in [Epochs -> Nat]
    /\ lunaSupply \in Int /\ epochInitialIssuance \in Int
    /\ burnAccount \in [Denoms -> Int]

\* An internal exchange yields a natural number, and nothing for nothing.
LEMMA InternalAmountType ==
    ASSUME NEW rs \in RateChoices, NEW amount \in Nat, NEW offer \in Denoms, NEW ask \in Denoms,
           CanSwapInternally(rs, amount, offer, ask)
    PROVE  /\ InternalAmount(rs, amount, offer, ask) \in Nat
           /\ amount = 0 => InternalAmount(rs, amount, offer, ask) = 0
<1>1. CASE offer = ask
  BY <1>1 DEF InternalAmount
<1>2. CASE offer # ask
  <2>1. \A c \in Denoms : HasRate(rs, c) => GetLunaExchangeRate(rs, c) \in Nat
    BY TreasuryConstants, OneAssumption DEF HasRate, GetLunaExchangeRate, Denoms
  <2>2. HasRate(rs, offer) /\ HasRate(rs, ask) /\ GetLunaExchangeRate(rs, offer) # 0
    BY <1>2 DEF CanSwapInternally
  <2> DEFINE ro == GetLunaExchangeRate(rs, offer)
             ra == GetLunaExchangeRate(rs, ask)
  <2>3. ro \in Nat \ {0} /\ ra \in Nat
    BY <2>1, <2>2
  <2>4. InternalAmount(rs, amount, offer, ask) = DecQuo(DecMul(amount, ra), ro)
    BY <1>2 DEF InternalAmount
  <2> HIDE DEF ro, ra
  <2>5. DecMul(amount, ra) \in Nat
    BY <2>3, DecMulNat
  <2>6. DecQuo(DecMul(amount, ra), ro) \in Nat
    BY <2>3, <2>5, DecQuoNat
  <2>7. ASSUME amount = 0 PROVE DecQuo(DecMul(amount, ra), ro) = 0
    <3>1. DecMul(0, ra) = 0
      BY <2>3, DecMulNat
    <3>2. TruncDiv(0, ro) = 0
      BY <2>3, TruncDivBounds
    <3>3. DecQuo(0, ro) = 0
      BY <3>2, OneAssumption, RoundDivExact, 0 * One * One = 0, 0 * One = 0 DEF DecQuo
    <3> QED BY <2>7, <3>1, <3>3
  <2> QED BY <2>4, <2>6, <2>7
<1> QED BY <1>1, <1>2

\* The value of an amount in SDR.
LEMMA AlignCoinType ==
    ASSUME NEW rs \in RateChoices, NEW amount \in Nat, NEW d \in Denoms
    PROVE  /\ AlignCoin(rs, amount, d) \in Nat
           /\ amount = 0 => AlignCoin(rs, amount, d) = 0
           /\ AlignCoin(rs, amount, SDR) = amount
<1>1. SDR \in Denoms
  BY TreasuryConstants DEF Denoms
<1>2. AlignCoin(rs, amount, SDR) = amount
  BY DEF AlignCoin, CanSwapInternally, InternalAmount
<1> QED BY <1>1, <1>2, InternalAmountType DEF AlignCoin

LEMMA TaxRewardType ==
    ASSUME TypeInv
    PROVE  TaxReward \in Nat
<1> DEFINE f == [d \in Denoms |-> AlignCoin(rates, NewDec(taxProceeds[d]), d)]
<1>1. IsFiniteSet(Denoms)
  BY TreasuryConstants, FS_AddElement DEF Denoms
<1>2. ASSUME NEW d \in Denoms PROVE AlignCoin(rates, NewDec(taxProceeds[d]), d) \in Nat
  <2>1. NewDec(taxProceeds[d]) \in Nat
    BY OneAssumption DEF TypeInv, NewDec
  <2> QED BY <2>1, AlignCoinType DEF TypeInv
<1>3. f \in [Denoms -> Nat]
  BY <1>2
<1>4. TaxReward = Total(f)
  BY DEF TaxReward, AlignCoins
<1> HIDE DEF f
<1> QED BY <1>1, <1>3, <1>4, TotalNat

LEMMA SeigniorageRewardType ==
    ASSUME TypeInv
    PROVE  SeigniorageReward \in Nat
<1>1. Luna \in Denoms
  BY DEF Denoms
<1>2. PeekEpochSeigniorage \in Nat
  BY <1>1 DEF TypeInv, PeekEpochSeigniorage, SupplyAfterBurn
<1>3. rewardWeight * PeekEpochSeigniorage \in Nat
  BY <1>2 DEF TypeInv
<1> QED BY <1>1, <1>3, AlignCoinType DEF SeigniorageReward, TypeInv

\* The epoch that ends has indicators, which are natural numbers.
LEMMA IndicatorsType ==
    ASSUME TypeInv, Running
    PROVE  /\ GetEpoch \in Nat /\ 0..GetEpoch \subseteq Epochs
           /\ EpochTR \in [Epochs -> Nat] /\ EpochSR \in [Epochs -> Nat] /\ EpochTSL \in [Epochs -> Nat]
<1>1. /\ height \in Nat /\ MaxHeight \in Nat /\ BlocksPerWeek \in Nat \ {0} /\ height <= MaxHeight
      /\ bonded \in Nat
  BY TreasuryConstants DEF TypeInv, Running
<1>2. GetEpoch \in Nat /\ GetEpoch <= MaxHeight \div BlocksPerWeek /\ MaxHeight \div BlocksPerWeek \in Nat
  BY <1>1, DivMod, DivGrows DEF GetEpoch
<1>3. 0..GetEpoch \subseteq Epochs
  BY <1>2 DEF Epochs
<1>4. TR \in [Epochs -> Nat] /\ SR \in [Epochs -> Nat] /\ TSL \in [Epochs -> Nat]
  BY DEF TypeInv
<1> QED BY <1>1, <1>2, <1>3, <1>4, TaxRewardType, SeigniorageRewardType DEF EpochTR, EpochSR, EpochTSL

\* The epochs of a window are epochs there are indicators of, at least one
\* unless the window is empty.
LEMMA WindowType ==
    ASSUME TypeInv, Running, NEW n \in Nat
    PROVE  /\ IsFiniteSet(EpochWindow(n)) /\ EpochWindow(n) \subseteq Epochs
           /\ n # 0 => Cardinality(EpochWindow(n)) \in Nat \ {0}
<1>1. GetEpoch \in Nat /\ 0..GetEpoch \subseteq Epochs
  BY IndicatorsType
<1>2. EpochWindow(n) \subseteq 0..GetEpoch
  BY DEF EpochWindow
<1>3. IsFiniteSet(EpochWindow(n))
  <2>1. IsFiniteSet(0..GetEpoch)
    BY <1>1, FS_Interval
  <2> QED BY <1>2, <2>1, FS_Subset, Zenon
<1>4. n # 0 => GetEpoch \in EpochWindow(n)
  BY <1>1 DEF EpochWindow
<1>5. Cardinality(EpochWindow(n)) \in Nat
  BY <1>3, FS_CardinalityType
<1>6. n # 0 => Cardinality(EpochWindow(n)) # 0
  BY <1>3, <1>4, FS_EmptySet
<1> QED BY <1>1, <1>2, <1>3, <1>5, <1>6

LEMMA RollingAverageType ==
    ASSUME TypeInv, Running, NEW n \in Nat
    PROVE  RollingAverageTRL(n) \in Nat
<1> DEFINE W == EpochWindow(n)
           f == [e \in W |-> TRL(e)]
<1>1. IsFiniteSet(W) /\ W \subseteq Epochs /\ (n # 0 => Cardinality(W) \in Nat \ {0})
  BY WindowType
<1>2. ASSUME NEW e \in W PROVE TRL(e) \in Nat
  <2>1. EpochTR[e] \in Nat /\ EpochTSL[e] \in Nat
    BY <1>1, IndicatorsType
  <2> QED BY <2>1, TruncDivBounds DEF TRL, QuoInt64
<1>3. f \in [W -> Nat]
  BY <1>2
<1>4. RollingAverageTRL(n) = IF n = 0 THEN Total(f) ELSE QuoInt64(Total(f), Cardinality(W))
  BY DEF RollingAverageTRL
<1> HIDE DEF f, W
<1>5. Total(f) \in Nat
  BY <1>1, <1>3, TotalNat
<1> QED BY <1>1, <1>4, <1>5, TruncDivBounds DEF QuoInt64

LEMMA RewardSumsType ==
    ASSUME TypeInv, Running, NEW n \in Nat
    PROVE  SumSR(n) \in Nat /\ SumMR(n) \in Nat
<1> DEFINE W == EpochWindow(n)
           f == [e \in W |-> EpochSR[e]]
           g == [e \in W |-> EpochTR[e] + EpochSR[e]]
<1>1. IsFiniteSet(W) /\ W \subseteq Epochs
  BY WindowType
<1>2. f \in [W -> Nat] /\ g \in [W -> Nat]
  BY <1>1, IndicatorsType
<1>3. SumSR(n) = Total(f) /\ SumMR(n) = Total(g)
  BY DEF SumSR, SumMR
<1> HIDE DEF f, g, W
<1> QED BY <1>1, <1>2, <1>3, TotalNat

\* What UpdateTaxPolicy and UpdateRewardPolicy propose are decimals, whenever
\* they are computed; the burden rounds to zero only below the last decimal.
LEMMA ProposalsTyped ==
    ASSUME TypeInv, Running
    PROVE  /\ ProposedTaxRate \in Int
           /\ ~RewardPolicyPanics => ProposedRewardWeight \in Int
           /\ RewardPolicyPanics => /\ SumSR(WindowShort) > 0
                                    /\ SumSR(WindowShort) * One < SumMR(WindowShort)
<1>1. /\ WindowShort \in Nat /\ WindowLong \in Nat
      /\ MiningIncrement \in Nat /\ SeigniorageBurdenTarget \in Nat
      /\ taxRate \in Nat /\ rewardWeight \in Nat
      /\ taxPolicy.rateMax \in Nat /\ rewardPolicy.rateMax \in Nat
  BY TreasuryConstants DEF TypeInv, PolicyConstraints
<1>2. ProposedTaxRate \in Int
  <2> DEFINE y == RollingAverageTRL(WindowLong)
             m == RollingAverageTRL(WindowShort)
             a == DecMul(y, MiningIncrement)
             b == DecMul(taxRate, a)
  <2>1. y \in Nat /\ m \in Nat
    BY <1>1, RollingAverageType
  <2>2. ProposedTaxRate = IF m = 0 THEN taxPolicy.rateMax ELSE DecQuo(b, m)
    BY DEF ProposedTaxRate
  <2> HIDE DEF y, m
  <2>3. a \in Int
    BY <1>1, <2>1, DecMulType
  <2> HIDE DEF a
  <2>4. b \in Int
    BY <1>1, <2>3, DecMulType
  <2> HIDE DEF b
  <2> QED BY <1>1, <2>1, <2>2, <2>4, DecQuoType
<1> DEFINE sr == SumSR(WindowShort)
           mr == SumMR(WindowShort)
<1>3. sr \in Nat /\ mr \in Nat
  BY <1>1, RewardSumsType
<1>4. /\ NoMiningRewards <=> mr = 0 \/ sr = 0
      /\ SeigniorageBurden = DecQuo(sr, mr)
  BY DEF NoMiningRewards, SeigniorageBurden
<1> HIDE DEF sr, mr
<1>5. ASSUME ~NoMiningRewards
      PROVE  /\ SeigniorageBurden \in Nat
             /\ SeigniorageBurden = 0 => sr > 0 /\ sr * One < mr
  BY <1>3, <1>4, <1>5, DecQuoNat
<1>6. ASSUME ~NoMiningRewards, SeigniorageBurden # 0
      PROVE  DecMul(rewardWeight, DecQuo(SeigniorageBurdenTarget, SeigniorageBurden)) \in Int
  <2>1. DecQuo(SeigniorageBurdenTarget, SeigniorageBurden) \in Int
    BY <1>1, <1>5, <1>6, DecQuoType
  <2> QED BY <1>1, <2>1, DecMulType
<1> QED BY <1>1, <1>2, <1>5, <1>6 DEF RewardPolicyPanics, ProposedRewardWeight, sr, mr

\* What Clamp returns for a valid policy: a rate within the bounds, near the
\* old one unless the bounds are further away.
LEMMA ClampAdjusts ==
    ASSUME NEW pc, PolicyConstraints(pc), NEW old \in Int, NEW new \in Int
    PROVE  LET r == Clamp(pc, old, new) IN
           /\ r \in pc.rateMin..pc.rateMax
           /\ \/ old - pc.changeRateMax <= r /\ r <= old + pc.changeRateMax
              \/ r = pc.rateMin /\ old + pc.changeRateMax < pc.rateMin
              \/ r = pc.rateMax /\ old - pc.changeRateMax > pc.rateMax
<1> DEFINE lo == pc.rateMin
           hi == pc.rateMax
           step == pc.changeRateMax
<1>1. lo \in Nat /\ hi \in Nat /\ step \in Nat /\ lo <= hi
  BY DEF PolicyConstraints
<1> DEFINE limited == IF new > old + step THEN old + step
                      ELSE IF new < old - step THEN old - step ELSE new
<1>2. Clamp(pc, old, new) = IF limited < lo THEN lo ELSE IF limited > hi THEN hi ELSE limited
  BY DEF Clamp
<1>3. limited \in Int /\ old - step <= limited /\ limited <= old + step
  BY <1>1
<1> HIDE DEF limited, lo, hi, step
<1> QED BY <1>1, <1>2, <1>3 DEF lo, hi, step

\* A step of EndBlocker leaves the state typed and adjusts both levers or
\* leaves them alone.
LEMMA EndBlockStep ==
    ASSUME TypeInv, EndBlock
    PROVE  /\ TypeInv'
           /\ TaxLever!Adjust \/ UNCHANGED TaxLever!vars
           /\ RewardLever!Adjust \/ UNCHANGED RewardLever!vars
<1>1. /\ Running
      /\ UNCHANGED <<rates, bonded, policies>>
      /\ height' = height + 1 /\ burnAccount' = NoCoins /\ lunaSupply' = SupplyAfterBurn
      /\ \/ UNCHANGED <<levers, indicators, taxProceeds>>
         \/ EndEpoch /\ (UNCHANGED levers \/ (UpdateLevers /\ ~RewardPolicyPanics))
  BY DEF EndBlock, TreasuryEndBlock, EndEpoch, EndBlockPanics
<1>2. /\ TR' \in [Epochs -> Nat] /\ SR' \in [Epochs -> Nat] /\ TSL' \in [Epochs -> Nat]
      /\ taxProceeds' \in [Denoms -> Nat] /\ burnAccount' \in [Denoms -> Int]
      /\ lunaSupply' \in Int /\ epochInitialIssuance' \in Int
  <2>1. SupplyAfterBurn \in Int /\ NoCoins \in [Denoms -> Nat]
    BY DEF TypeInv, SupplyAfterBurn, NoCoins, Denoms
  <2>2. CASE UNCHANGED <<levers, indicators, taxProceeds>>
    BY <1>1, <2>1, <2>2 DEF TypeInv, indicators
  <2>3. CASE EndEpoch
    BY <1>1, <2>1, <2>3, IndicatorsType DEF EndEpoch, RecordedIssuance
  <2> QED BY <1>1, <2>2, <2>3
<1>3. /\ taxPolicy' = taxPolicy /\ rewardPolicy' = rewardPolicy
      /\ PolicyConstraints(taxPolicy) /\ PolicyConstraints(rewardPolicy)
      /\ taxRate \in Int /\ rewardWeight \in Int
  BY <1>1, TreasuryConstants DEF policies, TypeInv
<1>4. CASE UNCHANGED levers
  BY <1>1, <1>2, <1>3, <1>4 DEF TypeInv, levers, TaxLever!vars, RewardLever!vars
<1>5. CASE UpdateLevers /\ ~RewardPolicyPanics
  <2>1. TaxLever!Adjust
    <3>1. taxRate' = Clamp(taxPolicy, taxRate, ProposedTaxRate) /\ ProposedTaxRate \in Int
      BY <1>1, <1>5, ProposalsTyped DEF UpdateLevers
    <3> QED BY <1>3, <3>1, ClampAdjusts DEF TaxLever!Adjust, TaxLever!InBounds, TaxLever!NearBy
  <2>2. RewardLever!Adjust
    <3>1. /\ rewardWeight' = Clamp(rewardPolicy, rewardWeight, ProposedRewardWeight)
          /\ ProposedRewardWeight \in Int
      BY <1>1, <1>5, ProposalsTyped DEF UpdateLevers
    <3> QED BY <1>3, <3>1, ClampAdjusts DEF RewardLever!Adjust, RewardLever!InBounds, RewardLever!NearBy
  <2>3. taxRate' \in Nat /\ rewardWeight' \in Nat
    BY <1>3, <2>1, <2>2
       DEF TaxLever!Adjust, TaxLever!InBounds, RewardLever!Adjust, RewardLever!InBounds, PolicyConstraints
  <2> QED BY <1>1, <1>2, <1>3, <2>1, <2>2, <2>3 DEF TypeInv
<1> QED BY <1>1, <1>4, <1>5 DEF levers

\* The other steps leave the levers alone or amend their policies.
LEMMA OtherStep ==
    ASSUME TypeInv, [Next]_vars, ~EndBlock
    PROVE  /\ TypeInv'
           /\ [TaxLever!Amend]_(TaxLever!vars) /\ [RewardLever!Amend]_(RewardLever!vars)
<1> USE DEF TaxLever!vars, RewardLever!vars, TaxLever!Amend, RewardLever!Amend, TypeInv
<1>1. CASE UNCHANGED vars
  BY <1>1 DEF vars, levers, policies, economy, indicators, taxes
<1>2. CASE Tally \/ Trade
  <2>1. /\ UNCHANGED <<height, policies, levers, indicators, taxes>>
        /\ rates' \in RateChoices /\ bonded' \in Stakes /\ lunaSupply' \in Int
    <3>1. LunaSupplies \subseteq Int
      BY TreasuryConstants
    <3> QED BY <1>2, <3>1, Zenon DEF Tally, Trade
  <2> QED BY <2>1 DEF levers, policies, indicators, taxes
<1>3. CASE ChangePolicy
  BY <1>3 DEF ChangePolicy, levers, economy, indicators, taxes
<1>4. CASE Halt
  BY <1>4 DEF Halt, levers, policies, economy, indicators, taxes
<1>5. ASSUME NEW delta \in TaxChoices, NEW burned \in {delta, NoCoins}, PayTax(delta, burned)
      PROVE  /\ TypeInv'
             /\ [TaxLever!Amend]_(TaxLever!vars) /\ [RewardLever!Amend]_(RewardLever!vars)
  <2>1. delta \in [Denoms -> Nat] /\ burned \in [Denoms -> Nat]
    BY <1>5, TreasuryConstants DEF NoCoins
  <2>2. taxProceeds' \in [Denoms -> Nat] /\ burnAccount' \in [Denoms -> Int]
    BY <1>5, <2>1 DEF PayTax, RecordEpochTaxProceeds
  <2> QED BY <1>5, <2>2 DEF PayTax, levers, policies, economy, indicators
<1> QED BY <1>1, <1>2, <1>3, <1>4, <1>5 DEF Next

LEMMA LeverStep ==
    ASSUME TypeInv, [Next]_vars
    PROVE  /\ [TaxLever!Next]_(TaxLever!vars)
           /\ [RewardLever!Next]_(RewardLever!vars)
           /\ TypeInv'
BY EndBlockStep, OtherStep DEF TaxLever!Next, RewardLever!Next

\* At genesis the levers are within their bounds.
LEMMA LeverInit ==
    ASSUME Init
    PROVE  TaxLever!Init /\ RewardLever!Init /\ TypeInv
<1>1. PolicyConstraints(taxPolicy) /\ PolicyConstraints(rewardPolicy)
  BY TreasuryConstants DEF Init
<1>2. taxRate \in Nat /\ rewardWeight \in Nat /\ TaxLever!Init /\ RewardLever!Init
  BY <1>1, TreasuryConstants DEF Init, ValidGenesisRates, PolicyConstraints,
                  TaxLever!Init, TaxLever!InBounds, RewardLever!Init, RewardLever!InBounds
<1> QED BY <1>2, TreasuryConstants DEF Init, TypeInv, NoCoins

\* The tax rate implements RatePolicy: UpdateTaxPolicy leaves it within the
\* bounds of the tax policy and moves it by at most ChangeRateMax, except to
\* the nearest bound when governance has moved the bounds away.
THEOREM TaxRateBounded == Spec => TaxLeverKept
<1>1. Init => TaxLever!Init /\ TypeInv
  BY LeverInit
<1>2. TypeInv /\ [Next]_vars => TypeInv' /\ [TaxLever!Next]_(TaxLever!vars)
  BY LeverStep
<1> QED BY <1>1, <1>2, PTL DEF Spec, TaxLeverKept, TaxLever!Spec

\* The reward weight implements RatePolicy in the same way.
THEOREM RewardWeightBounded == Spec => RewardLeverKept
<1>1. Init => RewardLever!Init /\ TypeInv
  BY LeverInit
<1>2. TypeInv /\ [Next]_vars => TypeInv' /\ [RewardLever!Next]_(RewardLever!vars)
  BY LeverStep
<1> QED BY <1>1, <1>2, PTL DEF Spec, RewardLeverKept, RewardLever!Spec

-----------------------------------------------------------------------------
(* The EndBlocker does not panic *)

\* What alignCoins makes of the taxes and of the seigniorage of an epoch stays
\* within least and most: so do the rewards of the epochs, as the weight is one
\* that some policy allows.
RewardInv(least, most) ==
    /\ TypeInv
    /\ \E p \in RewardPolicies : rewardWeight \in p.rateMin..p.rateMax
    /\ taxProceeds \in [Denoms -> 0..MaxProceeds]
    /\ \A e \in Epochs : TR[e] <= most /\ (SR[e] = 0 \/ SR[e] >= least)
    /\ RunsOnPositiveRates

\* The rewards of the epoch that ends stay within the bounds, too.
LEMMA EpochRewardsWithin ==
    ASSUME NEW least \in Nat, NEW most \in Nat, RewardsWithin(least, most, Nat),
           RewardInv(least, most), Running
    PROVE  \A e \in Epochs : EpochTR[e] <= most /\ (EpochSR[e] = 0 \/ EpochSR[e] >= least)
<1>1. rates \in RateChoices /\ taxProceeds \in [Denoms -> 0..MaxProceeds]
  BY DEF RewardInv, TypeInv
<1>2. TaxReward <= most
  BY <1>1 DEF RewardsWithin, TaxReward
<1>3. PeekEpochSeigniorage \in Nat
  <2>1. Luna \in Denoms
    BY DEF Denoms
  <2> QED BY <2>1 DEF RewardInv, TypeInv, PeekEpochSeigniorage, SupplyAfterBurn
<1>4. SeigniorageReward = 0 \/ SeigniorageReward >= least
  BY <1>1, <1>3 DEF RewardInv, RewardsWithin, SeigniorageReward
<1>5. TR \in [Epochs -> Nat] /\ SR \in [Epochs -> Nat]
  BY DEF RewardInv, TypeInv
<1>6. \A e \in Epochs : TR[e] <= most /\ (SR[e] = 0 \/ SR[e] >= least)
  BY DEF RewardInv
<1> QED BY <1>2, <1>4, <1>5, <1>6 DEF EpochTR, EpochSR

\* A window of n epochs has at most n of them.
LEMMA WindowSize ==
    ASSUME TypeInv, Running, NEW n \in Nat
    PROVE  Cardinality(EpochWindow(n)) \in 0..n
<1> DEFINE g == GetEpoch
           I == (g - n + 1)..g
<1>1. g \in Nat
  BY IndicatorsType
<1>2. EpochWindow(n) \subseteq I
  BY <1>1 DEF EpochWindow
<1>3. g - n + 1 \in Int /\ g \in Int
  BY <1>1
<1>4. IsFiniteSet(I) /\ Cardinality(I) = IF g - n + 1 > g THEN 0 ELSE g - (g - n + 1) + 1
  <2> HIDE DEF g
  <2> QED BY <1>3, FS_Interval
<1>5. Cardinality(I) <= n
  BY <1>1, <1>4
<1>6. Cardinality(EpochWindow(n)) <= Cardinality(I) /\ Cardinality(EpochWindow(n)) \in Nat
  BY <1>2, <1>4, FS_Subset, FS_CardinalityType, Zenon
<1>7. Cardinality(I) \in Nat
  BY <1>4, FS_CardinalityType
<1> QED BY <1>5, <1>6, <1>7

\* A number of mining rewards within the bounds leaves a burden of at least
\* the last decimal.
LEMMA BurdenArithmetic ==
    ASSUME NEW sr \in Nat, NEW tr \in Nat, NEW n \in Nat, NEW c \in 0..n,
           NEW least \in Nat, NEW most \in Nat,
           sr >= least, tr <= c * most, n * most <= least * (One - 1)
    PROVE  tr + sr <= sr * One
<1>1. c * most <= n * most
  OBVIOUS
<1>2. least * (One - 1) <= sr * (One - 1)
  BY OneAssumption
<1>3. sr * One = sr * (One - 1) + sr
  BY OneAssumption
<1>4. /\ c * most \in Int /\ n * most \in Int
      /\ least * (One - 1) \in Int /\ sr * (One - 1) \in Int
  BY OneAssumption
<1>5. \A v, w, x, y \in Int : tr <= v /\ v <= w /\ w <= x /\ x <= y => tr + sr <= y + sr
  OBVIOUS
<1> QED BY <1>1, <1>2, <1>3, <1>4, <1>5, Zenon

\* With rewards within the bounds, UpdateRewardPolicy has no zero to divide by.
LEMMA BurdenPositive ==
    ASSUME NEW least \in Nat, NEW most \in Nat, RewardsWithin(least, most, Nat),
           WindowShort * most <= least * (One - 1), RewardInv(least, most), Running
    PROVE  ~RewardPolicyPanics
<1> DEFINE W == EpochWindow(WindowShort)
           f == [e \in W |-> EpochSR[e]]
           h == [e \in W |-> EpochTR[e]]
           k == [e \in W |-> most]
<1>0. TypeInv /\ WindowShort \in Nat
  BY TreasuryConstants DEF RewardInv
<1>1. IsFiniteSet(W) /\ W \subseteq Epochs /\ Cardinality(W) \in 0..WindowShort
  BY <1>0, WindowType, WindowSize
<1>2. /\ \A e \in W : EpochTR[e] \in Nat /\ EpochSR[e] \in Nat
      /\ \A e \in W : EpochTR[e] <= most /\ (EpochSR[e] = 0 \/ EpochSR[e] >= least)
  BY <1>0, <1>1, IndicatorsType, EpochRewardsWithin
<1>3. /\ f \in [W -> Nat] /\ h \in [W -> Nat]
      /\ \A e \in W : h[e] <= k[e] /\ (f[e] = 0 \/ f[e] >= least)
  BY <1>2
<1>4. /\ SumSR(WindowShort) = Total(f)
      /\ SumMR(WindowShort) = Total([e \in W |-> h[e] + f[e]])
  <2>1. [e \in W |-> h[e] + f[e]] = [e \in W |-> EpochTR[e] + EpochSR[e]]
    OBVIOUS
  <2> QED BY <2>1 DEF SumSR, SumMR
<1>5. k \in [W -> Int] /\ Total(k) = most * Cardinality(W)
  <2>1. most \in Int
    OBVIOUS
  <2> QED BY <1>1, <2>1, TotalConstant, Zenon
<1> HIDE DEF f, h, k, W
<1>6. f \in [W -> Int] /\ h \in [W -> Int]
  BY <1>3
<1>7. Total(f) \in Nat /\ Total(h) \in Nat /\ \A e \in W : f[e] <= Total(f)
  BY <1>1, <1>3, TotalNat
<1>8. SumMR(WindowShort) = Total(h) + Total(f)
  BY <1>1, <1>4, <1>6, TotalAdds
<1>9. Total(h) <= most * Cardinality(W)
  BY <1>1, <1>3, <1>5, <1>6, TotalMonotonic
<1>10. ASSUME Total(f) > 0 PROVE Total(f) >= least
  <2>1. PICK e \in W : f[e] # 0
    BY <1>1, <1>6, <1>10, TotalZero
  <2> QED BY <1>3, <1>7, <2>1
<1>11. ASSUME Total(f) > 0 PROVE Total(h) + Total(f) <= Total(f) * One
  <2> DEFINE c == Cardinality(W)
  <2>1. c \in 0..WindowShort /\ Total(h) <= c * most
    BY <1>0, <1>1, <1>9
  <2> HIDE DEF c
  <2> QED BY <1>0, <1>7, <1>10, <1>11, <2>1, BurdenArithmetic, Zenon
<1> QED BY <1>0, <1>4, <1>7, <1>8, <1>11, OneAssumption, ProposalsTyped

\* While the rates are positive, nothing in EndBlocker divides by zero.
LEMMA NoPanic ==
    ASSUME NEW least \in Nat, NEW most \in Nat, RewardsWithin(least, most, Nat),
           WindowShort * most <= least * (One - 1), RewardInv(least, most), Running,
           \A d \in DOMAIN rates : rates[d] > 0
    PROVE  ~EndBlockPanics
<1>1. \A offer, ask : ~InternalSwapPanics(rates, offer, ask)
  <2>1. \A x : x > 0 => x # 0
    OBVIOUS
  <2> QED BY <2>1, OneAssumption, Zenon DEF InternalSwapPanics, HasRate, GetLunaExchangeRate
<1> QED BY <1>1, BurdenPositive DEF EndBlockPanics, AlignCoinsPanics, TaxCapPanics

LEMMA RewardStep ==
    ASSUME NEW least \in Nat, NEW most \in Nat, RewardsWithin(least, most, Nat),
           WindowShort * most <= least * (One - 1), RewardInv(least, most), [Next]_vars
    PROVE  RewardInv(least, most)'
<1>0. TypeInv /\ TypeInv'
  BY LeverStep DEF RewardInv
<1>1. ASSUME ~halted, UNCHANGED <<rewardWeight, TR, SR, halted>>, taxProceeds' \in [Denoms -> 0..MaxProceeds]
      PROVE  RewardInv(least, most)'
  BY <1>0, <1>1 DEF RewardInv, RunsOnPositiveRates
<1>2. CASE UNCHANGED vars
  BY <1>0, <1>2 DEF vars, economy, levers, indicators, taxes, RewardInv, RunsOnPositiveRates
<1>3. CASE Tally \/ Trade \/ ChangePolicy
  BY <1>1, <1>3 DEF Tally, Trade, ChangePolicy, Running, levers, indicators, taxes, RewardInv
<1>4. ASSUME NEW delta \in TaxChoices, NEW burned \in {delta, NoCoins}, PayTax(delta, burned)
      PROVE  RewardInv(least, most)'
  <2>1. taxProceeds \in [Denoms -> Nat] /\ delta \in [Denoms -> Nat] /\ MaxProceeds \in Nat
    BY <1>0, TreasuryConstants DEF TypeInv
  <2>2. taxProceeds' \in [Denoms -> 0..MaxProceeds]
    BY <1>4, <2>1 DEF PayTax, RecordEpochTaxProceeds
  <2> QED BY <1>1, <1>4, <2>2 DEF PayTax, Running, levers, indicators
<1>5. CASE Halt
  <2>1. ~\A d \in DOMAIN rates : rates[d] > 0
    BY <1>5, NoPanic DEF Halt
  <2> QED BY <1>0, <1>5, <2>1 DEF Halt, economy, levers, indicators, taxes, RewardInv, RunsOnPositiveRates
<1>6. CASE EndBlock
  <2>1. ~halted /\ ~halted' /\ Running
    BY <1>6 DEF EndBlock, TreasuryEndBlock, Running
  <2>2. taxProceeds' \in [Denoms -> 0..MaxProceeds]
    <3>1. NoCoins \in [Denoms -> 0..MaxProceeds]
      BY TreasuryConstants DEF NoCoins
    <3> QED BY <1>6, <3>1 DEF EndBlock, TreasuryEndBlock, EndEpoch, RewardInv
  <2>3. \A e \in Epochs : TR'[e] <= most /\ (SR'[e] = 0 \/ SR'[e] >= least)
    <3>1. UNCHANGED <<TR, SR>> \/ (TR' = EpochTR /\ SR' = EpochSR)
      BY <1>6 DEF EndBlock, TreasuryEndBlock, EndEpoch, indicators
    <3> QED BY <2>1, <3>1, EpochRewardsWithin, Zenon DEF RewardInv
  <2>4. \E p \in RewardPolicies : rewardWeight' \in p.rateMin..p.rateMax
    <3>1. RewardLever!Adjust \/ UNCHANGED rewardWeight
      BY <1>0, <1>6, EndBlockStep DEF RewardLever!vars
    <3> QED BY <1>0, <3>1 DEF RewardLever!Adjust, RewardLever!InBounds, TypeInv, RewardInv
  <2> QED BY <1>0, <2>1, <2>2, <2>3, <2>4 DEF RewardInv, RunsOnPositiveRates
<1> QED BY <1>2, <1>3, <1>4, <1>5, <1>6 DEF Next

\* If the rewards of an epoch stay within least and most, and the taxes of a
\* window of epochs within what the last decimal of the burden can tell apart,
\* then the EndBlocker of the treasury never panics while the rates of the
\* oracle are positive: for all policies, stakes, lengths of the windows and of
\* the probation, and whatever is taxed, minted and burned in which epoch.
THEOREM NoHaltOnPositiveRates ==
    ASSUME NEW CONSTANT least \in Nat, NEW CONSTANT most \in Nat,
           RewardsWithin(least, most, Nat), WindowShort * most <= least * (One - 1)
    PROVE  Spec => []RunsOnPositiveRates
<1>1. Init => RewardInv(least, most)
  <2> SUFFICES ASSUME Init PROVE RewardInv(least, most)
    OBVIOUS
  <2>1. TypeInv
    BY LeverInit
  <2>2. \E p \in RewardPolicies : rewardWeight \in p.rateMin..p.rateMax
    BY LeverInit DEF RewardLever!Init, RewardLever!InBounds
  <2>3. taxProceeds \in [Denoms -> 0..MaxProceeds]
    BY TreasuryConstants DEF Init, NoCoins
  <2>4. \A e \in Epochs : TR[e] <= most /\ SR[e] = 0
    BY DEF Init
  <2> QED BY <2>1, <2>2, <2>3, <2>4 DEF Init, RewardInv, RunsOnPositiveRates
<1>2. RewardInv(least, most) /\ [Next]_vars => RewardInv(least, most)'
  BY RewardStep
<1>3. RewardInv(least, most) => RunsOnPositiveRates
  BY DEF RewardInv
<1> QED BY <1>1, <1>2, <1>3, PTL DEF Spec

-----------------------------------------------------------------------------
\* The strengthening of IssuanceTracked: what it speaks of are integers.
IssuanceInv ==
    /\ lunaSupply \in Int /\ epochInitialIssuance \in Int /\ epochBurned \in Int
    /\ burnAccount \in [Denoms -> Int]
    /\ IssuanceTracked

\* For every length of the epoch and of the probation, the seigniorage of an
\* epoch is the Luna burned in that epoch and no other.
THEOREM SeigniorageOfEpoch == Spec => []IssuanceTracked
<1>1. Init => IssuanceInv
  BY TreasuryConstants DEF Init, IssuanceInv, IssuanceTracked, NoCoins
<1>2. IssuanceInv /\ [Next]_vars => IssuanceInv'
  <2> SUFFICES ASSUME IssuanceInv, [Next]_vars PROVE IssuanceInv'
    OBVIOUS
  <2> USE DEF IssuanceInv, IssuanceTracked
  <2>1. CASE UNCHANGED vars
    BY <2>1 DEF vars, economy, indicators, taxes
  <2>2. CASE Tally
    BY <2>2 DEF Tally, indicators, taxes
  <2>3. CASE Trade
    BY <2>3, TreasuryConstants DEF Trade, indicators, taxes
  <2>4. CASE ChangePolicy
    BY <2>4 DEF ChangePolicy, economy, indicators, taxes
  <2>5. ASSUME NEW delta \in TaxChoices, NEW burned \in {delta, NoCoins}, PayTax(delta, burned)
        PROVE  IssuanceInv'
    <3>1. burned \in [Denoms -> Int]
      BY <2>5, TreasuryConstants DEF NoCoins
    <3>2. burnAccount' \in [Denoms -> Int]
      BY <2>5, <3>1 DEF PayTax
    <3> QED BY <2>5, <3>2 DEF PayTax, economy, indicators
  <2>6. CASE EndBlock
    <3>1. /\ burnAccount' = NoCoins
          /\ lunaSupply' = SupplyAfterBurn
          /\ epochBurned' = IF IsLastOfEpoch THEN 0 ELSE epochBurned + burnAccount[Luna]
          /\ IF IsLastOfEpoch THEN epochInitialIssuance' = RecordedIssuance
             ELSE UNCHANGED epochInitialIssuance
      BY <2>6 DEF EndBlock, TreasuryEndBlock, EndEpoch, indicators
    <3>2. burnAccount[Luna] \in Int
      BY DEF Denoms
    <3> QED BY <3>1, <3>2 DEF SupplyAfterBurn, RecordedIssuance, NoCoins
  <2>7. CASE Halt
    BY <2>7 DEF Halt, economy, indicators, taxes
  <2> QED BY <2>1, <2>2, <2>3, <2>4, <2>5, <2>6, <2>7 DEF Next
<1>3. IssuanceInv => IssuanceTracked
  BY DEF IssuanceInv
<1> QED BY <1>1, <1>2, <1>3, PTL DEF Spec

-----------------------------------------------------------------------------
(* The ante handler *)

allVars == <<vars, anteVars>>

-----------------------------------------------------------------------------
(* Free oracle transactions *)

\* The strengthening of FreeOncePerHeight: a transaction that was admitted at
\* the height of the check state has left its marks there.
SpamInv ==
    /\ height \in Nat /\ checkHeight \in Nat /\ checkHeight <= height
    /\ mempool \in [Txs -> SUBSET (0..checkHeight)]
    /\ \A t \in Txs : checkHeight \in mempool[t] /\ IsOracleTx(t) =>
        \A s \in SlotsOf(t) : lastSubmitted[s] = checkHeight
    /\ FreeOncePerHeight

\* The slots of an oracle transaction are slots, and CheckOracleSpamming sees
\* all of them.
LEMMA OracleSlots ==
    ASSUME NEW tx \in Txs, IsOracleTx(tx)
    PROVE  /\ SlotsOf(tx) \subseteq Slots
           /\ Inspected(tx) = 1..Len(Msgs(tx))
<1>1. Len(Msgs(tx)) \in Nat
  BY FeeTaxConstants
<1>2. \A i \in 1..Len(Msgs(tx)) : Msgs(tx)[i].kind \in OracleKinds /\ Msgs(tx)[i].validator \in Validators
  BY FeeTaxConstants, Zenon DEF IsOracleTx, IsOracleMsg
<1>3. SlotsOf(tx) \subseteq Slots
  BY <1>2 DEF SlotsOf, SlotOf, Slots
<1>4. Inspected(tx) = 1..Len(Msgs(tx))
  BY <1>1 DEF Inspected, IsOracleTx
<1> QED BY <1>3, <1>4

\* What a check admits was not marked before and is marked after it.
LEMMA MarksOfAdmitted ==
    ASSUME NEW tx \in Txs, IsOracleTx(tx), PassesSpamming(tx), Mark(tx)
    PROVE  \A s \in SlotsOf(tx) : lastSubmitted[s] # checkHeight /\ lastSubmitted'[s] = checkHeight
<1> SUFFICES ASSUME NEW i \in 1..Len(Msgs(tx))
             PROVE  LET s == SlotOf(Msgs(tx)[i])
                    IN  lastSubmitted[s] # checkHeight /\ lastSubmitted'[s] = checkHeight
  BY DEF SlotsOf
<1> DEFINE s == SlotOf(Msgs(tx)[i])
<1>1. Len(Msgs(tx)) \in Nat /\ i \in Inspected(tx) /\ s \in Slots
  BY FeeTaxConstants, OracleSlots DEF SlotsOf
<1>2. \A j \in 1..i : j \in Inspected(tx)
  BY <1>1, OracleSlots
<1>3. \A j \in 1..i : ~Refused(tx, j)
  BY <1>2 DEF PassesSpamming
<1>4. s \in MarkedSlots(tx)
  BY <1>1, <1>3 DEF MarkedSlots
<1>5. lastSubmitted[s] # checkHeight
  BY <1>1, <1>3, i \in 1..i DEF Refused
<1> QED BY <1>1, <1>4, <1>5 DEF Mark

\* Of the transactions that pay no fee, a node admits at most one per
\* validator, kind and height, for every set of transactions and validators.
THEOREM FreeOnce == AnteSpec => []FreeOncePerHeight
<1>1. AnteInit => SpamInv
  BY DEF AnteInit, Init, SpamInv, FreeOncePerHeight, EmptyMempool
<1>2. SpamInv /\ [AnteNext]_allVars => SpamInv'
  <2> SUFFICES ASSUME SpamInv, [AnteNext]_allVars PROVE SpamInv'
    OBVIOUS
  <2>0. \A t \in Txs : mempool[t] \subseteq 0..checkHeight
    BY DEF SpamInv
  <2>1. CASE UNCHANGED allVars
    BY <2>1 DEF allVars, vars, anteVars, node, SpamInv, FreeOncePerHeight
  <2>2. ASSUME NEW tx \in Txs, CheckTx(tx) PROVE SpamInv'
    <3>1. UNCHANGED <<height, checkHeight>> /\ Mark(tx)
      BY <2>2 DEF CheckTx, vars
    <3>2. ASSUME NEW t \in Txs, checkHeight \in mempool[t], IsOracleTx(t)
          PROVE  \A s \in SlotsOf(t) : lastSubmitted[s] = checkHeight /\ lastSubmitted'[s] = checkHeight
      BY <3>1, <3>2, OracleSlots DEF Mark, SpamInv
    <3>3. CASE UNCHANGED mempool
      BY <3>1, <3>2, <3>3 DEF SpamInv, FreeOncePerHeight
    <3>4. CASE /\ PassesSpamming(tx)
               /\ mempool' = [mempool EXCEPT ![tx] = @ \cup {checkHeight}]
      <4>1. /\ mempool' \in [Txs -> SUBSET (0..checkHeight)]
            /\ \A t \in Txs : t # tx => mempool'[t] = mempool[t]
            /\ mempool'[tx] = mempool[tx] \cup {checkHeight}
        BY <3>4 DEF SpamInv
      <4>2. IsOracleTx(tx) => \A s \in SlotsOf(tx) : lastSubmitted[s] # checkHeight /\ lastSubmitted'[s] = checkHeight
        BY <3>1, <3>4, MarksOfAdmitted
      <4>3. ASSUME NEW t \in Txs, checkHeight \in mempool'[t], IsOracleTx(t)
            PROVE  \A s \in SlotsOf(t) : lastSubmitted'[s] = checkHeight
        BY <3>2, <4>1, <4>2, <4>3
      <4>4. ASSUME NEW t \in Txs, t # tx, IsOracleTx(t), IsOracleTx(tx), checkHeight \in mempool[t]
            PROVE  SlotsOf(t) \cap SlotsOf(tx) = {}
        BY <3>2, <4>2, <4>4
      <4>5. FreeOncePerHeight'
        <5> SUFFICES ASSUME NEW t \in Txs, NEW u \in Txs, t # u, mempool'[t] \cap mempool'[u] # {},
                            IsOracleTx(t), IsOracleTx(u)
                     PROVE  SlotsOf(t) \cap SlotsOf(u) = {}
          BY DEF FreeOncePerHeight
        <5> QED BY <4>1, <4>4 DEF SpamInv, FreeOncePerHeight
      <4> QED BY <3>1, <4>1, <4>3, <4>5 DEF SpamInv
    <3> QED BY <2>2, <3>3, <3>4 DEF CheckTx
  <2>3. ASSUME NEW tx \in Txs, NEW h, DeliverTx(tx, h) \/ FailTx(tx, h) PROVE SpamInv'
    <3>1. /\ UNCHANGED <<height, checkHeight, lastSubmitted>>
          /\ mempool' = [mempool EXCEPT ![tx] = @ \ {h}]
      BY <2>3 DEF DeliverTx, FailTx, vars
    <3>2. mempool' \in [Txs -> SUBSET (0..checkHeight)] /\ \A t \in Txs : mempool'[t] \subseteq mempool[t]
      BY <3>1 DEF SpamInv
    <3> QED BY <3>1, <3>2 DEF SpamInv, FreeOncePerHeight
  <2>4. CASE GovEndBlock
    BY <2>4 DEF GovEndBlock, ChangePolicy, node, SpamInv, FreeOncePerHeight
  <2>5. CASE CommitBlock
    <3>1. /\ checkHeight' = height /\ height' = height + 1 /\ UNCHANGED lastSubmitted
          /\ mempool' \in [Txs -> SUBSET (0..checkHeight)] /\ \A t \in Txs : mempool'[t] \subseteq mempool[t]
      BY <2>5 DEF CommitBlock, EndBlock, TreasuryEndBlock, SpamInv
    <3>2. ASSUME NEW t \in Txs, checkHeight' \in mempool'[t] PROVE checkHeight' = checkHeight /\ checkHeight \in mempool[t]
      BY <3>1, <3>2 DEF SpamInv
    <3>3. mempool' \in [Txs -> SUBSET (0..checkHeight')]
      <4>1. SUBSET (0..checkHeight) \subseteq SUBSET (0..height)
        BY DEF SpamInv
      <4> QED BY <3>1, <4>1
    <3> QED BY <3>1, <3>2, <3>3 DEF SpamInv, FreeOncePerHeight
  <2>6. CASE Restart
    BY <2>6 DEF Restart, EmptyMempool, vars, SpamInv, FreeOncePerHeight
  <2> QED BY <2>1, <2>2, <2>3, <2>4, <2>5, <2>6 DEF AnteNext
<1>3. SpamInv => FreeOncePerHeight
  BY DEF SpamInv
<1> QED BY <1>1, <1>2, <1>3, PTL DEF AnteSpec, allVars

-----------------------------------------------------------------------------
(* Taxes are natural numbers *)

\* The state of the treasury and the amounts of the ante handler are typed.
AnteTyped ==
    /\ TypeInv
    /\ \A d \in DOMAIN taxCaps : taxCaps[d] \in Nat
    /\ taxed \in [Denoms -> Nat] /\ collector \in [Denoms -> Int]
    /\ mempool \in [Txs -> SUBSET Nat] /\ checkHeight \in Nat

\* The principals of a message.
PrincipalsIn(tx, i) == {Msgs(tx)[i].principals[k] : k \in 1..Len(Msgs(tx)[i].principals)}

LEMMA ComputeTaxType ==
    ASSUME AnteTyped, NEW amount \in Nat, NEW d \in Denoms
    PROVE  /\ ComputeTax(amount, d) \in Nat
           /\ amount = 0 => ComputeTax(amount, d) = 0
<1>1. taxRate \in Nat /\ GetTaxCap(d) \in Nat
  BY TreasuryConstants DEF AnteTyped, TypeInv, GetTaxCap
<1> DEFINE a == NewDec(amount)
           m == DecMul(a, taxRate)
<1>2. a \in Nat /\ (amount = 0 => a = 0)
  BY OneAssumption DEF NewDec
<1>3. m \in Nat /\ (amount = 0 => m = 0)
  <2> HIDE DEF a
  <2> QED BY <1>1, <1>2, DecMulNat
<1> HIDE DEF m
<1>5. TruncateInt(m) \in 0..m
  BY <1>3, OneAssumption, TruncDivBounds DEF TruncateInt
<1>6. ComputeTax(amount, d) = IF taxRate = 0 THEN 0 ELSE CapTax(TruncateInt(m), GetTaxCap(d))
  BY DEF ComputeTax, m
<1> QED BY <1>1, <1>3, <1>5, <1>6 DEF CapTax

\* The tax of a message: nothing in a denomination it does not move.
LEMMA MsgTaxType ==
    ASSUME AnteTyped, NEW tx \in Txs, NEW i \in 1..Len(Msgs(tx)), NEW d \in Denoms
    PROVE  /\ MsgTax(Msgs(tx)[i], d) \in Nat
           /\ (\A p \in PrincipalsIn(tx, i) : p[d] = 0) => MsgTax(Msgs(tx)[i], d) = 0
<1> DEFINE m == Msgs(tx)[i]
           K == 1..Len(m.principals)
           f == [k \in K |-> ComputeTax(m.principals[k][d], d)]
<1>1. Len(m.principals) \in Nat /\ \A k \in K : m.principals[k][d] \in Nat
  BY FeeTaxConstants, ZenonT(60)
<1>2. IsFiniteSet(K)
  BY <1>1, FS_Interval, 1 \in Int, Len(m.principals) \in Int
<1>3. f \in [K -> Nat]
  BY <1>1, ComputeTaxType, Zenon
<1>4. (\A p \in PrincipalsIn(tx, i) : p[d] = 0) => \A k \in K : f[k] = 0
  BY <1>1, ComputeTaxType, Zenon DEF PrincipalsIn
<1>5. MsgTax(m, d) = IF Taxable(m) THEN Total(f) ELSE 0
  BY DEF MsgTax
<1> HIDE DEF f, K
<1>6. f \in [K -> Int]
  BY <1>3
<1>7. Total(f) \in Nat
  BY <1>2, <1>3, TotalNat
<1>8. (\A k \in K : f[k] = 0) => Total(f) = 0
  BY <1>2, <1>6, TotalZero
<1> QED BY <1>4, <1>5, <1>7, <1>8

\* The taxes of a transaction: nothing for the oracle's messages, and nothing
\* in a denomination it does not move.
LEMMA TxTaxesType ==
    ASSUME AnteTyped, NEW tx \in Txs
    PROVE  /\ TxTaxes(tx) \in [Denoms -> Nat]
           /\ IsOracleTx(tx) => IsZero(TxTaxes(tx))
           /\ \A d \in Denoms :
                (\A i \in 1..Len(Msgs(tx)) : \A p \in PrincipalsIn(tx, i) : p[d] = 0) => TxTaxes(tx)[d] = 0
<1> DEFINE I == 1..Len(Msgs(tx))
           f(d) == [i \in I |-> MsgTax(Msgs(tx)[i], d)]
<1>1. IsFiniteSet(I)
  <2>1. Len(Msgs(tx)) \in Int
    BY FeeTaxConstants
  <2> QED BY <2>1, FS_Interval, 1 \in Int
<1>2. \A d \in Denoms : f(d) \in [I -> Nat]
  BY MsgTaxType
<1>3. \A d \in Denoms : TxTaxes(tx)[d] = Total(f(d))
  BY DEF TxTaxes
<1>4. \A d \in Denoms : (\A i \in I : MsgTax(Msgs(tx)[i], d) = 0) => \A i \in I : f(d)[i] = 0
  OBVIOUS
<1>5. \A d \in Denoms : (\A i \in I : \A p \in PrincipalsIn(tx, i) : p[d] = 0)
        => \A i \in I : MsgTax(Msgs(tx)[i], d) = 0
  BY MsgTaxType
<1>6. IsOracleTx(tx) => \A d \in Denoms : \A i \in I : MsgTax(Msgs(tx)[i], d) = 0
  BY DEF IsOracleTx, IsOracleMsg, OracleKinds, MsgTax, Taxable
<1> HIDE DEF f, I
<1>7. ASSUME NEW d \in Denoms
      PROVE  /\ TxTaxes(tx)[d] \in Nat
             /\ (\A i \in I : MsgTax(Msgs(tx)[i], d) = 0) => TxTaxes(tx)[d] = 0
  <2>1. f(d) \in [I -> Nat] /\ f(d) \in [I -> Int]
    BY <1>2
  <2>2. Total(f(d)) \in Nat /\ ((\A i \in I : f(d)[i] = 0) => Total(f(d)) = 0)
    BY <1>1, <2>1, TotalNat, TotalZero
  <2> QED BY <1>3, <1>4, <2>2
<1>8. TxTaxes(tx) \in [Denoms -> Nat]
  <2>1. TxTaxes(tx) = [d \in Denoms |-> TxTaxes(tx)[d]]
    BY DEF TxTaxes
  <2> QED BY <1>7, <2>1
<1> QED BY <1>5, <1>6, <1>7, <1>8 DEF IsZero, I

\* The part of a tax that is burned is at most the tax.
LEMMA BurnShareType ==
    ASSUME NEW t \in Nat
    PROVE  /\ BurnShare(t) \in Int /\ BurnShare(t) <= t
           /\ t = 0 => BurnShare(t) = 0
<1> DEFINE p == BurnSplitRate * t
<1>1. p \in Nat /\ (t = 0 => p = 0)
  BY FeeTaxConstants, OneAssumption
<1>2. BurnShare(t) = t - RoundDiv(p, One)
  BY DEF BurnShare, RoundInt
<1> HIDE DEF p
<1>3. RoundDiv(p, One) \in Int /\ RoundDiv(p, One) >= 0
  BY <1>1, OneAssumption, RoundDivType
<1>4. RoundDiv(0, One) = 0
  BY OneAssumption, TruncDivBounds DEF RoundDiv
<1> QED BY <1>1, <1>2, <1>3, <1>4

\* UpdateTaxCap leaves caps that are natural numbers.
LEMMA CapsStep ==
    ASSUME AnteTyped, EndBlock
    PROVE  \A d \in DOMAIN taxCaps' : taxCaps'[d] \in Nat
<1>1. UNCHANGED taxCaps \/ taxCaps' = UpdatedTaxCaps
  BY DEF EndBlock, TreasuryEndBlock, EndEpoch, UpdateLevers, levers
<1>2. TypeInv /\ \A d \in DOMAIN taxCaps : taxCaps[d] \in Nat
  BY DEF AnteTyped
<1> DEFINE cap == NewDec(taxPolicy.cap)
<1>3. cap \in Nat /\ SDR \in Denoms
  BY <1>2, TreasuryConstants, OneAssumption DEF TypeInv, NewDec, Denoms
<1>4. ASSUME NEW d \in Terra, CanSwapInternally(rates, cap, SDR, d)
      PROVE  TruncateInt(InternalAmount(rates, cap, SDR, d)) \in Nat
  <2> HIDE DEF cap
  <2>1. d \in Denoms
    BY DEF Denoms
  <2>2. InternalAmount(rates, cap, SDR, d) \in Nat
    BY <1>2, <1>3, <1>4, <2>1, InternalAmountType DEF TypeInv
  <2> QED BY <2>2, OneAssumption, TruncDivBounds DEF TruncateInt
<1>5. \A d \in DOMAIN UpdatedTaxCaps : UpdatedTaxCaps[d] \in Nat
  BY <1>2, <1>4 DEF UpdatedTaxCaps
<1> QED BY <1>1, <1>2, <1>5

\* What checkDeductFee does with the fee and the taxes of a transaction.
LEMMA DeliverStep ==
    ASSUME AnteTyped, NEW tx \in Txs, NEW h, DeliverTx(tx, h)
    PROVE  \E burned \in [Denoms -> Int] :
           /\ \A d \in Denoms : burned[d] = 0 \/ (burned[d] = BurnShare(TxTaxes(tx)[d]) /\ burned[d] <= TxTaxes(tx)[d])
           /\ IsZero(TxTaxes(tx)) => burned = NoCoins
           /\ collector' = [d \in Denoms |-> collector[d] + Fee(tx)[d] - burned[d]]
           /\ burnAccount' = [d \in Denoms |-> burnAccount[d] + burned[d]]
<1> DEFINE paysTax == ~IsZero(Fee(tx)) /\ ~IsZero(TxTaxes(tx))
           burned == [d \in Denoms |-> IF paysTax THEN BurnShare(TxTaxes(tx)[d]) ELSE 0]
<1>1. TxTaxes(tx) \in [Denoms -> Nat]
  BY TxTaxesType
<1>2. \A d \in Denoms : BurnShare(TxTaxes(tx)[d]) \in Int /\ BurnShare(TxTaxes(tx)[d]) <= TxTaxes(tx)[d]
  BY <1>1, BurnShareType
<1>3. /\ collector' = [d \in Denoms |-> collector[d] + Fee(tx)[d] - burned[d]]
      /\ burnAccount' = [d \in Denoms |-> burnAccount[d] + burned[d]]
  BY DEF DeliverTx
<1>4. burned \in [Denoms -> Int]
  BY <1>2
<1>5. \A d \in Denoms : burned[d] = 0 \/ (burned[d] = BurnShare(TxTaxes(tx)[d]) /\ burned[d] <= TxTaxes(tx)[d])
  BY <1>2
<1>6. IsZero(TxTaxes(tx)) => burned = NoCoins
  BY DEF NoCoins
<1> HIDE DEF burned
<1> QED BY <1>3, <1>4, <1>5, <1>6

\* AnteTyped is inductive.
LEMMA AnteTypedInit ==
    ASSUME AnteInit
    PROVE  AnteTyped
<1>1. TypeInv
  BY LeverInit DEF AnteInit
<1> QED BY <1>1 DEF AnteInit, Init, AnteTyped, NoCoins, EmptyMempool

LEMMA AnteTypedStep ==
    ASSUME AnteTyped, [AnteNext]_allVars
    PROVE  AnteTyped'
<1>0. TypeInv /\ \A d \in DOMAIN taxCaps : taxCaps[d] \in Nat
  BY DEF AnteTyped
<1>1. ASSUME UNCHANGED vars PROVE TypeInv' /\ UNCHANGED taxCaps
  BY <1>0, <1>1, OtherStep DEF vars, levers, economy, policies, indicators, taxes, TypeInv
<1>2. CASE UNCHANGED allVars
  BY <1>0, <1>1, <1>2 DEF allVars, anteVars, node, AnteTyped
<1>3. ASSUME NEW tx \in Txs, CheckTx(tx) \/ (\E h : FailTx(tx, h)) PROVE AnteTyped'
  <2>1. UNCHANGED <<vars, taxed, collector, checkHeight>>
    BY <1>3 DEF CheckTx, FailTx
  <2>2. mempool' \in [Txs -> SUBSET Nat]
    BY <1>3 DEF CheckTx, FailTx, AnteTyped
  <2> QED BY <1>0, <1>1, <2>1, <2>2 DEF AnteTyped
<1>4. ASSUME NEW tx \in Txs, NEW h, DeliverTx(tx, h) PROVE AnteTyped'
  <2>1. PICK burned \in [Denoms -> Int] :
           /\ collector' = [d \in Denoms |-> collector[d] + Fee(tx)[d] - burned[d]]
           /\ burnAccount' = [d \in Denoms |-> burnAccount[d] + burned[d]]
    BY <1>4, DeliverStep
  <2>2. TxTaxes(tx) \in [Denoms -> Nat] /\ Fee(tx) \in [Denoms -> Nat]
    BY TxTaxesType, FeeTaxConstants
  <2>3. collector' \in [Denoms -> Int] /\ burnAccount' \in [Denoms -> Int]
    BY <2>1, <2>2 DEF AnteTyped, TypeInv
  <2>4. taxProceeds' \in [Denoms -> Nat] /\ taxed' \in [Denoms -> Nat]
    <3>1. taxProceeds \in [Denoms -> Nat] /\ taxed \in [Denoms -> Nat]
      BY DEF AnteTyped, TypeInv
    <3>2. \/ UNCHANGED <<taxProceeds, taxed>>
          \/ /\ taxProceeds' = [d \in Denoms |-> taxProceeds[d] + TxTaxes(tx)[d]]
             /\ taxed' = [d \in Denoms |-> taxed[d] + TxTaxes(tx)[d]]
      BY <1>4 DEF DeliverTx, RecordEpochTaxProceeds
    <3> QED BY ONLY <2>2, <3>1, <3>2
  <2>5. UNCHANGED <<height, economy, policies, levers, indicators, checkHeight>>
    BY <1>4 DEF DeliverTx
  <2>6. TypeInv'
    BY <1>0, <2>3, <2>4, <2>5 DEF TypeInv, economy, policies, levers, indicators
  <2>7. mempool' \in [Txs -> SUBSET Nat]
    BY <1>4 DEF DeliverTx, AnteTyped
  <2> QED BY <1>0, <2>3, <2>4, <2>5, <2>6, <2>7 DEF AnteTyped, levers
<1>5. CASE GovEndBlock
  <2>1. TypeInv' /\ UNCHANGED taxCaps
    BY <1>0, <1>5 DEF GovEndBlock, ChangePolicy, TypeInv, economy, levers, indicators, taxes
  <2> QED BY <1>0, <1>5, <2>1 DEF GovEndBlock, node, AnteTyped
<1>6. CASE CommitBlock
  <2>1. TypeInv' /\ \A d \in DOMAIN taxCaps' : taxCaps'[d] \in Nat
    BY <1>0, <1>6, EndBlockStep, CapsStep DEF CommitBlock
  <2>2. mempool' \in [Txs -> SUBSET Nat]
    BY <1>6 DEF CommitBlock, AnteTyped
  <2> QED BY <1>6, <2>1, <2>2 DEF CommitBlock, AnteTyped, NoCoins, TypeInv
<1>7. CASE Restart
  BY <1>0, <1>1, <1>7 DEF Restart, AnteTyped, EmptyMempool
<1> QED BY <1>2, <1>3, <1>4, <1>5, <1>6, <1>7 DEF AnteNext

-----------------------------------------------------------------------------
(* A fee covers what is burned of it *)

\* The transaction offers and moves coins of the denomination c only.
PaysIn(tx, c) ==
    \A d \in Denoms \ {c} :
        /\ Fee(tx)[d] = 0
        /\ \A i \in 1..Len(Msgs(tx)) : \A p \in PrincipalsIn(tx, i) : p[d] = 0

\* The strengthening of FeeCoversBurn: while a block has not ended, what the
\* mempool holds still offers enough.
AdmittedInv ==
    /\ AnteTyped
    /\ ~ending => \A tx \in Txs : mempool[tx] # {} => EnoughFee(tx)

\* The demanded fee changes with the levers and the exemption list only.
LEMMA FeeKept ==
    ASSUME UNCHANGED <<taxRate, taxCaps, taxPolicy, exempt>>, NEW tx \in Txs, EnoughFee(tx)
    PROVE  EnoughFee(tx)'
<1>1. \A amount, d : ComputeTax(amount, d)' = ComputeTax(amount, d)
  BY DEF ComputeTax, GetTaxCap
<1>2. \A m, d : MsgTax(m, d)' = MsgTax(m, d)
  BY <1>1 DEF MsgTax, Taxable, HasBurnTaxExemptionAddress, HasBurnTaxExemptionContract
<1>3. TxTaxes(tx)' = TxTaxes(tx)
  BY <1>2 DEF TxTaxes
<1> QED BY <1>3 DEF EnoughFee, RequiredFees

\* A transaction that offers enough, in the denomination that it moves, burns
\* at most what it offers.
LEMMA BurnsWithinFee ==
    ASSUME AnteTyped, NEW tx \in Txs, EnoughFee(tx), NEW c \in Denoms, PaysIn(tx, c)
    PROVE  IsZero(TxTaxes(tx)) \/ \A d \in Denoms : TxTaxes(tx)[d] <= Fee(tx)[d]
<1>1. /\ TxTaxes(tx) \in [Denoms -> Nat]
      /\ IsOracleTx(tx) => IsZero(TxTaxes(tx))
      /\ \A d \in Denoms \ {c} : TxTaxes(tx)[d] = 0
  BY TxTaxesType DEF PaysIn
<1>2. Fee(tx) \in [Denoms -> Nat] /\ \A d \in Denoms : MinGasFee(d) \in Nat
  BY FeeTaxConstants
<1>3. CASE IsZero(RequiredFees(tx))
  <2>1. \A d \in Denoms : MinGasFee(d) + TxTaxes(tx)[d] = 0
    BY <1>3 DEF IsZero, RequiredFees
  <2> QED BY <1>1, <1>2, <2>1 DEF IsZero
<1>4. CASE IsAnyGTE(Fee(tx), RequiredFees(tx))
  <2>1. PICK e \in Denoms : Fee(tx)[e] > 0 /\ Fee(tx)[e] >= MinGasFee(e) + TxTaxes(tx)[e]
    BY <1>4 DEF IsAnyGTE, RequiredFees
  <2>2. e = c
    <3>1. \A x : x > 0 => x # 0
      OBVIOUS
    <3> QED BY <2>1, <3>1, Zenon DEF PaysIn
  <2>3. TxTaxes(tx)[c] <= Fee(tx)[c]
    BY <1>1, <1>2, <2>1, <2>2
  <2> QED BY <1>1, <1>2, <2>3
<1> QED BY <1>1, <1>3, <1>4 DEF EnoughFee

\* For transactions that each use one denomination, and for all fees, taxes,
\* caps and exemptions: no transaction that a mempool admitted takes more out
\* of the fee collector than it pays in, because the mempool is checked again
\* after every commit.
THEOREM FeesCoverBurns ==
    ASSUME \A tx \in Txs : \E c \in Denoms : PaysIn(tx, c)
    PROVE  AnteSpec => FeeCoversBurn
<1>1. AnteInit => AdmittedInv
  BY AnteTypedInit, Zenon DEF AdmittedInv, AnteInit, EmptyMempool
<1>2. AdmittedInv /\ [AnteNext]_allVars => AdmittedInv'
  <2> SUFFICES ASSUME AdmittedInv, [AnteNext]_allVars PROVE AdmittedInv'
    OBVIOUS
  <2>0. AnteTyped' /\ mempool \in [Txs -> SUBSET Nat]
    BY AnteTypedStep DEF AdmittedInv, AnteTyped
  <2>1. ASSUME UNCHANGED <<taxRate, taxCaps, taxPolicy, exempt, ending>>,
               \A tx \in Txs : mempool'[tx] # {} => mempool[tx] # {} \/ EnoughFee(tx)
        PROVE  AdmittedInv'
    BY <2>0, <2>1, FeeKept DEF AdmittedInv
  <2>2. CASE UNCHANGED allVars
    BY <2>1, <2>2 DEF allVars, vars, anteVars, node, levers, policies
  <2>3. ASSUME NEW tx \in Txs, NEW h, CheckTx(tx) \/ DeliverTx(tx, h) \/ FailTx(tx, h) PROVE AdmittedInv'
    <3>1. UNCHANGED <<taxRate, taxCaps, taxPolicy, exempt, ending>>
      BY <2>3 DEF CheckTx, DeliverTx, FailTx, vars, levers, policies
    <3>2. \A t \in Txs : mempool'[t] # {} => mempool[t] # {} \/ EnoughFee(t)
      BY <2>0, <2>3 DEF CheckTx, DeliverTx, FailTx
    <3> QED BY <2>1, <3>1, <3>2
  <2>4. CASE GovEndBlock
    BY <2>0, <2>4 DEF GovEndBlock, AdmittedInv
  <2>5. CASE CommitBlock
    BY <2>0, <2>5 DEF CommitBlock, AdmittedInv
  <2>6. CASE Restart
    BY <2>0, <2>6 DEF Restart, EmptyMempool, AdmittedInv
  <2> QED BY <2>2, <2>3, <2>4, <2>5, <2>6 DEF AnteNext
<1>3. AdmittedInv /\ [AnteNext]_allVars
        => [height' = height => \A d \in Denoms : collector'[d] >= collector[d]]_allVars
  <2> SUFFICES ASSUME AdmittedInv, AnteNext, height' = height, NEW d \in Denoms
               PROVE  collector'[d] >= collector[d]
    OBVIOUS
  <2>0. AnteTyped /\ collector[d] \in Int
    BY DEF AdmittedInv, AnteTyped
  <2>1. ASSUME UNCHANGED collector PROVE collector'[d] >= collector[d]
    BY <2>0, <2>1
  <2>2. ASSUME NEW tx \in Txs, NEW h, DeliverTx(tx, h) PROVE collector'[d] >= collector[d]
    <3>1. EnoughFee(tx)
      BY <2>2 DEF AdmittedInv, DeliverTx, InBlock
    <3>2. IsZero(TxTaxes(tx)) \/ TxTaxes(tx)[d] <= Fee(tx)[d]
      BY <2>0, <3>1, BurnsWithinFee
    <3>3. PICK burned \in [Denoms -> Int] :
             /\ \A e \in Denoms : burned[e] = 0 \/ (burned[e] = BurnShare(TxTaxes(tx)[e]) /\ burned[e] <= TxTaxes(tx)[e])
             /\ IsZero(TxTaxes(tx)) => burned = NoCoins
             /\ collector' = [e \in Denoms |-> collector[e] + Fee(tx)[e] - burned[e]]
      BY <2>0, <2>2, DeliverStep
    <3>4. TxTaxes(tx)[d] \in Nat /\ Fee(tx)[d] \in Nat
      BY <2>0, TxTaxesType, FeeTaxConstants
    <3>5. burned[d] <= Fee(tx)[d]
      <4>1. \A x, y \in Nat, z \in Int : x <= y /\ z <= x => z <= y
        OBVIOUS
      <4>2. \A x \in Nat : 0 <= x
        OBVIOUS
      <4>3. burned[d] = 0 \/ (burned[d] <= TxTaxes(tx)[d] /\ ~IsZero(TxTaxes(tx)))
        BY ONLY <2>0, <3>3, Zenon DEF NoCoins
      <4>4. burned[d] \in Int
        BY ONLY <2>0, <3>3, Zenon
      <4> QED BY ONLY <3>2, <3>4, <4>1, <4>2, <4>3, <4>4, Zenon
    <3>6. collector'[d] = collector[d] + Fee(tx)[d] - burned[d] /\ burned[d] \in Int
      BY <3>3, Zenon
    <3>7. \A x, y, z \in Int : z <= y => x + y - z >= x
      OBVIOUS
    <3>8. \A x \in Nat : x \in Int
      OBVIOUS
    <3> QED BY ONLY <2>0, <3>4, <3>5, <3>6, <3>7, <3>8, Zenon
  <2>3. ASSUME NEW tx, NEW h, CheckTx(tx) \/ FailTx(tx, h) PROVE collector'[d] >= collector[d]
    BY <2>1, <2>3 DEF CheckTx, FailTx
  <2>4. CASE GovEndBlock \/ Restart
    BY <2>1, <2>4 DEF GovEndBlock, Restart
  <2>5. CASE CommitBlock
    BY <2>0, <2>5 DEF CommitBlock, EndBlock, TreasuryEndBlock, AnteTyped, TypeInv
  <2> QED BY <2>2, <2>3, <2>4, <2>5 DEF AnteNext
<1> QED BY <1>1, <1>2, <1>3, PTL DEF AnteSpec, FeeCoversBurn, allVars

-----------------------------------------------------------------------------
(* A tax is counted once *)

\* The strengthening of TaxesCountedOnce: the epochs that have not ended have
\* no rewards yet, and only SDR is among the proceeds.
CountedInv ==
    /\ AnteTyped
    /\ \A e \in Epochs : e >= GetEpoch => TR[e] = 0
    /\ \A d \in Denoms \ {SDR} : taxProceeds[d] = 0
    /\ TaxesCountedOnce

\* The rewards of an epoch whose taxes are in SDR are its taxes.
LEMMA RewardOfSDR ==
    ASSUME TypeInv, \A d \in Denoms \ {SDR} : taxProceeds[d] = 0
    PROVE  TaxReward = NewDec(taxProceeds[SDR])
<1> DEFINE f == [d \in Denoms |-> AlignCoin(rates, NewDec(taxProceeds[d]), d)]
<1>1. IsFiniteSet(Denoms) /\ SDR \in Denoms
  BY TreasuryConstants, FS_AddElement DEF Denoms
<1>2. \A d \in Denoms : NewDec(taxProceeds[d]) \in Nat
  BY OneAssumption DEF TypeInv, NewDec
<1>3. \A d \in Denoms : AlignCoin(rates, NewDec(taxProceeds[d]), d) \in Nat
  BY <1>2, AlignCoinType DEF TypeInv
<1>4. \A d \in Denoms \ {SDR} : AlignCoin(rates, NewDec(taxProceeds[d]), d) = 0
  <2>1. NewDec(0) = 0
    BY OneAssumption DEF NewDec
  <2> QED BY <1>2, <2>1, AlignCoinType DEF TypeInv
<1>5. AlignCoin(rates, NewDec(taxProceeds[SDR]), SDR) = NewDec(taxProceeds[SDR])
  BY <1>1, <1>2, AlignCoinType DEF TypeInv
<1>6. f \in [Denoms -> Int] /\ (\A d \in Denoms \ {SDR} : f[d] = 0) /\ f[SDR] = NewDec(taxProceeds[SDR])
  BY <1>1, <1>3, <1>4, <1>5
<1>7. TaxReward = Total(f)
  BY DEF TaxReward, AlignCoins
<1> HIDE DEF f
<1> QED BY <1>1, <1>6, <1>7, TotalSingle

\* For transactions that move SDR only, and for all lengths of the epoch and
\* of the probation: every tax is counted in the rewards of one epoch or
\* waits in the proceeds of the current one.
THEOREM TaxesCounted ==
    ASSUME \A tx \in Txs : PaysIn(tx, SDR)
    PROVE  AnteSpec => []TaxesCountedOnce
<1>0. /\ SDR \in Denoms /\ IsFiniteSet(Epochs)
      /\ MaxHeight \div BlocksPerWeek \in Nat
  <2>1. MaxHeight \div BlocksPerWeek \in Nat
    BY TreasuryConstants, DivMod
  <2>2. IsFiniteSet(Epochs)
    BY <2>1, FS_Interval, 0 \in Int, MaxHeight \div BlocksPerWeek \in Int DEF Epochs
  <2> QED BY <2>1, <2>2, TreasuryConstants DEF Denoms
<1>1. AnteInit => CountedInv
  <2> SUFFICES ASSUME AnteInit PROVE CountedInv
    OBVIOUS
  <2>1. TR \in [Epochs -> Int] /\ \A e \in Epochs : TR[e] = 0
    BY DEF AnteInit, Init
  <2>2. Total(TR) = 0
    BY <1>0, <2>1, TotalZero
  <2>3. taxProceeds = NoCoins /\ taxed = NoCoins
    BY DEF AnteInit, Init
  <2> QED BY <1>0, <2>1, <2>2, <2>3, AnteTypedInit, OneAssumption
          DEF CountedInv, TaxesCountedOnce, NoCoins, NewDec
<1>2. CountedInv /\ [AnteNext]_allVars => CountedInv'
  <2> SUFFICES ASSUME CountedInv, [AnteNext]_allVars PROVE CountedInv'
    OBVIOUS
  <2>0. AnteTyped' /\ AnteTyped /\ TypeInv
    BY AnteTypedStep DEF CountedInv, AnteTyped
  <2>1. ASSUME UNCHANGED <<TR, height, taxProceeds, taxed>> PROVE CountedInv'
    BY <2>0, <2>1 DEF CountedInv, TaxesCountedOnce, GetEpoch
  <2>2. CASE UNCHANGED allVars
    BY <2>1, <2>2 DEF allVars, vars, anteVars, indicators, taxes
  <2>3. ASSUME NEW tx, NEW h, CheckTx(tx) \/ FailTx(tx, h) PROVE CountedInv'
    BY <2>1, <2>3 DEF CheckTx, FailTx, vars, indicators, taxes
  <2>4. CASE GovEndBlock \/ Restart
    BY <2>1, <2>4 DEF GovEndBlock, ChangePolicy, Restart, vars, indicators, taxes
  <2>5. ASSUME NEW tx \in Txs, NEW h, DeliverTx(tx, h) PROVE CountedInv'
    <3>1. UNCHANGED <<TR, height>>
      BY <2>5 DEF DeliverTx, indicators
    <3>2. CASE UNCHANGED <<taxProceeds, taxed>>
      BY <2>1, <3>1, <3>2
    <3>3. CASE /\ taxProceeds' = [d \in Denoms |-> taxProceeds[d] + TxTaxes(tx)[d]]
               /\ taxed' = [d \in Denoms |-> taxed[d] + TxTaxes(tx)[d]]
      <4>1. TxTaxes(tx) \in [Denoms -> Nat] /\ \A d \in Denoms \ {SDR} : TxTaxes(tx)[d] = 0
        BY <2>0, TxTaxesType DEF PaysIn
      <4>2. taxProceeds \in [Denoms -> Nat] /\ taxed \in [Denoms -> Nat]
        BY <2>0 DEF AnteTyped, TypeInv
      <4>3. \A d \in Denoms \ {SDR} : taxProceeds'[d] = 0
        <5>1. 0 + 0 = 0
          OBVIOUS
        <5> QED BY <3>3, <4>1, <5>1, Zenon DEF CountedInv
      <4> DEFINE t == TxTaxes(tx)[SDR]
                 p == taxProceeds[SDR]
                 q == taxed[SDR]
      <4>4. t \in Nat /\ p \in Nat /\ q \in Nat /\ taxProceeds'[SDR] = p + t /\ taxed'[SDR] = q + t
        BY <1>0, <3>3, <4>1, <4>2
      <4>5. Total(TR) \in Int
        <5>1. TR \in [Epochs -> Int]
          BY <2>0 DEF TypeInv
        <5> QED BY <1>0, <5>1, TotalInt
      <4>6. Total(TR) + p * One = q * One
        BY DEF CountedInv, TaxesCountedOnce, NewDec
      <4> HIDE DEF t, p, q
      <4>7. Total(TR) + (p + t) * One = (q + t) * One
        BY <4>4, <4>5, <4>6, OneAssumption
      <4>8. TaxesCountedOnce'
        BY <3>1, <4>4, <4>7 DEF TaxesCountedOnce, NewDec
      <4> QED BY <2>0, <3>1, <4>3, <4>8 DEF CountedInv, GetEpoch
    <3> QED BY <2>5, <3>2, <3>3 DEF DeliverTx, RecordEpochTaxProceeds
  <2>6. CASE CommitBlock
    <3>1. Running /\ height' = height + 1 /\ UNCHANGED taxed
      BY <2>6 DEF CommitBlock, EndBlock, TreasuryEndBlock
    <3>2. height \in Nat /\ BlocksPerWeek \in Nat \ {0}
      BY <2>0, TreasuryConstants DEF TypeInv
    <3>3. CASE ~IsLastOfEpoch
      <4>1. UNCHANGED <<TR, taxProceeds>>
        BY <2>6, <3>3 DEF CommitBlock, EndBlock, TreasuryEndBlock, indicators
      <4>2. GetEpoch' = GetEpoch
        BY <3>1, <3>2, <3>3, NextBlock, Zenon DEF GetEpoch, IsLastOfEpoch
      <4> QED BY <2>0, <3>1, <4>1, <4>2 DEF CountedInv, TaxesCountedOnce
    <3>4. CASE IsLastOfEpoch
      <4>1. TR' = [TR EXCEPT ![GetEpoch] = TaxReward] /\ taxProceeds' = NoCoins
        BY <2>6, <3>4 DEF CommitBlock, EndBlock, TreasuryEndBlock, EndEpoch, EpochTR
      <4>2. GetEpoch' = GetEpoch + 1
        BY <3>1, <3>2, <3>4, NextBlock, Zenon DEF GetEpoch, IsLastOfEpoch
      <4>3. GetEpoch \in Epochs /\ GetEpoch \in Nat
        BY <2>0, <3>1, IndicatorsType
      <4>4. TR[GetEpoch] = 0 /\ TaxReward = NewDec(taxProceeds[SDR]) /\ TaxReward \in Nat
        BY <2>0, <4>3, RewardOfSDR, TaxRewardType DEF CountedInv
      <4>5. Total(TR') = Total(TR) - 0 + NewDec(taxProceeds[SDR]) /\ Total(TR) \in Int
        <5>1. TR \in [Epochs -> Int] /\ TaxReward \in Int
          BY <2>0, <4>4 DEF TypeInv
        <5> QED BY <1>0, <4>1, <4>3, <4>4, <5>1, TotalUpdate, TotalInt, Zenon
      <4>6. TaxesCountedOnce'
        <5>1. NewDec(taxProceeds'[SDR]) = 0
          BY <1>0, <4>1, OneAssumption DEF NoCoins, NewDec
        <5>2. NewDec(taxProceeds[SDR]) \in Int
          BY <4>4
        <5>3. Total(TR) + NewDec(taxProceeds[SDR]) = NewDec(taxed[SDR]) /\ UNCHANGED taxed
          BY <3>1 DEF CountedInv, TaxesCountedOnce
        <5>4. \A x, y \in Int : (x - 0 + y) + 0 = x + y
          OBVIOUS
        <5>5. Total(TR)' + NewDec(taxProceeds[SDR])' = Total(TR) + NewDec(taxProceeds[SDR])
          BY ONLY <4>5, <5>1, <5>2, <5>4, Zenon
        <5> QED BY ONLY <5>3, <5>5, Zenon DEF TaxesCountedOnce
      <4>7. \A e \in Epochs : e >= GetEpoch' => TR'[e] = 0
        <5>1. \A e \in Epochs : e \in Int
          BY <1>0 DEF Epochs
        <5>2. TR \in [Epochs -> Nat]
          BY <2>0 DEF TypeInv
        <5> QED BY <4>1, <4>2, <4>3, <5>1, <5>2 DEF CountedInv
      <4> QED BY <2>0, <4>1, <4>6, <4>7 DEF CountedInv, NoCoins
    <3> QED BY <3>3, <3>4
  <2> QED BY <2>2, <2>3, <2>4, <2>5, <2>6 DEF AnteNext
<1>3. CountedInv => TaxesCountedOnce
  BY DEF CountedInv
<1> QED BY <1>1, <1>2, <1>3, PTL DEF AnteSpec, allVars
=============================================================================
