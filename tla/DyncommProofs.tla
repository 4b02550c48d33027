--------------------------- MODULE DyncommProofs ---------------------------
(***************************************************************************)
(* What Dyncomm guarantees for every set of validators, every parameters   *)
(* that pass Params.Validate, and every length of the week.                *)
(***************************************************************************)
EXTENDS Dyncomm, NumberLemmas, TLAPS

\* The bonded validators have some power: CalculateVotingPower never divides
\* by zero.
LEMMA TotalPowerPositive ==
    ASSUME power \in [Validators -> Powers], NEW bs \in (SUBSET Validators) \ {{}}
    PROVE  TotalPower(bs) \in Nat \ {0}
<1> DEFINE f == [w \in bs |-> power[w]]
<1>1. IsFiniteSet(bs)
  BY DyncommConstants, FS_Subset
<1>2. f \in [bs -> Nat] /\ \A w \in bs : f[w] > 0
  <2>1. \A p \in Powers : p \in Nat /\ p > 0
    BY DyncommConstants
  <2>2. \A w \in bs : power[w] \in Powers
    OBVIOUS
  <2>3. \A w \in bs : power[w] \in Nat /\ power[w] > 0
    BY <2>1, <2>2
  <2> QED BY <2>3
<1>3. PICK w \in bs : TRUE
  OBVIOUS
<1> HIDE DEF f
<1>4. Total(f) \in Nat /\ f[w] <= Total(f)
  BY <1>1, <1>2, TotalNat
<1> QED BY <1>2, <1>4 DEF TotalPower, f

\* The capped and raised percentage, divided by 100, is between 0 and 1.
LEMMA DynCommissionType ==
    ASSUME params \in ParamChoices, power \in [Validators -> Powers],
           NEW bs \in (SUBSET Validators) \ {{}}, NEW v \in Validators
    PROVE  CalculateDynCommission(bs, v) \in 0..One
<1> DEFINE x == VotingPower(bs, v)
           y == DecMul(x - params.maxZero, DecQuo(x, params.slopeVpImpact) + params.slopeBase)
           b == Bounded(y)
<1>1. /\ params.maxZero \in 0..One /\ params.cap \in 0..One /\ params.minCommissionRate \in 0..One
      /\ params.slopeBase \in Nat /\ params.slopeVpImpact \in Nat \ {0}
  BY DyncommConstants
<1>2. x \in Int
  <2>1. power[v] \in Nat
    BY DyncommConstants
  <2>2. NewDec(power[v]) \in Int
    BY <2>1, OneAssumption DEF NewDec
  <2>3. TotalPower(bs) \in Nat \ {0}
    BY TotalPowerPositive
  <2>4. TruncDiv(NewDec(power[v]), TotalPower(bs)) \in Int
    BY <2>2, <2>3, TruncDivBounds
  <2> QED BY <2>4 DEF VotingPower, QuoInt64
<1>3. y \in Int
  <2>1. x - params.maxZero \in Int
    BY <1>1, <1>2
  <2>2. DecQuo(x, params.slopeVpImpact) \in Int
    BY <1>1, <1>2, DecQuoType
  <2>3. DecQuo(x, params.slopeVpImpact) + params.slopeBase \in Int
    BY <1>1, <2>2
  <2> QED BY <2>1, <2>3, DecMulType
<1>4. b \in 0..(One * 100)
  <2> DEFINE c == params.cap * 100   m == params.minCommissionRate * 100   top == One * 100
  <2>1. top \in Nat /\ c \in 0..top /\ m \in 0..top
    BY <1>1, OneAssumption
  <2>2. b = IF m > (IF y > c THEN c ELSE y) THEN m ELSE (IF y > c THEN c ELSE y)
    BY DEF Bounded
  <2> HIDE DEF y, b, c, m, top
  <2>3. b \in 0..top
    BY <1>3, <2>1, <2>2
  <2> QED BY <2>3 DEF top
<1>5. CalculateDynCommission(bs, v) = b \div 100
  <2>1. CalculateDynCommission(bs, v) = TruncDiv(b, 100)
    BY DEF CalculateDynCommission, QuoInt64
  <2> HIDE DEF b
  <2> QED BY <1>4, <2>1 DEF TruncDiv
<1> HIDE DEF b
<1> QED BY <1>4, <1>5, OneAssumption

-----------------------------------------------------------------------------
\* The target in the store is the rate asked for last: what makes the
\* invariants below inductive, together with the bound of the targets.
IInv == TypeOK /\ RateWithinMax /\ intended = target

\* What the update makes of targets that are within the maxima.
LEMMA UpdateKeeps ==
    ASSUME TypeOK, RateWithinMax, NEW bs \in (SUBSET Validators) \ {{}},
           NEW tgt \in Percentages, NEW mins \in Percentages,
           \A v \in validators \cap recorded : tgt[v] <= maxRate[v],
           UpdateAllBondedValidatorRates(bs, tgt, mins)
    PROVE  /\ rate' \in Percentages /\ maxRate' \in Percentages /\ minRate' \in Percentages
           /\ \A v \in validators \cap recorded : rate'[v] <= maxRate'[v] /\ tgt[v] <= maxRate'[v]
<1>1. \A v \in Validators : CalculateDynCommission(bs, v) \in 0..One
  BY DynCommissionType DEF TypeOK
<1>2. rate \in Percentages /\ maxRate \in Percentages /\ validators \subseteq Validators
  BY DEF TypeOK
<1> DEFINE Least(v) == CalculateDynCommission(bs, v)
<1>3. /\ rate' = [v \in Validators |-> IF v \in bs THEN AtLeast(tgt[v], Least(v)) ELSE rate[v]]
      /\ maxRate' = [v \in Validators |-> IF v \in bs THEN AtLeast(maxRate[v], Least(v)) ELSE maxRate[v]]
      /\ minRate' = [v \in Validators |-> IF v \in bs THEN Least(v) ELSE mins[v]]
  BY DEF UpdateAllBondedValidatorRates, NewRate, NewMaxRate
<1>4. \A v \in validators \cap recorded : rate[v] <= maxRate[v]
  BY DEF RateWithinMax
<1> HIDE DEF Least
<1>5. \A v \in Validators : Least(v) \in 0..One
  BY <1>1 DEF Least
<1>6. rate' \in Percentages /\ maxRate' \in Percentages /\ minRate' \in Percentages
  BY <1>2, <1>3, <1>5, OneAssumption DEF Percentages, AtLeast
<1>7. ASSUME NEW v \in validators \cap recorded
      PROVE  rate'[v] <= maxRate'[v] /\ tgt[v] <= maxRate'[v]
  BY <1>2, <1>3, <1>4, <1>5, OneAssumption DEF Percentages, AtLeast
<1> QED BY <1>6, <1>7

LEMMA InitIInv == Init => IInv
<1> SUFFICES ASSUME Init PROVE IInv
  OBVIOUS
<1> DEFINE Least(v) == CalculateDynCommission(bonded, v)
<1>1. PICK m \in [Validators -> MaxRates] :
        /\ \A v \in Validators : params.minCommissionRate <= target[v] /\ target[v] <= m[v]
        /\ maxRate = [v \in Validators |-> IF v \in bonded THEN AtLeast(m[v], Least(v)) ELSE m[v]]
  BY DEF Init, NewMaxRate
<1>2. /\ rate = [v \in Validators |-> IF v \in bonded THEN AtLeast(target[v], Least(v)) ELSE target[v]]
      /\ minRate = [v \in Validators |-> IF v \in bonded THEN Least(v) ELSE 0]
  BY DEF Init, NewRate
<1>3. \A v \in Validators : Least(v) \in 0..One
  BY DynCommissionType DEF Init
<1>4. target \in Percentages /\ \A v \in Validators : m[v] \in 0..One
  BY DyncommConstants DEF Init, Percentages
<1> HIDE DEF Least
<1>5. rate \in Percentages /\ maxRate \in Percentages /\ minRate \in Percentages
  BY <1>1, <1>2, <1>3, <1>4, OneAssumption DEF Percentages, AtLeast
<1>6. RateWithinMax
  <2> SUFFICES ASSUME NEW v \in Validators PROVE rate[v] <= maxRate[v] /\ target[v] <= maxRate[v]
    BY DEF RateWithinMax, Init
  <2>1. target[v] <= m[v] /\ target[v] \in 0..One /\ m[v] \in 0..One /\ Least(v) \in 0..One
    BY <1>1, <1>3, <1>4 DEF Percentages
  <2> QED BY <1>1, <1>2, <2>1, OneAssumption DEF AtLeast
<1>7. TypeOK
  <2>1. blockOfWeek \in 0..(BlocksPerWeek - 1)
    BY DyncommConstants DEF Init
  <2>2. validators \subseteq Validators /\ recorded \subseteq Validators /\ bonded \subseteq validators /\ bonded # {}
    BY DEF Init
  <2>3. params \in ParamChoices /\ power \in [Validators -> Powers] /\ intended \in Percentages
    BY <1>4 DEF Init
  <2> QED BY <1>4, <1>5, <2>1, <2>2, <2>3 DEF TypeOK
<1> QED BY <1>6, <1>7 DEF IInv, Init

\* Every step keeps the invariant.
LEMMA NextIInv == IInv /\ [Next]_vars => IInv'
<1> SUFFICES ASSUME IInv, [Next]_vars PROVE IInv'
  OBVIOUS
<1> USE DEF IInv
<1>1. ASSUME NEW v \in Validators, NEW r \in Rates, NEW nested \in BOOLEAN, EditValidator(v, r, nested)
      PROVE  IInv'
  <2>1. r \in 0..One
    BY DyncommConstants
  <2>2. TypeOK'
    BY <1>1, <2>1 DEF EditValidator, TypeOK, Percentages
  <2>3. RateWithinMax'
    BY <1>1, <2>1 DEF EditValidator, TypeOK, Percentages, RateWithinMax
  <2>4. (intended = target)'
    BY <1>1 DEF EditValidator
  <2> QED BY <2>2, <2>3, <2>4
<1>2. ASSUME NEW v \in Validators, NEW r \in Rates, NEW m \in MaxRates, NEW nested \in BOOLEAN,
             CreateValidator(v, r, m, nested)
      PROVE  IInv'
  <2>1. r \in 0..One /\ m \in 0..One
    BY DyncommConstants
  <2>2. TypeOK'
    BY <1>2, <2>1 DEF CreateValidator, TypeOK, Percentages
  <2>3. RateWithinMax'
    BY <1>2, <2>1 DEF CreateValidator, TypeOK, Percentages, RateWithinMax
  <2>4. (intended = target)'
    BY <1>2 DEF CreateValidator
  <2> QED BY <2>2, <2>3, <2>4
<1>3. ASSUME NEW v \in Validators, RemoveValidator(v)
      PROVE  IInv'
  BY <1>3 DEF RemoveValidator, rates, history, TypeOK, RateWithinMax
<1>4. ASSUME NEW v \in Validators, ChangePower(v)
      PROVE  IInv'
  <2>1. power' \in [Validators -> Powers]
    BY <1>4 DEF ChangePower, TypeOK
  <2> QED BY <1>4, <2>1 DEF ChangePower, rates, history, TypeOK, RateWithinMax
<1>5. ASSUME ChangeParams
      PROVE  IInv'
  BY <1>5 DEF ChangeParams, rates, history, TypeOK, RateWithinMax
<1>6. ASSUME EndBlock
      PROVE  IInv'
  <2>1. PICK bs \in (SUBSET validators) \ {{}} :
            /\ bonded' = bs
            /\ IF IsPeriodLastBlock
               THEN UpdateAllBondedValidatorRates(bs, target, minRate)
               ELSE UNCHANGED <<rate, maxRate, minRate>>
            /\ blockOfWeek' = (blockOfWeek + 1) % BlocksPerWeek
            /\ UNCHANGED <<params, validators, power, target, history>>
    BY <1>6 DEF EndBlock
  <2>2. bs \in (SUBSET Validators) \ {{}}
    BY DEF TypeOK
  <2>3. /\ rate' \in Percentages /\ maxRate' \in Percentages /\ minRate' \in Percentages
        /\ RateWithinMax'
    <3>1. CASE IsPeriodLastBlock
      <4>1. target \in Percentages /\ minRate \in Percentages
        BY DEF TypeOK
      <4>2. \A v \in validators \cap recorded : target[v] <= maxRate[v]
        BY DEF RateWithinMax
      <4>3. UpdateAllBondedValidatorRates(bs, target, minRate)
        BY <2>1, <3>1
      <4> QED BY <2>1, <2>2, <4>1, <4>2, <4>3, UpdateKeeps DEF history, RateWithinMax
    <3>2. CASE ~IsPeriodLastBlock
      BY <2>1, <3>2 DEF TypeOK, history, RateWithinMax
    <3> QED BY <3>1, <3>2
  <2>4. blockOfWeek' \in 0..(BlocksPerWeek - 1)
    BY <2>1, DyncommConstants DEF TypeOK
  <2>5. TypeOK'
    <3>1. (bonded \subseteq validators /\ bonded # {})'
      BY <2>1
    <3>2. /\ (params \in ParamChoices)' /\ (power \in [Validators -> Powers])'
          /\ (validators \subseteq Validators)' /\ (recorded \subseteq Validators)'
          /\ (target \in Percentages)' /\ (intended \in Percentages)'
      BY <2>1 DEF TypeOK, history
    <3> QED BY <2>3, <2>4, <3>1, <3>2 DEF TypeOK
  <2> QED BY <2>1, <2>3, <2>5 DEF history
<1>7. ASSUME RestartFromGenesis
      PROVE  IInv'
  <2>1. /\ bonded \in (SUBSET Validators) \ {{}}
        /\ rate \in Percentages /\ NoRates \in Percentages
        /\ \A v \in validators \cap recorded : rate[v] <= maxRate[v]
    BY OneAssumption DEF TypeOK, RateWithinMax, NoRates, Percentages
  <2>2. /\ rate' \in Percentages /\ maxRate' \in Percentages /\ minRate' \in Percentages
        /\ \A v \in validators \cap recorded : rate'[v] <= maxRate'[v] /\ rate[v] <= maxRate'[v]
    BY <1>7, <2>1, UpdateKeeps DEF RestartFromGenesis
  <2>3. target' \in Percentages
    BY <1>7, <2>1, OneAssumption DEF RestartFromGenesis, Percentages
  <2>4. \A v \in validators \cap recorded : target'[v] = rate[v]
    BY <1>7 DEF RestartFromGenesis, TypeOK
  <2>5. RateWithinMax'
    BY <1>7, <2>2, <2>4 DEF RestartFromGenesis, RateWithinMax
  <2>6. blockOfWeek' \in 0..(BlocksPerWeek - 1)
    BY <1>7, DyncommConstants DEF RestartFromGenesis, TypeOK
  <2>7. TypeOK'
    BY <1>7, <2>2, <2>3, <2>6 DEF RestartFromGenesis, TypeOK
  <2> QED BY <1>7, <2>5, <2>7 DEF RestartFromGenesis
<1>8. CASE UNCHANGED vars
  BY <1>8 DEF vars, rates, history, TypeOK, RateWithinMax
<1> QED BY <1>1, <1>2, <1>3, <1>4, <1>5, <1>6, <1>7, <1>8 DEF Next

-----------------------------------------------------------------------------
\* Every rate, maximum, minimum and target stays a share between 0 and 1 and
\* somebody stays bonded, whatever the powers and parameters (TypeOK): neither
\* the cap nor the minimum of CalculateDynCommission can be escaped.
THEOREM RatesAreShares == Spec => []TypeOK
<1>1. IInv => TypeOK
  BY DEF IInv
<1> QED BY InitIInv, NextIInv, <1>1, PTL DEF Spec

\* No sequence of edits, removals, creations, weekly updates and restarts takes
\* a commission above its maximum (RateWithinMax): a target is at most the
\* maximum, and a minimum raises both.
THEOREM CommissionWithinMax == Spec => []RateWithinMax
<1>1. IInv => RateWithinMax
  BY DEF IInv
<1> QED BY InitIInv, NextIInv, <1>1, PTL DEF Spec

\* The update of a week restores the rate asked for last, or the minimum: the
\* property IntentRestored, from the invariant that the target is that rate.
THEOREM IntentKept == Spec => IntentRestored
<1>1. ASSUME IInv, [Next]_vars
      PROVE  [blockOfWeek' # blockOfWeek /\ blockOfWeek' = 0 =>
                 \A v \in bonded' : rate'[v] = AtLeast(intended'[v], minRate'[v])]_vars
  <2> SUFFICES ASSUME Next, blockOfWeek' # blockOfWeek, blockOfWeek' = 0, NEW v \in bonded'
               PROVE  rate'[v] = AtLeast(intended'[v], minRate'[v])
    BY <1>1 DEF vars
  <2>0. validators \subseteq Validators /\ bonded \subseteq validators /\ intended = target
    BY <1>1 DEF IInv, TypeOK
  <2>1. EndBlock \/ RestartFromGenesis
    BY DEF Next, EditValidator, CreateValidator, RemoveValidator, ChangePower, ChangeParams
  <2>2. CASE EndBlock
    <3>1. PICK bs \in (SUBSET validators) \ {{}} :
              /\ bonded' = bs
              /\ IsPeriodLastBlock /\ UpdateAllBondedValidatorRates(bs, target, minRate)
              /\ intended' = intended
      BY <2>2 DEF EndBlock, IsPeriodLastBlock, history
    <3>2. v \in bs /\ v \in Validators
      BY <2>0, <3>1
    <3>3. rate'[v] = AtLeast(target[v], CalculateDynCommission(bs, v)) /\ minRate'[v] = CalculateDynCommission(bs, v)
      BY <3>1, <3>2 DEF UpdateAllBondedValidatorRates, NewRate
    <3> QED BY <2>0, <3>1, <3>3
  <2>3. CASE RestartFromGenesis
    <3>1. v \in bonded /\ v \in validators /\ v \in Validators
      BY <2>0, <2>3 DEF RestartFromGenesis
    <3>2. intended'[v] = rate[v]
      BY <2>3, <3>1 DEF RestartFromGenesis
    <3>3. /\ rate'[v] = AtLeast(rate[v], CalculateDynCommission(bonded, v))
          /\ minRate'[v] = CalculateDynCommission(bonded, v)
      BY <2>3, <3>1 DEF RestartFromGenesis, UpdateAllBondedValidatorRates, NewRate
    <3> QED BY <3>2, <3>3
  <2> QED BY <2>1, <2>2, <2>3
<1> QED BY InitIInv, NextIInv, <1>1, PTL DEF Spec, IntentRestored
=============================================================================
