------------------------------ MODULE Dyncomm ------------------------------
(***************************************************************************)
(* x/dyncomm: the commission of a bonded validator is kept at or above a   *)
(* minimum that grows with its share of the voting power.  The minimum is  *)
(* computed at the last block of every week; the rate the operator asked   *)
(* for is kept as a target, to which the commission returns when the       *)
(* minimum falls again.                                                    *)
(*                                                                         *)
(* The staking module is external: it creates, edits and removes           *)
(* validators under its own conditions, and the end of a block leaves      *)
(* some nonempty set of them bonded before this module runs.  Heights      *)
(* matter only within a week.  Rates and parameters are decimals (Dec).    *)
(***************************************************************************)
EXTENDS Dec, Sums, FiniteSets

CONSTANTS
    Validators,
    Powers,            \* consensus powers a validator may have
    Rates,             \* commission rates that operators ask for
    MaxRates,          \* maximal rates a validator may be created with
    MaxChangeRate,     \* largest raise of a commission by one edit
    ParamChoices,      \* [maxZero, slopeBase, slopeVpImpact, cap, minCommissionRate]
    BlocksPerWeek

\* What Params.Validate and the staking module demand
ASSUME DyncommConstants ==
    /\ IsFiniteSet(Validators)
    /\ Powers \subseteq Nat \ {0}
    /\ Rates \subseteq 0..One /\ MaxRates \subseteq 0..One
    /\ MaxChangeRate \in 0..One
    /\ BlocksPerWeek \in Nat \ {0}
    /\ \A p \in ParamChoices :
        /\ p.maxZero \in 0..One /\ p.cap \in 0..One /\ p.minCommissionRate \in 0..One
        /\ p.slopeBase \in Nat /\ p.slopeVpImpact \in Nat \ {0}

VARIABLES
    blockOfWeek,       \* height % BlocksPerWeek
    params,
    validators,        \* the validators of the staking module
    bonded,            \* the bonded ones
    power,             \* TokensToConsensusPower of their tokens
    rate,              \* Commission.Rate
    maxRate,           \* Commission.MaxRate
    minRate,           \* MinCommissionRate of the module's store
    target,            \* TargetCommissionRate of the module's store
    intended,          \* history: the rate last asked for at the top level of a transaction,
                       \* or found by InitGenesis
    recorded           \* history: validators created at the top level of a transaction

rates == <<rate, maxRate, minRate, target>>
history == <<intended, recorded>>
vars == <<blockOfWeek, params, validators, bonded, power, rates, history>>

-----------------------------------------------------------------------------
\* GetLastTotalPower, when the validators bs are bonded
TotalPower(bs) == Total([w \in bs |-> power[w]])

\* CalculateVotingPower, in percent
VotingPower(bs, v) == QuoInt64(NewDec(power[v]), TotalPower(bs)) * 100

\* Mutant: the cap is forgotten
BoundedBelow(y) == IF params.minCommissionRate * 100 > y THEN params.minCommissionRate * 100 ELSE y

\* In percent: at most the cap, but never below staking's own minimum
Bounded(y) ==
    LET capped == IF y > params.cap * 100 THEN params.cap * 100 ELSE y
    IN  IF params.minCommissionRate * 100 > capped THEN params.minCommissionRate * 100 ELSE capped

CalculateDynCommission(bs, v) ==
    LET x == VotingPower(bs, v)
        factorA == x - params.maxZero
        factorB == DecQuo(x, params.slopeVpImpact) + params.slopeBase
    IN  QuoInt64(Bounded(DecMul(factorA, factorB)), 100)

AtLeast(r, min) == IF r < min THEN min ELSE r

NoRates == [v \in Validators |-> 0]

\* UpdateValidatorMinRates of v: its commission, its maximum
NewRate(bs, v, wanted) == AtLeast(wanted, CalculateDynCommission(bs, v))

NewMaxRate(bs, v, max) == AtLeast(max, CalculateDynCommission(bs, v))

-----------------------------------------------------------------------------
\* InitGenesis: the rates of the validators become their targets, then comes
\* a first update
Init ==
    /\ blockOfWeek = 0
    /\ params \in ParamChoices
    /\ validators = Validators
    /\ bonded \in (SUBSET Validators) \ {{}}
    /\ power \in [Validators -> Powers]
    /\ target \in [Validators -> Rates]
    /\ rate = [v \in Validators |-> IF v \in bonded THEN NewRate(bonded, v, target[v]) ELSE target[v]]
    /\ \E m \in [Validators -> MaxRates] :
        /\ \A v \in Validators : params.minCommissionRate <= target[v] /\ target[v] <= m[v]
        /\ maxRate = [v \in Validators |-> IF v \in bonded THEN NewMaxRate(bonded, v, m[v]) ELSE m[v]]
    /\ minRate = [v \in Validators |-> IF v \in bonded THEN CalculateDynCommission(bonded, v) ELSE 0]
    /\ intended = target
    /\ recorded = Validators

\* MsgEditValidator with a commission rate.  The ante handler compares it with
\* the stored minimum and the post handler stores it as the target; neither
\* sees a message inside an authz.MsgExec.
EditValidator(v, r, nested) ==
    /\ v \in validators
    /\ nested \/ r >= minRate[v]
    /\ r >= params.minCommissionRate /\ r <= maxRate[v] /\ r - rate[v] <= MaxChangeRate
    /\ rate' = [rate EXCEPT ![v] = r]
    /\ IF nested
       THEN UNCHANGED <<target, intended>>
       ELSE /\ target' = [target EXCEPT ![v] = r]
            /\ intended' = [intended EXCEPT ![v] = r]
    /\ UNCHANGED <<blockOfWeek, params, validators, bonded, power, maxRate, minRate, recorded>>

\* MsgCreateValidator: only the post handler looks at it
CreateValidator(v, r, m, nested) ==
    /\ v \notin validators
    /\ params.minCommissionRate <= r /\ r <= m
    /\ validators' = validators \cup {v}
    /\ rate' = [rate EXCEPT ![v] = r]
    /\ maxRate' = [maxRate EXCEPT ![v] = m]
    /\ IF nested
       THEN recorded' = recorded \ {v} /\ UNCHANGED <<target, intended>>
       ELSE /\ target' = [target EXCEPT ![v] = r]
            /\ intended' = [intended EXCEPT ![v] = r]
            /\ recorded' = recorded \cup {v}
    /\ UNCHANGED <<blockOfWeek, params, bonded, power, minRate>>

\* The last delegation leaves a validator that is not bonded.  What the
\* module's store says of it stays.
RemoveValidator(v) ==
    /\ v \in validators \ bonded
    /\ validators' = validators \ {v}
    /\ UNCHANGED <<blockOfWeek, params, bonded, power, rates, history>>

\* Delegations and slashes
ChangePower(v) ==
    /\ power' \in {[power EXCEPT ![v] = p] : p \in Powers}
    /\ UNCHANGED <<blockOfWeek, params, validators, bonded, rates, history>>

ChangeParams ==
    /\ params' \in ParamChoices
    /\ UNCHANGED <<blockOfWeek, validators, bonded, power, rates, history>>

\* Mutant: a new minimum does not push the maximum
UpdateRatesOnly(bs, targets, mins) ==
    /\ rate' = [v \in Validators |-> IF v \in bs THEN NewRate(bs, v, targets[v]) ELSE rate[v]]
    /\ maxRate' = maxRate
    /\ minRate' = [v \in Validators |-> IF v \in bs THEN CalculateDynCommission(bs, v) ELSE mins[v]]

\* Mutant: the commission never falls again
UpdateRatesRatchet(bs, targets, mins) ==
    /\ rate' = [v \in Validators |-> IF v \in bs THEN NewRate(bs, v, AtLeast(targets[v], rate[v])) ELSE rate[v]]
    /\ maxRate' = [v \in Validators |-> IF v \in bs THEN NewMaxRate(bs, v, maxRate[v]) ELSE maxRate[v]]
    /\ minRate' = [v \in Validators |-> IF v \in bs THEN CalculateDynCommission(bs, v) ELSE mins[v]]

\* UpdateAllBondedValidatorRates: the others keep what they have
UpdateAllBondedValidatorRates(bs, targets, mins) ==
    /\ rate' = [v \in Validators |-> IF v \in bs THEN NewRate(bs, v, targets[v]) ELSE rate[v]]
    /\ maxRate' = [v \in Validators |-> IF v \in bs THEN NewMaxRate(bs, v, maxRate[v]) ELSE maxRate[v]]
    /\ minRate' = [v \in Validators |-> IF v \in bs THEN CalculateDynCommission(bs, v) ELSE mins[v]]

IsPeriodLastBlock == (blockOfWeek + 1) % BlocksPerWeek = 0

\* The staking module settles who is bonded, then EndBlocker runs
EndBlock ==
    \E bs \in (SUBSET validators) \ {{}} :
        /\ bonded' = bs
        /\ IF IsPeriodLastBlock
           THEN UpdateAllBondedValidatorRates(bs, target, minRate)
           ELSE UNCHANGED <<rate, maxRate, minRate>>
        /\ blockOfWeek' = (blockOfWeek + 1) % BlocksPerWeek
        /\ UNCHANGED <<params, validators, power, target, history>>

\* The chain is exported and starts again from that genesis file, at its
\* height or at zero.  InitGenesis does not read the exported rates: it takes
\* the commission of every validator for its target.
RestartFromGenesis ==
    /\ blockOfWeek' \in {0, blockOfWeek}
    /\ target' = [v \in Validators |-> IF v \in validators THEN rate[v] ELSE 0]
    /\ UpdateAllBondedValidatorRates(bonded, rate, NoRates)
    /\ intended' = target'
    /\ UNCHANGED <<params, validators, bonded, power, recorded>>

Next ==
    \/ \E v \in Validators, r \in Rates, nested \in BOOLEAN : EditValidator(v, r, nested)
    \/ \E v \in Validators, r \in Rates, m \in MaxRates, nested \in BOOLEAN : CreateValidator(v, r, m, nested)
    \/ \E v \in Validators : RemoveValidator(v) \/ ChangePower(v)
    \/ ChangeParams
    \/ EndBlock
    \/ RestartFromGenesis

Spec == Init /\ [][Next]_vars

-----------------------------------------------------------------------------
Percentages == [Validators -> 0..One]

\* Every variable has its type: in particular every minimum, commission and
\* maximum that CalculateDynCommission leads to is a share between 0 and 1, and
\* some validator stays bonded, so that the total power is no zero divisor.
TypeOK ==
    /\ blockOfWeek \in 0..(BlocksPerWeek - 1)
    /\ params \in ParamChoices
    /\ validators \subseteq Validators /\ recorded \subseteq Validators
    /\ bonded \subseteq validators /\ bonded # {}
    /\ power \in [Validators -> Powers]
    /\ rate \in Percentages /\ maxRate \in Percentages /\ minRate \in Percentages
    /\ target \in Percentages /\ intended \in Percentages

\* The commission of a validator never exceeds the maximum that its operator
\* declared or a new minimum forced on it, also after a removal and a new
\* creation under the same address, whose old minimum and target are still in
\* the store.  (It is not promised to a validator created inside an
\* authz.MsgExec: the post handler does not see it, so that it has the target
\* of a removed validator of its address, or none, and that one may be higher
\* than its maximum.)
RateWithinMax == \A v \in validators \cap recorded : rate[v] <= maxRate[v] /\ target[v] <= maxRate[v]

\* At the end of a week a bonded validator has the rate its operator asked for
\* last, or the new minimum if that is higher: the wish survives any number of
\* weeks at the minimum, being unbonded, and edits inside an authz.MsgExec,
\* and a rate below the minimum lasts no longer than the week.  (A restart from
\* an exported genesis puts the commission of that moment in its place.)
IntentRestored ==
    [][blockOfWeek' # blockOfWeek /\ blockOfWeek' = 0 =>
        \A v \in bonded' : rate'[v] = AtLeast(intended'[v], minRate'[v])]_vars
=============================================================================
