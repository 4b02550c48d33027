---------------------------- MODULE OracleProofs ----------------------------
(***************************************************************************)
(* Theorems about Oracle, for every set of validators, denominations, vote *)
(* lists, parameters and bounds.                                           *)
(***************************************************************************)
EXTENDS Oracle, NumberLemmas, TLAPS

Validator == [status : Statuses, jailed : BOOLEAN, tokens : Nat, since : Nat]

-----------------------------------------------------------------------------
(* Staking and slashing keep validators well-typed *)

\* Staking's EndBlocker leaves records of the right type (StatusUpdate).
LEMMA StakingType ==
    ASSUME NEW before \in [Validators -> Validator], height \in Nat,
           NEW vs \in StakingEndBlocker(before)
    PROVE  vs \in [Validators -> Validator]
<1>1. PICK B \in TopSets(before) :
         vs = [v \in Validators |-> StatusUpdate(before[v], v \in B)]
  BY DEF StakingEndBlocker
<1>2. ASSUME NEW v \in Validators
      PROVE  StatusUpdate(before[v], v \in B) \in Validator
  <2> DEFINE r == before[v]
             waited == r.status = "unbonding" /\ height >= r.since + UnbondingBlocks
  <2>0. r \in Validator
    OBVIOUS
  <2> HIDE DEF r
  <2>1. CASE v \in B
    BY <2>0, <2>1 DEF StatusUpdate, Validator, Statuses, r
  <2>2. CASE v \notin B /\ r.status = "bonded"
    BY <2>0, <2>2, Zenon DEF StatusUpdate, Validator, Statuses, r
  <2>3. CASE v \notin B /\ waited
    BY <2>0, <2>3 DEF StatusUpdate, Validator, Statuses, r
  <2>4. CASE v \notin B /\ r.status # "bonded" /\ ~waited
    BY <2>0, <2>4 DEF StatusUpdate, Validator, Statuses, r
  <2> QED BY <2>1, <2>2, <2>3, <2>4
<1> QED BY <1>1, <1>2

\* What a slash burns is at most the tokens of the validator.
LEMMA SlashBound ==
    ASSUME NEW t \in Nat, NEW f \in 0..One
    PROVE  /\ TruncateInt(f * (t \div PowerReduction) * PowerReduction) \in Nat
           /\ TruncateInt(f * (t \div PowerReduction) * PowerReduction) <= t
<1> DEFINE q == t \div PowerReduction
           n == f * q * PowerReduction
<1>1. PowerReduction \in Nat \ {0} /\ One \in Nat \ {0}
  BY OracleConstants, OneAssumption
<1>2. q \in Nat /\ q * PowerReduction \in Nat /\ q * PowerReduction <= t
  BY <1>1, Z3
<1>3. n = f * (q * PowerReduction)
  BY <1>1, <1>2
<1>4. n \in Nat /\ n <= One * t
  <2> DEFINE m == q * PowerReduction
  <2>1. m \in Nat /\ m <= t /\ f \in Nat /\ f <= One
    BY <1>1, <1>2
  <2> HIDE DEF m
  <2>2. f * m \in Nat /\ f * m <= One * m /\ One * m <= One * t
    BY <2>1, <1>1
  <2>3. n = f * m
    BY <1>3 DEF m
  <2> QED BY <2>2, <2>3, <2>1, <1>1
<1> HIDE DEF n
<1>5. n \div One \in Nat /\ n \div One <= t
  BY <1>1, <1>4
<1> QED BY <1>4, <1>5 DEF n, TruncateInt, TruncDiv

\* SlashAndJail leaves records of the right type: no negative tokens.
LEMMA SlashType ==
    ASSUME NEW p \in Params, NEW misses,
           NEW vs \in [Validators -> Validator]
    PROVE  SlashAndJail(p, vs, misses) \in [Validators -> Validator]
<1> DEFINE burned(v) == TruncateInt(p.slashFraction * ConsensusPower(vs, v) * PowerReduction)
<1>1. ASSUME NEW v \in Validators
      PROVE  [vs[v] EXCEPT !.jailed = TRUE, !.tokens = @ - burned(v)] \in Validator
  <2>1. vs[v].tokens \in Nat /\ p.slashFraction \in 0..One
    BY DEF Validator, Params
  <2>2. burned(v) \in Nat /\ burned(v) <= vs[v].tokens
    BY <2>1, SlashBound DEF ConsensusPower
  <2> HIDE DEF burned
  <2>3. vs[v].tokens - burned(v) \in Nat
    BY <2>1, <2>2
  <2> QED BY <2>3, Zenon DEF Validator
<1> QED BY <1>1, Zenon DEF SlashAndJail

-----------------------------------------------------------------------------
(* What a tally leaves *)

\* Rates are published only for vote targets, and PickReferenceTerra adds no
\* target.
LEMMA TallyDomains ==
    ASSUME NEW p, NEW vs
    PROVE  /\ DOMAIN TallyOutcome(p, vs).rates \subseteq Denoms
           /\ TallyOutcome(p, vs).targets \subseteq DOMAIN tobinTaxes
BY Zenon DEF TallyOutcome, PassingDenoms, RemainingTargets, OrganizeBallotByDenom

\* ApplyWhitelist leaves taxes of the right type.
LEMMA WhitelistType ==
    ASSUME TypeOK, NEW p \in Params, NEW targets
    PROVE  /\ DOMAIN ApplyWhitelist(p, targets) \subseteq Denoms
           /\ ApplyWhitelist(p, targets) \in [DOMAIN ApplyWhitelist(p, targets) -> 0..One]
<1>1. PICK S \in SUBSET Denoms : p.whitelist \in [S -> 0..One]
  BY DEF Params
<1>2. DOMAIN p.whitelist \subseteq Denoms /\ p.whitelist \in [DOMAIN p.whitelist -> 0..One]
  BY <1>1
<1> QED BY <1>2 DEF ApplyWhitelist, TypeOK

\* One more miss at most.
LEMMA MissesType ==
    ASSUME TypeOK, NEW p, NEW t
    PROVE  Misses(p, t) \in [Validators -> Nat]
BY DEF Misses, CountMisses, TypeOK

-----------------------------------------------------------------------------
(* Type correctness *)

\* The genesis state is well-typed.
LEMMA InitTypeOK == Init => TypeOK
<1> SUFFICES ASSUME Init PROVE TypeOK
  OBVIOUS
<1> USE OracleConstants
<1>1. val \in [Validators -> Validator]
  <2> DEFINE before == [v \in Validators |->
                [status |-> "unbonded", jailed |-> FALSE, tokens |-> InitTokens[v],
                 since |-> 0]]
  <2>1. before \in [Validators -> Validator]
    BY DEF Validator, Statuses
  <2> HIDE DEF before
  <2>2. height \in Nat /\ val \in StakingEndBlocker(before)
    BY DEF Init, before
  <2> QED BY <2>1, <2>2, StakingType
<1>2. DOMAIN tobinTaxes \subseteq Denoms /\ tobinTaxes \in [DOMAIN tobinTaxes -> 0..One]
  <2>1. PICK S \in SUBSET Denoms : InitParams.whitelist \in [S -> 0..One]
    BY DEF Params
  <2> QED BY <2>1 DEF Init
<1>3. /\ height \in Nat /\ halted \in BOOLEAN /\ params \in Params
      /\ missCounter \in [Validators -> Nat]
  BY Zenon DEF Init
<1>4. /\ DOMAIN feeder = {} /\ DOMAIN prevotes = {} /\ DOMAIN votes = {}
      /\ DOMAIN exchangeRates = {}
      /\ feeder = [v \in {} |-> v] /\ prevotes = [v \in {} |-> v] /\ votes = [v \in {} |-> v]
  BY DEF Init
<1>5. DOMAIN paid = Validators /\ \A v \in Validators : DOMAIN paid[v] = RewardDenoms
  BY DEF Init
<1> QED BY <1>1, <1>2, <1>3, <1>4, <1>5 DEF TypeOK, Validator

\* Every step keeps the state well-typed.
LEMMA NextTypeOK == TypeOK /\ [Next]_vars => TypeOK'
<1> SUFFICES ASSUME TypeOK, [Next]_vars PROVE TypeOK'
  OBVIOUS
<1> USE OracleConstants
<1>1. ASSUME NEW v \in Validators, NEW f \in Validators \cup Feeders, NEW rates \in VoteChoices,
             AggregateExchangeRatePrevote(v, f, rates)
      PROVE  TypeOK'
  BY <1>1 DEF AggregateExchangeRatePrevote, TypeOK, SetKey
<1>2. ASSUME NEW v \in Validators, NEW f \in Validators \cup Feeders, NEW rates \in VoteChoices,
             AggregateExchangeRateVote(v, f, rates)
      PROVE  TypeOK'
  <2>1. prevotes[v].submit \in Nat /\ v \in DOMAIN prevotes
    BY <1>2 DEF AggregateExchangeRateVote, TypeOK
  <2>2. /\ DOMAIN votes' \subseteq Validators
        /\ votes' \in [DOMAIN votes' -> [rates : VoteChoices, submit : Nat, reveal : Nat]]
    BY <1>2, <2>1 DEF AggregateExchangeRateVote, TypeOK, SetKey
  <2>3. /\ DOMAIN prevotes' \subseteq Validators
        /\ prevotes' \in [DOMAIN prevotes' -> [rates : VoteChoices, submit : Nat]]
    BY <1>2 DEF AggregateExchangeRateVote, TypeOK, DeleteKeys
  <2> QED BY <1>2, <2>2, <2>3, Zenon DEF AggregateExchangeRateVote, TypeOK
<1>3. ASSUME NEW v \in Validators, NEW f \in Feeders, DelegateFeedConsent(v, f)
      PROVE  TypeOK'
  BY <1>3 DEF DelegateFeedConsent, TypeOK, SetKey
<1>4. ASSUME NEW v \in Validators, NEW n \in TokenChoices, ChangeTokens(v, n)
      PROVE  TypeOK'
  <2>1. n \in Nat /\ val[v] \in Validator
    BY DEF TypeOK, Validator
  <2> DEFINE r == [val[v] EXCEPT !.tokens = n,
                                 !.status = IF @ = "unbonded" /\ n = 0 THEN "removed" ELSE @]
  <2>2. r \in Validator
    BY <2>1, Zenon DEF Validator, Statuses
  <2>3. val' = [val EXCEPT ![v] = r]
    BY <1>4, Zenon DEF ChangeTokens, TypeOK
  <2> HIDE DEF r
  <2>4. val' \in [Validators -> Validator]
    BY <2>2, <2>3 DEF TypeOK, Validator
  <2> QED BY <1>4, <2>4 DEF ChangeTokens, TypeOK, Validator
<1>5. ASSUME NEW v \in JailChoices, ChangeJailed(v)
      PROVE  TypeOK'
  <2>1. v \in Validators /\ val[v] \in Validator
    BY DEF TypeOK, Validator
  <2> DEFINE r == [val[v] EXCEPT !.jailed = ~@]
  <2>2. r \in Validator
    BY <2>1, Zenon DEF Validator
  <2>3. val' = [val EXCEPT ![v] = r]
    BY <1>5 DEF ChangeJailed, TypeOK
  <2> HIDE DEF r
  <2>4. val' \in [Validators -> Validator]
    BY <2>1, <2>2, <2>3 DEF TypeOK, Validator
  <2> QED BY <1>5, <2>4 DEF ChangeJailed, TypeOK, Validator
<1>6. ASSUME NEW p \in ParamChoices \cup {params}, NEW vs \in StakingEndBlocker(val), Halt(p, vs)
      PROVE  TypeOK'
  BY <1>6 DEF Halt, TypeOK
<1>7. ASSUME NEW p \in ParamChoices \cup {params}, NEW vs \in StakingEndBlocker(val),
             EndBlock(p, vs)
      PROVE  TypeOK'
  <2> DEFINE t == TallyOutcome(p, vs)
  <2>1. p \in Params /\ vs \in [Validators -> Validator]
    BY StakingType DEF TypeOK, Validator
  <2>2. DOMAIN t.rates \subseteq Denoms
    BY TallyDomains
  <2> HIDE DEF t
  <2>3. height' \in Nat /\ halted' \in BOOLEAN /\ params' \in Params
    BY <1>7, <2>1 DEF EndBlock, TypeOK
  <2>4. val' \in [Validators -> Validator] /\ missCounter' \in [Validators -> Nat]
    BY <1>7, <2>1, SlashType, MissesType DEF EndBlock, t
  <2>5. DOMAIN exchangeRates' \subseteq Denoms
    BY <1>7, <2>2 DEF EndBlock, TypeOK, t
  <2>6. DOMAIN paid' = Validators /\ \A v \in Validators : DOMAIN paid'[v] = RewardDenoms
    BY <1>7 DEF EndBlock, TypeOK
  <2>7. /\ DOMAIN prevotes' \subseteq Validators
        /\ prevotes' \in [DOMAIN prevotes' -> [rates : VoteChoices, submit : Nat]]
    BY <1>7 DEF EndBlock, TypeOK, ClearPrevotes, DeleteKeys
  <2>8. /\ DOMAIN votes' \subseteq Validators
        /\ votes' \in [DOMAIN votes' -> [rates : VoteChoices, submit : Nat, reveal : Nat]]
    BY <1>7 DEF EndBlock, TypeOK, DeleteKeys
  <2>9. DOMAIN tobinTaxes' \subseteq Denoms /\ tobinTaxes' \in [DOMAIN tobinTaxes' -> 0..One]
    BY <1>7, <2>1, WhitelistType DEF EndBlock, TypeOK
  <2>10. DOMAIN feeder' \subseteq Validators /\ feeder' \in [DOMAIN feeder' -> Feeders]
    BY <1>7 DEF EndBlock, TypeOK
  <2> QED BY <2>3, <2>4, <2>5, <2>6, <2>7, <2>8, <2>9, <2>10 DEF TypeOK, Validator
<1>8. CASE UNCHANGED vars
  BY <1>8 DEF vars, TypeOK
<1> QED BY <1>1, <1>2, <1>3, <1>4, <1>5, <1>6, <1>7, <1>8 DEF Next

\* Every state the oracle reaches is well-typed (TypeOK); in particular a
\* slash, the tally and changed parameters leave no negative tokens or counters.
THEOREM TypeCorrect == Spec => []TypeOK
BY InitTypeOK, NextTypeOK, PTL DEF Spec

-----------------------------------------------------------------------------
(* Commit before reveal, while governance leaves VotePeriod alone *)

FixedVotePeriod == \A p \in ParamChoices : p.votePeriod = InitParams.votePeriod

VotePeriod == InitParams.votePeriod

\* Every stored vote was revealed in the period of this block, from a prevote
\* of the period before
VotesOfThisPeriod ==
    \A v \in DOMAIN votes :
        /\ votes[v].reveal \div VotePeriod = height \div VotePeriod
        /\ votes[v].submit \div VotePeriod = (height \div VotePeriod) - 1

CommitInv == TypeOK /\ params.votePeriod = VotePeriod /\ VotesOfThisPeriod

\* The invariant is strong enough: submit and reveal lie in different periods.
LEMMA CommitInvSuffices == CommitInv => CommitBeforeReveal
<1> SUFFICES ASSUME CommitInv, NEW v \in DOMAIN votes, NEW w \in DOMAIN votes
             PROVE  votes[v].submit < votes[w].reveal
  BY DEF CommitBeforeReveal
<1>1. VotePeriod \in Nat \ {0}
  BY OracleConstants DEF VotePeriod, Params
<1>2. votes[v].submit \in Nat /\ votes[w].reveal \in Nat /\ height \in Nat
  BY DEF CommitInv, TypeOK
<1>3. height \div VotePeriod \in Nat
  BY <1>1, <1>2, DivMod
<1>4. votes[v].submit \div VotePeriod < votes[w].reveal \div VotePeriod
  BY <1>3 DEF CommitInv, VotesOfThisPeriod
<1> QED BY <1>1, <1>2, <1>4, EarlierPeriod

\* Every step keeps the votes those of the current period: a reveal checks
\* its period, and the end of the period clears the votes.
LEMMA NextCommitInv ==
    ASSUME FixedVotePeriod, CommitInv, [Next]_vars
    PROVE  CommitInv'
<1> USE OracleConstants
<1>0. VotePeriod \in Nat \ {0} /\ height \in Nat /\ VotePeriod' = VotePeriod
  BY DEF VotePeriod, Params, CommitInv, TypeOK
<1> HIDE DEF VotePeriod
<1>t. TypeOK'
  BY NextTypeOK DEF CommitInv
<1>1. ASSUME NEW v \in Validators, NEW f \in Validators \cup Feeders, NEW rates \in VoteChoices,
             AggregateExchangeRateVote(v, f, rates)
      PROVE  CommitInv'
  <2>1. votes' = SetKey(votes, v, [rates |-> rates, submit |-> prevotes[v].submit,
                                   reveal |-> height])
        /\ UNCHANGED <<height, params>>
    BY <1>1 DEF AggregateExchangeRateVote
  <2>2. prevotes[v].submit \in Nat
    BY <1>1 DEF AggregateExchangeRateVote, CommitInv, TypeOK
  <2>3. (height \div VotePeriod) - (prevotes[v].submit \div VotePeriod) = 1
    BY <1>1 DEF AggregateExchangeRateVote, RevealPeriodMatches, CommitInv
  <2>4. height \div VotePeriod \in Nat /\ prevotes[v].submit \div VotePeriod \in Nat
    BY <1>0, <2>2, DivMod
  <2>5. prevotes[v].submit \div VotePeriod = (height \div VotePeriod) - 1
    BY <2>3, <2>4
  <2>6. VotesOfThisPeriod'
    BY <2>1, <2>5, <1>0 DEF VotesOfThisPeriod, SetKey, CommitInv
  <2> QED BY <1>t, <1>0, <2>1, <2>6 DEF CommitInv
<1>2. CASE UNCHANGED <<height, params, votes>>
  BY <1>t, <1>0, <1>2 DEF CommitInv, VotesOfThisPeriod
<1>3. ASSUME NEW p \in ParamChoices \cup {params}, NEW vs \in StakingEndBlocker(val),
             EndBlock(p, vs)
      PROVE  CommitInv'
  <2>1. params' = p /\ p.votePeriod = VotePeriod /\ height' = height + 1
    BY <1>3 DEF EndBlock, FixedVotePeriod, CommitInv, VotePeriod
  <2>2. CASE (height + 1) % VotePeriod = 0
    <3>1. DOMAIN votes' = {}
      BY <1>3, <2>1, <2>2, Zenon DEF EndBlock, IsPeriodLastBlock, DeleteKeys
    <3> QED BY <1>t, <1>0, <2>1, <3>1 DEF CommitInv, VotesOfThisPeriod
  <2>3. CASE (height + 1) % VotePeriod # 0
    <3>1. votes' = votes
      BY <1>3, <2>1, <2>3 DEF EndBlock, IsPeriodLastBlock
    <3>2. (height + 1) \div VotePeriod = height \div VotePeriod
      BY <1>0, <2>3, NextBlock
    <3> QED BY <1>t, <1>0, <2>1, <3>1, <3>2 DEF CommitInv, VotesOfThisPeriod
  <2> QED BY <2>2, <2>3
<1> QED
  <2>1. CASE Next
    BY <1>1, <1>2, <1>3, <2>1, ZenonT(30) DEF Next, AggregateExchangeRatePrevote, DelegateFeedConsent,
          ChangeTokens, ChangeJailed, Halt
  <2>2. CASE UNCHANGED vars
    BY <1>2, <2>2 DEF vars
  <2> QED BY <2>1, <2>2

\* Of the votes that are tallied together each was committed before the first
\* was revealed, for every period length, as long as no parameter change
\* touches VotePeriod.
THEOREM CommitReveal ==
    ASSUME FixedVotePeriod
    PROVE  Spec => []CommitBeforeReveal
<1>1. Init => CommitInv
  BY InitTypeOK DEF Init, CommitInv, VotesOfThisPeriod, VotePeriod
<1>2. CommitInv /\ [Next]_vars => CommitInv'
  BY NextCommitInv
<1> QED BY <1>1, <1>2, CommitInvSuffices, PTL DEF Spec

-----------------------------------------------------------------------------
(* Prevotes do not stay, while governance leaves VotePeriod alone *)

\* No prevote is older than the last block of the period before the last one
PrevotesRecent ==
    \A v \in DOMAIN prevotes :
        VotePeriod * (height \div VotePeriod) <= prevotes[v].submit + VotePeriod + 1

PrevoteInv == TypeOK /\ params.votePeriod = VotePeriod /\ PrevotesRecent

\* The invariant bounds the age of a prevote by two periods.
LEMMA PrevoteInvSuffices == PrevoteInv => PrevoteLifetime
<1> SUFFICES ASSUME PrevoteInv, NEW v \in DOMAIN prevotes
             PROVE  height <= prevotes[v].submit + 2 * params.votePeriod
  BY DEF PrevoteLifetime
<1>1. VotePeriod \in Nat \ {0} /\ params.votePeriod = VotePeriod
  BY OracleConstants DEF VotePeriod, Params, PrevoteInv
<1>2. prevotes[v].submit \in Nat /\ height \in Nat
  BY DEF PrevoteInv, TypeOK
<1> DEFINE k == VotePeriod * (height \div VotePeriod)
<1>3. k \in Nat /\ height % VotePeriod < VotePeriod /\ height = k + (height % VotePeriod)
      /\ height % VotePeriod \in Nat
  BY <1>1, <1>2, DivMod
<1>4. k <= prevotes[v].submit + VotePeriod + 1
  BY DEF PrevoteInv, PrevotesRecent
<1> HIDE DEF k, VotePeriod
<1> QED BY <1>1, <1>2, <1>3, <1>4

\* A new prevote is of this block, and the end of a period clears those that
\* the next period would find too old.
LEMMA NextPrevoteInv ==
    ASSUME FixedVotePeriod, PrevoteInv, [Next]_vars
    PROVE  PrevoteInv'
<1> USE OracleConstants
<1>0. VotePeriod \in Nat \ {0} /\ height \in Nat /\ VotePeriod' = VotePeriod
  BY DEF VotePeriod, Params, PrevoteInv, TypeOK
<1> HIDE DEF VotePeriod
<1>t. TypeOK'
  BY NextTypeOK DEF PrevoteInv
<1>d. /\ height \div VotePeriod \in Nat /\ height % VotePeriod \in Nat
      /\ height = VotePeriod * (height \div VotePeriod) + (height % VotePeriod)
      /\ VotePeriod * (height \div VotePeriod) \in Nat
  BY <1>0, DivMod
<1>1. ASSUME NEW v \in Validators, NEW f \in Validators \cup Feeders, NEW rates \in VoteChoices,
             AggregateExchangeRatePrevote(v, f, rates)
      PROVE  PrevoteInv'
  <2>1. VotePeriod * (height \div VotePeriod) <= height + VotePeriod + 1
    BY <1>0, <1>d
  <2>2. PrevotesRecent'
    BY <1>1, <2>1, <1>0 DEF AggregateExchangeRatePrevote, PrevotesRecent, PrevoteInv, SetKey
  <2> QED BY <1>1, <1>t, <1>0, <2>2 DEF AggregateExchangeRatePrevote, PrevoteInv
<1>2. ASSUME NEW v \in Validators, NEW f \in Validators \cup Feeders, NEW rates \in VoteChoices,
             AggregateExchangeRateVote(v, f, rates)
      PROVE  PrevoteInv'
  BY <1>2, <1>t, <1>0 DEF AggregateExchangeRateVote, PrevotesRecent, PrevoteInv, DeleteKeys
<1>3. CASE UNCHANGED <<height, params, prevotes>>
  BY <1>t, <1>0, <1>3 DEF PrevoteInv, PrevotesRecent
<1>4. ASSUME NEW p \in ParamChoices \cup {params}, NEW vs \in StakingEndBlocker(val),
             EndBlock(p, vs)
      PROVE  PrevoteInv'
  <2>1. params' = p /\ p.votePeriod = VotePeriod /\ height' = height + 1
    BY <1>4 DEF EndBlock, FixedVotePeriod, PrevoteInv, VotePeriod
  <2>2. CASE (height + 1) % VotePeriod = 0
    <3>1. prevotes' = ClearPrevotes(p)
      BY <1>4, <2>1, <2>2 DEF EndBlock, IsPeriodLastBlock
    <3>2. \A v \in DOMAIN prevotes' : /\ v \in DOMAIN prevotes
                                      /\ prevotes'[v] = prevotes[v]
                                      /\ ~(height > prevotes[v].submit + VotePeriod)
      BY <3>1, <2>1 DEF ClearPrevotes, DeleteKeys
    <3>3. (height + 1) \div VotePeriod = (height \div VotePeriod) + 1 /\ height % VotePeriod = VotePeriod - 1
      BY <1>0, <2>2, NextBlock
    <3>4. VotePeriod * ((height + 1) \div VotePeriod) = height + 1
      BY <1>0, <1>d, <3>3
    <3>5. ASSUME NEW v \in DOMAIN prevotes'
          PROVE  height + 1 <= prevotes'[v].submit + VotePeriod + 1
      <4>1. prevotes[v].submit \in Nat
        BY <3>2 DEF PrevoteInv, TypeOK
      <4> QED BY <1>0, <3>2, <4>1
    <3> QED BY <1>t, <1>0, <2>1, <3>4, <3>5 DEF PrevoteInv, PrevotesRecent
  <2>3. CASE (height + 1) % VotePeriod # 0
    <3>1. prevotes' = prevotes
      BY <1>4, <2>1, <2>3 DEF EndBlock, IsPeriodLastBlock
    <3>2. (height + 1) \div VotePeriod = height \div VotePeriod
      BY <1>0, <2>3, NextBlock
    <3> QED BY <1>t, <1>0, <2>1, <3>1, <3>2 DEF PrevoteInv, PrevotesRecent
  <2> QED BY <2>2, <2>3
<1> QED
  <2>1. CASE Next
    BY <1>1, <1>2, <1>3, <1>4, <2>1, ZenonT(30) DEF Next, DelegateFeedConsent, ChangeTokens, ChangeJailed, Halt
  <2>2. CASE UNCHANGED vars
    BY <1>3, <2>2 DEF vars
  <2> QED BY <2>1, <2>2

\* A prevote that is not revealed leaves the store within two periods, for
\* every period length, as long as no parameter change touches VotePeriod.
THEOREM PrevotesCleared ==
    ASSUME FixedVotePeriod
    PROVE  Spec => []PrevoteLifetime
<1>1. Init => PrevoteInv
  BY InitTypeOK DEF Init, PrevoteInv, PrevotesRecent, VotePeriod
<1>2. PrevoteInv /\ [Next]_vars => PrevoteInv'
  BY NextPrevoteInv
<1> QED BY <1>1, <1>2, PrevoteInvSuffices, PTL DEF Spec

-----------------------------------------------------------------------------
(* Miss counters, while windows consist of whole periods *)

SlashWindow == InitParams.slashWindow

FixedWindows ==
    /\ FixedVotePeriod
    /\ \A p \in ParamChoices : p.slashWindow = SlashWindow
    /\ SlashWindow % VotePeriod = 0

MissInv ==
    /\ TypeOK
    /\ params.votePeriod = VotePeriod /\ params.slashWindow = SlashWindow
    /\ MissesWithinWindow

\* A miss is counted at the last block of a period only, and the last block of
\* the window resets the counters.
LEMMA NextMissInv ==
    ASSUME FixedWindows, MissInv, [Next]_vars
    PROVE  MissInv'
<1> USE OracleConstants
<1>0. /\ VotePeriod \in Nat \ {0} /\ SlashWindow \in Nat \ {0} /\ height \in Nat
      /\ VotePeriod' = VotePeriod /\ SlashWindow' = SlashWindow
  BY DEF VotePeriod, SlashWindow, Params, MissInv, TypeOK
<1>f. \A p \in ParamChoices : p.votePeriod = VotePeriod /\ p.slashWindow = SlashWindow
  BY DEF FixedWindows, FixedVotePeriod, VotePeriod
<1> HIDE DEF VotePeriod, SlashWindow
<1>t. TypeOK'
  BY NextTypeOK DEF MissInv
<1>1. CASE UNCHANGED <<height, params, missCounter>>
  BY <1>t, <1>0, <1>1 DEF MissInv, MissesWithinWindow
<1>2. ASSUME NEW p \in ParamChoices \cup {params}, NEW vs \in StakingEndBlocker(val),
             EndBlock(p, vs)
      PROVE  MissInv'
  <2>1. /\ params' = p /\ height' = height + 1
        /\ p.votePeriod = VotePeriod /\ p.slashWindow = SlashWindow
    BY <1>2, <1>f DEF EndBlock, MissInv
  <2>2. (height + 1) % SlashWindow \in Nat
    BY <1>0, DivMod, height + 1 \in Nat
  <2>3. ASSUME NEW v \in Validators
        PROVE  missCounter'[v] * VotePeriod <= (height + 1) % SlashWindow
    <3> DEFINE r == height % SlashWindow
    <3>1. /\ missCounter[v] \in Nat /\ r \in Nat
          /\ missCounter[v] * VotePeriod <= r
      BY <1>0, DivMod DEF MissInv, TypeOK, MissesWithinWindow
    <3>2. CASE (height + 1) % SlashWindow = 0
      <4>1. missCounter'[v] = 0
        BY <1>2, <2>1, <3>2 DEF EndBlock, IsPeriodLastBlock
      <4> QED BY <4>1, <2>2, <1>0
    <3>3. CASE (height + 1) % SlashWindow # 0
      <4>1. (height + 1) % SlashWindow = r + 1
        BY <1>0, <3>3, NextBlock
      <4>2. missCounter' = Misses(p, TallyOutcome(p, vs))
        BY <1>2, <2>1, <3>3 DEF EndBlock, IsPeriodLastBlock
      <4>3. CASE (height + 1) % VotePeriod # 0
        <5>1. missCounter'[v] = missCounter[v]
          BY <4>2, <4>3, <2>1 DEF Misses, IsPeriodLastBlock
        <5> HIDE DEF r
        <5>2. missCounter[v] * VotePeriod \in Nat
          BY <1>0, <3>1
        <5> QED BY <5>1, <5>2, <4>1, <3>1
      <4>4. CASE (height + 1) % VotePeriod = 0
        <5>1. missCounter'[v] = missCounter[v] \/ missCounter'[v] = missCounter[v] + 1
          BY <4>2, <4>4, <2>1, <3>1 DEF Misses, CountMisses, IsPeriodLastBlock
        <5>2. (missCounter[v] + 1) * VotePeriod <= r + 1
          BY <1>0, <3>1, <4>4, PeriodsInWindow DEF FixedWindows
        <5>3. missCounter[v] * VotePeriod \in Nat
          BY <1>0, <3>1
        <5> HIDE DEF r
        <5> QED BY <5>1, <5>2, <5>3, <4>1, <3>1
      <4> QED BY <4>3, <4>4
    <3> QED BY <3>2, <3>3
  <2> QED BY <1>t, <1>0, <2>1, <2>3 DEF MissInv, MissesWithinWindow
<1> QED
  <2>1. CASE Next
    BY <1>1, <1>2, <2>1, ZenonT(30) DEF Next, AggregateExchangeRatePrevote, AggregateExchangeRateVote,
          DelegateFeedConsent, ChangeTokens, ChangeJailed, Halt
  <2>2. CASE UNCHANGED vars
    BY <1>1, <2>2 DEF vars
  <2> QED BY <2>1, <2>2

\* No miss is counted at genesis.
LEMMA InitMissInv == Init => MissInv
<1> SUFFICES ASSUME Init PROVE MissInv
  OBVIOUS
<1>1. height \in Nat /\ SlashWindow \in Nat \ {0} /\ VotePeriod \in Nat \ {0}
  BY OracleConstants DEF Init, SlashWindow, VotePeriod, Params
<1>2. height % SlashWindow \in Nat
  BY <1>1, DivMod
<1>3. /\ params.votePeriod = VotePeriod /\ params.slashWindow = SlashWindow
      /\ \A v \in Validators : missCounter[v] = 0
  BY DEF Init, SlashWindow, VotePeriod
<1> HIDE DEF SlashWindow, VotePeriod
<1> QED BY InitTypeOK, <1>1, <1>2, <1>3 DEF MissInv, MissesWithinWindow

\* No validator has more misses than periods that ended in its window, so the
\* unsigned subtraction of SlashAndResetMissCounters never wraps, as long as
\* the window is a multiple of the period and neither changes.
THEOREM MissesBounded ==
    ASSUME FixedWindows
    PROVE  Spec => []MissesWithinWindow
<1>1. Init => MissInv
  BY InitMissInv
<1>2. MissInv /\ [Next]_vars => MissInv'
  BY NextMissInv
<1>3. MissInv => MissesWithinWindow
  BY DEF MissInv
<1> QED BY <1>1, <1>2, <1>3, PTL DEF Spec

-----------------------------------------------------------------------------
(* The whitelist is applied *)

\* Each tally leaves every whitelisted denomination a vote target with its
\* tax, whatever ballots failed and whatever the whitelist was before.
THEOREM WhitelistApplied == Spec => WhitelistCovered
<1> DEFINE Covers ==
        height' # height /\ IsPeriodLastBlock(params'.votePeriod) =>
          \A d \in DOMAIN params'.whitelist :
              d \in DOMAIN tobinTaxes' /\ tobinTaxes'[d] = params'.whitelist[d]
<1>1. ASSUME NEW p \in ParamChoices \cup {params}, NEW vs \in StakingEndBlocker(val),
             EndBlock(p, vs)
      PROVE  Covers
  <2> SUFFICES ASSUME IsPeriodLastBlock(p.votePeriod), NEW d \in DOMAIN p.whitelist
               PROVE  d \in DOMAIN tobinTaxes' /\ tobinTaxes'[d] = p.whitelist[d]
    BY <1>1 DEF EndBlock
  <2>1. tobinTaxes' = ApplyWhitelist(p, TallyOutcome(p, vs).targets)
    BY <1>1 DEF EndBlock
  <2>2. TallyOutcome(p, vs).targets \subseteq DOMAIN tobinTaxes
    BY TallyDomains
  <2> QED BY <2>1, <2>2 DEF ApplyWhitelist
<1>2. ASSUME [Next]_vars PROVE [Covers]_vars
  <2>1. CASE height' = height
    BY <2>1
  <2>2. CASE height' # height
    <3>1. \E p \in ParamChoices \cup {params}, vs \in StakingEndBlocker(val) : EndBlock(p, vs)
      BY <1>2, <2>2, Zenon DEF Next, vars, AggregateExchangeRatePrevote, AggregateExchangeRateVote,
            DelegateFeedConsent, ChangeTokens, ChangeJailed, Halt
    <3> QED BY <1>1, <3>1
  <2> QED BY <2>1, <2>2
<1>3. (Init /\ [][Next]_vars) => [][Covers]_vars
  BY <1>2, PTL
<1> QED BY <1>3 DEF Spec, WhitelistCovered

\* Staking neither jails nor frees (StatusUpdate).
LEMMA StakingKeepsJailed ==
    ASSUME NEW before \in [Validators -> Validator], NEW vs \in StakingEndBlocker(before),
           NEW v \in Validators
    PROVE  vs[v].jailed = before[v].jailed
<1>1. PICK B \in TopSets(before) :
         vs = [w \in Validators |-> StatusUpdate(before[w], w \in B)]
  BY DEF StakingEndBlocker
<1> DEFINE r == before[v]
<1>2. r \in Validator /\ vs[v] = StatusUpdate(r, v \in B)
  BY <1>1
<1> HIDE DEF r
<1>3. StatusUpdate(r, v \in B).jailed = r.jailed
  BY <1>2 DEF StatusUpdate, Validator
<1> QED BY <1>2, <1>3 DEF r

\* A validator that the end of a window finds below MinValidPerWindow has too
\* few valid periods among those of the window.
LEMMA BelowMinDeserved ==
    ASSUME FixedWindows, MissInv, NEW p \in Params,
           p.votePeriod = VotePeriod, p.slashWindow = SlashWindow,
           IsPeriodLastBlock(SlashWindow),
           NEW t, NEW v \in BelowMinValid(p, Misses(p, t))
    PROVE  One * (PeriodsEnded(p) - (missCounter[v] + 1)) < p.minValidPerWindow * PeriodsEnded(p)
<1> DEFINE a == VotePeriodsPerWindow(p)
           m == Misses(p, t)[v]
           n == a - m
           c == p.minValidPerWindow
<1>1. /\ VotePeriod \in Nat \ {0} /\ SlashWindow \in Nat \ {0} /\ height \in Nat
      /\ One \in Nat \ {0} /\ c \in Nat /\ v \in Validators /\ missCounter[v] \in Nat
  BY OneAssumption DEF Params, MissInv, TypeOK, BelowMinValid
<1>2. SlashWindow % VotePeriod = 0 /\ (height + 1) % SlashWindow = 0
  BY DEF FixedWindows, IsPeriodLastBlock
<1> HIDE DEF VotePeriod, SlashWindow
<1>3. /\ (height + 1) % VotePeriod = 0
      /\ a \in Nat \ {0} /\ SlashWindow = VotePeriod * a
      /\ PeriodsEnded(p) = a
  <2>1. /\ (height + 1) % VotePeriod = 0
        /\ SlashWindow \div VotePeriod \in Nat \ {0}
        /\ SlashWindow = VotePeriod * (SlashWindow \div VotePeriod)
        /\ Cardinality(PeriodEnds(height, SlashWindow, VotePeriod)) = SlashWindow \div VotePeriod
    <3>1. \A h \in Nat, k, w \in Nat \ {0} :
            w % k = 0 /\ (h + 1) % w = 0 =>
              /\ (h + 1) % k = 0
              /\ w \div k \in Nat \ {0} /\ w = k * (w \div k)
              /\ Cardinality(PeriodEnds(h, w, k)) = w \div k
      BY PeriodsOfWindow, Zenon
    <3>2. VotePeriod \in Nat \ {0} /\ SlashWindow \in Nat \ {0} /\ height \in Nat
      BY <1>1
    <3>3. SlashWindow % VotePeriod = 0 /\ (height + 1) % SlashWindow = 0
      BY <1>2
    <3> QED BY ONLY <3>1, <3>2, <3>3, ZenonT(60)
  <2>2. a = SlashWindow \div VotePeriod
    BY DEF VotePeriodsPerWindow
  <2>3. PeriodsEnded(p) = Cardinality(PeriodEnds(height, SlashWindow, VotePeriod))
    BY DEF PeriodsEnded, PeriodEnds
  <2> QED BY <2>1, <2>2, <2>3
<1> HIDE DEF a
<1>4. m = missCounter[v] \/ m = missCounter[v] + 1
  BY <1>1 DEF Misses, CountMisses
<1>5. missCounter[v] + 1 <= a
  <2>1. missCounter[v] * VotePeriod <= height % SlashWindow
    BY <1>1 DEF MissInv, MissesWithinWindow
  <2>2. (missCounter[v] + 1) * VotePeriod <= (height % SlashWindow) + 1
    BY <1>1, <1>2, <1>3, <2>1, PeriodsInWindow, Zenon
  <2>3. height % SlashWindow = SlashWindow - 1
    <3>1. (height + 1) % SlashWindow = 0 =>
            (height + 1) \div SlashWindow = height \div SlashWindow + 1 /\ height % SlashWindow = SlashWindow - 1
      BY <1>1, NextBlock, Zenon
    <3> QED BY <1>2, <3>1
  <2>4. (missCounter[v] + 1) * VotePeriod <= VotePeriod * a
    BY <1>1, <1>3, <2>2, <2>3
  <2> SUFFICES ASSUME a + 1 <= missCounter[v] + 1 PROVE FALSE
    BY <1>1, <1>3
  <2>5. VotePeriod * (a + 1) <= (missCounter[v] + 1) * VotePeriod
    BY <1>1, <1>3
  <2>6. VotePeriod * (a + 1) = VotePeriod * a + VotePeriod
    BY <1>1, <1>3
  <2>7. VotePeriod * a \in Nat /\ (missCounter[v] + 1) * VotePeriod \in Nat
    BY <1>1, <1>3
  <2> QED BY <1>1, <2>4, <2>5, <2>6, <2>7
<1>6. n \in Nat /\ a - (missCounter[v] + 1) <= n /\ a - (missCounter[v] + 1) \in Nat
  BY <1>1, <1>3, <1>4, <1>5
<1>7. QuoInt64(NewDec(n), a) < c
  BY DEF BelowMinValid, a
<1> HIDE DEF n, m, c
<1>8. One * n < c * a
  <2> DEFINE x == n * One
             z == x \div a
  <2>1. x \in Nat
    BY <1>1, <1>6
  <2>2. z < c
    BY <1>7, <2>1 DEF QuoInt64, TruncDiv, NewDec
  <2> HIDE DEF x
  <2>3. z \in Nat /\ x = a * z + (x % a) /\ x % a < a /\ x % a \in Nat
    BY <1>3, <2>1, DivMod
  <2> HIDE DEF z
  <2>4. a * (z + 1) <= c * a /\ a * (z + 1) = a * z + a /\ a * z \in Nat /\ c * a \in Nat
    BY <1>1, <1>3, <2>2, <2>3
  <2>5. x < c * a
    BY <1>3, <2>1, <2>3, <2>4
  <2>6. One * n = x
    BY <1>1, <1>6 DEF x
  <2> QED BY <2>5, <2>6
<1>9. One * (a - (missCounter[v] + 1)) < c * a
  <2> DEFINE k == a - (missCounter[v] + 1)
  <2>1. k \in Nat /\ k <= n
    BY <1>6
  <2> HIDE DEF k
  <2>2. One * k <= One * n /\ One * k \in Nat /\ One * n \in Nat /\ c * a \in Nat
    BY <1>1, <1>3, <1>6, <2>1
  <2>3. One * k < c * a
    BY <1>8, <2>2
  <2> QED BY <2>3 DEF k
<1> QED BY <1>3, <1>9 DEF c

\* Whoever the oracle jails has missed too many of the periods that ended in
\* the window, for every length of period and window, as long as no parameter
\* change touches them and a window consists of whole periods
\* (SlashAndResetMissCounters).
THEOREM SlashesDeserved ==
    ASSUME FixedWindows
    PROVE  Spec => SlashDeserved
<1> DEFINE Deserved ==
        \A v \in Validators :
          height' # height /\ ~val[v].jailed /\ val'[v].jailed =>
             One * (PeriodsEnded(params') - (missCounter[v] + 1))
                < params'.minValidPerWindow * PeriodsEnded(params')
<1>1. Init => MissInv
  BY InitMissInv
<1>2. MissInv /\ [Next]_vars => MissInv'
  BY NextMissInv
<1>3. ASSUME MissInv, NEW p \in ParamChoices \cup {params}, NEW vs \in StakingEndBlocker(val),
             EndBlock(p, vs)
      PROVE  Deserved
  <2> SUFFICES ASSUME NEW v \in Validators, ~val[v].jailed, val'[v].jailed
               PROVE  One * (PeriodsEnded(p) - (missCounter[v] + 1))
                        < p.minValidPerWindow * PeriodsEnded(p)
    BY <1>3 DEF EndBlock
  <2>1. /\ p \in Params /\ p.votePeriod = VotePeriod /\ p.slashWindow = SlashWindow
        /\ val \in [Validators -> Validator]
    BY <1>3, OracleConstants DEF FixedWindows, FixedVotePeriod, VotePeriod, MissInv, TypeOK, Validator
  <2>2. ~vs[v].jailed
    BY <2>1, StakingKeepsJailed
  <2>3. IsPeriodLastBlock(SlashWindow) /\ val' = SlashAndJail(p, vs, Misses(p, TallyOutcome(p, vs)))
    BY <1>3, <2>1, <2>2 DEF EndBlock
  <2>4. v \in BelowMinValid(p, Misses(p, TallyOutcome(p, vs)))
    BY <2>2, <2>3, Zenon DEF SlashAndJail
  <2> QED BY <1>3, <2>1, <2>3, <2>4, BelowMinDeserved
<1>4. MissInv /\ [Next]_vars => [Deserved]_vars
  <2> SUFFICES ASSUME MissInv, Next PROVE Deserved
    OBVIOUS
  <2>1. CASE UNCHANGED height
    BY <2>1
  <2> QED BY <1>3, <2>1, Zenon DEF Next, AggregateExchangeRatePrevote, AggregateExchangeRateVote,
            DelegateFeedConsent, ChangeTokens, ChangeJailed, Halt
<1> QED BY <1>1, <1>2, <1>4, PTL DEF Spec, SlashDeserved

-----------------------------------------------------------------------------
(* The parts of a tally *)

Threshold(p, vs) == RoundInt(p.voteThreshold * (TotalBondedTokens(vs) \div PowerReduction))

Passed(p, vs) == PassingDenoms(OrganizeBallotByDenom(vs), DOMAIN tobinTaxes, Threshold(p, vs))

Reference(p, vs) == ReferenceTerra(OrganizeBallotByDenom(vs), Passed(p, vs))

\* The ballots that are tallied: all but the reference's as cross rates
Tallied(p, vs) ==
    [d \in Passed(p, vs) |->
        IF d = Reference(p, vs) THEN OrganizeBallotByDenom(vs)[d]
        ELSE ToCrossRate(OrganizeBallotByDenom(vs)[d], ToMap(OrganizeBallotByDenom(vs)[Reference(p, vs)]))]

WinsOf(p, vs, v) == {d \in Passed(p, vs) : v \in Winners(Tallied(p, vs)[d], p.rewardBand)}

\* What the tally says of targets, misses and panics, in terms of these.
LEMMA TallyParts ==
    ASSUME NEW p, NEW vs
    PROVE  /\ TallyOutcome(p, vs).panic =
                (\E d \in Passed(p, vs) : d # Reference(p, vs) /\ WeightedMedian(Tallied(p, vs)[d]) = 0)
           /\ TallyOutcome(p, vs).targets =
                RemainingTargets(OrganizeBallotByDenom(vs), DOMAIN tobinTaxes, Threshold(p, vs))
           /\ TallyOutcome(p, vs).missed =
                {v \in Claims(vs) : Cardinality(WinsOf(p, vs, v)) # Cardinality(TallyOutcome(p, vs).targets)}
<1> DEFINE t == TallyOutcome(p, vs)
<1>1. t.targets = RemainingTargets(OrganizeBallotByDenom(vs), DOMAIN tobinTaxes, Threshold(p, vs))
  BY DEF TallyOutcome, Threshold
<1>2. t.panic = (\E d \in Passed(p, vs) : d # Reference(p, vs) /\ WeightedMedian(Tallied(p, vs)[d]) = 0)
  BY Zenon DEF TallyOutcome, Threshold, Passed, Reference, Tallied
<1>3. t.missed = {v \in Claims(vs) : Cardinality(WinsOf(p, vs, v)) # Cardinality(t.targets)}
  BY Zenon DEF TallyOutcome, Threshold, Passed, Reference, Tallied, WinsOf
<1> QED BY <1>1, <1>2, <1>3

\* A vote counts for validators of the active set only, and an abstention has
\* no power (OrganizeBallotByDenom).
LEMMA VoteBallots ==
    ASSUME TypeOK, NEW vs \in [Validators -> Validator], NEW d \in DOMAIN OrganizeBallotByDenom(vs)
    PROVE  LET b == OrganizeBallotByDenom(vs)[d] IN
           /\ d \in Denoms /\ IsBallot(b)
           /\ DOMAIN b = {v \in DOMAIN votes \cap Claims(vs) : d \in DOMAIN votes[v].rates}
           /\ DOMAIN b # {} /\ DOMAIN b \subseteq Validators
           /\ \A v \in DOMAIN b :
                /\ b[v].rate = votes[v].rates[d] /\ votes[v].rates[d] \in Nat
                /\ b[v].power = IF votes[v].rates[d] > 0 THEN ConsensusPower(vs, v) ELSE 0
                /\ ConsensusPower(vs, v) \in Nat
<1> DEFINE b == OrganizeBallotByDenom(vs)[d]
           V == {v \in DOMAIN votes \cap Claims(vs) : d \in DOMAIN votes[v].rates}
<1>1. /\ d \in Denoms /\ V # {}
      /\ b = [v \in V |-> VoteForTally(votes[v].rates[d],
                             IF votes[v].rates[d] > 0 THEN ConsensusPower(vs, v) ELSE 0)]
  BY DEF OrganizeBallotByDenom
<1> HIDE DEF b
<1>2. DOMAIN b = V /\ V \subseteq Validators /\ IsFiniteSet(V)
  <2>1. V \subseteq Validators
    BY DEF Claims
  <2>2. IsFiniteSet(V)
    BY <2>1, OracleConstants, FS_Subset
  <2> QED BY <1>1, <2>1, <2>2
<1>3. ASSUME NEW v \in V
      PROVE  votes[v].rates[d] \in Nat /\ ConsensusPower(vs, v) \in Nat
  <2>1. votes[v].rates \in VoteChoices /\ d \in DOMAIN votes[v].rates
    BY DEF TypeOK
  <2>2. votes[v].rates[d] \in Nat
    BY <2>1, OracleConstants
  <2>3. vs[v].tokens \in Nat /\ PowerReduction \in Nat \ {0}
    BY <1>2, OracleConstants DEF Validator
  <2>4. vs[v].tokens \div PowerReduction \in Nat
    BY <2>3, DivMod
  <2> QED BY <2>2, <2>4 DEF ConsensusPower
<1>4. \A v \in V : /\ b[v].rate = votes[v].rates[d]
                   /\ b[v].power = IF votes[v].rates[d] > 0 THEN ConsensusPower(vs, v) ELSE 0
  BY <1>1 DEF VoteForTally
<1>5. IsBallot(b)
  BY <1>2, <1>3, <1>4 DEF IsBallot
<1> QED BY <1>1, <1>2, <1>3, <1>4, <1>5, ZenonT(30) DEF b

\* Of a tallied ballot only votes with a positive rate have power, and the
\* voters are those of the ballot.
LEMMA TalliedPower ==
    ASSUME TypeOK, NEW vs \in [Validators -> Validator], NEW p, NEW d \in Passed(p, vs)
    PROVE  /\ d \in DOMAIN OrganizeBallotByDenom(vs) /\ d \in Denoms
           /\ DOMAIN Tallied(p, vs)[d] = DOMAIN OrganizeBallotByDenom(vs)[d]
           /\ \A v \in DOMAIN Tallied(p, vs)[d] :
                /\ v \in DOMAIN votes /\ d \in DOMAIN votes[v].rates
                /\ Tallied(p, vs)[d][v].power \in Nat
                /\ Tallied(p, vs)[d][v].power # 0 => votes[v].rates[d] > 0
<1> DEFINE b == OrganizeBallotByDenom(vs)[d]
           bases == ToMap(OrganizeBallotByDenom(vs)[Reference(p, vs)])
<1>1. d \in DOMAIN OrganizeBallotByDenom(vs)
  BY DEF Passed, PassingDenoms
<1>2. Tallied(p, vs)[d] = IF d = Reference(p, vs) THEN b ELSE ToCrossRate(b, bases)
  BY DEF Tallied
<1>3. /\ d \in Denoms
      /\ \A v \in DOMAIN b :
           /\ v \in DOMAIN votes /\ d \in DOMAIN votes[v].rates
           /\ b[v].power \in Nat /\ b[v].rate \in Nat /\ b[v].rate = votes[v].rates[d]
           /\ b[v].power # 0 => votes[v].rates[d] > 0
  <2>1. d \in Denoms /\ IsBallot(b)
    BY <1>1, VoteBallots, Zenon
  <2>2. DOMAIN b = {v \in DOMAIN votes \cap Claims(vs) : d \in DOMAIN votes[v].rates}
    BY <1>1, VoteBallots, Zenon
  <2>3. \A v \in DOMAIN b :
            /\ b[v].rate = votes[v].rates[d]
            /\ b[v].power = IF votes[v].rates[d] > 0 THEN ConsensusPower(vs, v) ELSE 0
    BY <1>1, VoteBallots, Zenon
  <2> HIDE DEF b
  <2> QED BY <2>1, <2>2, <2>3 DEF IsBallot
<1> HIDE DEF b, bases
<1>4. ASSUME d # Reference(p, vs)
      PROVE  /\ DOMAIN Tallied(p, vs)[d] = DOMAIN b
             /\ \A v \in DOMAIN b : \/ Tallied(p, vs)[d][v].power = 0
                                    \/ Tallied(p, vs)[d][v].power = b[v].power
  BY <1>2, <1>4 DEF ToCrossRate, VoteForTally
<1>5. CASE d = Reference(p, vs)
  BY <1>1, <1>2, <1>3, <1>5 DEF b
<1>6. CASE d # Reference(p, vs)
  <2>1. 0 \in Nat
    OBVIOUS
  <2> QED BY ONLY <1>1, <1>3, <1>4, <1>6, <2>1, Zenon DEF b
<1> QED BY <1>5, <1>6

\* The weight of a claim is a natural number, and positive only for a
\* validator that revealed a positive rate.
LEMMA WeightFacts ==
    ASSUME TypeOK, NEW vs \in [Validators -> Validator], NEW p
    PROVE  LET w == TallyOutcome(p, vs).weight IN
           /\ w \in [Claims(vs) -> Nat]
           /\ \A v \in Claims(vs) : w[v] # 0 =>
                v \in DOMAIN votes /\ \E e \in DOMAIN votes[v].rates : votes[v].rates[e] > 0
<1> DEFINE w == TallyOutcome(p, vs).weight
           T == Tallied(p, vs)
<1>1. w = [v \in Claims(vs) |-> Total([d \in WinsOf(p, vs, v) |-> T[d][v].power])]
  BY Zenon DEF TallyOutcome, Threshold, Passed, Reference, Tallied, WinsOf
<1>2. ASSUME NEW v \in Claims(vs)
      PROVE  /\ w[v] \in Nat
             /\ w[v] # 0 => v \in DOMAIN votes /\ \E e \in DOMAIN votes[v].rates : votes[v].rates[e] > 0
  <2> DEFINE W == WinsOf(p, vs, v)
             f == [d \in W |-> T[d][v].power]
  <2>1. \A d \in W : d \in Passed(p, vs) /\ v \in DOMAIN T[d]
    BY DEF WinsOf, Winners
  <2>2. /\ \A d \in W : d \in Denoms /\ T[d][v].power \in Nat
        /\ \A d \in W : T[d][v].power # 0 =>
              v \in DOMAIN votes /\ d \in DOMAIN votes[v].rates /\ votes[v].rates[d] > 0
    BY <2>1, TalliedPower
  <2>3. IsFiniteSet(W)
    <3>1. W \subseteq Denoms
      BY ONLY <2>2
    <3> QED BY <3>1, OracleConstants, FS_Subset
  <2>4. f \in [W -> Nat] /\ f \in [W -> Int] /\ \A d \in W : f[d] = T[d][v].power
    BY ONLY <2>2
  <2>5. w[v] = Total(f)
    BY <1>1
  <2> HIDE DEF f, W
  <2>6. Total(f) \in Nat
    BY <2>3, <2>4, TotalNat
  <2>7. ASSUME w[v] # 0 PROVE \E d \in W : f[d] # 0
    BY <2>3, <2>4, <2>5, <2>7, TotalZero
  <2> QED BY <2>2, <2>4, <2>5, <2>6, <2>7
<1> QED BY <1>1, <1>2, Zenon

-----------------------------------------------------------------------------
(* Rewards *)

\* The rewards of a period are natural numbers, and there is none without
\* weight.
LEMMA RewardFacts ==
    ASSUME NEW p \in Params, NEW t, NEW C \in SUBSET Validators, t.weight \in [C -> Nat],
           \A d \in RewardDenoms : RewardPool(d) \in Nat,
           NEW v \in Validators, NEW d \in RewardDenoms
    PROVE  /\ Rewards(p, t)[v][d] \in Nat
           /\ Rewards(p, t)[v][d] # 0 => v \in C /\ t.weight[v] # 0
<1> DEFINE total == Total(t.weight)
           ratio == QuoInt64(NewDec(p.votePeriod), p.rewardDistributionWindow)
           period == IF d = Luna \/ d \in t.targets THEN DecMul(NewDec(RewardPool(d)), ratio) ELSE 0
           share == QuoInt64(NewDec(t.weight[v]), total)
<1>1. Rewards(p, t)[v][d] = IF v \in C /\ total # 0 THEN TruncateInt(DecMul(period, share)) ELSE 0
  <2>1. DOMAIN t.weight = C
    OBVIOUS
  <2> QED BY <2>1 DEF Rewards
<1>2. total \in Nat
  <2>1. IsFiniteSet(C)
    BY OracleConstants, FS_Subset
  <2> QED BY <2>1, TotalNat
<1>3. One \in Nat \ {0} /\ \A n \in Nat : NewDec(n) \in Nat
  BY OneAssumption DEF NewDec
<1>4. ratio \in Nat
  <2>1. p.votePeriod \in Nat /\ p.rewardDistributionWindow \in Nat \ {0}
    BY DEF Params
  <2>2. NewDec(p.votePeriod) \in Nat
    BY <1>3, <2>1
  <2>3. TruncDiv(NewDec(p.votePeriod), p.rewardDistributionWindow) \in 0..NewDec(p.votePeriod)
    BY <2>1, <2>2, TruncDivBounds
  <2> QED BY <2>2, <2>3 DEF QuoInt64
<1> HIDE DEF ratio
<1>5. period \in Nat
  <2>1. NewDec(RewardPool(d)) \in Nat
    BY <1>3
  <2> QED BY <1>4, <2>1, DecMulNat, Zenon
<1> HIDE DEF period, total
<1>6. CASE v \in C /\ total # 0
  <2>1. t.weight[v] \in Nat /\ NewDec(t.weight[v]) \in Nat
    BY <1>3, <1>6
  <2>2. TruncDiv(NewDec(t.weight[v]), total) \in 0..NewDec(t.weight[v])
    BY <1>2, <1>6, <2>1, TruncDivBounds
  <2>3. share \in Nat
    BY <2>1, <2>2 DEF QuoInt64
  <2>4. t.weight[v] = 0 => share = 0
    <3>1. t.weight[v] = 0 => NewDec(t.weight[v]) = 0
      BY <1>3 DEF NewDec
    <3> QED BY <2>2, <3>1 DEF QuoInt64
  <2> HIDE DEF share
  <2>5. DecMul(period, share) \in Nat
    BY <1>5, <2>3, DecMulNat
  <2>6. share = 0 => DecMul(period, share) = 0
    BY <1>5, <2>3, DecMulNat DEF DecMul
  <2>7. TruncDiv(DecMul(period, share), One) \in 0..DecMul(period, share)
    BY <1>3, <2>5, TruncDivBounds
  <2>8. TruncateInt(DecMul(period, share)) \in Nat /\ (share = 0 => TruncateInt(DecMul(period, share)) = 0)
    BY <2>5, <2>6, <2>7 DEF TruncateInt
  <2> QED BY <1>1, <1>6, <2>4, <2>8
<1>7. CASE ~(v \in C /\ total # 0)
  BY <1>1, <1>7
<1> QED BY <1>6, <1>7

\* The same of all the rewards together.
LEMMA RewardsType ==
    ASSUME NEW p \in Params, NEW t, NEW C \in SUBSET Validators, t.weight \in [C -> Nat],
           \A d \in RewardDenoms : RewardPool(d) \in Nat
    PROVE  \A v \in Validators, d \in RewardDenoms :
             /\ Rewards(p, t)[v][d] \in Nat
             /\ Rewards(p, t)[v][d] # 0 => v \in C /\ t.weight[v] # 0
BY RewardFacts, Zenon

\* The strengthening: what is paid and what is left are natural numbers.
PoolInv ==
    /\ TypeOK
    /\ paid \in [Validators -> [RewardDenoms -> Nat]]
    /\ \A d \in RewardDenoms : RewardPool(d) \in Nat

\* Nothing is paid at genesis.
LEMMA InitPoolInv == Init => PoolInv
<1> SUFFICES ASSUME Init PROVE PoolInv
  OBVIOUS
<1>1. TypeOK /\ paid = [v \in Validators |-> [d \in RewardDenoms |-> 0]]
  BY InitTypeOK DEF Init
<1>2. ASSUME NEW d \in RewardDenoms PROVE RewardPool(d) \in Nat
  <2> DEFINE f == [v \in Validators |-> paid[v][d]]
  <2>1. f \in [Validators -> Int] /\ \A v \in Validators : f[v] = 0
    BY <1>1
  <2> HIDE DEF f
  <2>2. Total(f) = 0
    BY <2>1, OracleConstants, TotalZero
  <2>3. InitPool[d] \in Nat
    BY OracleConstants
  <2> QED BY <2>2, <2>3 DEF RewardPool, f
<1> QED BY <1>1, <1>2 DEF PoolInv

\* The tally pays natural numbers, and no more than the pool has.
LEMMA EndBlockPays ==
    ASSUME PoolInv, NEW p \in ParamChoices \cup {params}, NEW vs \in StakingEndBlocker(val),
           EndBlock(p, vs), IsPeriodLastBlock(p.votePeriod)
    PROVE  /\ paid' \in [Validators -> [RewardDenoms -> Nat]]
           /\ \A d \in RewardDenoms : RewardPool(d)' \in Nat
           /\ \A v \in Validators, d \in RewardDenoms :
                /\ paid'[v][d] >= paid[v][d]
                /\ paid'[v][d] > paid[v][d] =>
                     v \in DOMAIN votes /\ \E e \in DOMAIN votes[v].rates : votes[v].rates[e] > 0
<1> USE OracleConstants
<1> DEFINE t == TallyOutcome(p, vs)
           r == Rewards(p, t)
<1>1. vs \in [Validators -> Validator] /\ TypeOK /\ p \in Params
  <2>1. val \in [Validators -> Validator] /\ height \in Nat /\ TypeOK /\ params \in Params
    BY DEF PoolInv, TypeOK, Validator
  <2> QED BY <2>1, StakingType
<1>2. /\ t.weight \in [Claims(vs) -> Nat] /\ Claims(vs) \in SUBSET Validators
      /\ \A v \in Claims(vs) : t.weight[v] # 0 =>
            v \in DOMAIN votes /\ \E e \in DOMAIN votes[v].rates : votes[v].rates[e] > 0
  BY <1>1, WeightFacts, Zenon DEF Claims
<1>3. /\ paid' = [v \in Validators |-> [d \in RewardDenoms |-> paid[v][d] + r[v][d]]]
      /\ ~Overspent(r)
  BY DEF EndBlock, EndBlockPanics
<1> HIDE DEF t
<1>4. \A v \in Validators, d \in RewardDenoms :
        r[v][d] \in Nat /\ (r[v][d] # 0 => v \in Claims(vs) /\ t.weight[v] # 0)
  <2>1. \A d \in RewardDenoms : RewardPool(d) \in Nat
    BY DEF PoolInv
  <2>2. p \in Params /\ t.weight \in [Claims(vs) -> Nat] /\ Claims(vs) \in SUBSET Validators
    BY <1>1, <1>2
  <2> QED BY ONLY <2>1, <2>2, RewardsType, Zenon
<1> HIDE DEF r
<1>5. \A v \in Validators, d \in RewardDenoms : paid[v][d] \in Nat
  BY DEF PoolInv
<1>6. paid' \in [Validators -> [RewardDenoms -> Nat]]
  BY <1>3, <1>4, <1>5
<1>7. ASSUME NEW d \in RewardDenoms PROVE RewardPool(d)' \in Nat
  <2> DEFINE f == [v \in Validators |-> paid[v][d]]
             g == [v \in Validators |-> r[v][d]]
             h == [v \in Validators |-> f[v] + g[v]]
  <2>1. f \in [Validators -> Int] /\ g \in [Validators -> Int]
    BY <1>4, <1>5
  <2>2. [v \in Validators |-> paid'[v][d]] = h
    BY <1>3
  <2>3. RewardPool(d) = InitPool[d] - Total(f) /\ RewardPool(d)' = InitPool[d] - Total(h)
    BY <2>2 DEF RewardPool
  <2>4. Total(g) <= RewardPool(d)
    <3>1. ~(Total(g) > RewardPool(d))
      BY <1>3 DEF Overspent
    <3>2. RewardPool(d) \in Nat
      BY DEF PoolInv
    <3> HIDE DEF g
    <3>3. Total(g) \in Int
      BY <2>1, TotalInt
    <3> QED BY <3>1, <3>2, <3>3
  <2> HIDE DEF f, g
  <2>5. Total(h) = Total(f) + Total(g)
    <3>1. IsFiniteSet(Validators)
      OBVIOUS
    <3> HIDE OracleConstants
    <3> QED BY <2>1, <3>1, TotalAdds
  <2>6. Total(f) \in Int /\ Total(g) \in Int /\ InitPool[d] \in Nat
    BY <2>1, TotalInt
  <2> HIDE DEF h
  <2> QED BY <2>3, <2>4, <2>5, <2>6
<1>8. ASSUME NEW v \in Validators, NEW d \in RewardDenoms
      PROVE  /\ paid'[v][d] >= paid[v][d]
             /\ paid'[v][d] > paid[v][d] =>
                  v \in DOMAIN votes /\ \E e \in DOMAIN votes[v].rates : votes[v].rates[e] > 0
  <2>1. paid'[v][d] = paid[v][d] + r[v][d]
    BY <1>3
  <2>2. paid'[v][d] >= paid[v][d] /\ (paid'[v][d] > paid[v][d] => r[v][d] # 0)
    BY <1>4, <1>5, <2>1
  <2> QED BY <1>2, <1>4, <2>2
<1> QED BY <1>6, <1>7, <1>8

\* Only the tally pays.
LEMMA NextPoolInv ==
    ASSUME PoolInv, [Next]_vars
    PROVE  /\ PoolInv'
           /\ \A v \in Validators, d \in RewardDenoms :
                /\ paid'[v][d] >= paid[v][d]
                /\ paid'[v][d] > paid[v][d] =>
                     v \in DOMAIN votes /\ \E e \in DOMAIN votes[v].rates : votes[v].rates[e] > 0
<1>1. TypeOK'
  BY NextTypeOK DEF PoolInv
<1>2. \A v \in Validators, d \in RewardDenoms : paid[v][d] \in Nat
  BY DEF PoolInv
<1>3. CASE UNCHANGED paid
  BY <1>1, <1>2, <1>3 DEF PoolInv, RewardPool
<1>4. ASSUME NEW p \in ParamChoices \cup {params}, NEW vs \in StakingEndBlocker(val),
             EndBlock(p, vs), IsPeriodLastBlock(p.votePeriod)
      PROVE  /\ PoolInv'
             /\ \A v \in Validators, d \in RewardDenoms :
                  /\ paid'[v][d] >= paid[v][d]
                  /\ paid'[v][d] > paid[v][d] =>
                       v \in DOMAIN votes /\ \E e \in DOMAIN votes[v].rates : votes[v].rates[e] > 0
  BY <1>1, <1>4, EndBlockPays DEF PoolInv
<1>5. \/ UNCHANGED paid
      \/ \E p \in ParamChoices \cup {params}, vs \in StakingEndBlocker(val) :
            EndBlock(p, vs) /\ IsPeriodLastBlock(p.votePeriod)
  BY ZenonT(30) DEF Next, vars, AggregateExchangeRatePrevote, AggregateExchangeRateVote,
         DelegateFeedConsent, ChangeTokens, ChangeJailed, Halt, EndBlock
<1> QED BY <1>3, <1>4, <1>5

\* Nobody loses rewards and nobody earns in a period without a positive vote
\* in it, for every set of validators, votes, parameters and pools
\* (RewardBallotWinners).
THEOREM RewardsEarned == Spec => AbstainersUnpaid
<1>1. Init => PoolInv
  BY InitPoolInv
<1>2. PoolInv /\ [Next]_vars => PoolInv'
  BY NextPoolInv
<1>3. PoolInv /\ [Next]_vars =>
        [\A v \in Validators, d \in RewardDenoms :
          /\ paid'[v][d] >= paid[v][d]
          /\ paid'[v][d] > paid[v][d] =>
                v \in DOMAIN votes /\ \E e \in DOMAIN votes[v].rates : votes[v].rates[e] > 0]_vars
  BY NextPoolInv
<1> QED BY <1>1, <1>2, <1>3, PTL DEF Spec, AbstainersUnpaid
=============================================================================
