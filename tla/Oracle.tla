------------------------------- MODULE Oracle -------------------------------
(***************************************************************************)
(* The oracle module (x/oracle): validators commit to exchange rates in    *)
(* one vote period (prevote), reveal them in the next (vote), and the      *)
(* EndBlocker of the last block of the period tallies the votes, counts    *)
(* misses, pays the winners, clears the ballots and, at the end of a slash *)
(* window, slashes and jails.                                              *)
(*                                                                         *)
(* A block is a number of transactions followed by EndBlock.  The SDK runs *)
(* the EndBlockers of gov (parameter changes) and staking (validator set)  *)
(* before the oracle's in the same block, so EndBlock is one step: it      *)
(* picks the parameters p governance leaves and the validator set vs       *)
(* staking leaves, and then does what the oracle does with them.  A        *)
(* transaction that fails changes nothing and is not a step.  A panic in   *)
(* an EndBlocker stops the chain: halted.                                  *)
(*                                                                         *)
(* Stores are functions whose domain is the set of stored keys.            *)
(***************************************************************************)
EXTENDS OracleBallot

CONSTANTS
    Validators,        \* operators of validators
    Denoms,            \* Terra denominations, numbered alphabetically from 1
    Feeders,           \* accounts a feed may be delegated to
    VoteChoices,       \* the exchange-rate lists a message may carry
    InitParams,        \* oracle parameters at genesis
    ParamChoices,      \* parameters governance may install
    InitTokens,        \* bonded tokens of each validator at genesis
    TokenChoices,      \* tokens a validator may be left with by delegations
    JailChoices,       \* validators that downtime may jail
    PowerReduction,    \* tokens per unit of consensus power
    MaxValidators,     \* size of the active set
    UnbondingBlocks,   \* blocks from leaving the active set to unbonded
    InitPool,          \* coins of the oracle account at genesis, by denom
    InitHeight,        \* first block
    MaxHeight          \* bound: the last block a behaviour executes

Luna == 0              \* core.MicroLunaDenom, as a reward denomination

RewardDenoms == Denoms \cup {Luna}

Statuses == {"bonded", "unbonding", "unbonded", "removed"}

\* What the validators of the single parameters (params.go) let through
Params == [votePeriod : Nat \ {0}, voteThreshold : 0..One, rewardBand : 0..One,
           rewardDistributionWindow : Nat \ {0}, slashFraction : 0..One,
           slashWindow : Nat \ {0}, minValidPerWindow : 0..One,
           whitelist : UNION {[S -> 0..One] : S \in SUBSET Denoms}]

\* What Params.Validate asks of the parameters together (at genesis only)
ValidParams(p) ==
    /\ p.votePeriod <= p.rewardDistributionWindow
    /\ p.votePeriod <= p.slashWindow

ASSUME OracleConstants ==
    /\ Denoms \subseteq Nat \ {0}
    /\ IsFiniteSet(Validators) /\ IsFiniteSet(Denoms)
    /\ \A r \in VoteChoices : DOMAIN r # {} /\ r \in [DOMAIN r -> Nat]
    /\ InitParams \in Params /\ ValidParams(InitParams)
    /\ ParamChoices \subseteq Params
    /\ InitTokens \in [Validators -> Nat]
    /\ TokenChoices \subseteq Nat
    /\ JailChoices \subseteq Validators
    /\ PowerReduction \in Nat \ {0}
    /\ MaxValidators \in Nat \ {0}
    /\ UnbondingBlocks \in Nat
    /\ InitPool \in [RewardDenoms -> Nat]
    /\ InitHeight \in Nat
    /\ MaxHeight \in Nat

VARIABLES
    height,            \* the block being executed
    halted,            \* an EndBlocker has panicked
    params,            \* oracle parameters
    val,               \* staking: status, jailed, tokens, start of unbonding
    feeder,            \* feeder delegations
    prevotes,          \* aggregate prevotes: committed rates, submit block
    votes,             \* aggregate votes: rates, and as history (read by no
                       \* action) the blocks of the prevote and of the reveal
    missCounter,       \* missed periods; 0 is no entry
    exchangeRates,     \* Luna exchange rates
    tobinTaxes,        \* tobin tax of each vote target
    paid               \* coins paid out of the oracle account, per validator

vars == <<height, halted, params, val, feeder, prevotes, votes, missCounter,
          exchangeRates, tobinTaxes, paid>>

-----------------------------------------------------------------------------
(* Stores *)

SetKey(store, k, x) ==
    [i \in DOMAIN store \cup {k} |-> IF i = k THEN x ELSE store[i]]

DeleteKeys(store, K) == [i \in DOMAIN store \ K |-> store[i]]

-----------------------------------------------------------------------------
(* Staking, as far as the oracle depends on it (external) *)

ConsensusPower(vs, v) == vs[v].tokens \div PowerReduction

Eligible(vs) ==
    {v \in Validators : /\ vs[v].status # "removed"
                        /\ ~vs[v].jailed
                        /\ ConsensusPower(vs, v) > 0}

\* The active sets staking may pick: the MaxValidators with most power
TopSets(vs) ==
    LET E == Eligible(vs)
        n == Min({MaxValidators, Cardinality(E)})
    IN  {B \in kSubset(n, E) :
            \A v \in B, w \in E \ B : ConsensusPower(vs, v) >= ConsensusPower(vs, w)}

\* A validator after the active set is B: those who leave start unbonding; one
\* that has waited is unbonded, and removed if no tokens are left
StatusUpdate(r, inSet) ==
    CASE inSet -> [r EXCEPT !.status = "bonded"]
      [] ~inSet /\ r.status = "bonded" ->
            [r EXCEPT !.status = "unbonding", !.since = height]
      [] ~inSet /\ r.status = "unbonding" /\ height >= r.since + UnbondingBlocks ->
            [r EXCEPT !.status = IF r.tokens = 0 THEN "removed" ELSE "unbonded"]
      [] OTHER -> r

StakingEndBlocker(vs) ==
    {[v \in Validators |-> StatusUpdate(vs[v], v \in B)] : B \in TopSets(vs)}

TotalBondedTokens(vs) ==
    Total([v \in {v \in Validators : vs[v].status = "bonded"} |-> vs[v].tokens])

-----------------------------------------------------------------------------
(* Transactions *)

\* Keeper.GetFeederDelegation and Keeper.ValidateFeeder
ValidateFeeder(f, v) ==
    /\ f = v \/ (v \in DOMAIN feeder /\ feeder[v] = f)
    /\ val[v].status = "bonded"

Running == ~halted /\ height <= MaxHeight

\* msgServer.AggregateExchangeRatePrevote.  The hash binds salt, rates and
\* validator, so it is modelled by the rates it commits v to.
AggregateExchangeRatePrevote(v, f, rates) ==
    /\ Running
    /\ ValidateFeeder(f, v)
    /\ prevotes' = SetKey(prevotes, v, [rates |-> rates, submit |-> height])
    /\ UNCHANGED <<height, halted, params, val, feeder, votes, missCounter,
                   exchangeRates, tobinTaxes, paid>>

\* Mutant: a reveal in the period of its prevote is accepted
RevealPeriodNotLater(submit) ==
    height \div params.votePeriod - submit \div params.votePeriod <= 1

\* The reveal is in the period after the prevote's.  The code subtracts
\* uint64 values: a prevote of a later period wraps to a large number, not 1.
RevealPeriodMatches(submit) ==
    height \div params.votePeriod - submit \div params.votePeriod = 1

\* msgServer.AggregateExchangeRateVote
AggregateExchangeRateVote(v, f, rates) ==
    /\ Running
    /\ ValidateFeeder(f, v)
    /\ v \in DOMAIN prevotes
    /\ RevealPeriodMatches(prevotes[v].submit)
    /\ DOMAIN rates \subseteq DOMAIN tobinTaxes
    /\ prevotes[v].rates = rates
    /\ votes' = SetKey(votes, v, [rates |-> rates, submit |-> prevotes[v].submit,
                                  reveal |-> height])
    /\ prevotes' = DeleteKeys(prevotes, {v})
    /\ UNCHANGED <<height, halted, params, val, feeder, missCounter,
                   exchangeRates, tobinTaxes, paid>>

\* msgServer.DelegateFeedConsent
DelegateFeedConsent(v, f) ==
    /\ Running
    /\ val[v].status # "removed"
    /\ feeder' = SetKey(feeder, v, f)
    /\ UNCHANGED <<height, halted, params, val, prevotes, votes, missCounter,
                   exchangeRates, tobinTaxes, paid>>

\* Staking: delegations leave v with n tokens; an unbonded validator without
\* tokens is removed (external)
ChangeTokens(v, n) ==
    /\ Running
    /\ val[v].status # "removed" /\ val[v].tokens # n
    /\ val' = [val EXCEPT ![v].tokens = n,
                          ![v].status = IF @ = "unbonded" /\ n = 0 THEN "removed" ELSE @]
    /\ UNCHANGED <<height, halted, params, feeder, prevotes, votes, missCounter,
                   exchangeRates, tobinTaxes, paid>>

\* Slashing: v is jailed for downtime or jailed no more.  Jailing happens in
\* BeginBlock, but no transaction of the oracle reads it (external)
ChangeJailed(v) ==
    /\ Running
    /\ val[v].jailed \/ val[v].status = "bonded"
    /\ val[v].status # "removed"
    /\ val' = [val EXCEPT ![v].jailed = ~@]
    /\ UNCHANGED <<height, halted, params, feeder, prevotes, votes, missCounter,
                   exchangeRates, tobinTaxes, paid>>

-----------------------------------------------------------------------------
(* EndBlocker *)

\* Mutant: off by one, the first block of the next period
IsPeriodFirstBlock(blocksPerPeriod) == height % blocksPerPeriod = 0

IsPeriodLastBlock(blocksPerPeriod) == (height + 1) % blocksPerPeriod = 0

\* Mutant: "Exclude not bonded validator" is left out
ClaimsNotBonded(vs) == {v \in Validators : ~vs[v].jailed}

\* The claim map: the validators of the active set (the power index holds no
\* jailed validator)
Claims(vs) == {v \in Validators : vs[v].status = "bonded" /\ ~vs[v].jailed}

\* Mutant: abstentions keep the power of their voter
OrganizeWithAbstentions(vs) ==
    LET Voters(d) == {v \in DOMAIN votes \cap Claims(vs) : d \in DOMAIN votes[v].rates}
    IN  [d \in {e \in Denoms : Voters(e) # {}} |->
            [v \in Voters(d) |-> VoteForTally(votes[v].rates[d], ConsensusPower(vs, v))]]

\* Keeper.OrganizeBallotByDenom: votes of validators without a claim are
\* left out, abstentions have no power
OrganizeBallotByDenom(vs) ==
    LET Voters(d) == {v \in DOMAIN votes \cap Claims(vs) : d \in DOMAIN votes[v].rates}
    IN  [d \in {e \in Denoms : Voters(e) # {}} |->
            [v \in Voters(d) |->
                VoteForTally(votes[v].rates[d],
                             IF votes[v].rates[d] > 0 THEN ConsensusPower(vs, v) ELSE 0)]]

\* The tally of a period: exchange rates, targets that are left, weights and
\* misses of the claims; panics when a cross rate's median is zero
TallyOutcome(p, vs) ==
    LET voteMap   == OrganizeBallotByDenom(vs)
        threshold == RoundInt(p.voteThreshold * (TotalBondedTokens(vs) \div PowerReduction))
        passing   == PassingDenoms(voteMap, DOMAIN tobinTaxes, threshold)
        targets   == RemainingTargets(voteMap, DOMAIN tobinTaxes, threshold)
        reference == ReferenceTerra(voteMap, passing)
        bases     == ToMap(voteMap[reference])
        ballots   == [d \in passing |-> IF d = reference THEN voteMap[d]
                                        ELSE ToCrossRate(voteMap[d], bases)]
        medians   == [d \in passing |-> WeightedMedian(ballots[d])]
        winners   == [d \in passing |-> Winners(ballots[d], p.rewardBand)]
        Wins(v)   == {d \in passing : v \in winners[d]}
    IN  [panic   |-> \E d \in passing : d # reference /\ medians[d] = 0,
         rates   |-> [d \in passing |->
                        IF d = reference \/ medians[d] = 0 THEN medians[d]
                        ELSE DecQuo(medians[reference], medians[d])],
         targets |-> targets,
         weight  |-> [v \in Claims(vs) |->
                        Total([d \in Wins(v) |-> ballots[d][v].power])],
         missed  |-> {v \in Claims(vs) : Cardinality(Wins(v)) # Cardinality(targets)}]

\* Keeper.GetRewardPool: what is left of the oracle account
RewardPool(d) == InitPool[d] - Total([v \in Validators |-> paid[v][d]])

\* Keeper.RewardBallotWinners: the coins of each claim
Rewards(p, t) ==
    LET total  == Total(t.weight)
        ratio  == QuoInt64(NewDec(p.votePeriod), p.rewardDistributionWindow)
        Period(d) == IF d = Luna \/ d \in t.targets
                     THEN DecMul(NewDec(RewardPool(d)), ratio) ELSE 0
        Share(v)  == QuoInt64(NewDec(t.weight[v]), total)
    IN  [v \in Validators |-> [d \in RewardDenoms |->
            IF v \in DOMAIN t.weight /\ total # 0
            THEN TruncateInt(DecMul(Period(d), Share(v)))
            ELSE 0]]

\* SendCoinsFromModuleToModule fails, and the EndBlocker panics
Overspent(rewards) ==
    \E d \in RewardDenoms :
        Total([v \in Validators |-> rewards[v][d]]) > RewardPool(d)

\* Mutant: a prevote stays for one period more
ClearPrevotesLate(p) ==
    DeleteKeys(prevotes, {v \in DOMAIN prevotes : height > prevotes[v].submit + 2 * p.votePeriod})

\* Keeper.ClearBallots: the prevotes that stay
ClearPrevotes(p) ==
    DeleteKeys(prevotes, {v \in DOMAIN prevotes : height > prevotes[v].submit + p.votePeriod})

\* Mutant: a changed tobin tax requires no update
ApplyWhitelistNames(p, targets) ==
    IF \/ Cardinality(targets) # Cardinality(DOMAIN p.whitelist)
       \/ \E d \in DOMAIN p.whitelist : d \notin targets
    THEN p.whitelist
    ELSE tobinTaxes

\* Keeper.ApplyWhitelist.  The targets it compares are the ones that
\* PickReferenceTerra has left, not the stored ones.
ApplyWhitelist(p, targets) ==
    IF \/ Cardinality(targets) # Cardinality(DOMAIN p.whitelist)
       \/ \E d \in DOMAIN p.whitelist : d \notin targets \/ tobinTaxes[d] # p.whitelist[d]
    THEN p.whitelist
    ELSE tobinTaxes

CountMisses(t) ==
    [v \in Validators |-> missCounter[v] + IF v \in t.missed THEN 1 ELSE 0]

\* Keeper.SlashAndResetMissCounters
VotePeriodsPerWindow(p) == p.slashWindow \div p.votePeriod

\* Mutant: a rate equal to the minimum is penalised too
NotAboveMinValid(p, misses) ==
    {v \in Validators :
        /\ misses[v] > 0
        /\ QuoInt64(NewDec(VotePeriodsPerWindow(p) - misses[v]), VotePeriodsPerWindow(p))
              <= p.minValidPerWindow}

BelowMinValid(p, misses) ==
    {v \in Validators :
        /\ misses[v] > 0
        /\ QuoInt64(NewDec(VotePeriodsPerWindow(p) - misses[v]), VotePeriodsPerWindow(p))
              < p.minValidPerWindow}

\* It panics on a window without periods or on a validator staking forgot
SlashPanics(p, vs, misses) ==
    /\ \E v \in Validators : misses[v] > 0
    /\ \/ VotePeriodsPerWindow(p) = 0
       \/ \E v \in BelowMinValid(p, misses) : vs[v].status = "removed"

\* Mutant: the decimal of the slash fraction is taken for a number
SlashUnscaled(p, vs, misses) ==
    LET slashed == BelowMinValid(p, misses) \cap Claims(vs)
    IN  [v \in Validators |->
            IF v \in slashed
            THEN [vs[v] EXCEPT !.jailed = TRUE,
                               !.tokens = @ - p.slashFraction * ConsensusPower(vs, v)]
            ELSE vs[v]]

SlashAndJail(p, vs, misses) ==
    LET slashed == BelowMinValid(p, misses) \cap Claims(vs)
        Burned(v) == TruncateInt(p.slashFraction * ConsensusPower(vs, v) * PowerReduction)
    IN  [v \in Validators |->
            IF v \in slashed
            THEN [vs[v] EXCEPT !.jailed = TRUE, !.tokens = @ - Burned(v)]
            ELSE vs[v]]

\* Everything the oracle's EndBlocker derives before it writes
Misses(p, t) == IF IsPeriodLastBlock(p.votePeriod) THEN CountMisses(t) ELSE missCounter

EndBlockPanics(p, vs, t) ==
    \/ /\ IsPeriodLastBlock(p.votePeriod)
       /\ t.panic \/ Overspent(Rewards(p, t))
    \/ /\ IsPeriodLastBlock(p.slashWindow)
       /\ SlashPanics(p, vs, Misses(p, t))

\* The chain stops: the block is never committed
Halt(p, vs) ==
    /\ Running
    /\ EndBlockPanics(p, vs, TallyOutcome(p, vs))
    /\ halted' = TRUE
    /\ UNCHANGED <<height, params, val, feeder, prevotes, votes, missCounter,
                   exchangeRates, tobinTaxes, paid>>

EndBlock(p, vs) ==
    LET t == TallyOutcome(p, vs) IN
    /\ Running
    /\ ~EndBlockPanics(p, vs, t)
    /\ height' = height + 1
    /\ params' = p
    /\ IF IsPeriodLastBlock(p.votePeriod)
       THEN /\ exchangeRates' = t.rates
            /\ paid' = LET r == Rewards(p, t) IN
                       [v \in Validators |-> [d \in RewardDenoms |-> paid[v][d] + r[v][d]]]
            /\ prevotes' = ClearPrevotes(p)
            /\ votes' = DeleteKeys(votes, DOMAIN votes)
            /\ tobinTaxes' = ApplyWhitelist(p, t.targets)
       ELSE UNCHANGED <<exchangeRates, paid, prevotes, votes, tobinTaxes>>
    /\ IF IsPeriodLastBlock(p.slashWindow)
       THEN /\ missCounter' = [v \in Validators |-> 0]
            /\ val' = SlashAndJail(p, vs, Misses(p, t))
       ELSE /\ missCounter' = Misses(p, t)
            /\ val' = vs
    /\ UNCHANGED <<halted, feeder>>

-----------------------------------------------------------------------------
\* InitGenesis with no imported votes: the targets are the whitelist; staking
\* has picked the first active set
Init ==
    /\ height = InitHeight
    /\ halted = FALSE
    /\ params = InitParams
    /\ val \in StakingEndBlocker([v \in Validators |->
                [status |-> "unbonded", jailed |-> FALSE, tokens |-> InitTokens[v],
                 since |-> 0]])
    /\ feeder = [v \in {} |-> v]
    /\ prevotes = [v \in {} |-> v]
    /\ votes = [v \in {} |-> v]
    /\ missCounter = [v \in Validators |-> 0]
    /\ exchangeRates = [d \in {} |-> 0]
    /\ tobinTaxes = InitParams.whitelist
    /\ paid = [v \in Validators |-> [d \in RewardDenoms |-> 0]]

Next ==
    \/ \E v \in Validators, f \in Validators \cup Feeders, rates \in VoteChoices :
          \/ AggregateExchangeRatePrevote(v, f, rates)
          \/ AggregateExchangeRateVote(v, f, rates)
    \/ \E v \in Validators, f \in Feeders : DelegateFeedConsent(v, f)
    \/ \E v \in Validators, n \in TokenChoices : ChangeTokens(v, n)
    \/ \E v \in JailChoices : ChangeJailed(v)
    \/ \E p \in ParamChoices \cup {params}, vs \in StakingEndBlocker(val) :
          Halt(p, vs) \/ EndBlock(p, vs)

Spec == Init /\ [][Next]_vars

-----------------------------------------------------------------------------
(* Properties *)

\* Every variable has its type: stores hold keys of their kind, counters and
\* tokens are naturals (a slash never leaves negative tokens).
TypeOK ==
    /\ height \in Nat
    /\ halted \in BOOLEAN
    /\ params \in Params
    /\ val \in [Validators -> [status : Statuses, jailed : BOOLEAN,
                               tokens : Nat, since : Nat]]
    /\ DOMAIN feeder \subseteq Validators /\ feeder \in [DOMAIN feeder -> Feeders]
    /\ DOMAIN prevotes \subseteq Validators
    /\ prevotes \in [DOMAIN prevotes -> [rates : VoteChoices, submit : Nat]]
    /\ DOMAIN votes \subseteq Validators
    /\ votes \in [DOMAIN votes -> [rates : VoteChoices, submit : Nat, reveal : Nat]]
    /\ missCounter \in [Validators -> Nat]
    /\ DOMAIN exchangeRates \subseteq Denoms
    /\ DOMAIN tobinTaxes \subseteq Denoms
    /\ tobinTaxes \in [DOMAIN tobinTaxes -> 0..One]
    /\ DOMAIN paid = Validators
    /\ \A v \in Validators : DOMAIN paid[v] = RewardDenoms

\* Commit before reveal: of the votes that will be tallied together, each was
\* committed to (its prevote stored) before the first of them was revealed, so
\* nobody copies a vote of the same tally (msg_server.go, the reveal period
\* check together with the clearing of votes at the end of the period).
CommitBeforeReveal ==
    \A v, w \in DOMAIN votes : votes[v].submit < votes[w].reveal

\* A prevote that is not revealed does not stay: it is cleared at the latest
\* at the end of the second period after its own (ClearBallots).
PrevoteLifetime ==
    \A v \in DOMAIN prevotes : height <= prevotes[v].submit + 2 * params.votePeriod

\* The uint64 difference votePeriodsPerWindow - missCounter of the slashing
\* never wraps: no validator has more misses than periods that have ended
\* in the current slash window.
MissesWithinWindow ==
    \A v \in Validators : missCounter[v] * params.votePeriod <= height % params.slashWindow

\* No EndBlocker panics: no division by a zero cross rate, no overspent reward
\* pool, no window without periods, no slash of a validator staking removed.
NeverHalts == ~halted

\* The votes of v on every target are abstentions, or rates that no other
\* vote of the period contradicts
Faithful(v) ==
    /\ v \in DOMAIN votes
    /\ DOMAIN votes[v].rates = DOMAIN tobinTaxes
    /\ \A d \in DOMAIN votes[v].rates :
          \/ votes[v].rates[d] = 0
          \/ \A w \in DOMAIN votes :
                d \in DOMAIN votes[w].rates => votes[w].rates[d] \in {0, votes[v].rates[d]}

\* A validator that abstains, or votes what all others vote, on every target
\* is never charged a miss: not by failed ballots, cross rates, the choice of
\* the reference or the deviation of the abstentions (abci.go, WinCount).
FaithfulNotMissed ==
    [][\A v \in Validators : Faithful(v) => missCounter'[v] <= missCounter[v]]_vars

\* Each tally leaves every whitelisted denomination a vote target with the
\* tobin tax of the whitelist (ApplyWhitelist), whatever ballots failed.
WhitelistCovered ==
    [][height' # height /\ IsPeriodLastBlock(params'.votePeriod) =>
          \A d \in DOMAIN params'.whitelist :
              d \in DOMAIN tobinTaxes' /\ tobinTaxes'[d] = params'.whitelist[d]]_vars

\* Nobody loses rewards, and a validator earns in a period only when it has
\* revealed a positive rate in it: abstaining absolves of penalties but
\* "disqualif[ies] from receiving Oracle seigniorage rewards".
AbstainersUnpaid ==
    [][\A v \in Validators, d \in RewardDenoms :
          /\ paid'[v][d] >= paid[v][d]
          /\ paid'[v][d] > paid[v][d] =>
                v \in DOMAIN votes /\ \E e \in DOMAIN votes[v].rates : votes[v].rates[e] > 0]_vars

\* The vote periods that ended in the slash window that ends with this block
PeriodsEnded(p) ==
    Cardinality({h \in (height + 1 - p.slashWindow)..height : (h + 1) % p.votePeriod = 0})

\* The oracle jails only validators whose share of valid periods, among those
\* that ended in the window, is below MinValidPerWindow (slash.go); the
\* period that ends with the window is counted against the validator.
SlashDeserved ==
    [][\A v \in Validators :
          height' # height /\ ~val[v].jailed /\ val'[v].jailed =>
             One * (PeriodsEnded(params') - (missCounter[v] + 1))
                < params'.minValidPerWindow * PeriodsEnded(params')]_vars

\* After each tally the vote targets are the whitelist: "ApplyWhitelist update
\* vote target denom list and set tobin tax with params whitelist".
WhitelistExact ==
    [][height' # height /\ IsPeriodLastBlock(params'.votePeriod) =>
          tobinTaxes' = params'.whitelist]_vars
=============================================================================
