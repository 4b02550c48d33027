# Terra Classic core: a TLA+ verification project

The repository is a Cosmos SDK chain (`terrad`). Its own modules are an oracle
for Luna exchange rates, a market, a treasury, dynamic commissions and vesting,
joined by ante and post handlers. Each of them is modelled here; TLC checks
small instances and TLAPS proves the main properties for all constants.

## The system and its parts

| Part | Source | Modules |
|---|---|---|
| oracle: votes, tally, rewards, slashing | `x/oracle` | `Oracle`, `OracleBallot`, `PickReference`, `MedianLoop`, `TallyLoops` |
| market: swaps, virtual pool | `x/market` | `InternalSwap`, `Market` |
| treasury: taxes, levers, caps, burn account | `x/treasury` | `RatePolicy`, `Treasury` |
| fees and taxes, spamming prevention | `custom/auth/ante` | `FeeTax` (with `Treasury`) |
| dynamic commission | `x/dyncomm`, `custom/auth/post` | `Dyncomm` |
| vesting | `x/vesting` | `Vesting` |

The oracle writes the exchange rates and tobin taxes that the market reads; the
market's fees fill the account the oracle pays from; the ante handler records
taxes in the treasury and fills its burn account; the treasury reads the
oracle's whitelist and converts tax caps through the market. A panic in an
EndBlocker stops the chain. A failed transaction is rolled back, except for the
writes of the ante handler.

## Modules

- `Dec`: the fixed-point decimals of the SDK (external): rounding and
  truncating division on integers scaled by `One`. Their bit width is left out.
  `Sums`: the loops that add something up, as the total of a function.
- `OracleBallot`: ballots as functions from voters to rate and power; weighted
  median, standard deviation, winners, cross rates, choice of the reference.
- `Oracle`: the state of the module and of staking as far as the oracle uses it.
  Actions: `AggregateExchangeRatePrevote`, `AggregateExchangeRateVote`,
  `DelegateFeedConsent` (`msg_server.go`); `ChangeTokens`, `ChangeJailed`
  (external, staking and slashing); `EndBlock`, the end of a block with its
  parameter change, its active set and the whole `EndBlocker`; `Halt`, the same
  when it panics. A hash commits to its rates, so a prevote stores the rates.
  `votes` also records, as history, when a vote was committed and revealed.
- `PickReference`: the loop over Go's randomly ordered map, one ballot a step.
  `MedianLoop`: the loop of `WeightedMedian` over a ballot sorted by an unstable
  sort, one vote a step. `TallyLoops` composes them as the EndBlocker does: the
  second loop runs on the ballot that the first has picked.
- `InternalSwap`: `ComputeInternalSwap`, shared by market and treasury: the
  amount, whether there is one, and the division by a rate of zero, which fails
  a swap transaction and stops the chain in an EndBlocker.
- `Market`: balances, the pool delta and the rates. `Swap` is a whole swap
  transaction (`Swap` and `SwapSend`): spread, pool, burn, mint, fee. `EndBlock`
  lets the oracle change the rates and then replenishes the pool.
- `RatePolicy`: the abstract specification of a monetary lever. `Treasury`
  implements it twice, for the tax rate and the reward weight. `EndBlock` is
  the whole EndBlocker: burn account, indicators, probation, policies, caps and
  the deferred record of the issuance; `Halt` is its panic. `Tally`, `Trade` and
  `ChangePolicy` are what happens around it; `epochBurned` is history.
- `FeeTax` extends `Treasury` with the ante handler and the mempool of one node:
  `CheckTx` (with the maps of the spamming prevention, which stay marked when a
  later check refuses), `DeliverTx`, `FailTx`, `GovEndBlock` (exemption list and
  policies), `CommitBlock` (treasury EndBlocker, recheck, fee distribution) and
  `Restart`, which loses mempool and maps and checks at height 0 until the next
  commit. `taxed` is history.
- `Dyncomm`: `EditValidator` is ante check, staking message and post handler in
  one transaction, `CreateValidator` likewise; both may be nested in an
  `authz.MsgExec`, which the handlers do not open. `EndBlock` settles the bonded
  set and updates the rates at the end of a week. `RestartFromGenesis` exports
  and imports. `RemoveValidator`, `ChangePower`, `ChangeParams` are external.
- `Vesting`: one account, one denomination. `Send`, `Delegate`, `Undelegate`,
  `Slash` and `Tick`; what is locked is computed as the account does.
- `MC*`: constants for TLC.
- `NumberLemmas` (periods, decimals, totals) and `*Proofs`: the proofs. Those of
  `Oracle` are in two modules: `OracleTallyProofs` extends `OracleProofs` with
  what depends on medians and cross rates. `TreasuryProofs` has those of
  `FeeTax` too.

## Runs

Decimals have two places (three in `Vesting`). Behaviours end at the bounds on
heights, swaps and taxes, so most runs do not check deadlock.

| Run | Properties | Bounds |
|---|---|---|
| `OracleVoting` | `TypeOK`, `CommitBeforeReveal`, `PrevoteLifetime` | 2 validators, 1 feeder, blocks 1 to 6, periods of 2: three tallies |
| `OracleTally` | `NeverHalts`, `FaithfulNotMissed`, `AbstainersUnpaid` | 3 equal validators, 2 denominations, threshold 67%, one period of commits and its tally |
| `OracleSlashing` | `NeverHalts`, `MissesWithinWindow`, `SlashDeserved` | 2 validators for 1 place, periods of 1 and windows of 4 blocks, unbonding of 4, blocks 1 to 8 |
| `OracleGovernance` | `WhitelistCovered` | 2 validators, 2 denominations, whitelist and tax changes, blocks 1 to 4 |
| `TallyLoops` | `OrderFree`, `MedianAgrees`, `MedianPositive` | ballots on up to 3 denominations with ties, or one ballot of up to 4 votes |
| `Market` | `TypeOK`, `PoolPositive`, `NoValueCreated`, `PoolRecovers`, `PoolSettles` | Luna, SDR and a third denomination whose rate moves or vanishes, 2 traders, 2 swaps of up to four pools' worth, any number of blocks |
| `Treasury` | `TaxLeverKept`, `RewardLeverKept`, `RunsOnPositiveRates`, `IssuanceTracked` | blocks 1 to 3 in epochs of 2, the first epoch in probation, windows of 2 and 3 epochs; 2 policies for each lever, whose bounds do not overlap for the reward weight; rates (zero among them), stake and supply change |
| `FeeTax` | `TaxesCountedOnce`, `FeeCoversBurn`, `FreeOncePerHeight` | 4 transactions, blocks 1 to 3 in epochs of 2, check states at heights 0 to 2, restarts at any time |
| `Dyncomm` | `TypeOK`, `RateWithinMax`, `IntentRestored` | 2 validators with shares of power from 3% to 97%, 2 parameter sets, weeks of 2 blocks without end |
| `Vesting` | `VestingBacked`, `VestedOnlyGrows`, `ExcessBounded`, `FreeInTheEnd` | 7 lists of schedules, of which `Validate` refuses three; 2 amounts, 2 balances, 6 seconds |

In `OracleTally` validators may rate one denomination and abstain on or leave
out the other, so that passing ballots share only some of their voters: the
case in which a cross rate could become zero.

What `NeverHalts` shows is limited by two choices. `OracleTally` uses a
threshold of 67%: at the default 50% the property fails (`OracleHalf`).
`OracleSlashing` has an unbonding time as long as the slash window. Validators
are removed in it, but none that still has misses. With an unbonding time of 0
or 1 block the same instance violates `NeverHalts`: a validator is removed
before its window ends and `SlashAndResetMissCounters` calls a method of the
validator that is not there; from 2 blocks on it holds. The default window is a
week; the unbonding time is a parameter of staking, outside this repository.

`PoolPositive` holds while an offer is not enormous against the pool. What a
swap leaves in the pool is about `cp` over the offer, and the rounding of the
spread to one decimal can cost half a unit of it times the offer; so it needs,
roughly, an offer (in SDR) with a square below `2 * One * cp`. The instance is
well within that, and so is the chain with 18 decimals; `OffersFit` in
`MarketProofs` is the exact condition of the proof. It also needs constant
parameters: a smaller `BasePool` could make the pool negative at once.

The treasury's EndBlocker can panic in three places. `UpdateRewardPolicy`
divides by the share of the seigniorage in the mining rewards, which may round
to zero. `alignCoins` and `UpdateTaxCap` divide by a rate of the oracle
(`x/market/keeper/swap.go:151`), and the oracle stores a rate of zero as it
stores any other (`x/oracle/abci.go:83`, `x/oracle/genesis.go:30`).
`EndBlockPanics` has all three. `RunsOnPositiveRates` says that positive rates
are enough to keep the chain running. That is so while the taxes of a window
are less than about `One` times the least seigniorage there can be; the
instance keeps to it, which `MCTreasury` states as an assumption that TLC
evaluates. TLC reaches the panics at a rate of zero.

In `FeeTax` a restart loses the marks of the mempool and takes the check state
back to height 0; without one, the marks of an earlier height are still there
when the check state moves on. Its taxes are in SDR, so no cap of a denomination
is stored, and governance changes the exemptions but not the policies, of which
there is one for each lever. One transaction pays taxes (a transfer of two
amounts, and a call of a contract inside an `authz.MsgExec`); the others are
votes and prevotes, with and without a fee and from the wrong feeder.

`FeeCoversBurn` is stated for taxes and fees in one denomination, as in the
instance. With several, `IsAnyGTE` accepts a fee that covers the requirement in
one of them, and the burn of the others comes from what other transactions
have paid into the fee collector, or fails. Delivery itself does not repeat the
comparison of fee and tax: the property holds for transactions that an honest
mempool rechecks. `TaxesCountedOnce` is stated for SDR, which needs no rate.

`OracleWhitelist` and `OracleHalf` find the code and the text beside it in
disagreement:

| Run | Property | What happens |
|---|---|---|
| `OracleWhitelist` | `WhitelistExact` | a removed denomination whose ballot fails stays a target |
| `OracleHalf` | `NeverHalts` | two ballots at 50% without a common voter: division by zero |

### Fairness

Two runs check liveness. `PoolSettles` assumes weak fairness of `EndBlock` and
`FreeInTheEnd` of `Tick`: consensus goes on making blocks, and block time goes
on. Nothing is assumed of traders, validators or account owners. `PoolSettles`
needs the bound on swaps: it says what happens once trading stops.

### Other observations

Met while modelling and not kept as runs. The first four were found by TLC on
small instances of `Oracle`, with the values given:

- `CommitBeforeReveal` fails when `VotePeriod` changes (from 2 to 3) between a
  commit and its reveal: the reveal check uses the period of the moment.
- `SlashDeserved` fails when the slash window (7) is no multiple of the period
  (2): `votePeriodsPerWindow` truncates and a period is not counted.
- When all ballots of a period fail, a validator without a vote is charged no
  miss, although `x/oracle/spec/01_concepts.md:46` counts silence as a miss.
- `NeverHalts` fails when a parameter change leaves `RewardDistributionWindow`
  (1) below `VotePeriod` (2): parameters are validated one by one.
- `ClearBallots` keeps an unrevealed prevote of the last block of a period
  through the next tally, although it can no longer be revealed
  (`x/oracle/spec/03_end_block.md:33`). `PrevoteLifetime` bounds how long.
- `x/treasury/spec/03_end_block.md:117` applies the bounds before the change
  limit, the code after it. The order of the document is the mutant
  `ClampBoundsFirst`, which breaks `RatePolicy`. Line 71 of it has `S_m / R_m`
  where the code divides by that share, and the comment at
  `x/treasury/keeper/policy.go:30` adds the increment that the code multiplies.
- The comment at `x/dyncomm/genesis.go:29` says that the exported genesis "can
  be imported again"; `InitGenesis` does not read the exported rates, so a
  commission held up by the minimum becomes the new target.
- The dyncomm handlers look at top-level messages only: an edit inside an
  `authz.MsgExec` may set a rate below the minimum until the week ends. A
  validator created that way has no target of its own: the next update gives it
  the target that a removed validator of the same address left in the store, or
  zero. TLC finds a commission above the maximum there: `RateWithinMax` fails
  when it is stated for validators created that way, too.
- Schedules whose ratios add up to slightly more than one pass `Validate`. At
  the end more coins than the original ones have vested, `OriginalVesting.Sub`
  panics and the account can neither send nor delegate. `ExcessBounded` bounds
  the excess; for the 9 digits of the code it can matter for amounts from 10^9.

## Proofs

TLAPS proves the following for every value of the constants that the named
assumptions of the modules allow (`OneAssumption`, `FloatUnitAssumption` and
`*Constants`): any precision, any finite number of validators, traders or
epochs, any parameters that validation lets pass. A hypothesis beyond these
stands in the theorem, such as the positive base pool of `PoolNotUsedUp`:
validation lets a `BasePool` of zero pass, and then every swap through the pool
fails.

Oracle (`OracleProofs`, and the last three in `OracleTallyProofs`):

| Theorem | Shows | Beyond the constants |
|---|---|---|
| `TypeCorrect` | `TypeOK` | |
| `CommitReveal` | `CommitBeforeReveal` | `VotePeriod` is fixed |
| `PrevotesCleared` | `PrevoteLifetime` | `VotePeriod` is fixed |
| `MissesBounded` | `MissesWithinWindow` | `FixedWindows` |
| `SlashesDeserved` | `SlashDeserved` | `FixedWindows` |
| `WhitelistApplied` | `WhitelistCovered` | |
| `RewardsEarned` | `AbstainersUnpaid` | |
| `ChainKeepsRunning` | `NeverHalts` | see below |
| `FaithfulUncharged` | `FaithfulNotMissed` | `BallotsMeet`, `BallotsWeigh` |
| `MajoritiesTally` | `NeverHalts`, `FaithfulNotMissed` | as the two above, with `ThresholdAboveHalf` for the ballots |

- `CommitInv` adds to `CommitBeforeReveal`, which is not inductive alone, that
  stored votes were revealed in the current period from prevotes of the period
  before. `PrevoteInv` bounds a prevote by the start of its period.
- `FixedWindows`: no parameter change touches the period or the slash window,
  and a window consists of whole periods. Without it the properties fail (see
  the observations above).
- `PoolInv`: what is paid and what is left in the pool are natural numbers. The
  shares of the winners are rounded one by one and may add up to more than one;
  that their sum stays within the pool is `PaymentsWithinPool`, for fewer than
  `2 * One` validators.
- `ChainKeepsRunning` rests on `LiveInv`: `MissInv`, `PoolInv` and
  `CountersCurrent` (a validator that staking has unbonded or removed has no
  misses, one that is unbonding has misses of this window only). Its hypotheses
  are the cases in which the EndBlocker does panic: windows that change, an
  unbonding time below a slash window, a distribution window below the period,
  two rates of one vote whose quotient rounds to zero (`CrossRatesPositive`),
  and ballots that pass without common voters. `BallotsMeet` excludes the last:
  two ballots that pass share voters with two units of power. `MajoritiesMeet`
  derives it from a threshold above one half; at the default of one half
  `OracleHalf` shows the panic. `BallotsWeigh` asks two units of each passing
  ballot, as the median of a ballot with one unit can be the zero of an
  abstention. The instances of `OracleTally` and, for one denomination,
  `OracleSlashing` satisfy these hypotheses.

The two loops (`TallyLoopsProofs`):

- `TallyDeterministic`: `OrderFree`. `LoopInv` relates the variables of the loop
  to the ballots already visited.
- `MedianComputed`, `MedianIsARate`: `MedianAgrees` and `MedianPositive`.
  `MedianInv`: the pivot is the power of the votes seen, none of which has a
  higher rate than one to come.

Market (`MarketProofs`):

- `MarketTypeCorrect`: `TypeOK`, so no balance becomes negative. The work is in
  the fee: the cut decimals are not negative, so neither is what is minted.
- `PoolNeverOvershoots`: `PoolRecovers`, from the bounds of truncating division.
- `PoolNeverStalls`: the end of a block brings a pool that is not settled
  strictly nearer to its base and leaves a settled one alone. This is the
  variant with which `PoolSettles` follows from fairness of `EndBlock`.
- `PoolNotUsedUp`: `PoolPositive`, with a positive base and as long as `OffersFit`: what the constant
  product leaves after an offer of Luna is more than the roundings of spread,
  fee and exchanges can take. The instance of the run satisfies it. All other
  steps, swaps into Luna and the end of a block among them, need nothing.
- `NoValueBeyondRounding`: what is minted, fee included, is worth at most what
  is burned plus an explicit bound on two roundings (`WorthNoMore`).
  `NoValueCreated` itself, without any slack, holds on the instance and not for
  all rates: an exact amount just below a whole coin may be rounded up to it.

Treasury and ante handler (`TreasuryProofs`):

- `TaxRateBounded`, `RewardWeightBounded`: `Treasury` implements `RatePolicy`
  under both refinement mappings. Every step but the end of an epoch is a
  change of the policy or a stutter; `Clamp` gives the step `Adjust`. `TypeInv`
  says that all indicators are natural numbers.
- `NoHaltOnPositiveRates`: `RunsOnPositiveRates`, for rewards within two bounds
  (`RewardsWithin`): the taxes of an epoch are worth at most `most`, seigniorage
  that is worth anything is worth at least `least`, and
  `WindowShort * most <= least * (One - 1)`. `RewardInv` adds to the property
  that the indicators of all epochs keep these bounds, that the proceeds are
  bounded and that the reward weight is one that some policy allows. In the
  window of an epoch end the sum of the seigniorage is then zero, which the
  policy looks for, or at least one `One`th of all rewards, so that the burden
  does not round to zero. For chains whose taxes may exceed the bound the
  panic is real, and the theorem says nothing.
- `SeigniorageOfEpoch`: `IssuanceTracked`, inductive with its types.
- `FreeOnce`: `FreeOncePerHeight`. `SpamInv` adds that an oracle transaction
  admitted at the height of the check state has left all its marks there.
- `FeesCoverBurns`: `FeeCoversBurn`, for transactions that each use one
  denomination. `AdmittedInv` adds that within a block everything in the
  mempool still offers enough, which the recheck restores after each commit.
- `TaxesCounted`: `TaxesCountedOnce`, for transactions in SDR. `CountedInv` adds
  that epochs which have not ended have no rewards.

Dynamic commission and vesting (`DyncommProofs`, `VestingProofs`):

- `RatesAreShares`, `CommissionWithinMax`, `IntentKept`: `TypeOK`,
  `RateWithinMax` and `IntentRestored`, from one invariant, which adds that the
  stored target is the rate asked for last at top level.
- `VestingStaysBacked`: `VestingBacked`. The invariant adds types and that the
  bound holds also when the vested coins exceed the original ones. It needs that
  vesting coins only become fewer, which is `VestedStaysVested`.
- `ExcessWithinRounding`: `ExcessBounded`, from what `Validate` lets pass.
- `FreeAfterTheLastSchedule`: at `MaxTime` and later the account is free but for
  rounding. This is the state that `FreeInTheEnd` says is reached.

Facts about sums, medians and other things that are computed vote by vote are
proved by induction over finite sets. The induction theorems of the library
take a predicate as an operator, which the provers do not instantiate;
`FiniteInduction` and `NaturalInduction` in `NumberLemmas` take the set of
values for which the claim holds instead.

Only model-checked: the liveness properties `PoolSettles` and `FreeInTheEnd`,
as the prover has no rules for fairness, and `NoValueCreated` without slack. Of
the first two the steps that need no fairness are proved: `PoolNeverStalls` and
`FreeAfterTheLastSchedule`.

## Not modelled

- Oracle: the width of `Dec` and the overflow that `StandardDeviation` recovers
  from; imported votes at genesis; bank metadata of new denominations; coins
  that reach the oracle account while it runs; the salt and hash of a prevote.
- Market: changes of its parameters; a genesis with a pool delta.
- Treasury: changes of parameters other than the policies; a genesis with
  indicators, proceeds or caps (its tax rate and reward weight may be any that
  validation accepts); issuance of denominations other than Luna, which nothing reads;
  `SettleSeigniorage`, commented out in the EndBlocker.
- Ante handler: the tax of messages that a contract dispatches
  (`custom/wasm/keeper/handler_plugin.go`: the tax goes to the fee collector
  whole and is not recorded); fee grants, gas, priorities, signatures; IBC
  coins, which pay no tax. The minimal initial deposit is one stateless check.
- Wasm bindings call the handlers modelled in `Market` and have no state.
- Forks, upgrades and store migrations are one-off writes at fixed heights.
- The wrappers in `custom/*`, protobuf code, command lines, simulations and
  queries do not change the state of a running chain in ways of their own.
- `client/docs/swagger-ui` holds minified bundles of the third-party Swagger UI
  that display the API documentation. They are no part of the chain.
