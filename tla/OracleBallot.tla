---------------------------- MODULE OracleBallot ----------------------------
(***************************************************************************)
(* The arithmetic of an oracle tally (x/oracle/tally.go and                *)
(* x/oracle/types/ballot.go) as operators on ballots.                      *)
(*                                                                         *)
(* A ballot is a function from voters to records [rate, power]: a message  *)
(* holds a denomination at most once (ParseExchangeRateTuples), so a voter *)
(* has one vote per ballot.  The code keeps the ballot as a slice sorted   *)
(* by rate; sort.Sort compares rates only, so what it computes may not     *)
(* depend on the order of votes with equal rates, and a function from      *)
(* voters is all the information the slice has.  A rate is a decimal (see  *)
(* Dec), 0 is an abstention, and a denomination is its rank in the         *)
(* alphabetical order.                                                     *)
(***************************************************************************)
EXTENDS Dec, Sums, FiniteSetsExt

CONSTANT FloatUnit     \* the decimal 10^-6, the last place that "%f" prints

ASSUME FloatUnitAssumption == FloatUnit \in Nat \ {0}

VoteForTally(rate, power) == [rate |-> rate, power |-> power]

\* ExchangeRateBallot.Power
BallotPower(ballot) == Total([v \in DOMAIN ballot |-> ballot[v].power])

\* The accumulated power (pivot) once every vote up to rate r is counted
PowerUpTo(ballot, r) ==
    Total([v \in {w \in DOMAIN ballot : ballot[w].rate <= r} |-> ballot[v].power])

\* ExchangeRateBallot.WeightedMedian: the first rate, in ascending order, at
\* which the pivot reaches half (rounded down) of the ballot's power
WeightedMedian(ballot) ==
    LET rates == {ballot[v].rate : v \in DOMAIN ballot}
        half  == BallotPower(ballot) \div 2
    IN  IF rates = {} THEN 0
        ELSE Min({r \in rates : PowerUpTo(ballot, r) >= half})

\* math.Sqrt of a decimal, printed with six places: rounded to FloatUnit
DecSqrt(x) ==
    LET n == 4 * x * One
        Odd(i) == (2 * i + 1) * FloatUnit
    IN  FloatUnit * CHOOSE i \in 0..n : /\ n < Odd(i) * Odd(i)
                                        /\ i = 0 \/ Odd(i - 1) * Odd(i - 1) <= n

\* ExchangeRateBallot.StandardDeviation: unweighted, over all the votes of
\* the ballot, abstentions (rate 0) included
StandardDeviation(ballot, median) ==
    LET squares == [v \in DOMAIN ballot |->
                       DecMul(ballot[v].rate - median, ballot[v].rate - median)]
    IN  IF DOMAIN ballot = {} THEN 0
        ELSE DecSqrt(QuoInt64(Total(squares), Cardinality(DOMAIN ballot)))

\* The spread around the median within which a vote wins
RewardSpread(ballot, median, rewardBand) ==
    Max({StandardDeviation(ballot, median),
         DecMul(median, QuoInt64(rewardBand, 2))})

\* Mutant: an abstention is judged by the reward band like a rate
WinnersWithoutAbstention(ballot, rewardBand) ==
    LET median == WeightedMedian(ballot)
        spread == RewardSpread(ballot, median, rewardBand)
    IN  {v \in DOMAIN ballot :
            ballot[v].rate >= median - spread /\ ballot[v].rate <= median + spread}

\* Tally: the voters whose claim gains weight and a win.  A vote that is not
\* positive always wins.
Winners(ballot, rewardBand) ==
    LET median == WeightedMedian(ballot)
        spread == RewardSpread(ballot, median, rewardBand)
    IN  {v \in DOMAIN ballot :
            \/ ballot[v].rate >= median - spread /\ ballot[v].rate <= median + spread
            \/ ballot[v].rate <= 0}

\* ExchangeRateBallot.ToMap: the positive rates by voter
ToMap(ballot) ==
    [v \in {w \in DOMAIN ballot : ballot[w].rate > 0} |-> ballot[v].rate]

\* Mutant: a vote without a reference rate keeps its power
ToCrossRateKeepsPower(ballot, bases) ==
    [v \in DOMAIN ballot |->
        IF v \in DOMAIN bases /\ ballot[v].rate > 0
        THEN VoteForTally(DecQuo(bases[v], ballot[v].rate), ballot[v].power)
        ELSE VoteForTally(0, ballot[v].power)]

\* ExchangeRateBallot.ToCrossRateWithSort: rates against the reference; a
\* vote without a positive reference rate becomes an abstention
ToCrossRate(ballot, bases) ==
    [v \in DOMAIN ballot |->
        IF v \in DOMAIN bases /\ ballot[v].rate > 0
        THEN VoteForTally(DecQuo(bases[v], ballot[v].rate), ballot[v].power)
        ELSE VoteForTally(0, 0)]

\* ballotIsPassing
BallotIsPassing(ballot, thresholdVotes) ==
    BallotPower(ballot) # 0 /\ BallotPower(ballot) >= thresholdVotes

\* PickReferenceTerra: the ballots that are kept in voteMap ...
PassingDenoms(voteMap, voteTargets, thresholdVotes) ==
    {d \in DOMAIN voteMap \cap voteTargets : BallotIsPassing(voteMap[d], thresholdVotes)}

\* ... the targets it leaves (a target whose ballot failed is dropped; a
\* target without any vote has no ballot and stays) ...
RemainingTargets(voteMap, voteTargets, thresholdVotes) ==
    voteTargets \ (DOMAIN voteMap \ PassingDenoms(voteMap, voteTargets, thresholdVotes))

\* ... and the denomination it returns, for a non-empty set of passing ones:
\* the largest turnout, the first in alphabetical order among equals
ReferenceTerra(voteMap, passing) ==
    LET largest == Max({BallotPower(voteMap[d]) : d \in passing})
    IN  Min({d \in passing : BallotPower(voteMap[d]) = largest})

-----------------------------------------------------------------------------
\* A ballot that a period may end with.
IsBallot(b) ==
    /\ IsFiniteSet(DOMAIN b)
    /\ \A v \in DOMAIN b : /\ b[v].rate \in Nat /\ b[v].power \in Nat
                           /\ b[v].rate = 0 => b[v].power = 0

PowerMap(b) == [v \in DOMAIN b |-> b[v].power]

\* The power of some of the voters
PowerOf(b, S) == Total(Restrict(PowerMap(b), S))
=============================================================================
