------------------------------ MODULE MCOracle ------------------------------
(***************************************************************************)
(* Instances of Oracle for TLC.  A decimal has two places (One = 100).     *)
(***************************************************************************)
EXTENDS Oracle, TLC

CONSTANTS v1, v2, v3, f1

\* Rates (or tobin taxes) of the denominations 1 and 2; a rate 0 abstains
On1(r) == 1 :> r
On2(q) == 2 :> q
Both(r, q) == 1 :> r @@ 2 :> q

\* Periods of two blocks, windows of two periods
TwoBlockPeriods ==
    [votePeriod |-> 2, voteThreshold |-> 50, rewardBand |-> 2,
     rewardDistributionWindow |-> 4, slashFraction |-> 50, slashWindow |-> 4,
     minValidPerWindow |-> 60, whitelist |-> On1(1)]

\* Periods of one block: every block has a tally
OneBlockPeriods ==
    [TwoBlockPeriods EXCEPT !.votePeriod = 1, !.slashWindow = 2,
                            !.rewardDistributionWindow = 2, !.minValidPerWindow = 50]

\* A window of four periods, in which one miss is allowed
FourPeriodWindow ==
    [OneBlockPeriods EXCEPT !.slashWindow = 4, !.rewardDistributionWindow = 4,
                            !.minValidPerWindow = 75]

\* Two denominations, and ballots that pass share more than one unit of power
TwoDenoms == [OneBlockPeriods EXCEPT !.whitelist = Both(1, 1), !.voteThreshold = 67]

\* The default threshold of 50%
TwoDenomsHalf == [TwoDenoms EXCEPT !.voteThreshold = 50]

WhitelistChanges ==
    {[TwoDenomsHalf EXCEPT !.whitelist = On1(1)],
     [TwoDenomsHalf EXCEPT !.whitelist = On1(2)]}

NoPool == [d \in RewardDenoms |-> 0]
SmallPool == [d \in RewardDenoms |-> IF d = Luna THEN 5 ELSE 3]

EqualTokens == [v \in Validators |-> 40]

VotesOn1 == {On1(0), On1(100), On1(200)}
VotesOnBoth == {Both(0, 0), Both(0, 300), Both(100, 300), Both(200, 300), On1(100)}
VotesOnEach == {On1(100), On2(100), Both(100, 100)}
OneVote == {On1(100)}

Symmetry == Permutations(Validators)
=============================================================================
