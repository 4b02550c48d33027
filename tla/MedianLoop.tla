----------------------------- MODULE MedianLoop -----------------------------
(***************************************************************************)
(* The loop of ExchangeRateBallot.WeightedMedian (x/oracle/types/ballot.go)*)
(* over a sorted ballot, one vote per step.  sort.Sort is not stable and   *)
(* compares rates only, so among votes with equal rates any may be next.   *)
(***************************************************************************)
EXTENDS OracleBallot

CONSTANTS
    VoteRates,         \* rates other than the abstention
    Powers             \* powers of a vote with a rate

\* Mutant: an abstention keeps the power of its voter
VotesWithPower == [rate : VoteRates \cup {0}, power : Powers] \cup {VoteForTally(0, 0)}

\* The votes a ballot may hold: an abstention has no power
Votes == [rate : VoteRates, power : Powers] \cup {VoteForTally(0, 0)}

NoResult == -1

VARIABLES
    ballot,
    rest,              \* voters whose votes the loop has not seen
    pivot,
    result             \* what the function returns, NoResult before that

\* Mutant: the pivot has to pass half of the power
IteratePast(v) ==
    /\ result = NoResult
    /\ \A w \in rest : ballot[v].rate <= ballot[w].rate
    /\ pivot' = pivot + ballot[v].power
    /\ rest' = rest \ {v}
    /\ result' = IF pivot' > BallotPower(ballot) \div 2 THEN ballot[v].rate ELSE NoResult
    /\ UNCHANGED ballot

\* One iteration: the next vote of the sorted ballot
Iterate(v) ==
    /\ result = NoResult
    /\ \A w \in rest : ballot[v].rate <= ballot[w].rate
    /\ pivot' = pivot + ballot[v].power
    /\ rest' = rest \ {v}
    /\ result' = IF pivot' >= BallotPower(ballot) \div 2 THEN ballot[v].rate ELSE NoResult
    /\ UNCHANGED ballot

\* The return after the loop
FallThrough ==
    /\ result = NoResult
    /\ rest = {}
    /\ result' = 0
    /\ UNCHANGED <<ballot, rest, pivot>>

Next == FallThrough \/ \E v \in rest : Iterate(v)
=============================================================================
