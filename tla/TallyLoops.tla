----------------------------- MODULE TallyLoops -----------------------------
(***************************************************************************)
(* The two loops of the oracle's EndBlocker (x/oracle/abci.go), composed:  *)
(* PickReferenceTerra picks the reference among the ballots of a period,   *)
(* then WeightedMedian runs over the ballot it picked.                     *)
(***************************************************************************)
EXTENDS PickReference

CONSTANTS
    Voters,
    VoteRates,         \* rates other than the abstention
    Powers             \* powers of a vote with a rate

VARIABLES ballot, rest, pivot, result

Median == INSTANCE MedianLoop

ASSUME TallyLoopsConstants ==
    /\ IsFiniteSet(Voters)
    /\ VoteRates \subseteq Nat \ {0}
    /\ Powers \subseteq Nat
    /\ \A m \in VoteMaps : \A d \in DOMAIN m :
        DOMAIN m[d] \subseteq Voters /\ \A v \in DOMAIN m[d] : m[d][v] \in Median!Votes

medianVars == <<ballot, rest, pivot, result>>

NotStarted == -2

LoopsInit ==
    /\ Init
    /\ ballot = << >>
    /\ rest = {}
    /\ pivot = 0
    /\ result = NotStarted

\* The first loop returned a reference: its ballot goes to the second
CallMedian ==
    /\ pending = {}
    /\ referenceTerra # NoReference
    /\ result = NotStarted
    /\ ballot' = ballots[referenceTerra]
    /\ rest' = DOMAIN ballot'
    /\ result' = Median!NoResult
    /\ UNCHANGED <<vars, pivot>>

LoopsNext ==
    \/ Next /\ UNCHANGED medianVars
    \/ CallMedian
    \/ Median!Next /\ UNCHANGED vars

LoopsSpec == LoopsInit /\ [][LoopsNext]_<<vars, medianVars>>

-----------------------------------------------------------------------------
Returned == result \notin {NotStarted, Median!NoResult}

\* The loop of WeightedMedian returns the median that OracleBallot defines for
\* the reference ballot, in whatever order the map was visited before and
\* votes with equal rates stand in the sorted ballot.
MedianAgrees == Returned => result = WeightedMedian(ballots[referenceTerra])

\* An abstention never sets the rate of the reference when its ballot has at
\* least two units of power: the median is a rate that somebody voted for, and
\* the EndBlocker may divide by it.
MedianPositive == Returned /\ BallotPower(ballots[referenceTerra]) >= 2 => result > 0
=============================================================================
