---------------------------- MODULE MCTallyLoops ----------------------------
(***************************************************************************)
(* Instance of TallyLoops for TLC: up to three ballots of one or two       *)
(* voters, with ties, for the first loop, and for the second a single      *)
(* ballot of up to four voters with equal and different rates.             *)
(***************************************************************************)
EXTENDS TallyLoops

MCDenoms == 1..3

\* Ballots of one voter, an abstention among them, and one of two voters
SmallBallots == {[v \in {1} |-> VoteForTally(100, p)] : p \in 1..2}
                \cup {[v \in {1} |-> VoteForTally(0, 0)]}
                \cup {[v \in {1, 2} |-> VoteForTally(100 * v, 1)]}

LargeBallots == UNION {[S -> Median!Votes] : S \in SUBSET Voters}

MCVoteMaps == UNION {[S -> SmallBallots] : S \in SUBSET MCDenoms} \cup [{1} -> LargeBallots]
=============================================================================
