--------------------------- MODULE PickReference ---------------------------
(***************************************************************************)
(* The loop of PickReferenceTerra (x/oracle/tally.go) over the ballots of  *)
(* a period, one iteration per step.  Go visits the keys of a map in any   *)
(* order, and every node of the chain visits them in its own, so the       *)
(* outcome must not depend on the order: it has to be the one the          *)
(* operators of OracleBallot define.                                       *)
(***************************************************************************)
EXTENDS OracleBallot

CONSTANTS
    Denoms,            \* denominations, numbered alphabetically from 1
    VoteMaps,          \* the ballots by denomination a period may end with
    Thresholds         \* the powers a ballot may need to pass

NoReference == 0       \* the empty string

ASSUME PickReferenceConstants ==
    /\ Denoms \subseteq Nat \ {0}
    /\ \A m \in VoteMaps : DOMAIN m \subseteq Denoms
    /\ Thresholds \subseteq Nat

VARIABLES
    ballots,           \* voteMap as it is passed to the function
    targets,           \* voteTargets as it is passed to the function
    thresholdVotes,
    pending,           \* keys of voteMap the loop has not visited
    voteMap,           \* keys that are left in voteMap
    voteTargets,       \* keys that are left in voteTargets
    largestBallotPower,
    referenceTerra

vars == <<ballots, targets, thresholdVotes, pending, voteMap, voteTargets,
          largestBallotPower, referenceTerra>>

Init ==
    /\ ballots \in VoteMaps
    /\ targets \in SUBSET Denoms
    /\ thresholdVotes \in Thresholds
    /\ pending = DOMAIN ballots
    /\ voteMap = DOMAIN ballots
    /\ voteTargets = targets
    /\ largestBallotPower = 0
    /\ referenceTerra = NoReference

\* A ballot for no target is dropped
SkipUnknown(d) ==
    /\ d \notin voteTargets
    /\ voteMap' = voteMap \ {d}
    /\ UNCHANGED <<voteTargets, largestBallotPower, referenceTerra>>

\* A ballot that fails is dropped together with its target
DropFailed(d) ==
    /\ d \in voteTargets
    /\ ~BallotIsPassing(ballots[d], thresholdVotes)
    /\ voteMap' = voteMap \ {d}
    /\ voteTargets' = voteTargets \ {d}
    /\ UNCHANGED <<largestBallotPower, referenceTerra>>

\* Mutant: among equals the ballot that is visited first stays
CompareFirst(d) ==
    LET power == BallotPower(ballots[d]) IN
    /\ d \in voteTargets
    /\ BallotIsPassing(ballots[d], thresholdVotes)
    /\ IF power > largestBallotPower \/ largestBallotPower = 0
       THEN referenceTerra' = d /\ largestBallotPower' = power
       ELSE UNCHANGED <<referenceTerra, largestBallotPower>>
    /\ UNCHANGED <<voteMap, voteTargets>>

\* A ballot that passes: the reference is compared and, if need be, replaced
Compare(d) ==
    LET power == BallotPower(ballots[d]) IN
    /\ d \in voteTargets
    /\ BallotIsPassing(ballots[d], thresholdVotes)
    /\ IF power > largestBallotPower \/ largestBallotPower = 0
       THEN referenceTerra' = d /\ largestBallotPower' = power
       ELSE /\ referenceTerra' = IF power = largestBallotPower /\ referenceTerra > d
                                 THEN d ELSE referenceTerra
            /\ UNCHANGED largestBallotPower
    /\ UNCHANGED <<voteMap, voteTargets>>

Visit(d) ==
    /\ SkipUnknown(d) \/ DropFailed(d) \/ Compare(d)
    /\ pending' = pending \ {d}
    /\ UNCHANGED <<ballots, targets, thresholdVotes>>

Next == \E d \in pending : Visit(d)

Spec == Init /\ [][Next]_vars

-----------------------------------------------------------------------------
\* Every variable has its type.
TypeOK ==
    /\ ballots \in VoteMaps
    /\ targets \subseteq Denoms
    /\ thresholdVotes \in Thresholds
    /\ pending \subseteq DOMAIN ballots
    /\ voteMap \subseteq DOMAIN ballots
    /\ voteTargets \subseteq targets
    /\ largestBallotPower \in Nat
    /\ referenceTerra \in Denoms \cup {NoReference}

Passing == PassingDenoms(ballots, targets, thresholdVotes)

\* Whatever the order of the iteration, the loop of PickReferenceTerra ends
\* with the ballots, the targets and the reference that OracleBallot defines:
\* every node computes the same tally.
OrderFree ==
    pending = {} =>
        /\ voteMap = Passing
        /\ voteTargets = RemainingTargets(ballots, targets, thresholdVotes)
        /\ referenceTerra = IF Passing = {} THEN NoReference
                            ELSE ReferenceTerra(ballots, Passing)
=============================================================================
