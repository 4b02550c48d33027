-------------------------- MODULE TallyLoopsProofs --------------------------
(***************************************************************************)
(* The loops of the oracle's EndBlocker compute what OracleBallot defines, *)
(* for every set of denominations, ballots and thresholds: the loop of     *)
(* PickReferenceTerra in every order, and the loop of WeightedMedian for   *)
(* every order of the votes with equal rates.                              *)
(***************************************************************************)
EXTENDS TallyLoops, NumberLemmas, TLAPS

-----------------------------------------------------------------------------
(* Ballots *)

\* The power of a ballot is a natural number.
LEMMA BallotPowerType ==
    ASSUME NEW b, IsBallot(b)
    PROVE  /\ PowerMap(b) \in [DOMAIN b -> Nat]
           /\ BallotPower(b) = PowerOf(b, DOMAIN b) /\ BallotPower(b) \in Nat
<1>1. PowerMap(b) \in [DOMAIN b -> Nat] /\ IsFiniteSet(DOMAIN b)
  BY DEF PowerMap, IsBallot
<1>2. Restrict(PowerMap(b), DOMAIN b) = PowerMap(b)
  BY DEF PowerMap, Restrict
<1>3. BallotPower(b) = Total(PowerMap(b))
  BY DEF BallotPower, PowerMap
<1>4. Total(PowerMap(b)) \in Nat
  BY <1>1, TotalNat
<1> QED BY <1>1, <1>2, <1>3, <1>4 DEF PowerOf

\* Facts on the power of a part of a ballot.
LEMMA PowerOfFacts ==
    ASSUME NEW b, IsBallot(b), NEW T \in SUBSET DOMAIN b
    PROVE  /\ PowerOf(b, T) \in Nat
           /\ T = {} => PowerOf(b, T) = 0
           /\ \A S \in SUBSET T : PowerOf(b, S) <= PowerOf(b, T)
           /\ \A v \in DOMAIN b \ T : PowerOf(b, T \cup {v}) = PowerOf(b, T) + b[v].power
           /\ (\A v \in T : b[v].rate = 0) => PowerOf(b, T) = 0
<1> DEFINE f == PowerMap(b)
           D == DOMAIN b
<1>1. /\ f \in [D -> Nat] /\ IsFiniteSet(D) /\ T \in SUBSET D
      /\ \A v \in D : f[v] = b[v].power /\ (b[v].rate = 0 => f[v] = 0)
  BY BallotPowerType DEF IsBallot, PowerMap
<1> HIDE DEF f, D
<1>2. /\ Total(Restrict(f, T)) \in Nat
      /\ T = {} => Total(Restrict(f, T)) = 0
      /\ \A S \in SUBSET T : Total(Restrict(f, S)) <= Total(Restrict(f, T))
      /\ \A v \in D \ T : Total(Restrict(f, T \cup {v})) = Total(Restrict(f, T)) + f[v]
      /\ (\A v \in T : f[v] = 0) => Total(Restrict(f, T)) = 0
  BY ONLY <1>1, TotalOfPart
<1> QED BY <1>1, <1>2 DEF PowerOf, f, D

\* The ballots of the instance are such ballots.
LEMMA BallotsTyped ==
    ASSUME NEW m \in VoteMaps, NEW d \in DOMAIN m
    PROVE  IsBallot(m[d])
<1>1. DOMAIN m[d] \subseteq Voters /\ \A v \in DOMAIN m[d] : m[d][v] \in Median!Votes
  BY TallyLoopsConstants
<1>2. IsFiniteSet(DOMAIN m[d])
  BY <1>1, TallyLoopsConstants, FS_Subset
<1>3. \A x \in Median!Votes : x.rate \in Nat /\ x.power \in Nat /\ (x.rate = 0 => x.power = 0)
  <2>1. \A q \in VoteRates : q \in Nat /\ q # 0
    BY TallyLoopsConstants
  <2>2. \A q \in Powers : q \in Nat
    BY TallyLoopsConstants
  <2> QED BY <2>1, <2>2 DEF Median!Votes, Median!VoteForTally
<1> QED BY <1>1, <1>2, <1>3 DEF IsBallot

-----------------------------------------------------------------------------
(* PickReferenceTerra *)

Power(d) == BallotPower(ballots[d])

\* The ballots that have been compared
Compared == Passing \ pending

\* d is the reference of the ballots in D: no smaller turnout, and first in
\* the alphabet among equals
IsReference(d, D) ==
    /\ d \in D
    /\ \A e \in D : Power(e) < Power(d) \/ (Power(e) = Power(d) /\ d <= e)

LoopInv ==
    /\ TypeOK
    /\ voteMap = Passing \cup pending
    /\ voteTargets = targets \ ((DOMAIN ballots \ pending) \ Passing)
    /\ Compared = {} => referenceTerra = NoReference /\ largestBallotPower = 0
    /\ Compared # {} => /\ IsReference(referenceTerra, Compared)
                        /\ largestBallotPower = Power(referenceTerra)

\* Powers and denominations are numbers, and a ballot that passes has power.
LEMMA PassingFacts ==
    ASSUME TypeOK
    PROVE  /\ Passing \subseteq DOMAIN ballots \cap targets
           /\ \A d \in DOMAIN ballots : d \in Nat \ {0} /\ Power(d) \in Nat
           /\ \A d \in Passing : Power(d) > 0
           /\ \A d \in DOMAIN ballots \cap targets :
                 d \in Passing <=> BallotIsPassing(ballots[d], thresholdVotes)
<1>1. \A d \in DOMAIN ballots : d \in Nat \ {0} /\ Power(d) \in Nat
  BY PickReferenceConstants, BallotsTyped, BallotPowerType DEF TypeOK, Power
<1>2. Passing \subseteq DOMAIN ballots \cap targets
  BY DEF Passing, PassingDenoms
<1>3. \A d \in Passing : Power(d) # 0
  BY DEF Passing, PassingDenoms, BallotIsPassing, Power
<1>4. \A d \in DOMAIN ballots \cap targets :
                 d \in Passing <=> BallotIsPassing(ballots[d], thresholdVotes)
  BY DEF Passing, PassingDenoms
<1> QED BY <1>1, <1>2, <1>3, <1>4

\* The reference is unique, so it is the one OracleBallot chooses.
LEMMA ReferenceChosen ==
    ASSUME TypeOK, NEW d, IsReference(d, Passing)
    PROVE  ReferenceTerra(ballots, Passing) = d
<1> DEFINE powers == {BallotPower(ballots[e]) : e \in Passing}
           firsts == {e \in Passing : BallotPower(ballots[e]) = Power(d)}
<1>1. /\ d \in Passing /\ Power(d) \in powers
      /\ \A e \in Passing : Power(e) \in Nat /\ e \in Nat /\ Power(e) <= Power(d)
  BY PassingFacts DEF IsReference, Power
<1>2. Max(powers) = Power(d)
  <2>1. \A x \in powers : x \in Nat /\ x <= Power(d)
    BY <1>1 DEF Power
  <2> HIDE DEF powers
  <2>2. \A x \in powers : (\A y \in powers : x >= y) => x = Power(d)
    BY <1>1, <2>1
  <2>3. \A y \in powers : Power(d) >= y
    BY <1>1, <2>1
  <2> QED BY <1>1, <2>2, <2>3 DEF Max
<1>3. Min(firsts) = d
  <2>1. d \in firsts /\ \A e \in firsts : e \in Nat /\ d <= e
    BY <1>1 DEF IsReference, Power
  <2>2. \A x \in firsts : (\A y \in firsts : x <= y) => x = d
    BY <2>1
  <2> HIDE DEF firsts
  <2> QED BY <2>1, <2>2 DEF Min
<1> QED BY <1>2, <1>3 DEF ReferenceTerra

\* Before the first iteration nothing has been compared.
LEMMA InitLoopInv == LoopsInit => LoopInv
<1>1. Init => TypeOK /\ Compared = {}
  BY DEF Init, TypeOK, Compared, Passing, PassingDenoms
<1> QED BY <1>1 DEF LoopsInit, Init, LoopInv, Passing, PassingDenoms

\* At the end of the loop the invariant is what the operators define.
LEMMA LoopInvSuffices == LoopInv => OrderFree
<1> SUFFICES ASSUME LoopInv, pending = {}
             PROVE  /\ voteMap = Passing
                    /\ voteTargets = RemainingTargets(ballots, targets, thresholdVotes)
                    /\ referenceTerra = IF Passing = {} THEN NoReference
                                        ELSE ReferenceTerra(ballots, Passing)
  BY DEF OrderFree
<1>1. voteMap = Passing /\ Compared = Passing
  BY DEF LoopInv, Compared
<1>2. voteTargets = RemainingTargets(ballots, targets, thresholdVotes)
  BY DEF LoopInv, RemainingTargets, Passing
<1>3. CASE Passing = {}
  BY <1>1, <1>2, <1>3 DEF LoopInv
<1>4. CASE Passing # {}
  BY <1>1, <1>2, <1>4, ReferenceChosen DEF LoopInv
<1> QED BY <1>3, <1>4

\* One iteration keeps the invariant, whichever ballot it visits.
LEMMA NextLoopInv == LoopInv /\ [Next]_vars => LoopInv'
<1> SUFFICES ASSUME LoopInv, [Next]_vars PROVE LoopInv'
  OBVIOUS
<1>1. CASE UNCHANGED vars
  BY <1>1 DEF vars, LoopInv, TypeOK, Compared, Passing, IsReference, Power
<1>2. ASSUME NEW d \in pending, Visit(d) PROVE LoopInv'
  <2>1. /\ UNCHANGED <<ballots, targets, thresholdVotes>> /\ pending' = pending \ {d}
        /\ Passing' = Passing /\ \A e : Power(e)' = Power(e)
    BY <1>2 DEF Visit, Passing, Power
  <2>2. TypeOK /\ d \in DOMAIN ballots /\ d \in Denoms
    BY PickReferenceConstants DEF LoopInv, TypeOK
  <2>3. d \in voteTargets <=> d \in targets
    BY DEF LoopInv
  <2>4. CASE SkipUnknown(d) \/ DropFailed(d)
    <3>1. d \notin Passing
      BY <2>2, <2>3, <2>4, PassingFacts DEF SkipUnknown, DropFailed
    <3>2. Compared' = Compared
      BY <2>1, <3>1 DEF Compared
    <3>3. /\ voteMap' = voteMap \ {d} /\ voteTargets' = voteTargets \ {d}
          /\ UNCHANGED <<largestBallotPower, referenceTerra>>
      BY <2>4 DEF SkipUnknown, DropFailed
    <3>4. TypeOK'
      BY <2>1, <2>2, <3>3 DEF TypeOK
    <3>5. voteMap' = Passing' \cup pending'
      BY <2>1, <3>1, <3>3 DEF LoopInv
    <3>6. voteTargets' = targets' \ ((DOMAIN ballots' \ pending') \ Passing')
      BY <2>1, <2>2, <3>1, <3>3 DEF LoopInv
    <3>7. \/ Compared' = {} /\ referenceTerra' = NoReference /\ largestBallotPower' = 0
          \/ /\ Compared' # {} /\ IsReference(referenceTerra, Compared)'
             /\ largestBallotPower' = Power(referenceTerra)'
      BY <2>1, <3>2, <3>3 DEF LoopInv, IsReference
    <3> QED BY <3>4, <3>5, <3>6, <3>7 DEF LoopInv
  <2>5. CASE Compare(d)
    <3>1. d \in Passing /\ Power(d) > 0 /\ Power(d) \in Nat /\ d \in Nat \ {0}
      BY <2>2, <2>3, <2>5, PassingFacts DEF Compare
    <3>2. Compared' = Compared \cup {d}
      BY <2>1, <3>1 DEF Compared
    <3>3. UNCHANGED <<voteMap, voteTargets>>
      BY <2>5 DEF Compare
    <3>4. voteMap' = Passing' \cup pending'
      BY <2>1, <3>1, <3>3 DEF LoopInv
    <3>5. voteTargets' = targets' \ ((DOMAIN ballots' \ pending') \ Passing')
      BY <2>1, <2>2, <3>1, <3>3 DEF LoopInv
    <3>6. \A e \in Compared : e \in Nat /\ Power(e) \in Nat /\ Power(e) > 0
      BY <2>2, PassingFacts DEF Compared
    <3>7. IsReference(referenceTerra', Compared \cup {d}) /\ largestBallotPower' = Power(referenceTerra')
      <4>1. CASE Compared = {}
        BY <2>5, <3>1, <4>1 DEF LoopInv, Compare, IsReference, Power
      <4>2. CASE Compared # {}
        <5>1. /\ referenceTerra \in Compared /\ largestBallotPower = Power(referenceTerra)
              /\ largestBallotPower \in Nat /\ largestBallotPower > 0 /\ referenceTerra \in Nat
              /\ \A e \in Compared : \/ Power(e) < largestBallotPower
                                     \/ Power(e) = largestBallotPower /\ referenceTerra <= e
          BY <3>6, <4>2 DEF LoopInv, IsReference
        <5>2. CASE Power(d) > largestBallotPower
          <6>1. referenceTerra' = d /\ largestBallotPower' = Power(d)
            BY <2>5, <5>2 DEF Compare, Power
          <6> QED BY <3>1, <3>6, <5>1, <5>2, <6>1 DEF IsReference
        <5>3. CASE Power(d) = largestBallotPower /\ referenceTerra > d
          <6>1. referenceTerra' = d /\ largestBallotPower' = Power(d)
            BY <2>5, <3>1, <5>1, <5>3 DEF Compare, Power
          <6> QED BY <3>1, <3>6, <5>1, <5>3, <6>1 DEF IsReference
        <5>4. CASE Power(d) < largestBallotPower \/ (Power(d) = largestBallotPower /\ referenceTerra <= d)
          <6>1. referenceTerra' = referenceTerra /\ largestBallotPower' = largestBallotPower
            BY <2>5, <3>1, <5>1, <5>4 DEF Compare, Power
          <6> QED BY <3>1, <3>6, <5>1, <5>4, <6>1 DEF IsReference
        <5> QED BY <3>1, <5>1, <5>2, <5>3, <5>4
      <4> QED BY <4>1, <4>2
    <3>8. TypeOK'
      <4>1. referenceTerra' \in Denoms \cup {NoReference} /\ largestBallotPower' \in Nat
        <5>1. referenceTerra' \in Compared \cup {d}
          BY <3>7 DEF IsReference
        <5>2. referenceTerra' \in DOMAIN ballots
          BY <2>2, <5>1, PassingFacts DEF Compared
        <5>3. DOMAIN ballots \subseteq Denoms
          BY <2>2, PickReferenceConstants DEF TypeOK
        <5> QED BY <2>2, <3>7, <5>2, <5>3, PassingFacts
      <4> QED BY <2>1, <2>2, <3>3, <4>1 DEF TypeOK
    <3>9. IsReference(referenceTerra, Compared)' /\ largestBallotPower' = Power(referenceTerra)'
      BY <2>1, <3>2, <3>7 DEF IsReference
    <3>10. Compared' # {}
      BY <3>2
    <3> QED BY <3>4, <3>5, <3>8, <3>9, <3>10 DEF LoopInv
  <2> QED BY <1>2, <2>4, <2>5 DEF Visit
<1> QED BY <1>1, <1>2 DEF Next

\* Whatever order Go picks for the map, PickReferenceTerra returns the same
\* reference and leaves the same ballots and targets: the tally is
\* deterministic.
THEOREM TallyDeterministic == LoopsSpec => []OrderFree
<1>1. LoopsInit => LoopInv
  BY InitLoopInv
<1>2. LoopInv /\ [LoopsNext]_<<vars, medianVars>> => LoopInv'
  <2>1. [LoopsNext]_<<vars, medianVars>> => [Next]_vars
    BY DEF LoopsNext, CallMedian
  <2> QED BY <2>1, NextLoopInv
<1> QED BY <1>1, <1>2, LoopInvSuffices, PTL DEF LoopsSpec

-----------------------------------------------------------------------------
(* WeightedMedian *)

\* MedianLoop has operators of its own name for those of OracleBallot.
LEMMA SamePower ==
    ASSUME NEW b
    PROVE  Median!BallotPower(b) = BallotPower(b)
BY DEF Median!BallotPower, BallotPower, Median!Total, Total, Median!FoldFunction, FoldFunction,
       Median!FoldFunctionOnSet, FoldFunctionOnSet, Median!MapThenFoldSet, MapThenFoldSet

\* The voters whose votes the loop has seen
Seen == DOMAIN ballot \ rest

\* The strengthening of MedianAgrees and MedianPositive.  Once the second loop
\* runs, the first is over and the pivot is the power of the votes seen, none
\* of which has a higher rate than a vote still to come; as long as nothing is
\* returned, it is short of half.
MedianInv ==
    /\ LoopInv
    /\ result # NotStarted =>
        /\ pending = {} /\ referenceTerra \in DOMAIN ballots
        /\ ballot = ballots[referenceTerra]
        /\ rest \subseteq DOMAIN ballot
        /\ pivot = PowerOf(ballot, Seen)
        /\ \A v \in Seen : \A w \in rest : ballot[v].rate <= ballot[w].rate
    /\ result = NotStarted => pivot = 0
    /\ result = Median!NoResult => Seen = {} \/ pivot < BallotPower(ballot) \div 2
    /\ Returned => /\ result = WeightedMedian(ballot)
                   /\ BallotPower(ballot) >= 2 => result > 0

\* When the pivot reaches half at the vote of v, its rate is the median.
LEMMA MedianFound ==
    ASSUME NEW b, IsBallot(b), NEW R \in SUBSET DOMAIN b, NEW v \in R,
           \A w \in R : b[v].rate <= b[w].rate,
           \A u \in DOMAIN b \ R : \A w \in R : b[u].rate <= b[w].rate,
           DOMAIN b \ R = {} \/ PowerOf(b, DOMAIN b \ R) < BallotPower(b) \div 2,
           PowerOf(b, (DOMAIN b \ R) \cup {v}) >= BallotPower(b) \div 2
    PROVE  /\ WeightedMedian(b) = b[v].rate
           /\ BallotPower(b) >= 2 => b[v].rate > 0
<1> DEFINE D == DOMAIN b
           S == D \ R
           r == b[v].rate
           half == BallotPower(b) \div 2
           rts == {b[w].rate : w \in D}
           U(q) == {w \in D : b[w].rate <= q}
<1>1. /\ BallotPower(b) \in Nat /\ half \in Nat
      /\ \A w \in D : b[w].rate \in Nat
  BY BallotPowerType DEF IsBallot
<1>2. \A q : PowerUpTo(b, q) = PowerOf(b, U(q))
  BY DEF PowerUpTo, PowerOf, PowerMap, Restrict
<1>3. \A T \in SUBSET D : PowerOf(b, T) \in Nat
  BY PowerOfFacts
<1> DEFINE good == {q \in rts : PowerUpTo(b, q) >= half}
<1>4. r \in good
  <2>1. S \cup {v} \subseteq U(r) /\ U(r) \in SUBSET D
    BY <1>1
  <2>2. PowerOf(b, S \cup {v}) <= PowerOf(b, U(r))
    BY <2>1, PowerOfFacts
  <2>3. PowerOf(b, S \cup {v}) \in Nat /\ PowerOf(b, U(r)) \in Nat
    BY <1>3, <2>1
  <2> HIDE DEF half
  <2>4. PowerOf(b, U(r)) >= half
    BY <1>1, <2>2, <2>3 DEF half
  <2> QED BY <1>2, <2>4
<1>5. ASSUME NEW q \in good PROVE q \in Nat /\ r <= q
  <2>1. q \in Nat /\ r \in Nat
    BY <1>1
  <2>2. ASSUME q < r PROVE FALSE
    <3>1. U(q) \subseteq S /\ U(q) # {}
      BY <1>1, <2>1, <2>2
    <3>2. PowerOf(b, U(q)) <= PowerOf(b, S)
      BY <3>1, PowerOfFacts
    <3>3. PowerOf(b, U(q)) \in Nat /\ PowerOf(b, S) \in Nat
      BY <1>3, <3>1
    <3>4. PowerOf(b, S) < half
      BY <3>1
    <3>5. PowerOf(b, U(q)) >= half
      BY <1>2
    <3> HIDE DEF half
    <3> QED BY <1>1, <3>2, <3>3, <3>4, <3>5
  <2> QED BY <2>1, <2>2
<1>6. Min(good) = r
  <2> HIDE DEF good
  <2>1. \A x \in good : (\A y \in good : x <= y) => x = r
    BY <1>4, <1>5
  <2> QED BY <1>4, <1>5, <2>1 DEF Min
<1>7. WeightedMedian(b) = r
  <2>1. rts # {}
    OBVIOUS
  <2>2. WeightedMedian(b) = IF rts = {} THEN 0 ELSE Min(good)
    BY DEF WeightedMedian
  <2> QED BY <1>6, <2>1, <2>2
<1>8. ASSUME BallotPower(b) >= 2, r = 0 PROVE FALSE
  <2>1. \A w \in S \cup {v} : b[w].rate = 0
    BY <1>1, <1>8
  <2>2. S \cup {v} \in SUBSET D
    OBVIOUS
  <2>3. PowerOf(b, S \cup {v}) = 0
    BY <2>1, <2>2, PowerOfFacts
  <2>4. half >= 1
    BY <1>1, <1>8
  <2> QED BY <1>1, <2>3, <2>4
<1> QED BY <1>1, <1>7, <1>8

\* A loop that has seen every vote without returning had none to see.
LEMMA FallsThroughEmpty ==
    ASSUME NEW b, IsBallot(b), DOMAIN b = {} \/ PowerOf(b, DOMAIN b) < BallotPower(b) \div 2
    PROVE  WeightedMedian(b) = 0 /\ BallotPower(b) < 2
<1>1. BallotPower(b) = PowerOf(b, DOMAIN b) /\ BallotPower(b) \in Nat
  BY BallotPowerType
<1>2. DOMAIN b = {}
  BY <1>1
<1>3. BallotPower(b) = 0
  BY <1>1, <1>2, PowerOfFacts
<1> QED BY <1>2, <1>3 DEF WeightedMedian

\* The second loop keeps the invariant, whichever of the equal rates is next.
LEMMA NextMedianInv ==
    ASSUME MedianInv, [LoopsNext]_<<vars, medianVars>>
    PROVE  MedianInv'
<1>0. LoopInv' /\ LoopInv
  <2>1. [Next]_vars
    BY DEF LoopsNext, CallMedian
  <2> QED BY <2>1, NextLoopInv DEF MedianInv
<1>1. ASSUME UNCHANGED <<medianVars, ballots, referenceTerra>>, pending = {} => pending' = {}
      PROVE  MedianInv'
  <2>1. UNCHANGED <<ballot, rest, pivot, result, Seen, Returned>>
    BY <1>1 DEF medianVars, Seen, Returned, Median!NoResult
  <2> QED BY <1>0, <1>1, <2>1 DEF MedianInv, Returned, Median!NoResult
<1>2. CASE UNCHANGED <<vars, medianVars>>
  BY <1>1, <1>2 DEF vars
<1>3. CASE Next /\ UNCHANGED medianVars
  <2>1. result = NotStarted
    BY <1>3 DEF Next, MedianInv
  <2>2. UNCHANGED <<pivot, result>>
    BY <1>3 DEF medianVars
  <2> QED BY <1>0, <2>1, <2>2 DEF MedianInv, Returned, NotStarted, Median!NoResult
<1>4. CASE CallMedian
  <2>1. /\ pending = {} /\ referenceTerra # NoReference /\ result = NotStarted
        /\ ballot' = ballots[referenceTerra] /\ rest' = DOMAIN ballot' /\ result' = Median!NoResult
        /\ UNCHANGED <<pending, ballots, referenceTerra, pivot>>
    BY <1>4 DEF CallMedian, vars
  <2>2. referenceTerra \in DOMAIN ballots /\ ballots \in VoteMaps
    <3>1. referenceTerra \in Passing
      BY <2>1 DEF MedianInv, LoopInv, Compared, IsReference
    <3> QED BY <3>1, <1>0, PassingFacts DEF LoopInv, TypeOK
  <2>3. Seen' = {}
    BY <2>1 DEF Seen
  <2>4. PowerOf(ballot', {}) = 0
    BY <2>1, <2>2, BallotsTyped, PowerOfFacts, {} \in SUBSET DOMAIN ballots[referenceTerra]
  <2>5. pivot' = PowerOf(ballot', Seen')
    BY <2>1, <2>3, <2>4 DEF MedianInv
  <2>6. ~Returned'
    BY <2>1 DEF Returned
  <2>7. result' # NotStarted
    BY <2>1 DEF NotStarted, Median!NoResult
  <2> QED BY <1>0, <2>1, <2>2, <2>3, <2>5, <2>6, <2>7 DEF MedianInv
<1>5. ASSUME result = Median!NoResult, UNCHANGED vars
      PROVE  /\ pending' = {} /\ UNCHANGED <<ballots, referenceTerra>> /\ referenceTerra \in DOMAIN ballots
             /\ ballot = ballots[referenceTerra] /\ IsBallot(ballot)
             /\ rest \subseteq DOMAIN ballot /\ pivot = PowerOf(ballot, Seen)
             /\ \A v \in Seen : \A w \in rest : ballot[v].rate <= ballot[w].rate
             /\ Seen = {} \/ pivot < BallotPower(ballot) \div 2
  <2>1. result # NotStarted
    BY <1>5 DEF NotStarted, Median!NoResult
  <2>2. pending' = {} /\ UNCHANGED <<ballots, referenceTerra>>
    BY <1>0, <1>5, <2>1 DEF MedianInv, vars
  <2> QED BY <1>0, <1>5, <2>1, <2>2, BallotsTyped, Zenon DEF MedianInv, LoopInv, TypeOK
<1>6. CASE Median!FallThrough /\ UNCHANGED vars
  <2>1. result = Median!NoResult /\ rest = {} /\ result' = 0 /\ UNCHANGED <<ballot, rest, pivot>>
    BY <1>6 DEF Median!FallThrough
  <2>2. Seen = DOMAIN ballot /\ Seen' = Seen
    BY <2>1 DEF Seen
  <2>3. WeightedMedian(ballot) = 0 /\ BallotPower(ballot) < 2
    BY <1>5, <1>6, <2>1, <2>2, FallsThroughEmpty
  <2>4. BallotPower(ballot) \in Nat
    BY <1>5, <1>6, <2>1, BallotPowerType
  <2>5. Returned' /\ result' # NotStarted /\ result' # Median!NoResult
    BY <2>1 DEF Returned, NotStarted, Median!NoResult
  <2> QED BY <1>0, <1>5, <1>6, <2>1, <2>2, <2>3, <2>4, <2>5 DEF MedianInv
<1>7. ASSUME NEW v \in rest, Median!Iterate(v), UNCHANGED vars PROVE MedianInv'
  <2>1. /\ result = Median!NoResult
        /\ \A w \in rest : ballot[v].rate <= ballot[w].rate
        /\ pivot' = pivot + ballot[v].power /\ rest' = rest \ {v} /\ UNCHANGED ballot
        /\ result' = IF pivot' >= BallotPower(ballot) \div 2 THEN ballot[v].rate ELSE Median!NoResult
    BY <1>7, SamePower DEF Median!Iterate
  <2>2. /\ IsBallot(ballot) /\ v \in DOMAIN ballot \ Seen /\ Seen \in SUBSET DOMAIN ballot
        /\ Seen' = Seen \cup {v} /\ rest' \subseteq DOMAIN ballot /\ rest = DOMAIN ballot \ Seen
    BY <1>5, <1>7, <2>1 DEF Seen
  <2>3. pivot' = PowerOf(ballot, Seen')
    BY <1>5, <1>7, <2>1, <2>2, PowerOfFacts
  <2>4. \A u \in Seen' : \A w \in rest' : ballot[u].rate <= ballot[w].rate
    BY <1>5, <1>7, <2>1, <2>2
  <2>5. /\ ballot[v].rate \in Nat /\ BallotPower(ballot) \in Nat
        /\ pivot' \in Nat /\ BallotPower(ballot) \div 2 \in Nat
    BY <2>2, <2>3, BallotPowerType, PowerOfFacts DEF IsBallot
  <2>6. result' # NotStarted
    BY <2>1, <2>5 DEF NotStarted, Median!NoResult
  <2>7. CASE pivot' >= BallotPower(ballot) \div 2
    <3>1. result' = ballot[v].rate /\ result' # Median!NoResult
      BY <2>1, <2>5, <2>7 DEF Median!NoResult
    <3>2. /\ WeightedMedian(ballot) = ballot[v].rate
          /\ BallotPower(ballot) >= 2 => ballot[v].rate > 0
      <4>1. Seen = DOMAIN ballot \ rest
        BY DEF Seen
      <4>2. PowerOf(ballot, (DOMAIN ballot \ rest) \cup {v}) >= BallotPower(ballot) \div 2
        BY <2>2, <2>3, <2>7, <4>1
      <4>3. \A u \in DOMAIN ballot \ rest : \A w \in rest : ballot[u].rate <= ballot[w].rate
        BY <1>5, <1>7, <2>1, <4>1
      <4>4. DOMAIN ballot \ rest = {} \/ PowerOf(ballot, DOMAIN ballot \ rest) < BallotPower(ballot) \div 2
        BY <1>5, <1>7, <2>1, <4>1
      <4>5. rest \in SUBSET DOMAIN ballot
        BY <2>2
      <4> QED BY <1>7, <2>1, <2>2, <4>2, <4>3, <4>4, <4>5, MedianFound
    <3> QED BY <1>0, <1>5, <1>7, <2>1, <2>2, <2>3, <2>4, <2>6, <3>1, <3>2 DEF MedianInv
  <2>8. CASE ~(pivot' >= BallotPower(ballot) \div 2)
    <3>1. result' = Median!NoResult /\ pivot' < BallotPower(ballot) \div 2 /\ ~Returned'
      BY <2>1, <2>5, <2>8 DEF Returned
    <3> QED BY <1>0, <1>5, <1>7, <2>1, <2>2, <2>3, <2>4, <2>6, <3>1 DEF MedianInv
  <2> QED BY <2>7, <2>8
<1> QED BY <1>2, <1>3, <1>4, <1>6, <1>7 DEF LoopsNext, Median!Next

LEMMA MedianInvAlways == LoopsSpec => []MedianInv
<1>1. LoopsInit => MedianInv
  BY InitLoopInv DEF LoopsInit, MedianInv, Returned, NotStarted, Median!NoResult
<1>2. MedianInv /\ [LoopsNext]_<<vars, medianVars>> => MedianInv'
  BY NextMedianInv
<1> QED BY <1>1, <1>2, PTL DEF LoopsSpec

\* The loop of WeightedMedian returns the median of the reference ballot, for
\* every ballot and every order of its equal rates.
THEOREM MedianComputed == LoopsSpec => []MedianAgrees
<1>1. MedianInv => MedianAgrees
  BY DEF MedianInv, MedianAgrees, Returned
<1> QED BY <1>1, MedianInvAlways, PTL

\* The rate of the reference is one that somebody voted for, so that the
\* EndBlocker may divide by it, whenever the ballot has two units of power.
THEOREM MedianIsARate == LoopsSpec => []MedianPositive
<1>1. MedianInv => MedianPositive
  BY DEF MedianInv, MedianPositive, Returned
<1> QED BY <1>1, MedianInvAlways, PTL
=============================================================================
