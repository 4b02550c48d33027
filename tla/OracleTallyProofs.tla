------------------------- MODULE OracleTallyProofs -------------------------
(***************************************************************************)
(* Theorems on what the tally of a period does, for every set of           *)
(* validators, denominations, vote lists, parameters and bounds: when the  *)
(* EndBlocker of the oracle cannot panic, and who is charged with a miss.  *)
(***************************************************************************)
EXTENDS OracleProofs

-----------------------------------------------------------------------------
(* Ballots: what a part of the voters weighs, which rate the median is, how
   the spread around it is bounded *)

\* The power of a ballot is a natural number.
LEMMA BallotPowerType ==
    ASSUME NEW b, IsBallot(b)
    PROVE  /\ PowerMap(b) \in [DOMAIN b -> Nat]
           /\ BallotPower(b) = PowerOf(b, DOMAIN b) /\ BallotPower(b) \in Nat
<1>1. PowerMap(b) \in [DOMAIN b -> Nat] /\ IsFiniteSet(DOMAIN b)
  BY DEF PowerMap, IsBallot
<1>2. Restrict(PowerMap(b), DOMAIN b) = PowerMap(b)
  BY DEF PowerMap, Restrict
<1>3. BallotPower(b) = Total(PowerMap(b))
  BY DEF BallotPower, PowerMap
<1>4. Total(PowerMap(b)) \in Nat
  BY <1>1, TotalNat
<1> QED BY <1>1, <1>2, <1>3, <1>4 DEF PowerOf

\* Facts on the power of a part of a ballot.
LEMMA PowerOfFacts ==
    ASSUME NEW b, IsBallot(b), NEW T \in SUBSET DOMAIN b
    PROVE  /\ PowerOf(b, T) \in Nat
           /\ T = {} => PowerOf(b, T) = 0
           /\ \A S \in SUBSET T : PowerOf(b, S) <= PowerOf(b, T)
           /\ \A v \in DOMAIN b \ T : PowerOf(b, T \cup {v}) = PowerOf(b, T) + b[v].power
           /\ (\A v \in T : b[v].rate = 0) => PowerOf(b, T) = 0
<1> DEFINE f == PowerMap(b)
           D == DOMAIN b
<1>1. /\ f \in [D -> Nat] /\ IsFiniteSet(D) /\ T \in SUBSET D
      /\ \A v \in D : f[v] = b[v].power /\ (b[v].rate = 0 => f[v] = 0)
  BY BallotPowerType DEF IsBallot, PowerMap
<1> HIDE DEF f, D
<1>2. /\ Total(Restrict(f, T)) \in Nat
      /\ T = {} => Total(Restrict(f, T)) = 0
      /\ \A S \in SUBSET T : Total(Restrict(f, S)) <= Total(Restrict(f, T))
      /\ \A v \in D \ T : Total(Restrict(f, T \cup {v})) = Total(Restrict(f, T)) + f[v]
      /\ (\A v \in T : f[v] = 0) => Total(Restrict(f, T)) = 0
  BY ONLY <1>1, TotalOfPart
<1> QED BY <1>1, <1>2 DEF PowerOf, f, D

\* The median is the rate of some vote, and positive when the ballot has two
\* units of power, as abstentions have none.
LEMMA MedianOfBallot ==
    ASSUME NEW b, IsBallot(b), DOMAIN b # {}
    PROVE  /\ \E v \in DOMAIN b : WeightedMedian(b) = b[v].rate
           /\ BallotPower(b) >= 2 => WeightedMedian(b) > 0
<1> DEFINE D == DOMAIN b
           half == BallotPower(b) \div 2
           rts == {b[v].rate : v \in D}
           U(q) == {v \in D : b[v].rate <= q}
           good == {q \in rts : PowerUpTo(b, q) >= half}
           m == WeightedMedian(b)
<1>1. /\ BallotPower(b) \in Nat /\ BallotPower(b) = PowerOf(b, D) /\ half \in Nat
      /\ half <= BallotPower(b)
      /\ IsFiniteSet(D) /\ \A v \in D : b[v].rate \in Nat
  BY BallotPowerType DEF IsBallot
<1>2. \A q : PowerUpTo(b, q) = PowerOf(b, U(q)) /\ U(q) \in SUBSET D
  BY DEF PowerUpTo, PowerOf, PowerMap, Restrict
<1>3. m = Min(good)
  BY DEF WeightedMedian
<1>4. good \in SUBSET Nat /\ good # {}
  <2> DEFINE f == [v \in D |-> b[v].rate]
  <2>1. f \in [D -> Nat]
    BY <1>1
  <2>2. PICK x \in D : \A y \in D : f[y] <= f[x]
    <3> HIDE DEF f, D
    <3> QED BY <1>1, <2>1, FiniteMax DEF D
  <2>3. U(b[x].rate) = D
    BY <2>2
  <2>4. PowerUpTo(b, b[x].rate) >= half
    BY <1>1, <1>2, <2>3
  <2> QED BY <1>1, <2>4
<1> HIDE DEF good
<1>5. m \in good
  <2>1. \E x \in good : \A y \in good : x <= y
    BY <1>4, NatMin
  <2> QED BY <1>3, <2>1 DEF Min
<1>6. PICK v \in D : m = b[v].rate
  BY <1>5 DEF good
<1>7. ASSUME BallotPower(b) >= 2, m = 0 PROVE FALSE
  <2>1. PowerOf(b, U(0)) >= half
    BY <1>2, <1>5, <1>7 DEF good
  <2>2. \A w \in U(0) : b[w].rate = 0
    BY <1>1
  <2>3. PowerOf(b, U(0)) = 0
    BY <1>2, <2>2, PowerOfFacts
  <2> QED BY <1>1, <1>7, <2>1, <2>3
<1> QED BY <1>1, <1>6, <1>7

\* A root exists: the last place it is rounded to is a natural number.
LEMMA DecSqrtNat ==
    ASSUME NEW x \in Nat
    PROVE  DecSqrt(x) \in Nat
<1> DEFINE n == 4 * x * One
           Odd(i) == (2 * i + 1) * FloatUnit
           Root(i) == n < Odd(i) * Odd(i) /\ (i = 0 \/ Odd(i - 1) * Odd(i - 1) <= n)
           B == {i \in Nat : n < Odd(i) * Odd(i)}
<1>1. n \in Nat /\ FloatUnit \in Nat \ {0}
  BY OneAssumption, FloatUnitAssumption
<1> HIDE DEF n
<1>2. \A i \in Nat : Odd(i) \in Nat /\ Odd(i) * Odd(i) \in Nat
  BY <1>1
<1>3. n \in B
  <2> DEFINE o == Odd(n)
  <2>1. o \in Nat /\ o >= 2 * n + 1
    BY <1>1
  <2> HIDE DEF o
  <2>2. o * o >= o
    BY <2>1
  <2>3. n < o * o
    BY <1>1, <2>1, <2>2
  <2> QED BY <1>1, <2>3 DEF o
<1>4. PICK i \in B : \A j \in B : i <= j
  <2>1. B \in SUBSET Nat /\ B # {}
    BY <1>3
  <2> HIDE DEF B
  <2> QED BY <2>1, NatMin
<1>5. i \in 0..n
  BY <1>1, <1>3, <1>4
<1>6. ASSUME i # 0 PROVE Odd(i - 1) * Odd(i - 1) <= n
  <2>1. i - 1 \in Nat /\ i - 1 \notin B
    BY <1>4, <1>6
  <2> DEFINE o == Odd(i - 1) * Odd(i - 1)
  <2>2. o \in Nat /\ ~(n < o)
    BY <1>2, <2>1
  <2> HIDE DEF o
  <2>3. o <= n
    BY <1>1, <2>2
  <2> QED BY <2>3 DEF o
<1>7. Root(i)
  BY <1>4, <1>6
<1> DEFINE k == CHOOSE j \in 0..n : Root(j)
<1>8. k \in 0..n
  <2> HIDE DEF Root
  <2> QED BY <1>5, <1>7
<1>9. DecSqrt(x) = FloatUnit * k
  BY DEF DecSqrt, n
<1> HIDE DEF k
<1> QED BY <1>1, <1>8, <1>9

\* The spread is not negative: a vote at the median wins.
LEMMA SpreadNat ==
    ASSUME NEW b, IsBallot(b), NEW median \in Nat, NEW band \in Nat
    PROVE  RewardSpread(b, median, band) \in Nat
<1> DEFINE D == DOMAIN b
           squares == [v \in D |-> DecMul(b[v].rate - median, b[v].rate - median)]
           sd == StandardDeviation(b, median)
           y == DecMul(median, QuoInt64(band, 2))
<1>1. y \in Nat
  <2>1. QuoInt64(band, 2) \in Nat
    BY DEF QuoInt64, TruncDiv
  <2> QED BY <2>1, DecMulNat
<1>2. sd \in Nat
  <2>1. CASE D = {}
    BY <2>1 DEF StandardDeviation
  <2>2. CASE D # {}
    <3>1. IsFiniteSet(D) /\ Cardinality(D) \in Nat \ {0}
      BY <2>2, FS_CardinalityType, FS_EmptySet DEF IsBallot
    <3>2. ASSUME NEW v \in D PROVE DecMul(b[v].rate - median, b[v].rate - median) \in Nat
      <4> DEFINE e == b[v].rate - median
      <4>1. e \in Int
        BY DEF IsBallot
      <4> HIDE DEF e
      <4>2. e * e \in Nat
        BY <4>1
      <4>3. RoundDiv(e * e, One) \in Nat
        BY <4>2, RoundDivNear, OneAssumption
      <4> QED BY <4>3 DEF DecMul, e
    <3>3. squares \in [D -> Nat]
      BY <3>2
    <3>4. Total(squares) \in Nat
      <4> HIDE DEF squares
      <4> QED BY <3>1, <3>3, TotalNat
    <3>5. QuoInt64(Total(squares), Cardinality(D)) \in Nat
      <4> HIDE DEF squares
      <4>1. TruncDiv(Total(squares), Cardinality(D)) \in 0..Total(squares)
        BY <3>1, <3>4, TruncDivBounds
      <4> QED BY <3>4, <4>1 DEF QuoInt64
    <3>6. sd = DecSqrt(QuoInt64(Total(squares), Cardinality(D)))
      BY <2>2 DEF StandardDeviation
    <3> QED BY <3>5, <3>6, DecSqrtNat
  <2> QED BY <2>1, <2>2
<1> HIDE DEF sd, y
<1>3. \E m \in {sd, y} : \A z \in {sd, y} : m >= z
  BY <1>1, <1>2
<1>4. Max({sd, y}) \in {sd, y}
  BY <1>3 DEF Max
<1> QED BY <1>1, <1>2, <1>4 DEF RewardSpread, sd, y

\* The reference is one of the passing denominations.
LEMMA ReferencePasses ==
    ASSUME NEW voteMap, NEW passing \in SUBSET Nat, IsFiniteSet(passing), passing # {},
           \A d \in passing : BallotPower(voteMap[d]) \in Nat
    PROVE  ReferenceTerra(voteMap, passing) \in passing
<1> DEFINE f == [d \in passing |-> BallotPower(voteMap[d])]
           P == {BallotPower(voteMap[d]) : d \in passing}
           largest == Max(P)
           B == {d \in passing : BallotPower(voteMap[d]) = largest}
<1>1. PICK x \in passing : \A y \in passing : f[y] <= f[x]
  <2>1. f \in [passing -> Nat]
    OBVIOUS
  <2> HIDE DEF f
  <2> QED BY <2>1, FiniteMax
<1>2. largest \in P
  <2>1. \E z \in P : \A y \in P : z >= y
    BY <1>1
  <2> HIDE DEF P
  <2> QED BY <2>1 DEF Max
<1>3. B # {} /\ B \in SUBSET Nat
  BY <1>2
<1> HIDE DEF B
<1>4. Min(B) \in B
  <2>1. \E z \in B : \A y \in B : z <= y
    BY <1>3, NatMin
  <2> QED BY <2>1 DEF Min
<1>5. ReferenceTerra(voteMap, passing) = Min(B)
  BY DEF ReferenceTerra, B
<1> QED BY <1>4, <1>5 DEF B

\* A vote that is not positive wins whatever the others are.
LEMMA AbstentionWins ==
    ASSUME NEW b, NEW v \in DOMAIN b, b[v].rate = 0, NEW band
    PROVE  v \in Winners(b, band)
<1>1. b[v].rate <= 0
  OBVIOUS
<1> QED BY <1>1 DEF Winners

\* A rate wins a ballot of two units of power in which all others vote the same
\* or abstain: it is the median.
LEMMA UniformWins ==
    ASSUME NEW b, IsBallot(b), NEW v \in DOMAIN b, NEW band \in Nat, BallotPower(b) >= 2,
           \A w \in DOMAIN b : b[w].rate = 0 \/ b[w].rate = b[v].rate
    PROVE  v \in Winners(b, band)
<1> DEFINE m == WeightedMedian(b)
           s == RewardSpread(b, m, band)
<1>1. (\E w \in DOMAIN b : m = b[w].rate) /\ m > 0
  BY MedianOfBallot
<1>2. m = b[v].rate /\ m \in Nat
  BY <1>1 DEF IsBallot
<1> HIDE DEF m
<1>3. s \in Nat
  BY <1>2, SpreadNat
<1> HIDE DEF s
<1>4. b[v].rate >= m - s /\ b[v].rate <= m + s
  BY <1>2, <1>3
<1> QED BY <1>4 DEF Winners, m, s

-----------------------------------------------------------------------------
(* The power behind ballots *)

PowerFunction(vs) == [v \in Validators |-> ConsensusPower(vs, v)]

\* The power of some validators, and that of the active set
ValidatorPower(vs, S) == Total(Restrict(PowerFunction(vs), S))

BondedPower(vs) == TotalBondedTokens(vs) \div PowerReduction

\* Those whose vote on d is a rate
RateVoters(vs, d) == {v \in DOMAIN OrganizeBallotByDenom(vs)[d] : votes[v].rates[d] > 0}

\* Consensus power is a natural number.
LEMMA PowerFunctionType ==
    ASSUME NEW vs \in [Validators -> Validator]
    PROVE  /\ PowerFunction(vs) \in [Validators -> Nat] /\ PowerFunction(vs) \in [Validators -> Int]
           /\ \A v \in Validators : /\ PowerFunction(vs)[v] = ConsensusPower(vs, v)
                                     /\ vs[v].tokens \in Nat
                                     /\ PowerReduction * PowerFunction(vs)[v] <= vs[v].tokens
           /\ IsFiniteSet(Validators)
<1>1. ASSUME NEW v \in Validators
      PROVE  /\ vs[v].tokens \in Nat /\ ConsensusPower(vs, v) \in Nat
             /\ PowerReduction * ConsensusPower(vs, v) <= vs[v].tokens
  <2> DEFINE n == vs[v].tokens
             q == n \div PowerReduction
  <2>1. n \in Nat /\ PowerReduction \in Nat \ {0}
    BY OracleConstants DEF Validator
  <2> HIDE DEF n
  <2>2. q \in Nat /\ n % PowerReduction \in Nat /\ n = PowerReduction * q + (n % PowerReduction)
    BY <2>1, DivMod
  <2> HIDE DEF q
  <2>3. PowerReduction * q \in Nat
    BY <2>1, <2>2
  <2>4. PowerReduction * q <= n
    BY <2>1, <2>2, <2>3
  <2> QED BY <2>1, <2>2, <2>4 DEF ConsensusPower, n, q
<1> QED BY <1>1, OracleConstants DEF PowerFunction

\* The claims have at most the power of the active set, whose tokens are added
\* up before they are reduced to power.
LEMMA ClaimsWithinBonded ==
    ASSUME NEW vs \in [Validators -> Validator], NEW S \in SUBSET Claims(vs)
    PROVE  /\ ValidatorPower(vs, S) \in Nat /\ BondedPower(vs) \in Nat
           /\ TotalBondedTokens(vs) \in Nat
           /\ ValidatorPower(vs, S) <= BondedPower(vs)
<1> DEFINE B == {v \in Validators : vs[v].status = "bonded"}
           cp == PowerFunction(vs)
           g == Restrict(cp, B)
           tok == [v \in B |-> vs[v].tokens]
           scaled == [v \in B |-> PowerReduction * g[v]]
           y == Total(tok)
<1>1. /\ cp \in [Validators -> Nat] /\ IsFiniteSet(Validators)
      /\ \A v \in Validators : vs[v].tokens \in Nat /\ PowerReduction * cp[v] <= vs[v].tokens
  BY PowerFunctionType
<1>2. PowerReduction \in Nat \ {0}
  BY OracleConstants
<1>3. B \in SUBSET Validators /\ S \in SUBSET B /\ IsFiniteSet(B) /\ IsFiniteSet(S)
  <2>1. B \in SUBSET Validators /\ S \in SUBSET B
    BY DEF Claims
  <2> QED BY <1>1, <2>1, FS_Subset
<1> HIDE DEF cp, B
<1>4. /\ g \in [B -> Nat] /\ g \in [B -> Int] /\ \A v \in B : g[v] = cp[v]
      /\ Restrict(cp, S) \in [S -> Nat]
  BY <1>1, <1>3 DEF Restrict
<1>5. tok \in [B -> Nat] /\ tok \in [B -> Int] /\ \A v \in B : tok[v] = vs[v].tokens
  BY <1>1, <1>3
<1>6. Total(Restrict(cp, S)) <= Total(g)
  BY <1>1, <1>3, TotalSubset
<1> HIDE DEF g, tok
<1>7. scaled \in [B -> Int] /\ \A v \in B : scaled[v] <= tok[v]
  BY <1>1, <1>2, <1>3, <1>4, <1>5
<1>8. Total(scaled) = PowerReduction * Total(g)
  BY <1>2, <1>3, <1>4, TotalScales
<1> HIDE DEF scaled
<1>9. Total(scaled) <= Total(tok)
  BY <1>3, <1>5, <1>7, TotalMonotonic
<1>10. Total(Restrict(cp, S)) \in Nat /\ Total(g) \in Nat /\ Total(tok) \in Nat
  BY <1>3, <1>4, <1>5, TotalNat
<1>11. y = TotalBondedTokens(vs)
  BY DEF TotalBondedTokens, tok, B
<1>12. Total(g) <= y \div PowerReduction /\ y \div PowerReduction \in Nat
  <2> DEFINE x == Total(g)
             q == y \div PowerReduction
  <2>1. x \in Nat /\ y \in Nat /\ PowerReduction * x <= y
    BY <1>8, <1>9, <1>10
  <2> HIDE DEF x, y
  <2>2. q \in Nat /\ y = PowerReduction * q + (y % PowerReduction) /\ y % PowerReduction < PowerReduction
        /\ y % PowerReduction \in Nat
    BY <1>2, <2>1, DivMod
  <2> HIDE DEF q
  <2>3. x <= q
    <3> SUFFICES ASSUME q + 1 <= x PROVE FALSE
      BY <2>1, <2>2
    <3>1. PowerReduction * (q + 1) <= PowerReduction * x
      BY <1>2, <2>1, <2>2
    <3>2. PowerReduction * (q + 1) = PowerReduction * q + PowerReduction
      BY <1>2, <2>2
    <3>3. PowerReduction * q \in Nat /\ PowerReduction * x \in Nat
      BY <1>2, <2>1, <2>2
    <3> QED BY <1>2, <2>1, <2>2, <3>1, <3>2, <3>3
  <2> QED BY <2>2, <2>3 DEF x, q
<1> HIDE DEF y
<1> QED BY <1>6, <1>10, <1>11, <1>12 DEF ValidatorPower, BondedPower, cp, y

\* The power of a ballot is that of its rates, abstentions have none.
LEMMA BallotPowers ==
    ASSUME TypeOK, NEW vs \in [Validators -> Validator], NEW d \in DOMAIN OrganizeBallotByDenom(vs)
    PROVE  /\ BallotPower(OrganizeBallotByDenom(vs)[d]) = ValidatorPower(vs, RateVoters(vs, d))
           /\ RateVoters(vs, d) \in SUBSET Claims(vs)
<1> DEFINE b == OrganizeBallotByDenom(vs)[d]
           A == RateVoters(vs, d)
           D == DOMAIN b
           cp == PowerFunction(vs)
           g == [v \in D |-> b[v].power]
<1>1. /\ IsBallot(b) /\ D \subseteq Validators
      /\ D = {v \in DOMAIN votes \cap Claims(vs) : d \in DOMAIN votes[v].rates}
  BY VoteBallots, Zenon
<1>2. \A v \in D : b[v].power = IF votes[v].rates[d] > 0 THEN ConsensusPower(vs, v) ELSE 0
  BY VoteBallots, Zenon
<1>3. /\ cp \in [Validators -> Int] /\ IsFiniteSet(Validators)
      /\ \A v \in Validators : cp[v] = ConsensusPower(vs, v)
  BY PowerFunctionType
<1>4. A \in SUBSET D /\ A = {v \in D : votes[v].rates[d] > 0}
  BY DEF RateVoters
<1> HIDE DEF b, A, cp
<1>5. g \in [D -> Int]
  BY <1>1 DEF IsBallot
<1>6. (\A v \in A : g[v] = cp[v]) /\ \A v \in D \ A : g[v] = 0
  BY <1>1, <1>2, <1>3, <1>4
<1>7. BallotPower(b) = Total(g)
  BY DEF BallotPower
<1> HIDE DEF g, D
<1>8. D \in SUBSET Validators /\ A \in SUBSET D
  BY <1>1, <1>4
<1>9. Total(g) = Total(Restrict(cp, A))
  BY ONLY <1>3, <1>5, <1>6, <1>8, TotalWhere
<1> QED BY <1>1, <1>4, <1>7, <1>9 DEF ValidatorPower, b, A, cp

\* The power of a cross rate is that of the votes with both rates.
LEMMA CrossPower ==
    ASSUME TypeOK, NEW vs \in [Validators -> Validator],
           NEW d \in DOMAIN OrganizeBallotByDenom(vs), NEW e \in DOMAIN OrganizeBallotByDenom(vs)
    PROVE  BallotPower(ToCrossRate(OrganizeBallotByDenom(vs)[d], ToMap(OrganizeBallotByDenom(vs)[e])))
             = ValidatorPower(vs, RateVoters(vs, d) \cap RateVoters(vs, e))
<1> DEFINE b == OrganizeBallotByDenom(vs)[d]
           c == OrganizeBallotByDenom(vs)[e]
           x == ToCrossRate(b, ToMap(c))
           A == RateVoters(vs, d) \cap RateVoters(vs, e)
           D == DOMAIN b
           cp == PowerFunction(vs)
           g == [v \in D |-> x[v].power]
<1>1. /\ IsBallot(b) /\ D \subseteq Validators
      /\ \A v \in D : /\ b[v].rate = votes[v].rates[d] /\ votes[v].rates[d] \in Nat
                      /\ b[v].power = IF votes[v].rates[d] > 0 THEN ConsensusPower(vs, v) ELSE 0
  BY VoteBallots, Zenon
<1>2. \A v \in DOMAIN c : c[v].rate = votes[v].rates[e]
  BY VoteBallots, Zenon
<1>3. /\ cp \in [Validators -> Int] /\ IsFiniteSet(Validators)
      /\ \A v \in Validators : cp[v] = ConsensusPower(vs, v)
  BY PowerFunctionType
<1>4. /\ A \in SUBSET D
      /\ A = {v \in D : votes[v].rates[d] > 0 /\ v \in DOMAIN c /\ votes[v].rates[e] > 0}
  BY DEF RateVoters
<1> HIDE DEF b, c, A, cp
<1>5. DOMAIN ToMap(c) = {v \in DOMAIN c : votes[v].rates[e] > 0}
  BY <1>2 DEF ToMap
<1>6. /\ DOMAIN x = D
      /\ \A v \in D : x[v].power = IF v \in DOMAIN ToMap(c) /\ b[v].rate > 0 THEN b[v].power ELSE 0
  BY DEF ToCrossRate, VoteForTally
<1>7. \A v \in D : x[v].power = IF v \in A THEN cp[v] ELSE 0
  BY <1>1, <1>3, <1>4, <1>5, <1>6
<1> HIDE DEF x
<1>8. g \in [D -> Int]
  BY <1>1, <1>3, <1>7
<1>9. BallotPower(x) = Total(g)
  BY <1>6 DEF BallotPower
<1>10. (\A v \in A : g[v] = cp[v]) /\ \A v \in D \ A : g[v] = 0
  BY <1>4, <1>7
<1> HIDE DEF g, D
<1>11. D \in SUBSET Validators /\ A \in SUBSET D
  BY <1>1, <1>4
<1>12. Total(g) = Total(Restrict(cp, A))
  BY ONLY <1>3, <1>8, <1>10, <1>11, TotalWhere
<1> QED BY <1>9, <1>12 DEF ValidatorPower, b, c, x, A, cp

\* The power behind those who vote rates on both d and e
CommonPower(vs, d, e) == ValidatorPower(vs, RateVoters(vs, d) \cap RateVoters(vs, e))

\* A threshold that leaves two ballots two units of power in common
Quorum(p, vs) == 2 * Threshold(p, vs) >= BondedPower(vs) + 2

\* A threshold above one half is one, given the power to tell it from a half
\* (RoundInt loses half a unit).
LEMMA AboveHalfIsQuorum ==
    ASSUME NEW vs \in [Validators -> Validator], NEW p \in Params,
           (2 * p.voteThreshold - One) * BondedPower(vs) >= 3 * One
    PROVE  Quorum(p, vs)
<1> DEFINE T == BondedPower(vs)
           f == p.voteThreshold
           n == f * T
           q == RoundDiv(n, One)
<1>1. T \in Nat /\ f \in Nat /\ One \in Nat \ {0}
  <2>1. T \in Nat
    <3>1. {} \in SUBSET Claims(vs)
      OBVIOUS
    <3> QED BY <3>1, ClaimsWithinBonded
  <2>2. f \in 0..One /\ One \in Nat \ {0}
    BY OneAssumption DEF Params
  <2> QED BY <2>1, <2>2
<1> HIDE DEF T
<1>2. (2 * f - One) * T = 2 * n - One * T /\ n \in Nat /\ One * T \in Nat
  BY <1>1
<1>3. 2 * n - One * T >= 3 * One
  BY <1>2 DEF T
<1> HIDE DEF n
<1>4. q \in Nat /\ 2 * n <= 2 * (One * q) + One
  BY <1>1, <1>2, RoundDivNear, Zenon
<1> HIDE DEF q
<1>5. 2 * q >= T + 2
  <2> SUFFICES ASSUME 2 * q <= T + 1 PROVE FALSE
    BY <1>1, <1>4
  <2> DEFINE x == 2 * q
  <2>1. x \in Nat /\ x <= T + 1
    BY <1>4
  <2>2. One * x = 2 * (One * q)
    BY <1>1, <1>4
  <2> HIDE DEF x
  <2>3. One * x <= One * (T + 1) /\ One * (T + 1) = One * T + One /\ One * x \in Nat
    BY <1>1, <2>1
  <2> QED BY <1>1, <1>2, <1>3, <1>4, <2>2, <2>3
<1>6. Threshold(p, vs) = q
  BY DEF Threshold, RoundInt, q, n, T, BondedPower
<1> QED BY <1>5, <1>6 DEF Quorum, T

\* Two ballots that pass such a threshold share voters, whose power is what
\* remains of both thresholds beyond the power there is.
LEMMA BallotsOverlap ==
    ASSUME TypeOK, NEW vs \in [Validators -> Validator], NEW p \in Params, Quorum(p, vs),
           NEW d \in Passed(p, vs), NEW e \in Passed(p, vs)
    PROVE  CommonPower(vs, d, e) >= 2
<1> DEFINE A == RateVoters(vs, d)
           B == RateVoters(vs, e)
           W(S) == ValidatorPower(vs, S)
           T == BondedPower(vs)
           q == Threshold(p, vs)
<1>1. /\ d \in DOMAIN OrganizeBallotByDenom(vs) /\ e \in DOMAIN OrganizeBallotByDenom(vs)
      /\ BallotPower(OrganizeBallotByDenom(vs)[d]) >= q /\ BallotPower(OrganizeBallotByDenom(vs)[e]) >= q
  BY DEF Passed, PassingDenoms, BallotIsPassing
<1>2. W(A) >= q /\ W(B) >= q /\ A \in SUBSET Claims(vs) /\ B \in SUBSET Claims(vs)
  BY <1>1, BallotPowers
<1> HIDE DEF A, B
<1>3. A \cup B \in SUBSET Claims(vs) /\ A \cap B \in SUBSET Claims(vs)
  BY <1>2
<1>4. W(A \cup B) <= T /\ W(A \cup B) \in Nat /\ T \in Nat
  BY <1>3, ClaimsWithinBonded
<1>5. W(A) \in Nat /\ W(B) \in Nat /\ W(A \cap B) \in Nat
  BY <1>2, <1>3, ClaimsWithinBonded
<1>6. q \in Int
  <2>1. p.voteThreshold \in Nat
    BY OneAssumption DEF Params
  <2>2. p.voteThreshold * T \in Nat
    BY <1>4, <2>1
  <2> HIDE DEF T
  <2>3. RoundDiv(p.voteThreshold * T, One) \in Nat
    BY <2>2, OneAssumption, RoundDivNear
  <2> QED BY <2>3 DEF Threshold, RoundInt, T, BondedPower
<1>7. W(A) + W(B) = W(A \cup B) + W(A \cap B)
  <2>1. A \in SUBSET Validators /\ B \in SUBSET Validators
    BY <1>2 DEF Claims
  <2>2. PowerFunction(vs) \in [Validators -> Int] /\ IsFiniteSet(Validators)
    BY PowerFunctionType
  <2> QED BY <2>1, <2>2, TotalUnion DEF ValidatorPower
<1>8. 2 * q >= T + 2
  BY DEF Quorum
<1> HIDE DEF W, T, q
<1>9. W(A \cap B) >= 2
  BY <1>2, <1>4, <1>5, <1>6, <1>7, <1>8
<1> QED BY <1>9 DEF W, A, B, CommonPower

\* The reference is a passing denomination.
LEMMA ReferencePassed ==
    ASSUME TypeOK, NEW vs \in [Validators -> Validator], NEW p, Passed(p, vs) # {}
    PROVE  Reference(p, vs) \in Passed(p, vs)
<1> DEFINE P == Passed(p, vs)
           m == OrganizeBallotByDenom(vs)
<1>1. \A d \in P : d \in DOMAIN m
  BY DEF Passed, PassingDenoms
<1>2. \A d \in P : d \in Denoms /\ IsBallot(m[d])
  BY <1>1, VoteBallots, Zenon
<1>3. \A d \in P : BallotPower(m[d]) \in Nat
  BY <1>2, BallotPowerType
<1>4. P \in SUBSET Nat /\ IsFiniteSet(P)
  <2>1. P \subseteq Denoms
    BY <1>2
  <2>2. IsFiniteSet(P)
    BY <2>1, OracleConstants, FS_Subset
  <2> QED BY <2>1, <2>2, OracleConstants
<1> HIDE DEF P, m
<1>5. ReferenceTerra(m, P) \in P
  BY <1>3, <1>4, ReferencePasses DEF P
<1> QED BY <1>5 DEF Reference, P, m

\* No cross rate of a vote rounds to zero
CrossRatesPositive ==
    \A r \in VoteChoices : \A d, e \in DOMAIN r : r[d] > 0 /\ r[e] > 0 => DecQuo(r[e], r[d]) # 0

\* A vote's cross rate: that of its two rates, or an abstention.
LEMMA CrossBallot ==
    ASSUME TypeOK, NEW vs \in [Validators -> Validator],
           NEW d \in DOMAIN OrganizeBallotByDenom(vs), NEW e \in DOMAIN OrganizeBallotByDenom(vs)
    PROVE  LET b == ToCrossRate(OrganizeBallotByDenom(vs)[d], ToMap(OrganizeBallotByDenom(vs)[e])) IN
           /\ DOMAIN b = DOMAIN OrganizeBallotByDenom(vs)[d] /\ IsFiniteSet(DOMAIN b)
           /\ \A v \in DOMAIN b :
                /\ b[v].rate \in Nat /\ b[v].power \in Nat
                /\ \/ b[v].rate = 0 /\ b[v].power = 0
                   \/ /\ v \in RateVoters(vs, d) \cap RateVoters(vs, e)
                      /\ b[v].rate = DecQuo(votes[v].rates[e], votes[v].rates[d])
                /\ v \in RateVoters(vs, d) \cap RateVoters(vs, e) =>
                      b[v].rate = DecQuo(votes[v].rates[e], votes[v].rates[d])
<1> DEFINE a == OrganizeBallotByDenom(vs)[d]
           c == OrganizeBallotByDenom(vs)[e]
           b == ToCrossRate(a, ToMap(c))
           A == RateVoters(vs, d)
           B == RateVoters(vs, e)
<1>1. /\ IsFiniteSet(DOMAIN a)
      /\ \A v \in DOMAIN a : /\ a[v].rate = votes[v].rates[d] /\ votes[v].rates[d] \in Nat
                             /\ a[v].power \in Nat
  BY VoteBallots, Zenon DEF IsBallot
<1>2. \A v \in DOMAIN c : c[v].rate = votes[v].rates[e] /\ votes[v].rates[e] \in Nat
  BY VoteBallots, Zenon
<1>3. A = {v \in DOMAIN a : votes[v].rates[d] > 0} /\ B = {v \in DOMAIN c : votes[v].rates[e] > 0}
  BY DEF RateVoters
<1> HIDE DEF a, c, A, B
<1>4. DOMAIN ToMap(c) = B /\ \A v \in B : ToMap(c)[v] = votes[v].rates[e]
  BY <1>2, <1>3 DEF ToMap
<1>5. /\ DOMAIN b = DOMAIN a
      /\ \A v \in DOMAIN a : /\ v \in A \cap B => /\ b[v].rate = DecQuo(votes[v].rates[e], votes[v].rates[d])
                                                  /\ b[v].power = a[v].power
                             /\ v \notin A \cap B => b[v].rate = 0 /\ b[v].power = 0
  BY <1>1, <1>3, <1>4 DEF ToCrossRate, VoteForTally
<1> HIDE DEF b
<1>6. \A v \in A \cap B : DecQuo(votes[v].rates[e], votes[v].rates[d]) \in Nat
  <2> SUFFICES ASSUME NEW v \in A \cap B PROVE DecQuo(votes[v].rates[e], votes[v].rates[d]) \in Nat
    OBVIOUS
  <2>1. votes[v].rates[e] \in Nat /\ votes[v].rates[d] \in Nat \ {0}
    BY <1>1, <1>2, <1>3
  <2> QED BY <2>1, DecQuoNat
<1>7. /\ DOMAIN b = DOMAIN a /\ IsFiniteSet(DOMAIN b)
      /\ \A v \in DOMAIN b :
           /\ b[v].rate \in Nat /\ b[v].power \in Nat
           /\ \/ b[v].rate = 0 /\ b[v].power = 0
              \/ v \in A \cap B /\ b[v].rate = DecQuo(votes[v].rates[e], votes[v].rates[d])
           /\ v \in A \cap B => b[v].rate = DecQuo(votes[v].rates[e], votes[v].rates[d])
  <2>1. 0 \in Nat
    OBVIOUS
  <2> QED BY ONLY <1>1, <1>5, <1>6, <2>1, Zenon
<1> QED BY <1>7 DEF a, b, c, A, B

\* When ballots that pass have voters in common no median of cross rates is
\* zero: the tally divides by none.
LEMMA TallyNoPanic ==
    ASSUME TypeOK, NEW vs \in [Validators -> Validator], NEW p \in Params, CrossRatesPositive,
           \A d, e \in Passed(p, vs) : d # e => CommonPower(vs, d, e) >= 2
    PROVE  ~TallyOutcome(p, vs).panic
<1> SUFFICES ASSUME NEW d \in Passed(p, vs), d # Reference(p, vs)
             PROVE  WeightedMedian(Tallied(p, vs)[d]) # 0
  <2>1. TallyOutcome(p, vs).panic =
          (\E d \in Passed(p, vs) : d # Reference(p, vs) /\ WeightedMedian(Tallied(p, vs)[d]) = 0)
    BY TallyParts, Zenon
  <2> QED BY <2>1
<1> DEFINE e == Reference(p, vs)
           b == ToCrossRate(OrganizeBallotByDenom(vs)[d], ToMap(OrganizeBallotByDenom(vs)[e]))
<1>1. e \in Passed(p, vs) /\ d # e
  BY ReferencePassed
<1>2. CommonPower(vs, d, e) >= 2
  BY <1>1
<1>3. d \in DOMAIN OrganizeBallotByDenom(vs) /\ e \in DOMAIN OrganizeBallotByDenom(vs)
  BY <1>1, TalliedPower
<1>4. Tallied(p, vs)[d] = b
  BY DEF Tallied
<1>5. BallotPower(b) >= 2
  BY <1>1, <1>2, <1>3, CrossPower DEF CommonPower
<1>6. IsBallot(b) /\ DOMAIN b # {}
  <2>1. DOMAIN b = DOMAIN OrganizeBallotByDenom(vs)[d] /\ IsFiniteSet(DOMAIN b)
    BY <1>3, CrossBallot
  <2>2. DOMAIN OrganizeBallotByDenom(vs)[d] # {}
    BY <1>3, VoteBallots, Zenon
  <2>3. ASSUME NEW v \in DOMAIN b
        PROVE  b[v].rate \in Nat /\ b[v].power \in Nat /\ (b[v].rate = 0 => b[v].power = 0)
    <3>1. /\ b[v].rate \in Nat /\ b[v].power \in Nat
          /\ \/ b[v].rate = 0 /\ b[v].power = 0
             \/ /\ v \in RateVoters(vs, d) \cap RateVoters(vs, e)
                /\ b[v].rate = DecQuo(votes[v].rates[e], votes[v].rates[d])
      BY <1>3, CrossBallot
    <3>2. ASSUME v \in RateVoters(vs, d) \cap RateVoters(vs, e)
          PROVE  DecQuo(votes[v].rates[e], votes[v].rates[d]) # 0
      <4>1. /\ v \in DOMAIN votes /\ d \in DOMAIN votes[v].rates /\ e \in DOMAIN votes[v].rates
            /\ votes[v].rates[d] > 0 /\ votes[v].rates[e] > 0
        BY <1>3, <3>2, VoteBallots, ZenonT(30) DEF RateVoters
      <4>2. votes[v].rates \in VoteChoices
        BY <4>1 DEF TypeOK
      <4> QED BY <4>1, <4>2 DEF CrossRatesPositive
    <3> QED BY <3>1, <3>2
  <2> QED BY <2>1, <2>2, <2>3 DEF IsBallot
<1> HIDE DEF b
<1>7. WeightedMedian(b) > 0
  BY <1>5, <1>6, MedianOfBallot
<1> QED BY <1>4, <1>7

-----------------------------------------------------------------------------
(* The reward pool covers the rewards *)

\* A part of the pool that is at most one leaves at most the pool.
LEMMA PartOfPool ==
    ASSUME NEW pool \in Nat, NEW n \in Nat, NEW m \in Nat \ {0}, n <= m
    PROVE  LET P == DecMul(NewDec(pool), QuoInt64(NewDec(n), m)) IN P \in Nat /\ P <= pool * One
<1> DEFINE x == n * One
           q == x \div m
<1>1. One \in Nat \ {0} /\ x \in Nat
  BY OneAssumption
<1>2. QuoInt64(NewDec(n), m) = q
  BY <1>1 DEF QuoInt64, NewDec, TruncDiv
<1>3. x <= m * One
  BY <1>1
<1> HIDE DEF x
<1>4. q \in Nat /\ x = m * q + (x % m) /\ x % m \in Nat
  BY <1>1, DivMod
<1> HIDE DEF q
<1>5. q <= One
  <2> SUFFICES ASSUME One + 1 <= q PROVE FALSE
    BY <1>1, <1>4
  <2>1. m * (One + 1) <= m * q /\ m * (One + 1) = m * One + m /\ m * One \in Nat /\ m * q \in Nat
    BY <1>1, <1>4
  <2> QED BY <1>1, <1>3, <1>4, <2>1
<1> DEFINE y == pool * q
<1>6. y \in Nat /\ y <= pool * One
  BY <1>1, <1>4, <1>5
<1>7. (pool * One) * q = y * One
  BY <1>1, <1>4
<1> HIDE DEF y
<1>8. RoundDiv(y * One, One) = y
  BY <1>1, <1>6, RoundDivExact
<1>9. DecMul(NewDec(pool), q) = y
  BY <1>7, <1>8 DEF DecMul, NewDec
<1> QED BY <1>2, <1>6, <1>9

\* What the claims are paid together is no more than the pool holds, though
\* every reward is rounded: SendCoinsFromModuleToModule never fails.
LEMMA PoolCovers ==
    ASSUME Cardinality(Validators) < 2 * One,
           NEW p \in Params, p.votePeriod <= p.rewardDistributionWindow,
           NEW t, NEW C \in SUBSET Validators, t.weight \in [C -> Nat],
           \A d \in RewardDenoms : RewardPool(d) \in Nat
    PROVE  ~Overspent(Rewards(p, t))
<1> SUFFICES ASSUME NEW d \in RewardDenoms
             PROVE  ~(Total([v \in Validators |-> Rewards(p, t)[v][d]]) > RewardPool(d))
  BY Zenon DEF Overspent
<1> DEFINE r == [v \in Validators |-> Rewards(p, t)[v][d]]
           w == t.weight
           pool == RewardPool(d)
           ratio == QuoInt64(NewDec(p.votePeriod), p.rewardDistributionWindow)
           P == IF d = Luna \/ d \in t.targets THEN DecMul(NewDec(pool), ratio) ELSE 0
<1>1. IsFiniteSet(Validators) /\ pool \in Nat /\ w \in [C -> Nat] /\ One \in Nat \ {0}
  BY OracleConstants, OneAssumption
<1>2. ASSUME NEW v \in Validators
      PROVE  /\ r[v] \in Nat
             /\ r[v] = IF v \in C /\ Total(w) # 0
                      THEN TruncateInt(DecMul(P, QuoInt64(NewDec(w[v]), Total(w)))) ELSE 0
  <2>1. r[v] \in Nat
    BY RewardFacts, Zenon
  <2>2. DOMAIN w = C
    BY <1>1
  <2> QED BY <2>1, <2>2 DEF Rewards
<1>3. P \in Nat /\ P <= pool * One
  <2>1. p.votePeriod \in Nat /\ p.rewardDistributionWindow \in Nat \ {0}
    BY DEF Params
  <2>2. DecMul(NewDec(pool), ratio) \in Nat /\ DecMul(NewDec(pool), ratio) <= pool * One
    BY <1>1, <2>1, PartOfPool, Zenon
  <2>3. 0 <= pool * One
    BY <1>1
  <2> QED BY <2>2, <2>3
<1>4. r \in [Validators -> Nat] /\ r \in [Validators -> Int]
  BY ONLY <1>2
<1> HIDE DEF r, pool, P, w
<1>5. CASE Total(w) = 0
  <2>1. \A v \in Validators : r[v] = 0
    BY <1>2, <1>5
  <2>2. Total(r) = 0
    BY <1>1, <1>4, <2>1, TotalZero
  <2> QED BY <1>1, <2>2 DEF r, pool
<1>6. CASE Total(w) # 0
  <2>1. PaysShares(Validators, C, w, P, r)
    BY <1>2, <1>6 DEF PaysShares
  <2>2. C \in SUBSET Validators /\ Cardinality(Validators) < 2 * One
    OBVIOUS
  <2>3. Total(r) <= pool
    <3>1. /\ IsFiniteSet(Validators) /\ pool \in Nat /\ w \in [C -> Nat] /\ P \in Nat /\ P <= pool * One
          /\ r \in [Validators -> Nat] /\ Total(w) # 0
      BY <1>1, <1>3, <1>4, <1>6
    <3> QED BY ONLY <3>1, <2>1, <2>2, PaymentsWithinPool, Zenon
  <2>4. Total(r) \in Int
    BY <1>1, <1>4, TotalInt
  <2> QED BY <1>1, <2>3, <2>4 DEF r, pool
<1> QED BY <1>5, <1>6

-----------------------------------------------------------------------------
(* A validator with misses is one that staking knows *)

\* m misses are of the current window, and only a validator that was bonded in
\* it has any
Current(r, m) ==
    /\ r.status \in {"unbonded", "removed"} => m = 0
    /\ r.status = "unbonding" /\ m # 0 => height \div SlashWindow = r.since \div SlashWindow

CountersCurrent == \A v \in Validators : Current(val[v], missCounter[v])

\* Who has waited for UnbondingBlocks has seen the end of a window, which
\* resets the counters.
LEMMA StakingKeepsCurrent ==
    ASSUME TypeOK, CountersCurrent, UnbondingBlocks >= SlashWindow,
           NEW vs \in StakingEndBlocker(val), NEW v \in Validators
    PROVE  Current(vs[v], missCounter[v])
<1> DEFINE r == val[v]
           m == missCounter[v]
           W == SlashWindow
<1>1. PICK B \in TopSets(val) : vs = [w \in Validators |-> StatusUpdate(val[w], w \in B)]
  BY DEF StakingEndBlocker
<1>2. r \in Validator /\ vs[v] = StatusUpdate(r, v \in B) /\ Current(r, m) /\ height \in Nat
  BY <1>1 DEF TypeOK, Validator, CountersCurrent
<1>3. W \in Nat \ {0} /\ UnbondingBlocks \in Nat /\ UnbondingBlocks >= W
  BY OracleConstants DEF SlashWindow, Params
<1> HIDE DEF r, m, W
<1>4. ASSUME r.status = "unbonding", height >= r.since + UnbondingBlocks PROVE m = 0
  <2>1. r.since \in Nat
    BY <1>2 DEF Validator
  <2>2. height \div W # r.since \div W
    <3> DEFINE a == r.since
               q == a \div W
               u == height \div W
    <3>1. a \in Nat /\ height >= a + W
      BY <1>2, <1>3, <1>4, <2>1
    <3> HIDE DEF a
    <3>2. /\ a = W * q + (a % W) /\ a % W \in Nat /\ q \in Nat
          /\ height = W * u + (height % W) /\ height % W < W /\ height % W \in Nat /\ u \in Nat
      BY <1>2, <1>3, <3>1, DivMod
    <3> HIDE DEF q, u
    <3>3. W * q \in Nat
      BY <1>3, <3>2
    <3>4. u # q
      BY <1>2, <1>3, <3>1, <3>2, <3>3
    <3> QED BY <3>4 DEF a, q, u
  <2> QED BY <1>2, <1>4, <2>2 DEF Current, W
<1>5. CASE v \in B
  BY <1>2, <1>5 DEF StatusUpdate, Validator, Current
<1>6. CASE v \notin B /\ r.status = "bonded"
  <2>1. vs[v] = [r EXCEPT !.status = "unbonding", !.since = height]
    BY <1>2, <1>6 DEF StatusUpdate
  <2>2. vs[v].status = "unbonding" /\ vs[v].since = height
    BY <1>2, <2>1, Zenon DEF Validator
  <2> QED BY <2>2 DEF Current
<1>7. CASE v \notin B /\ r.status = "unbonding" /\ height >= r.since + UnbondingBlocks
  BY <1>4, <1>7 DEF Current, m
<1>8. CASE v \notin B /\ r.status # "bonded" /\ ~(r.status = "unbonding" /\ height >= r.since + UnbondingBlocks)
  <2>1. vs[v] = r
    BY <1>2, <1>8 DEF StatusUpdate
  <2> QED BY <1>2, <2>1 DEF m
<1> QED BY <1>5, <1>6, <1>7, <1>8

\* Only claims are charged a miss.
LEMMA MissedAreClaims ==
    ASSUME NEW p, NEW vs
    PROVE  TallyOutcome(p, vs).missed \in SUBSET Claims(vs)
<1>1. TallyOutcome(p, vs).missed =
        {v \in Claims(vs) : Cardinality(WinsOf(p, vs, v)) # Cardinality(TallyOutcome(p, vs).targets)}
  BY TallyParts, Zenon
<1> QED BY <1>1

\* A miss is counted while its validator is bonded, and a slash leaves the status alone.
LEMMA NextCountersCurrent ==
    ASSUME FixedWindows, MissInv, CountersCurrent, UnbondingBlocks >= SlashWindow, [Next]_vars
    PROVE  CountersCurrent'
<1>0. /\ TypeOK /\ height \in Nat /\ SlashWindow \in Nat \ {0} /\ SlashWindow' = SlashWindow
      /\ val \in [Validators -> Validator]
  BY OracleConstants DEF MissInv, TypeOK, SlashWindow, Params, Validator
<1> HIDE DEF SlashWindow
<1>1. CASE UNCHANGED <<height, val, missCounter>>
  BY <1>0, <1>1 DEF CountersCurrent, Current
<1>2. ASSUME NEW v \in Validators, NEW n \in TokenChoices, ChangeTokens(v, n)
      PROVE  CountersCurrent'
  <2> SUFFICES ASSUME NEW w \in Validators PROVE Current(val[w], missCounter[w])'
    BY DEF CountersCurrent
  <2>1. Current(val[w], missCounter[w]) /\ val[w] \in Validator
    BY <1>0 DEF CountersCurrent
  <2>2. /\ val'[w].since = val[w].since /\ UNCHANGED <<height, missCounter>>
        /\ \/ val'[w].status = val[w].status
           \/ val[w].status = "unbonded" /\ val'[w].status = "removed"
    BY <1>0, <1>2, <2>1 DEF ChangeTokens, Validator
  <2> QED BY <1>0, <2>1, <2>2 DEF Current
<1>3. ASSUME NEW v \in JailChoices, ChangeJailed(v)
      PROVE  CountersCurrent'
  <2> SUFFICES ASSUME NEW w \in Validators PROVE Current(val[w], missCounter[w])'
    BY DEF CountersCurrent
  <2>1. Current(val[w], missCounter[w]) /\ val[w] \in Validator
    BY <1>0 DEF CountersCurrent
  <2>2. /\ val'[w].since = val[w].since /\ UNCHANGED <<height, missCounter>>
        /\ val'[w].status = val[w].status
    BY <1>0, <1>3, <2>1 DEF ChangeJailed, Validator
  <2> QED BY <1>0, <2>1, <2>2 DEF Current
<1>4. ASSUME NEW p \in ParamChoices \cup {params}, NEW vs \in StakingEndBlocker(val), EndBlock(p, vs)
      PROVE  CountersCurrent'
  <2> DEFINE t == TallyOutcome(p, vs)
  <2>1. height' = height + 1 /\ p.slashWindow = SlashWindow
    BY <1>4 DEF EndBlock, FixedWindows, MissInv
  <2>2. CASE (height + 1) % SlashWindow = 0
    <3>1. missCounter' = [v \in Validators |-> 0]
      BY <1>4, <2>1, <2>2 DEF EndBlock, IsPeriodLastBlock
    <3> QED BY <3>1 DEF CountersCurrent, Current
  <2>3. CASE (height + 1) % SlashWindow # 0
    <3>1. missCounter' = Misses(p, t) /\ val' = vs
      BY <1>4, <2>1, <2>3 DEF EndBlock, IsPeriodLastBlock
    <3>2. (height + 1) \div SlashWindow = height \div SlashWindow
      BY <1>0, <2>3, NextBlock, Zenon
    <3> SUFFICES ASSUME NEW v \in Validators PROVE Current(val[v], missCounter[v])'
      BY DEF CountersCurrent
    <3>3. Current(vs[v], missCounter[v])
      BY <1>0, StakingKeepsCurrent
    <3>4. missCounter[v] \in Nat
      BY <1>0 DEF TypeOK
    <3>5. v \notin t.missed => Misses(p, t)[v] = missCounter[v]
      BY <3>4 DEF Misses, CountMisses
    <3>6. v \in t.missed => vs[v].status = "bonded"
      BY MissedAreClaims DEF Claims
    <3> HIDE DEF t
    <3>7. Current(vs[v], Misses(p, t)[v])
      BY <3>3, <3>5, <3>6 DEF Current
    <3> QED BY <1>0, <2>1, <3>1, <3>2, <3>7 DEF Current
  <2> QED BY <2>2, <2>3
<1> QED
  <2>1. CASE Next
    BY <1>1, <1>2, <1>3, <1>4, <2>1, ZenonT(30) DEF Next, AggregateExchangeRatePrevote, AggregateExchangeRateVote,
          DelegateFeedConsent, Halt
  <2>2. CASE UNCHANGED vars
    BY <1>1, <2>2 DEF vars
  <2> QED BY <2>1, <2>2

\* The end of a window finds periods in it, and no misses of a validator that
\* staking has removed.
LEMMA SlashNoPanic ==
    ASSUME FixedWindows, MissInv, CountersCurrent, UnbondingBlocks >= SlashWindow,
           NEW p \in Params, p.votePeriod = VotePeriod, p.slashWindow = SlashWindow,
           IsPeriodLastBlock(SlashWindow), NEW vs \in StakingEndBlocker(val)
    PROVE  ~SlashPanics(p, vs, Misses(p, TallyOutcome(p, vs)))
<1> DEFINE t == TallyOutcome(p, vs)
<1>1. VotePeriodsPerWindow(p) # 0
  <2>1. \A h \in Nat, m, w \in Nat \ {0} : w % m = 0 /\ (h + 1) % w = 0 => w \div m \in Nat \ {0}
    BY PeriodsOfWindow, Zenon
  <2>2. VotePeriod \in Nat \ {0} /\ SlashWindow \in Nat \ {0} /\ height \in Nat
    BY OracleConstants DEF VotePeriod, SlashWindow, Params, MissInv, TypeOK
  <2>3. SlashWindow % VotePeriod = 0 /\ (height + 1) % SlashWindow = 0
    BY DEF FixedWindows, IsPeriodLastBlock
  <2> HIDE DEF VotePeriod, SlashWindow
  <2>4. SlashWindow \div VotePeriod \in Nat \ {0}
    BY ONLY <2>1, <2>2, <2>3, Zenon
  <2> QED BY <2>4 DEF VotePeriodsPerWindow
<1>2. ASSUME NEW v \in BelowMinValid(p, Misses(p, t)) PROVE vs[v].status # "removed"
  <2>1. v \in Validators /\ Misses(p, t)[v] > 0
    BY DEF BelowMinValid
  <2>2. Current(vs[v], missCounter[v]) /\ missCounter[v] \in Nat
    BY <2>1, StakingKeepsCurrent DEF MissInv, TypeOK
  <2>3. v \notin t.missed => Misses(p, t)[v] = missCounter[v]
    <3>1. missCounter[v] + 0 = missCounter[v]
      BY ONLY <2>2
    <3> QED BY ONLY <2>1, <3>1, Zenon DEF Misses, CountMisses
  <2>4. v \in t.missed => vs[v].status = "bonded"
    BY MissedAreClaims DEF Claims
  <2>5. \A x : x > 0 => x # 0
    OBVIOUS
  <2>6. vs[v].status = "removed" => missCounter[v] = 0 /\ vs[v].status # "bonded"
    BY ONLY <2>2 DEF Current
  <2> QED BY ONLY <2>1, <2>3, <2>4, <2>5, <2>6, Zenon
<1> QED BY <1>1, <1>2 DEF SlashPanics

-----------------------------------------------------------------------------
(* The chain does not halt, while the parameters keep to what ValidParams asks
   of them at genesis and ballots that pass overlap *)

PeriodsWithinDistribution == \A p \in ParamChoices : p.votePeriod <= p.rewardDistributionWindow

\* Ballots that pass in this block have more than one unit of power in common,
\* and more than one each
BallotsMeet ==
    \A p \in ParamChoices \cup {params}, vs \in StakingEndBlocker(val) :
        IsPeriodLastBlock(p.votePeriod) =>
            \A d, e \in Passed(p, vs) : d # e => CommonPower(vs, d, e) >= 2

BallotsWeigh ==
    \A p \in ParamChoices \cup {params}, vs \in StakingEndBlocker(val) :
        IsPeriodLastBlock(p.votePeriod) => \A d \in Passed(p, vs) : CommonPower(vs, d, d) >= 2

\* What gives both: thresholds above one half
ThresholdAboveHalf ==
    \A p \in ParamChoices \cup {params}, vs \in StakingEndBlocker(val) :
        (2 * p.voteThreshold - One) * BondedPower(vs) >= 3 * One

\* Two majorities meet.
LEMMA MajoritiesMeet ==
    ASSUME TypeOK, ThresholdAboveHalf
    PROVE  BallotsMeet /\ BallotsWeigh
<1>1. val \in [Validators -> Validator] /\ height \in Nat /\ params \in Params
  BY DEF TypeOK, Validator
<1>2. ASSUME NEW p \in ParamChoices \cup {params}, NEW vs \in StakingEndBlocker(val),
             NEW d \in Passed(p, vs), NEW e \in Passed(p, vs)
      PROVE  CommonPower(vs, d, e) >= 2
  <2>1. vs \in [Validators -> Validator] /\ p \in Params
    BY <1>1, StakingType, OracleConstants
  <2>2. Quorum(p, vs)
    BY <2>1, AboveHalfIsQuorum DEF ThresholdAboveHalf
  <2> QED BY <2>1, <2>2, BallotsOverlap
<1> QED BY <1>2, Zenon DEF BallotsMeet, BallotsWeigh

LiveInv ==
    /\ MissInv /\ PoolInv /\ CountersCurrent
    /\ params.votePeriod <= params.rewardDistributionWindow
    /\ ~halted

\* No end of a block panics: not in the tally, the payment or the slashing.
LEMMA EndBlockNoPanic ==
    ASSUME FixedWindows, UnbondingBlocks >= SlashWindow, Cardinality(Validators) < 2 * One,
           PeriodsWithinDistribution, CrossRatesPositive,
           LiveInv, BallotsMeet,
           NEW p \in ParamChoices \cup {params}, NEW vs \in StakingEndBlocker(val)
    PROVE  ~EndBlockPanics(p, vs, TallyOutcome(p, vs))
<1> DEFINE t == TallyOutcome(p, vs)
<1>1. TypeOK /\ val \in [Validators -> Validator] /\ height \in Nat /\ params \in Params
  BY DEF LiveInv, MissInv, TypeOK, Validator
<1>2. /\ p \in Params /\ p.votePeriod = VotePeriod /\ p.slashWindow = SlashWindow
      /\ p.votePeriod <= p.rewardDistributionWindow
  <2>1. CASE p = params
    BY <1>1, <2>1 DEF LiveInv, MissInv
  <2>2. CASE p \in ParamChoices
    BY <2>2, OracleConstants DEF FixedWindows, FixedVotePeriod, VotePeriod, PeriodsWithinDistribution
  <2> QED BY <2>1, <2>2
<1>3. vs \in [Validators -> Validator]
  BY <1>1, StakingType
<1>4. ASSUME IsPeriodLastBlock(p.votePeriod) PROVE ~t.panic
  <2>1. \A d, e \in Passed(p, vs) : d # e => CommonPower(vs, d, e) >= 2
    BY <1>4 DEF BallotsMeet
  <2> QED BY <1>1, <1>2, <1>3, <2>1, TallyNoPanic
<1>5. ~Overspent(Rewards(p, t))
  <2>1. t.weight \in [Claims(vs) -> Nat] /\ Claims(vs) \in SUBSET Validators
    BY <1>1, <1>3, WeightFacts, Zenon DEF Claims
  <2>2. \A d \in RewardDenoms : RewardPool(d) \in Nat
    BY DEF LiveInv, PoolInv
  <2> HIDE DEF t
  <2> QED BY <1>2, <2>1, <2>2, PoolCovers
<1>6. ASSUME IsPeriodLastBlock(p.slashWindow) PROVE ~SlashPanics(p, vs, Misses(p, t))
  BY <1>2, <1>6, SlashNoPanic DEF LiveInv
<1> QED BY <1>4, <1>5, <1>6 DEF EndBlockPanics

\* No EndBlocker panics, for every set of (fewer than 2 * 10^18) validators,
\* every vote and every way staking moves tokens, if
\* - periods and windows are whole and do not change (FixedWindows), and a
\*   period fits in the distribution window: Params.Validate asks this at
\*   genesis, a parameter change is not held to it;
\* - unbonding takes at least a slash window;
\* - no two rates of a vote are so far apart that their quotient rounds to zero;
\* - ballots that pass together share two units of power (BallotsMeet), which
\*   a threshold above one half gives (MajoritiesMeet) and one half does not.
THEOREM ChainKeepsRunning ==
    ASSUME FixedWindows, UnbondingBlocks >= SlashWindow, Cardinality(Validators) < 2 * One,
           PeriodsWithinDistribution, CrossRatesPositive
    PROVE  Spec /\ []BallotsMeet => []NeverHalts
<1>1. Init => LiveInv
  <2> SUFFICES ASSUME Init PROVE LiveInv
    OBVIOUS
  <2>1. MissInv /\ PoolInv
    BY InitMissInv, InitPoolInv
  <2>2. CountersCurrent
    BY DEF Init, CountersCurrent, Current
  <2>3. params.votePeriod <= params.rewardDistributionWindow /\ ~halted
    BY OracleConstants DEF Init, ValidParams
  <2> QED BY <2>1, <2>2, <2>3 DEF LiveInv
<1>2. LiveInv /\ BallotsMeet /\ [Next]_vars => LiveInv'
  <2> SUFFICES ASSUME LiveInv, BallotsMeet, [Next]_vars PROVE LiveInv'
    OBVIOUS
  <2>1. MissInv' /\ PoolInv' /\ CountersCurrent'
    BY NextMissInv, NextPoolInv, NextCountersCurrent DEF LiveInv
  <2>2. ~halted'
    <3>1. \A p \in ParamChoices \cup {params}, vs \in StakingEndBlocker(val) : ~Halt(p, vs)
      BY EndBlockNoPanic DEF Halt
    <3>2. UNCHANGED halted
      BY <3>1, ZenonT(30) DEF Next, vars, AggregateExchangeRatePrevote, AggregateExchangeRateVote,
           DelegateFeedConsent, ChangeTokens, ChangeJailed, EndBlock
    <3> QED BY <3>2 DEF LiveInv
  <2>3. params'.votePeriod <= params'.rewardDistributionWindow
    <3>1. params' = params \/ params' \in ParamChoices
      BY ZenonT(30) DEF Next, vars, AggregateExchangeRatePrevote, AggregateExchangeRateVote,
           DelegateFeedConsent, ChangeTokens, ChangeJailed, EndBlock, Halt
    <3> QED BY <3>1 DEF LiveInv, PeriodsWithinDistribution
  <2> QED BY <2>1, <2>2, <2>3 DEF LiveInv
<1>3. LiveInv => NeverHalts
  BY DEF LiveInv, NeverHalts
<1> QED BY <1>1, <1>2, <1>3, PTL DEF Spec

-----------------------------------------------------------------------------
(* Who votes with all others misses nothing *)

\* A claim that votes on every target has a vote in every ballot, so that the
\* targets that are left are those whose ballot passed.
LEMMA FaithfulTargets ==
    ASSUME TypeOK, NEW vs \in [Validators -> Validator], NEW p, NEW v \in Claims(vs), Faithful(v)
    PROVE  /\ TallyOutcome(p, vs).targets = Passed(p, vs)
           /\ \A d \in Passed(p, vs) : v \in DOMAIN OrganizeBallotByDenom(vs)[d]
<1> DEFINE m == OrganizeBallotByDenom(vs)
           T == DOMAIN tobinTaxes
<1>1. v \in DOMAIN votes /\ DOMAIN votes[v].rates = T /\ T \subseteq Denoms
  BY DEF Faithful, TypeOK
<1>2. ASSUME NEW d \in T PROVE d \in DOMAIN m
  <2>1. v \in {w \in DOMAIN votes \cap Claims(vs) : d \in DOMAIN votes[w].rates} /\ d \in Denoms
    BY <1>1
  <2> QED BY <2>1 DEF OrganizeBallotByDenom
<1>3. TallyOutcome(p, vs).targets = RemainingTargets(m, T, Threshold(p, vs))
  BY TallyParts, Zenon
<1>4. RemainingTargets(m, T, Threshold(p, vs)) = Passed(p, vs)
  BY <1>2 DEF RemainingTargets, Passed, PassingDenoms
<1>5. ASSUME NEW d \in Passed(p, vs) PROVE v \in DOMAIN m[d]
  <2>1. d \in T /\ d \in DOMAIN m
    BY DEF Passed, PassingDenoms
  <2>2. DOMAIN m[d] = {w \in DOMAIN votes \cap Claims(vs) : d \in DOMAIN votes[w].rates}
    BY <2>1, VoteBallots, Zenon
  <2> QED BY <1>1, <2>1, <2>2
<1> QED BY <1>3, <1>4, <1>5

\* Others abstain on d or vote what v votes, if v votes a rate.
LEMMA FaithfulVotes ==
    ASSUME NEW v, Faithful(v), NEW d \in DOMAIN votes[v].rates, votes[v].rates[d] # 0,
           NEW w \in DOMAIN votes, d \in DOMAIN votes[w].rates
    PROVE  votes[w].rates[d] = 0 \/ votes[w].rates[d] = votes[v].rates[d]
BY DEF Faithful

\* A reward band is a natural number.
LEMMA BandNat == \A p \in Params : p.rewardBand \in Nat
BY OneAssumption DEF Params

\* It wins the ballot of the reference ...
LEMMA FaithfulWinsReference ==
    ASSUME TypeOK, NEW vs \in [Validators -> Validator], NEW p \in Params,
           NEW v \in Claims(vs), Faithful(v), NEW d \in DOMAIN OrganizeBallotByDenom(vs),
           v \in DOMAIN OrganizeBallotByDenom(vs)[d], CommonPower(vs, d, d) >= 2
    PROVE  v \in Winners(OrganizeBallotByDenom(vs)[d], p.rewardBand)
<1> DEFINE b == OrganizeBallotByDenom(vs)[d]
<1>1. /\ IsBallot(b)
      /\ DOMAIN b = {w \in DOMAIN votes \cap Claims(vs) : d \in DOMAIN votes[w].rates}
      /\ \A w \in DOMAIN b : b[w].rate = votes[w].rates[d]
  BY VoteBallots, Zenon
<1>2. p.rewardBand \in Nat
  BY BandNat, Zenon
<1>3. BallotPower(b) >= 2
  <2>1. RateVoters(vs, d) \cap RateVoters(vs, d) = RateVoters(vs, d)
    OBVIOUS
  <2> QED BY <2>1, BallotPowers, Zenon DEF CommonPower
<1>4. v \in DOMAIN b
  OBVIOUS
<1> HIDE DEF b
<1>5. CASE b[v].rate = 0
  BY <1>4, <1>5, AbstentionWins DEF b
<1>6. CASE b[v].rate # 0
  <2>1. ASSUME NEW w \in DOMAIN b PROVE b[w].rate = 0 \/ b[w].rate = b[v].rate
    <3>1. /\ w \in DOMAIN votes /\ d \in DOMAIN votes[w].rates /\ d \in DOMAIN votes[v].rates
          /\ votes[v].rates[d] # 0
      BY <1>1, <1>4, <1>6
    <3>2. votes[w].rates[d] = 0 \/ votes[w].rates[d] = votes[v].rates[d]
      BY <3>1, FaithfulVotes
    <3> QED BY <1>1, <1>4, <3>2
  <2>2. v \in Winners(b, p.rewardBand)
    BY <1>1, <1>2, <1>3, <1>4, <2>1, UniformWins
  <2> QED BY <2>2 DEF b
<1> QED BY <1>5, <1>6

\* ... and those of the cross rates, which are equal when the rates are.
LEMMA FaithfulWinsCross ==
    ASSUME TypeOK, NEW vs \in [Validators -> Validator], NEW p \in Params,
           NEW v \in Claims(vs), Faithful(v),
           NEW d \in DOMAIN OrganizeBallotByDenom(vs), NEW e \in DOMAIN OrganizeBallotByDenom(vs),
           v \in DOMAIN OrganizeBallotByDenom(vs)[d], CommonPower(vs, d, e) >= 2
    PROVE  v \in Winners(ToCrossRate(OrganizeBallotByDenom(vs)[d], ToMap(OrganizeBallotByDenom(vs)[e])),
                         p.rewardBand)
<1> DEFINE b == ToCrossRate(OrganizeBallotByDenom(vs)[d], ToMap(OrganizeBallotByDenom(vs)[e]))
           AB == RateVoters(vs, d) \cap RateVoters(vs, e)
           c(w) == DecQuo(votes[w].rates[e], votes[w].rates[d])
<1>1. /\ DOMAIN b = DOMAIN OrganizeBallotByDenom(vs)[d] /\ IsFiniteSet(DOMAIN b)
      /\ \A w \in DOMAIN b : b[w].rate \in Nat /\ b[w].power \in Nat
      /\ \A w \in DOMAIN b : \/ b[w].rate = 0 /\ b[w].power = 0
                             \/ w \in AB /\ b[w].rate = c(w)
  BY CrossBallot
<1>2. p.rewardBand \in Nat
  BY BandNat, Zenon
<1>3. BallotPower(b) >= 2
  BY CrossPower DEF CommonPower
<1>4. v \in DOMAIN b
  BY <1>1
<1>5. \A w \in AB : /\ w \in DOMAIN votes /\ d \in DOMAIN votes[w].rates /\ e \in DOMAIN votes[w].rates
                     /\ votes[w].rates[d] # 0 /\ votes[w].rates[e] # 0
  <2> SUFFICES ASSUME NEW w \in AB
               PROVE  /\ w \in DOMAIN votes /\ d \in DOMAIN votes[w].rates /\ e \in DOMAIN votes[w].rates
                      /\ votes[w].rates[d] # 0 /\ votes[w].rates[e] # 0
    OBVIOUS
  <2>1. /\ w \in DOMAIN OrganizeBallotByDenom(vs)[d] /\ w \in DOMAIN OrganizeBallotByDenom(vs)[e]
        /\ votes[w].rates[d] > 0 /\ votes[w].rates[e] > 0
    BY DEF RateVoters
  <2>2. w \in DOMAIN votes /\ d \in DOMAIN votes[w].rates /\ e \in DOMAIN votes[w].rates
    BY <2>1, VoteBallots, ZenonT(30)
  <2>3. \A x : x > 0 => x # 0
    OBVIOUS
  <2> QED BY ONLY <2>1, <2>2, <2>3, Zenon
<1> HIDE DEF b, AB
<1>6. CASE b[v].rate = 0
  BY <1>4, <1>6, AbstentionWins DEF b
<1>7. CASE b[v].rate # 0
  <2>1. v \in AB /\ b[v].rate = c(v)
    BY <1>1, <1>4, <1>7
  <2>2. ASSUME NEW w \in AB PROVE c(w) = c(v)
    <3>1. votes[w].rates[d] = votes[v].rates[d]
      BY <1>5, <2>1, FaithfulVotes
    <3>2. votes[w].rates[e] = votes[v].rates[e]
      BY <1>5, <2>1, FaithfulVotes
    <3> QED BY <3>1, <3>2
  <2>3. \A w \in DOMAIN b : \/ b[w].rate = 0 /\ b[w].power = 0
                            \/ b[w].rate = b[v].rate
    BY <1>1, <2>1, <2>2
  <2>4. IsBallot(b)
    BY <1>1, <1>7, <2>3 DEF IsBallot
  <2>5. v \in Winners(b, p.rewardBand)
    BY <1>2, <1>3, <1>4, <2>3, <2>4, UniformWins
  <2> QED BY <2>5 DEF b
<1> QED BY <1>6, <1>7

\* A claim that votes with all others wins as many ballots as there are targets.
LEMMA FaithfulWins ==
    ASSUME TypeOK, NEW vs \in [Validators -> Validator], NEW p \in Params,
           \A d, e \in Passed(p, vs) : CommonPower(vs, d, e) >= 2,
           NEW v \in Validators, Faithful(v)
    PROVE  v \notin TallyOutcome(p, vs).missed
<1> SUFFICES ASSUME v \in Claims(vs)
             PROVE  Cardinality(WinsOf(p, vs, v)) = Cardinality(TallyOutcome(p, vs).targets)
  <2>1. TallyOutcome(p, vs).missed =
          {w \in Claims(vs) : Cardinality(WinsOf(p, vs, w)) # Cardinality(TallyOutcome(p, vs).targets)}
    BY TallyParts, Zenon
  <2> QED BY <2>1
<1>1. /\ TallyOutcome(p, vs).targets = Passed(p, vs)
      /\ \A d \in Passed(p, vs) : v \in DOMAIN OrganizeBallotByDenom(vs)[d]
  BY FaithfulTargets
<1>2. ASSUME NEW d \in Passed(p, vs) PROVE v \in Winners(Tallied(p, vs)[d], p.rewardBand)
  <2> DEFINE e == Reference(p, vs)
  <2>1. e \in Passed(p, vs)
    BY ReferencePassed
  <2>2. d \in DOMAIN OrganizeBallotByDenom(vs) /\ e \in DOMAIN OrganizeBallotByDenom(vs)
    BY <2>1 DEF Passed, PassingDenoms
  <2>3. v \in DOMAIN OrganizeBallotByDenom(vs)[d] /\ CommonPower(vs, d, e) >= 2
    BY <1>1, <2>1
  <2>4. CASE d = e
    <3>1. Tallied(p, vs)[d] = OrganizeBallotByDenom(vs)[d]
      BY <2>4 DEF Tallied
    <3> QED BY <2>2, <2>3, <2>4, <3>1, FaithfulWinsReference
  <2>5. CASE d # e
    <3>1. Tallied(p, vs)[d] =
            ToCrossRate(OrganizeBallotByDenom(vs)[d], ToMap(OrganizeBallotByDenom(vs)[e]))
      BY <2>5 DEF Tallied
    <3> QED BY <2>2, <2>3, <3>1, FaithfulWinsCross
  <2> QED BY <2>4, <2>5
<1>3. WinsOf(p, vs, v) = Passed(p, vs)
  BY <1>2 DEF WinsOf
<1> QED BY <1>1, <1>3

\* Whoever abstains or votes what all others vote, on every target, is charged
\* no miss, for every set of validators, votes and parameters, if the ballots
\* that pass have two units of power each and in common: with less, the median
\* of a ballot may be an abstention's zero.
THEOREM FaithfulUncharged == Spec /\ []BallotsMeet /\ []BallotsWeigh => FaithfulNotMissed
<1> DEFINE Uncharged == \A v \in Validators : Faithful(v) => missCounter'[v] <= missCounter[v]
<1>1. ASSUME TypeOK, BallotsMeet, BallotsWeigh, NEW p \in ParamChoices \cup {params},
             NEW vs \in StakingEndBlocker(val), EndBlock(p, vs), NEW v \in Validators, Faithful(v)
      PROVE  missCounter'[v] <= missCounter[v]
  <2> DEFINE t == TallyOutcome(p, vs)
  <2>1. /\ vs \in [Validators -> Validator] /\ p \in Params /\ missCounter[v] \in Nat
    <3>1. val \in [Validators -> Validator] /\ height \in Nat /\ params \in Params
      BY <1>1 DEF TypeOK, Validator
    <3> QED BY <1>1, <3>1, StakingType, OracleConstants DEF TypeOK
  <2>2. ASSUME IsPeriodLastBlock(p.votePeriod) PROVE v \notin t.missed
    <3>1. \A d, e \in Passed(p, vs) : CommonPower(vs, d, e) >= 2
      BY <1>1, <2>2 DEF BallotsMeet, BallotsWeigh
    <3> QED BY <1>1, <2>1, <3>1, FaithfulWins
  <2>3. Misses(p, t)[v] = missCounter[v]
    <3>1. missCounter[v] + 0 = missCounter[v]
      BY ONLY <2>1
    <3>2. v \in Validators
      BY <1>1
    <3> QED BY ONLY <2>2, <3>1, <3>2, Zenon DEF Misses, CountMisses
  <2>4. missCounter' = [w \in Validators |-> 0] \/ missCounter' = Misses(p, t)
    BY <1>1 DEF EndBlock
  <2> HIDE DEF t
  <2> QED BY <2>1, <2>3, <2>4
<1>2. TypeOK /\ BallotsMeet /\ BallotsWeigh /\ [Next]_vars => [Uncharged]_vars
  <2> SUFFICES ASSUME TypeOK, BallotsMeet, BallotsWeigh, Next PROVE Uncharged
    OBVIOUS
  <2>1. CASE UNCHANGED missCounter
    <3>1. \A v \in Validators : missCounter[v] \in Nat
      BY DEF TypeOK
    <3> QED BY <2>1, <3>1
  <2>2. \/ UNCHANGED missCounter
        \/ \E p \in ParamChoices \cup {params}, vs \in StakingEndBlocker(val) : EndBlock(p, vs)
    BY ZenonT(30) DEF Next, AggregateExchangeRatePrevote, AggregateExchangeRateVote,
           DelegateFeedConsent, ChangeTokens, ChangeJailed, Halt
  <2> QED BY <1>1, <2>1, <2>2
<1> QED BY <1>2, InitTypeOK, NextTypeOK, PTL DEF Spec, FaithfulNotMissed

\* With a vote threshold above one half, and power enough to tell it from one
\* half, no tally panics and whoever agrees or abstains is charged no miss: two
\* majorities always share voters (EndBlocker, PickReferenceTerra, Tally).
THEOREM MajoritiesTally ==
    ASSUME FixedWindows, UnbondingBlocks >= SlashWindow, Cardinality(Validators) < 2 * One,
           PeriodsWithinDistribution, CrossRatesPositive
    PROVE  Spec /\ []ThresholdAboveHalf => []NeverHalts /\ FaithfulNotMissed
<1>1. TypeOK /\ ThresholdAboveHalf => BallotsMeet /\ BallotsWeigh
  BY MajoritiesMeet
<1>2. Spec /\ []BallotsMeet => []NeverHalts
  BY ChainKeepsRunning
<1> QED BY <1>1, <1>2, TypeCorrect, FaithfulUncharged, PTL
=============================================================================
