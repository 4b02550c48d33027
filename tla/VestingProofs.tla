--------------------------- MODULE VestingProofs ---------------------------
(***************************************************************************)
(* Proofs about vesting accounts, for all amounts, schedules and times.    *)
(***************************************************************************)
EXTENDS Vesting, NumberLemmas, SequenceTheorems, TLAPS

\* The lists of schedules that an account may hold
Valid == {l \in ScheduleLists : Validate(l)}

\* What one schedule has vested is between nothing and its ratio, and a later
\* time never takes any of it back (GetVestedRatio, the body of its loop).
LEMMA RatioGrows ==
    ASSUME NEW s, s.start \in Int, s.end \in Int, s.ratio \in Int, ScheduleOK(s),
           NEW t \in Nat, NEW u \in Nat, t <= u
    PROVE  /\ RatioOf(s, t) \in Nat
           /\ RatioOf(s, u) \in Nat
           /\ RatioOf(s, t) <= RatioOf(s, u)
           /\ RatioOf(s, t) <= s.ratio
<1> DEFINE d == s.end - s.start
           Part(x) == (s.ratio * (x - s.start)) \div d
<1>1. ASSUME NEW x \in Nat, s.start <= x, x < s.end
      PROVE  /\ RatioOf(s, x) = Part(x)
             /\ Part(x) \in Nat
             /\ Part(x) <= s.ratio
  <2> DEFINE k == x - s.start
             n == s.ratio * k
  <2>1. k \in Nat /\ d \in Nat \ {0} /\ k <= d /\ s.ratio \in Nat
    BY <1>1 DEF ScheduleOK
  <2> HIDE DEF k, d
  <2>2. n \in Nat /\ n <= s.ratio * d
    BY <2>1
  <2>3. (s.ratio * d) \div d = s.ratio
    BY <2>1
  <2> HIDE DEF n
  <2>4. n \div d \in Nat /\ n \div d <= s.ratio
    BY <2>1, <2>2, <2>3, DivGrows
  <2>5. RatioOf(s, x) = n \div d
    BY <1>1, <2>1, <2>2 DEF RatioOf, QuoInt64, TruncDiv, n, k, d
  <2> QED BY <2>4, <2>5 DEF n, k
<1>2. ASSUME NEW x \in Nat, x < s.start
      PROVE  RatioOf(s, x) = 0
  BY <1>2 DEF RatioOf
<1>3. ASSUME NEW x \in Nat, s.start <= x, s.end <= x
      PROVE  RatioOf(s, x) = s.ratio
  BY <1>3 DEF RatioOf
<1>4. s.ratio \in Nat
  BY DEF ScheduleOK
<1>5. ASSUME s.start <= t, u < s.end
      PROVE  Part(t) <= Part(u)
  <2> DEFINE n == s.ratio * (t - s.start)
             m == s.ratio * (u - s.start)
  <2>1. t - s.start \in Nat /\ u - s.start \in Nat /\ t - s.start <= u - s.start
    BY <1>5
  <2>2. n \in Nat /\ m \in Nat /\ n <= m
    BY <1>4, <2>1
  <2>3. d \in Nat \ {0}
    BY <1>5
  <2> HIDE DEF n, m, d
  <2>4. n \div d <= m \div d
    BY <2>2, <2>3, DivGrows
  <2> QED BY <2>4 DEF n, m
<1> HIDE DEF Part, d
<1>6. CASE t < s.start
  <2>1. RatioOf(s, t) = 0
    BY <1>2, <1>6
  <2>2. RatioOf(s, u) \in Nat
    BY <1>1, <1>2, <1>3, <1>4
  <2> QED BY <2>1, <2>2, <1>4
<1>7. CASE s.start <= t /\ u < s.end
  BY <1>1, <1>5, <1>7
<1>8. CASE s.start <= t /\ t < s.end /\ s.end <= u
  BY <1>1, <1>3, <1>4, <1>8
<1>9. CASE s.start <= t /\ s.end <= t
  BY <1>3, <1>4, <1>9
<1> QED BY <1>6, <1>7, <1>8, <1>9

\* The schedules of an account are what Validate let through.
LEMMA ValidSchedules ==
    ASSUME NEW l \in Valid
    PROVE  /\ Len(l) \in Nat /\ IsFiniteSet(1..Len(l)) /\ Validate(l)
           /\ \A i \in 1..Len(l) : /\ l[i].start \in Int /\ l[i].end \in Int /\ l[i].end <= MaxTime
                                   /\ l[i].ratio \in Nat /\ ScheduleOK(l[i])
<1>1. l \in Seq([start : Int, end : 0..MaxTime, ratio : Int]) /\ Validate(l)
  BY VestingConstants DEF Valid
<1>2. Len(l) \in Nat /\ IsFiniteSet(1..Len(l))
  BY <1>1, FS_Interval
<1>3. ASSUME NEW i \in 1..Len(l)
      PROVE  /\ l[i].start \in Int /\ l[i].end \in Int /\ l[i].end <= MaxTime
             /\ l[i].ratio \in Nat /\ ScheduleOK(l[i])
  <2>1. l[i] \in [start : Int, end : 0..MaxTime, ratio : Int]
    BY <1>1, ElementOfSeq
  <2>2. ScheduleOK(l[i])
    BY <1>1 DEF Validate
  <2> QED BY <2>1, <2>2, VestingConstants DEF ScheduleOK
<1> QED BY <1>1, <1>2, <1>3

\* The vested ratio grows with the time, from nothing to the total of the list.
LEMMA RatiosAdd ==
    ASSUME NEW l \in Valid, NEW t \in Nat, NEW u \in Nat, t <= u
    PROVE  /\ GetVestedRatio(l, t) \in Nat
           /\ GetVestedRatio(l, u) \in Nat
           /\ GetVestedRatio(l, t) <= GetVestedRatio(l, u)
           /\ TotalRatio(l) \in Nat
           /\ GetVestedRatio(l, t) <= TotalRatio(l)
<1> DEFINE S == 1..Len(l)
           f == [i \in S |-> RatioOf(l[i], t)]
           g == [i \in S |-> RatioOf(l[i], u)]
           h == [i \in S |-> l[i].ratio]
<1>1. IsFiniteSet(S) /\ \A i \in S : l[i].ratio \in Nat
  BY ValidSchedules
<1>2. \A i \in S : /\ RatioOf(l[i], t) \in Nat /\ RatioOf(l[i], u) \in Nat
                   /\ RatioOf(l[i], t) <= RatioOf(l[i], u)
                   /\ RatioOf(l[i], t) <= l[i].ratio
  <2>1. TAKE i \in S
  <2>2. l[i].start \in Int /\ l[i].end \in Int /\ l[i].ratio \in Int /\ ScheduleOK(l[i])
    BY ValidSchedules
  <2> QED BY <2>2, RatioGrows
<1>3. /\ f \in [S -> Nat] /\ g \in [S -> Nat] /\ h \in [S -> Nat]
      /\ \A i \in S : f[i] <= g[i] /\ f[i] <= h[i]
  BY <1>1, <1>2
<1>4. GetVestedRatio(l, t) = Total(f) /\ GetVestedRatio(l, u) = Total(g) /\ TotalRatio(l) = Total(h)
  BY DEF GetVestedRatio, TotalRatio
<1> HIDE DEF f, g, h, S
<1>5. Total(f) \in Nat /\ Total(g) \in Nat /\ Total(h) \in Nat
  BY <1>1, <1>3, TotalNat
<1>6. f \in [S -> Int] /\ g \in [S -> Int] /\ h \in [S -> Int]
  BY <1>3
<1>7. Total(f) <= Total(g) /\ Total(f) <= Total(h)
  BY <1>1, <1>3, <1>6, TotalMonotonic
<1> QED BY <1>4, <1>5, <1>7

\* Validate lets the total differ from one by half a unit of FixedPoint.
LEMMA TotalNearOne ==
    ASSUME NEW l \in Valid
    PROVE  LET T == TotalRatio(l) IN
           /\ T \in Nat
           /\ 2 * (FixedPoint * T) <= 2 * (FixedPoint * One) + One
           /\ 2 * (FixedPoint * One) <= 2 * (FixedPoint * T) + One
<1> DEFINE T == TotalRatio(l)
           n == T * FixedPoint
           k == RoundDiv(n, One)
<1>1. T \in Nat /\ FixedPoint \in Nat \ {0} /\ FixedPoint <= One /\ One \in Nat \ {0}
  BY RatiosAdd, 0 \in Nat, 0 <= 0, VestingConstants, OneAssumption
<1>2. n \in Nat
  BY <1>1
<1>3. TruncDiv(k * One, FixedPoint) = One
  BY DEF Valid, Validate, TotalIsOne, QuoInt64, NewDec, RoundInt
<1> HIDE DEF T, n
<1>4. k \in Nat /\ 2 * (One * k) <= 2 * n + One /\ 2 * n <= 2 * (One * k) + One
  BY <1>1, <1>2, RoundDivNear
<1> HIDE DEF k
<1> DEFINE m == k * One
<1>5. m \in Nat /\ m \div FixedPoint = One
  BY <1>1, <1>3, <1>4 DEF TruncDiv
<1>6. m % FixedPoint \in Nat /\ m % FixedPoint < FixedPoint /\ m = FixedPoint * One + (m % FixedPoint)
  BY <1>1, <1>5, DivMod
<1>7. k = FixedPoint
  <2> DEFINE r == m % FixedPoint
  <2>1. r \in Nat /\ r < FixedPoint /\ m = FixedPoint * One + r
    BY <1>6
  <2>2. m = One * k + 0 /\ FixedPoint * One = One * FixedPoint
    BY <1>1, <1>4
  <2> HIDE DEF r, m
  <2>3. r \in 0..(One - 1) /\ 0 \in 0..(One - 1) /\ One * k + 0 = One * FixedPoint + r
    BY <1>1, <2>1, <2>2
  <2> QED BY <1>1, <1>4, <2>3, DivUnique
<1>8. n = FixedPoint * T /\ One * k = FixedPoint * One
  BY <1>1, <1>7 DEF n
<1> QED BY <1>1, <1>4, <1>8 DEF T

\* The vested coins of a ratio, without the roundings that change nothing.
LEMMA VestedOfRatio ==
    ASSUME schedules \in Valid, schedules # << >>, NEW t \in Nat
    PROVE  LET R == GetVestedRatio(schedules, t)
               V == GetVestedCoins(t) IN
           /\ R \in Nat /\ V \in Nat
           /\ 2 * (One * V) <= 2 * (OriginalVesting * R) + One
           /\ 2 * (OriginalVesting * R) <= 2 * (One * V) + One
<1> DEFINE R == GetVestedRatio(schedules, t)
           n == OriginalVesting * R
<1>1. R \in Nat /\ OriginalVesting \in Nat /\ One \in Nat \ {0}
  BY RatiosAdd, t <= t, VestingConstants, OneAssumption
<1>2. GetVestedCoins(t) = RoundDiv(RoundDiv((OriginalVesting * One) * R, One), One)
  BY DEF GetVestedCoins, RoundInt, DecMul, NewDec
<1> HIDE DEF R
<1>3. (OriginalVesting * One) * R = n * One /\ n \in Nat
  BY <1>1
<1> HIDE DEF n
<1>4. GetVestedCoins(t) = RoundDiv(n, One)
  BY <1>1, <1>2, <1>3, RoundDivExact
<1> QED BY <1>1, <1>3, <1>4, RoundDivNear DEF R, n

-----------------------------------------------------------------------------
Coins == <<balance, delegated, delegatedVesting, delegatedFree>>

\* The inductive invariant.  VestingBacked needs that nothing is negative, and
\* that the schedules are among those a genesis file may hold.
IInv ==
    /\ schedules \in Valid \cup {<< >>}
    /\ time \in Nat
    /\ balance \in Nat /\ delegated \in Nat
    /\ delegatedVesting \in Nat /\ delegatedFree \in Nat
    /\ balance + delegatedVesting >= GetVestingCoins

\* At no two times of an account do the vested coins shrink (GetVestedCoins).
LEMMA VestedGrows ==
    ASSUME schedules \in Valid \cup {<< >>}, NEW t \in Nat, NEW u \in Nat, t <= u
    PROVE  /\ GetVestedCoins(t) \in Nat
           /\ GetVestedCoins(u) \in Nat
           /\ GetVestedCoins(t) <= GetVestedCoins(u)
<1>1. CASE schedules = << >>
  BY <1>1, VestingConstants DEF GetVestedCoins
<1>2. CASE schedules \in Valid /\ schedules # << >>
  <2> DEFINE a == GetVestedRatio(schedules, t)
             b == GetVestedRatio(schedules, u)
             o == NewDec(OriginalVesting)
  <2>2. a \in Nat /\ b \in Nat /\ a <= b
    BY <1>2, RatiosAdd
  <2>3. o \in Nat
    BY VestingConstants, OneAssumption DEF NewDec
  <2>4. /\ GetVestedCoins(t) = RoundDiv(RoundDiv(o * a, One), One)
        /\ GetVestedCoins(u) = RoundDiv(RoundDiv(o * b, One), One)
    BY <1>2 DEF GetVestedCoins, RoundInt, DecMul
  <2> HIDE DEF a, b, o
  <2>5. o * a \in Nat /\ o * b \in Nat /\ o * a <= o * b
    BY <2>2, <2>3
  <2> DEFINE x == RoundDiv(o * a, One)
             y == RoundDiv(o * b, One)
  <2>6. x \in Nat /\ y \in Nat /\ x <= y
    BY <2>5, OneAssumption, RoundDivType, RoundGrows
  <2> HIDE DEF x, y
  <2>7. RoundDiv(x, One) \in Nat /\ RoundDiv(y, One) \in Nat /\ RoundDiv(x, One) <= RoundDiv(y, One)
    BY <2>6, OneAssumption, RoundDivType, RoundGrows
  <2> QED BY <2>4, <2>7 DEF x, y
<1> QED BY <1>1, <1>2

\* A step lets time pass or stay, and keeps the schedules, so that it does not
\* take back vested coins.
LEMMA StepGrows ==
    ASSUME schedules \in Valid \cup {<< >>}, time \in Nat, [Next]_vars
    PROVE  /\ schedules' = schedules
           /\ time' \in Nat
           /\ GetVestedCoins(time) \in Nat
           /\ GetVestedCoins(time)' \in Nat
           /\ GetVestedCoins(time) <= GetVestedCoins(time)'
<1>1. schedules' = schedules /\ time' \in {time, time + 1}
  BY DEF Next, vars, Send, Delegate, Undelegate, Slash, Tick
<1>2. time' \in Nat /\ time <= time'
  BY <1>1
<1>3. GetVestedCoins(time)' = GetVestedCoins(time')
  BY <1>1 DEF GetVestedCoins
<1> QED BY <1>1, <1>2, <1>3, VestedGrows

LEMMA InitIInv == ASSUME Init PROVE IInv
<1>1. schedules \in Valid \cup {<< >>} /\ time \in Nat
  BY DEF Init, Valid
<1>2. GetVestedCoins(time) \in Nat
  BY <1>1, VestedGrows
<1>3. balance \in Nat /\ balance >= OriginalVesting
  BY VestingConstants DEF Init
<1>4. delegated = 0 /\ delegatedVesting = 0 /\ delegatedFree = 0
  BY DEF Init
<1> QED BY <1>1, <1>2, <1>3, <1>4, VestingConstants DEF IInv, GetVestingCoins

LEMMA NextIInv == ASSUME IInv, [Next]_vars PROVE IInv'
<1> DEFINE v == GetVestingCoins
<1>1. /\ schedules' = schedules
      /\ time' \in Nat
      /\ v \in Int /\ v' \in Int /\ v' <= v
  BY StepGrows, VestingConstants DEF IInv, GetVestingCoins
<1>2. /\ balance \in Nat /\ delegated \in Nat /\ delegatedVesting \in Nat /\ delegatedFree \in Nat
      /\ balance + delegatedVesting >= v
      /\ schedules \in Valid \cup {<< >>}
  BY DEF IInv
<1>3. SUFFICES /\ balance' \in Nat /\ delegated' \in Nat
               /\ delegatedVesting' \in Nat /\ delegatedFree' \in Nat
               /\ balance' + delegatedVesting' >= v
  <2>1. balance' + delegatedVesting' >= v'
    <3> DEFINE b == balance'
               d == delegatedVesting'
               w == v'
    <3>1. b \in Nat /\ d \in Nat /\ b + d >= v
      BY <1>3
    <3>2. v \in Int /\ w \in Int /\ w <= v
      BY <1>1
    <3> HIDE DEF b, d, w, v
    <3>3. b + d >= w
      BY <3>1, <3>2
    <3> QED BY <3>3 DEF b, d, w
  <2>2. schedules' \in Valid \cup {<< >>}
    BY <1>1, <1>2
  <2> QED BY <1>1, <1>3, <2>1, <2>2 DEF IInv
<1> USE VestingConstants
<1>4. LockedCoins = v - AtMost(v, delegatedVesting)
  BY DEF LockedCoins
<1>5. Computable => v >= 0
  BY <1>1, StepGrows DEF Computable, GetVestingCoins, IInv
<1> HIDE DEF v
<1>6. LockedCoins \in Int /\ LockedCoins >= v - delegatedVesting /\ (Computable => LockedCoins >= 0)
  BY <1>1, <1>2, <1>4, <1>5 DEF AtMost
<1>7. ASSUME NEW a \in Amounts, Send(a)
      PROVE  /\ balance' \in Nat /\ balance' + delegatedVesting >= v
             /\ UNCHANGED <<delegated, delegatedVesting, delegatedFree>>
  BY <1>1, <1>2, <1>6, <1>7 DEF Send, tracked
<1>8. ASSUME NEW a \in Amounts, Delegate(a)
      PROVE  /\ balance' \in Nat /\ delegated' \in Nat
             /\ delegatedVesting' \in Nat /\ delegatedFree' \in Nat
             /\ balance' + delegatedVesting' >= v
  <2> DEFINE f == AtMost(LockedCoins, a)
  <2>1. /\ a \in Nat /\ a <= balance /\ Computable
        /\ balance' = balance - a
        /\ delegated' = delegated + a
        /\ delegatedVesting' = delegatedVesting + f
        /\ delegatedFree' = delegatedFree + (a - f)
    BY <1>8 DEF Delegate
  <2>2. f \in Nat /\ f <= a /\ (f = a \/ f = LockedCoins)
    BY <1>6, <2>1 DEF AtMost
  <2> HIDE DEF f
  <2> QED BY <1>1, <1>2, <1>6, <2>1, <2>2
<1>9. ASSUME NEW a \in Amounts, Undelegate(a)
      PROVE  /\ balance' \in Nat /\ delegated' \in Nat
             /\ delegatedVesting' \in Nat /\ delegatedFree' \in Nat
             /\ balance' + delegatedVesting' >= v
  <2> DEFINE f == AtMost(delegatedFree, a)
             w == AtMost(delegatedVesting, a - f)
  <2>1. /\ a \in Nat /\ a <= delegated
        /\ balance' = balance + a
        /\ delegated' = delegated - a
        /\ delegatedFree' = delegatedFree - f
        /\ delegatedVesting' = delegatedVesting - w
    BY <1>9 DEF Undelegate
  <2>2. f \in Nat /\ f <= a /\ f <= delegatedFree
    BY <1>2, <2>1 DEF AtMost
  <2>3. w \in Nat /\ w <= a /\ w <= delegatedVesting
    BY <1>2, <2>1, <2>2 DEF AtMost
  <2> HIDE DEF f, w
  <2> QED BY <1>1, <1>2, <2>1, <2>2, <2>3
<1>10. ASSUME NEW a \in Amounts, Slash(a)
       PROVE  delegated' \in Nat /\ UNCHANGED <<balance, delegatedVesting, delegatedFree>>
  BY <1>2, <1>10 DEF Slash, tracked
<1>11. Tick \/ UNCHANGED vars => UNCHANGED Coins
  BY DEF Tick, vars, tracked, Coins
<1> QED BY <1>2, <1>7, <1>8, <1>9, <1>10, <1>11 DEF Next, Coins

\* The coins that are still vesting never leave a vesting account: no order of
\* transfers, delegations, undelegations and slashes gets them out, for every
\* valid list of schedules and every amount (LockedCoins, TrackDelegation).
THEOREM VestingStaysBacked == Spec => []VestingBacked
<1>1. Init => IInv
  BY InitIInv
<1>2. IInv /\ [Next]_vars => IInv'
  BY NextIInv
<1>3. IInv => VestingBacked
  BY DEF IInv, VestingBacked
<1> QED BY <1>1, <1>2, <1>3, PTL DEF Spec

\* Vested coins stay vested, for every valid list of schedules: neither the
\* truncation of a part nor the two roundings of the sum takes one back
\* (GetVestedRatio, GetVestedCoins).
THEOREM VestedStaysVested == Spec => VestedOnlyGrows
<1>1. Init => IInv
  BY InitIInv
<1>2. IInv /\ [Next]_vars => IInv'
  BY NextIInv
<1>3. IInv /\ [Next]_vars => [GetVestedCoins(time)' >= GetVestedCoins(time)]_vars
  BY StepGrows DEF IInv
<1> QED BY <1>1, <1>2, <1>3, PTL DEF Spec, VestedOnlyGrows

-----------------------------------------------------------------------------
\* Three products that the two bounds below compare
LEMMA ScaleBack ==
    ASSUME NEW a \in Int, NEW b \in Int, NEW d \in Nat \ {0}, d * a <= d * b
    PROVE  a <= b
<1> SUFFICES ASSUME b + 1 <= a PROVE FALSE
  OBVIOUS
<1>1. d * (b + 1) <= d * a
  OBVIOUS
<1>2. d * (b + 1) = d * b + d
  OBVIOUS
<1> QED BY <1>1, <1>2

\* The vested coins exceed the original ones by no more than the rounding that
\* Validate allows, whatever the schedules (GetVestedCoins, Validate).
LEMMA ExcessOfRatio ==
    ASSUME schedules \in Valid \cup {<< >>}, NEW t \in Nat
    PROVE  2 * FixedPoint * (GetVestedCoins(t) - OriginalVesting) <= OriginalVesting + FixedPoint
<1> DEFINE O == OriginalVesting
           F == FixedPoint
           V == GetVestedCoins(t)
<1>1. O \in Nat /\ F \in Nat \ {0} /\ One \in Nat \ {0}
  BY VestingConstants, OneAssumption
<1>2. CASE schedules = << >>
  <2>1. V = O
    BY <1>2 DEF GetVestedCoins
  <2>2. 2 * F * (O - O) = 0
    BY <1>1
  <2> QED BY <1>1, <2>1, <2>2
<1>3. CASE schedules \in Valid /\ schedules # << >>
  <2> DEFINE R == GetVestedRatio(schedules, t)
             T == TotalRatio(schedules)
  <2>1. R \in Nat /\ V \in Nat /\ 2 * (One * V) <= 2 * (O * R) + One
    BY <1>3, VestedOfRatio
  <2>2. T \in Nat /\ 2 * (F * T) <= 2 * (F * One) + One
    BY <1>3, TotalNearOne
  <2>3. R <= T
    BY <1>3, RatiosAdd, t <= t
  <2> HIDE DEF O, F, V, R, T
  <2>4. O * R <= O * T
    BY <1>1, <2>1, <2>2, <2>3
  <2>5. 2 * (One * V) <= 2 * (O * T) + One
    BY <1>1, <2>1, <2>2, <2>4
  <2>6. F * (2 * (One * V)) <= F * (2 * (O * T) + One)
    BY <1>1, <2>1, <2>2, <2>5
  <2>7. O * (2 * (F * T)) <= O * (2 * (F * One) + One)
    BY <1>1, <2>2
  <2>8. F * (2 * (O * T) + One) = O * (2 * (F * T)) + F * One
    BY <1>1, <2>2
  <2>9. O * (2 * (F * One) + One) + F * One = One * (2 * F * O + O + F)
    BY <1>1
  <2>10. F * (2 * (One * V)) = One * (2 * F * V)
    BY <1>1, <2>1
  <2>11. One * (2 * F * V) <= One * (2 * F * O + O + F)
    <3> DEFINE p == O * (2 * (F * T))
               q == O * (2 * (F * One) + One)
               w == F * One
    <3>1. p \in Int /\ q \in Int /\ w \in Int
      BY <1>1, <2>2
    <3>2. p <= q
      BY <2>7
    <3>3. One * (2 * F * V) <= p + w
      BY <2>6, <2>8, <2>10
    <3>4. One * (2 * F * O + O + F) = q + w
      BY <2>9
    <3>5. One * (2 * F * V) \in Int
      BY <1>1, <2>1
    <3> HIDE DEF p, q, w
    <3> QED BY <3>1, <3>2, <3>3, <3>4, <3>5
  <2>12. 2 * F * V <= 2 * F * O + O + F
    <3>1. 2 * F * V \in Int /\ 2 * F * O + O + F \in Int
      BY <1>1, <2>1
    <3> QED BY <1>1, <2>11, <3>1, ScaleBack
  <2>13. 2 * F * (V - O) = 2 * F * V - 2 * F * O /\ 2 * F * V \in Int /\ 2 * F * O \in Int
    BY <1>1, <2>1
  <2>14. 2 * F * (V - O) <= O + F
    BY <1>1, <2>12, <2>13
  <2> QED BY <2>14 DEF O, F, V
<1> QED BY <1>2, <1>3

\* For every valid list of schedules the vested coins exceed the original ones
\* by at most half a unit of FixedPoint and half a coin: beyond that an account
\* can never be stuck in the panic of GetVestingCoins.
THEOREM ExcessWithinRounding == Spec => []ExcessBounded
<1>1. Init => IInv
  BY InitIInv
<1>2. IInv /\ [Next]_vars => IInv'
  BY NextIInv
<1>3. IInv => ExcessBounded
  BY ExcessOfRatio DEF IInv, ExcessBounded
<1> QED BY <1>1, <1>2, <1>3, PTL DEF Spec

\* When all schedules have ended, what is not vested is within the same rounding.
LEMMA AllVested ==
    ASSUME schedules \in Valid \cup {<< >>}, NEW t \in Nat, t >= MaxTime
    PROVE  GetVestedCoins(t) >= OriginalVesting - (OriginalVesting + FixedPoint) \div (2 * FixedPoint)
<1> DEFINE O == OriginalVesting
           F == FixedPoint
           V == GetVestedCoins(t)
           x == (O + F) \div (2 * F)
<1>1. O \in Nat /\ F \in Nat \ {0} /\ One \in Nat \ {0} /\ MaxTime \in Nat
  BY VestingConstants, OneAssumption
<1>2. x \in Nat /\ O + F < (2 * F) * (x + 1)
  <2>1. O + F \in Nat /\ 2 * F \in Nat \ {0}
    BY <1>1
  <2> DEFINE n == O + F
             d == 2 * F
  <2> HIDE DEF n, d, O, F
  <2>2. n \in Nat /\ d \in Nat \ {0}
    BY <2>1 DEF n, d
  <2>3. n \div d \in Nat /\ n % d < d /\ n % d \in Nat /\ n = d * (n \div d) + (n % d)
    BY <2>2, DivMod
  <2>4. d * ((n \div d) + 1) = d * (n \div d) + d
    BY <2>2, <2>3
  <2>5. n < d * ((n \div d) + 1)
    BY <2>2, <2>3, <2>4
  <2> QED BY <2>3, <2>5 DEF n, d
<1>3. CASE schedules = << >>
  <2>1. V = O
    BY <1>3 DEF GetVestedCoins
  <2> HIDE DEF x
  <2> QED BY <1>1, <1>2, <2>1 DEF x
<1>4. CASE schedules \in Valid /\ schedules # << >>
  <2> DEFINE T == TotalRatio(schedules)
  <2>1. GetVestedRatio(schedules, t) = T
    <3>1. ASSUME NEW i \in 1..Len(schedules) PROVE RatioOf(schedules[i], t) = schedules[i].ratio
      <4>1. /\ schedules[i].start \in Int /\ schedules[i].end \in Int
            /\ schedules[i].end <= MaxTime /\ schedules[i].start <= schedules[i].end
        BY <1>4, ValidSchedules DEF ScheduleOK
      <4> QED BY <1>1, <4>1 DEF RatioOf
    <3> QED BY <3>1 DEF GetVestedRatio, TotalRatio
  <2>2. V \in Nat /\ T \in Nat /\ 2 * (O * T) <= 2 * (One * V) + One
    BY <1>4, <2>1, VestedOfRatio
  <2>3. 2 * (F * One) <= 2 * (F * T) + One
    BY <1>4, TotalNearOne
  <2> HIDE DEF O, F, V, T, x
  <2>4. F * (2 * (O * T)) <= F * (2 * (One * V) + One)
    BY <1>1, <2>2
  <2>5. O * (2 * (F * One)) <= O * (2 * (F * T) + One)
    BY <1>1, <2>2, <2>3
  <2>6. /\ O * (2 * (F * T) + One) = F * (2 * (O * T)) + O * One
        /\ F * (2 * (One * V) + One) = One * (2 * F * V + F)
        /\ O * (2 * (F * One)) = One * (2 * F * O)
    BY <1>1, <2>2
  <2>7. One * (2 * F * O) <= One * (2 * F * V + F + O)
    <3> DEFINE p == F * (2 * (O * T))
               q == One * (2 * F * V + F)
               w == O * One
    <3>1. p \in Int /\ q \in Int /\ w \in Int /\ One * (2 * F * O) \in Int
      BY <1>1, <2>2
    <3>2. p <= q
      BY <2>4, <2>6
    <3>3. One * (2 * F * O) <= p + w
      BY <2>5, <2>6
    <3>4. One * (2 * F * V + F + O) = q + w
      BY <1>1, <2>2
    <3> HIDE DEF p, q, w
    <3> QED BY <3>1, <3>2, <3>3, <3>4
  <2>8. 2 * F * O <= 2 * F * V + F + O
    <3>1. 2 * F * O \in Int /\ 2 * F * V + F + O \in Int
      BY <1>1, <2>2
    <3> QED BY <1>1, <2>7, <3>1, ScaleBack
  <2>9. V >= O - x
    <3> SUFFICES ASSUME V + x + 1 <= O PROVE FALSE
      BY <1>1, <1>2, <2>2
    <3>1. (2 * F) * (V + (x + 1)) <= (2 * F) * O
      BY <1>1, <1>2, <2>2
    <3>2. (2 * F) * (V + (x + 1)) = 2 * F * V + (2 * F) * (x + 1)
      BY <1>1, <1>2, <2>2
    <3>3. 2 * F * V \in Int /\ (2 * F) * (x + 1) \in Int
      BY <1>1, <1>2, <2>2
    <3> QED BY <1>1, <1>2, <2>8, <3>1, <3>2, <3>3
  <2> QED BY <2>9 DEF O, F, V, x
<1> QED BY <1>3, <1>4

\* Once the last schedule has ended an account is free but for the rounding of
\* Validate: the state that FreeInTheEnd says is reached.
THEOREM FreeAfterTheLastSchedule == Spec => [](time >= MaxTime => FreeButForRounding)
<1>1. Init => IInv
  BY InitIInv
<1>2. IInv /\ [Next]_vars => IInv'
  BY NextIInv
<1>3. IInv => (time >= MaxTime => FreeButForRounding)
  BY AllVested DEF IInv, FreeButForRounding
<1> QED BY <1>1, <1>2, <1>3, PTL DEF Spec
=============================================================================
