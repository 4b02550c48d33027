---------------------------- MODULE NumberLemmas ----------------------------
(***************************************************************************)
(* What the other proofs use about numbers: periods of blocks, the decimal *)
(* operations for every precision One, and totals over finite sets.  The   *)
(* induction theorems of the library take the predicate as an operator; an *)
(* induction over a set of good values needs only the sets of WFMin.       *)
(***************************************************************************)
EXTENDS Dec, Sums, FiniteSetTheorems, TLAPS

-----------------------------------------------------------------------------
(* Periods: that of block h is h \div m, its place in it is h % m *)

\* Quotient and remainder of naturals.
LEMMA DivMod ==
    ASSUME NEW h \in Nat, NEW m \in Nat \ {0}
    PROVE  /\ h \div m \in Nat /\ h % m \in Nat
           /\ h % m < m
           /\ h = m * (h \div m) + (h % m)
<1>1. h % m \in 0..(m - 1)
  OBVIOUS
<1>2. h \div m \in Int
  OBVIOUS
<1>3. h = m * (h \div m) + (h % m)
  OBVIOUS
<1>4. h \div m >= 0
  OBVIOUS
<1> QED BY <1>1, <1>2, <1>3, <1>4

\* Quotient and remainder are unique.
LEMMA DivUnique ==
    ASSUME NEW m \in Nat \ {0}, NEW q1 \in Nat, NEW q2 \in Nat,
           NEW r1 \in 0..(m-1), NEW r2 \in 0..(m-1), m * q1 + r1 = m * q2 + r2
    PROVE  q1 = q2 /\ r1 = r2
<1>1. CASE q1 < q2
  <2>1. PICK k \in Nat : q2 = q1 + 1 + k
    <3>1. q2 - q1 - 1 \in Nat BY <1>1
    <3> QED BY <3>1
  <2>2. m * q2 = m * q1 + m + m * k
    BY <2>1
  <2>3. m * k \in Nat OBVIOUS
  <2> QED BY <2>2, <2>3
<1>2. CASE q2 < q1
  <2>1. PICK k \in Nat : q1 = q2 + 1 + k
    <3>1. q1 - q2 - 1 \in Nat BY <1>2
    <3> QED BY <3>1
  <2>2. m * q1 = m * q2 + m + m * k
    BY <2>1
  <2>3. m * k \in Nat OBVIOUS
  <2> QED BY <2>2, <2>3
<1>3. CASE q1 = q2
  BY <1>3
<1> QED BY <1>1, <1>2, <1>3

\* The next block starts a period exactly when this is the last of its own.
LEMMA NextBlock ==
    ASSUME NEW h \in Nat, NEW m \in Nat \ {0}
    PROVE  /\ (h + 1) % m = 0 => (h + 1) \div m = h \div m + 1 /\ h % m = m - 1
           /\ (h + 1) % m # 0 => (h + 1) \div m = h \div m /\ (h + 1) % m = (h % m) + 1
<1> DEFINE q == h \div m   r == h % m   q1 == (h + 1) \div m   r1 == (h + 1) % m
<1>1. /\ q \in Nat /\ r \in Nat /\ r < m /\ h = m * q + r
      /\ q1 \in Nat /\ r1 \in Nat /\ r1 < m /\ h + 1 = m * q1 + r1
  BY DivMod, h + 1 \in Nat
<1> HIDE DEF q, r, q1, r1
<1>2. CASE r = m - 1
  <2>1. m * (q + 1) + 0 = m * q1 + r1
    BY <1>1, <1>2
  <2>2. q + 1 = q1 /\ r1 = 0
    BY <1>1, <2>1, DivUnique
  <2> QED BY <1>2, <2>2 DEF q, r, q1, r1
<1>3. CASE r # m - 1
  <2>1. m * q + (r + 1) = m * q1 + r1 /\ r + 1 \in 0..(m - 1)
    BY <1>1, <1>3
  <2>2. q = q1 /\ r1 = r + 1
    BY <1>1, <2>1, DivUnique
  <2> QED BY <1>1, <1>3, <2>2 DEF q, r, q1, r1
<1> QED BY <1>2, <1>3

\* A block of an earlier period is an earlier block.
LEMMA EarlierPeriod ==
    ASSUME NEW g \in Nat, NEW h \in Nat, NEW m \in Nat \ {0}, g \div m < h \div m
    PROVE  g < h
<1> DEFINE p == g \div m   q == h \div m
<1>1. /\ p \in Nat /\ g % m \in Nat /\ g % m < m /\ g = m * p + (g % m)
      /\ q \in Nat /\ h % m \in Nat /\ h = m * q + (h % m)
  BY DivMod
<1> HIDE DEF p, q
<1>2. q - p - 1 \in Nat
  BY <1>1 DEF p, q
<1>3. PICK k \in Nat : q = p + 1 + k
  BY <1>1, <1>2
<1>4. m * q = m * p + m + m * k /\ m * k \in Nat /\ m * p \in Nat
  BY <1>1, <1>3
<1> QED BY <1>1, <1>4

\* When windows consist of whole periods, the last block of a period is that
\* many whole periods into its window: m blocks for each of the n counted.
LEMMA PeriodsInWindow ==
    ASSUME NEW h \in Nat, NEW m \in Nat \ {0}, NEW w \in Nat \ {0}, NEW n \in Nat,
           w % m = 0, (h + 1) % m = 0, n * m <= h % w
    PROVE  (n + 1) * m <= (h % w) + 1
<1> DEFINE r == h % w   q == h \div w   a == w \div m   b == (h + 1) \div m
<1>1. /\ r \in Nat /\ q \in Nat /\ h = w * q + r
      /\ a \in Nat /\ w = m * a
      /\ b \in Nat /\ h + 1 = m * b
  <2>1. /\ r \in Nat /\ q \in Nat /\ h = w * q + r
    BY DivMod
  <2>2. a \in Nat /\ w = m * a + 0
    BY DivMod
  <2>3. h + 1 \in Nat
    OBVIOUS
  <2>4. b \in Nat /\ h + 1 = m * b + 0
    BY DivMod, <2>3
  <2>5. m * a \in Nat /\ m * b \in Nat
    BY <2>2, <2>4
  <2> QED BY <2>1, <2>2, <2>4, <2>5
<1>2. n * m <= r
  OBVIOUS
<1> HIDE DEF r, q, a, b
<1>3. r + 1 = m * (b - a * q)
  <2>1. w * q = m * (a * q)
    BY <1>1
  <2>2. m * (b - a * q) = m * b - m * (a * q)
    BY <1>1
  <2>3. m * b \in Nat /\ m * (a * q) \in Nat
    BY <1>1
  <2> QED BY <1>1, <2>1, <2>2, <2>3
<1> DEFINE c == b - a * q
<1>4. c \in Int /\ r + 1 = m * c
  BY <1>1, <1>3
<1> HIDE DEF c
<1>5. n < c
  <2> SUFFICES ASSUME c <= n PROVE FALSE
    BY <1>4
  <2>1. m * c <= n * m
    BY <1>4
  <2> QED BY <1>1, <1>2, <1>4, <2>1
<1>6. (n + 1) * m <= m * c
  <2>1. n + 1 <= c
    BY <1>4, <1>5
  <2> QED BY <2>1, <1>4
<1> QED BY <1>4, <1>6, <1>1 DEF r

\* The blocks, of the window of w blocks that ends with h, that end a period
PeriodEnds(h, w, m) == {k \in (h + 1 - w)..h : (k + 1) % m = 0}

\* When windows consist of whole periods, so many of them end in a window.
LEMMA PeriodsOfWindow ==
    ASSUME NEW h \in Nat, NEW m \in Nat \ {0}, NEW w \in Nat \ {0},
           w % m = 0, (h + 1) % w = 0
    PROVE  /\ (h + 1) % m = 0
           /\ w \div m \in Nat \ {0} /\ w = m * (w \div m)
           /\ Cardinality(PeriodEnds(h, w, m)) = w \div m
<1> DEFINE a == w \div m
           c == (h + 1) \div w
           z == a * c - a
           S == {k \in (h + 1 - w)..h : (k + 1) % m = 0}
           f == [i \in 1..a |-> m * (z + i) - 1]
<1>1. a \in Nat /\ w = m * a /\ a # 0
  <2>1. a \in Nat /\ w = m * a + 0
    BY DivMod
  <2>2. m * a \in Nat
    BY <2>1
  <2> QED BY <2>1, <2>2
<1>2. c \in Nat /\ h + 1 = w * c /\ c # 0
  <2>1. h + 1 \in Nat
    OBVIOUS
  <2>2. c \in Nat /\ h + 1 = w * c + 0
    BY <2>1, DivMod
  <2>3. w * c \in Nat
    BY <2>2
  <2> QED BY <2>2, <2>3
<1> HIDE DEF a, c
<1>3. z \in Nat /\ h + 1 - w = m * z /\ h + 1 = m * (z + a)
  <2>1. PICK e \in Nat : c = e + 1
    <3>1. c - 1 \in Nat
      BY <1>2
    <3> QED BY <1>2, <3>1
  <2>2. a * c = a * e + a /\ a * e \in Nat
    BY <1>1, <2>1
  <2>3. z = a * e
    BY <1>1, <2>2
  <2>4. w * c = w * e + w /\ w * e = m * (a * e) /\ w * e \in Nat
    BY <1>1, <2>1
  <2>5. m * (a * e + a) = m * (a * e) + m * a
    BY <1>1, <2>2
  <2> QED BY <1>1, <1>2, <2>2, <2>3, <2>4, <2>5
<1> HIDE DEF z
<1>4. \A q \in Nat : (m * q) % m = 0 /\ m * q \in Nat
  <2> SUFFICES ASSUME NEW q \in Nat PROVE (m * q) % m = 0 /\ m * q \in Nat
    OBVIOUS
  <2>1. m * q \in Nat
    OBVIOUS
  <2>2. /\ (m * q) \div m \in Nat /\ (m * q) % m \in 0..(m - 1)
        /\ m * q + 0 = m * ((m * q) \div m) + ((m * q) % m)
    BY <2>1, DivMod
  <2> QED BY <2>1, <2>2, DivUnique, 0 \in 0..(m - 1)
<1>5. \A i \in 1..a : f[i] \in S
  <2> SUFFICES ASSUME NEW i \in 1..a PROVE m * (z + i) - 1 \in S
    OBVIOUS
  <2>1. z + i \in Nat /\ m * (z + i) = m * z + m * i /\ m * (z + a) = m * z + m * a
        /\ m * i >= m /\ m * i <= m * a /\ m * z \in Nat /\ m * i \in Nat /\ m * a \in Nat
    BY <1>1, <1>3
  <2>2. (m * (z + i) - 1 + 1) % m = 0
    <3>1. m * (z + i) - 1 + 1 = m * (z + i)
      BY <2>1
    <3> QED BY <1>4, <2>1, <3>1
  <2>3. m * (z + i) - 1 \in (h + 1 - w)..h
    BY <1>3, <2>1
  <2> QED BY <2>2, <2>3
<1>6. \A i, j \in 1..a : f[i] = f[j] => i = j
  <2> SUFFICES ASSUME NEW i \in 1..a, NEW j \in 1..a, m * (z + i) - 1 = m * (z + j) - 1
               PROVE  i = j
    OBVIOUS
  <2>1. z + i \in Nat /\ z + j \in Nat /\ m * (z + i) \in Nat /\ m * (z + j) \in Nat
    BY <1>1, <1>3
  <2>2. m * (z + i) + 0 = m * (z + j) + 0
    BY <2>1
  <2>3. z + i = z + j
    <3> DEFINE x == z + i   y == z + j
    <3>1. x \in Nat /\ y \in Nat /\ m * x + 0 = m * y + 0 /\ 0 \in 0..(m - 1)
      BY <2>1, <2>2
    <3> HIDE DEF x, y
    <3>2. x = y
      BY <3>1, DivUnique
    <3> QED BY <3>2 DEF x, y
  <2> QED BY <1>1, <1>3, <2>3
<1>7. \A k \in S : \E i \in 1..a : f[i] = k
  <2> SUFFICES ASSUME NEW k \in S PROVE \E i \in 1..a : m * (z + i) - 1 = k
    OBVIOUS
  <2> DEFINE q == (k + 1) \div m
  <2>1. m * z \in Nat /\ k \in Nat /\ k >= m * z /\ k <= h /\ k + 1 \in Nat /\ (k + 1) % m = 0
    BY <1>3
  <2>2. q \in Nat /\ k + 1 = m * q + ((k + 1) % m)
    BY <2>1, DivMod
  <2>3. m * q \in Nat /\ k + 1 = m * q
    BY <2>1, <2>2
  <2> HIDE DEF q
  <2>4. z < q
    <3> SUFFICES ASSUME q <= z PROVE FALSE
      BY <1>3, <2>2
    <3>1. m * q <= m * z
      BY <1>3, <2>2
    <3> QED BY <2>1, <2>3, <3>1
  <2>5. q <= z + a
    <3> SUFFICES ASSUME z + a + 1 <= q PROVE FALSE
      BY <1>1, <1>3, <2>2
    <3>1. m * (z + a + 1) <= m * q
      BY <1>1, <1>3, <2>2
    <3>2. m * (z + a + 1) = m * (z + a) + m /\ m * (z + a) \in Nat
      BY <1>1, <1>3
    <3> QED BY <1>3, <2>1, <2>3, <3>1, <3>2
  <2>6. q - z \in 1..a /\ z + (q - z) = q
    BY <1>1, <1>3, <2>2, <2>4, <2>5
  <2> QED BY <2>1, <2>3, <2>6
<1>8. Cardinality(S) = a
  <2>1. DOMAIN f = 1..a
    OBVIOUS
  <2> HIDE DEF f, S
  <2>2. f \in Bijection(1..a, S)
    <3>1. f \in [1..a -> S]
      <4>1. f = [i \in 1..a |-> f[i]]
        BY DEF f
      <4> QED BY <1>5, <4>1
    <3> QED BY <1>6, <1>7, <3>1 DEF Bijection, Injection, Surjection, IsInjective
  <2> QED BY <1>1, <2>2, FS_CountingElements DEF ExistsBijection
<1>9. (h + 1) % m = 0
  <2>1. z + a \in Nat
    BY <1>1, <1>3
  <2>2. (m * (z + a)) % m = 0
    BY <1>4, <2>1
  <2> QED BY <1>3, <2>2
<1> QED BY <1>1, <1>8, <1>9 DEF a, PeriodEnds

-----------------------------------------------------------------------------
(* Decimals *)

\* A quotient cut towards zero keeps the sign and does not grow.
LEMMA TruncDivBounds ==
    ASSUME NEW n \in Int, NEW d \in Nat \ {0}
    PROVE  /\ TruncDiv(n, d) \in Int
           /\ n >= 0 => TruncDiv(n, d) \in 0..n
           /\ n <= 0 => TruncDiv(n, d) \in n..0
<1>1. CASE n >= 0
  <2>1. n \div d \in Int /\ n \div d >= 0 /\ n \div d <= n
    BY <1>1
  <2> QED BY <1>1, <2>1 DEF TruncDiv
<1>2. CASE n < 0
  <2> DEFINE m == -n
  <2>1. m \in Nat
    BY <1>2
  <2>2. m \div d \in Int /\ m \div d >= 0 /\ m \div d <= m
    BY <2>1
  <2> QED BY <1>2, <2>2 DEF TruncDiv
<1> QED BY <1>1, <1>2

\* Rounding gives an integer, and a nonnegative one for a nonnegative n.
LEMMA RoundDivType ==
    ASSUME NEW n \in Int, NEW d \in Nat \ {0}
    PROVE  /\ RoundDiv(n, d) \in Int
           /\ n >= 0 => RoundDiv(n, d) >= 0
<1> DEFINE q == TruncDiv(n, d)
<1>1. q \in Int /\ (n >= 0 => q >= 0)
  BY TruncDivBounds
<1>2. RoundDiv(n, d) \in {q, q + 1, q - 1} /\ (n >= 0 => RoundDiv(n, d) \in {q, q + 1})
  BY DEF RoundDiv
<1> HIDE DEF q
<1> QED BY <1>1, <1>2

LEMMA DecMulType ==
    ASSUME NEW x \in Int, NEW y \in Int
    PROVE  /\ DecMul(x, y) \in Int
           /\ x >= 0 /\ y >= 0 => DecMul(x, y) >= 0
<1>1. x * y \in Int /\ (x >= 0 /\ y >= 0 => x * y >= 0)
  OBVIOUS
<1> QED BY <1>1, RoundDivType, OneAssumption DEF DecMul

LEMMA DecMulNat ==
    ASSUME NEW x \in Nat, NEW y \in Nat
    PROVE  /\ DecMul(x, y) \in Nat
           /\ x = 0 => DecMul(x, y) = 0
<1>1. DecMul(x, y) \in Int /\ DecMul(x, y) >= 0
  BY DecMulType
<1>2. x = 0 => x * y = 0
  OBVIOUS
<1>3. RoundDiv(0, One) = 0
  BY OneAssumption, TruncDivBounds DEF RoundDiv
<1> QED BY <1>1, <1>2, <1>3 DEF DecMul

LEMMA DecQuoType ==
    ASSUME NEW x \in Int, NEW y \in Nat \ {0}
    PROVE  DecQuo(x, y) \in Int
<1>1. x * One * One \in Int
  BY OneAssumption
<1>2. TruncDiv(x * One * One, y) \in Int
  BY <1>1, TruncDivBounds
<1> QED BY <1>2, RoundDivType, OneAssumption DEF DecQuo

\* A quotient of naturals grows with the dividend.
LEMMA DivGrows ==
    ASSUME NEW n \in Nat, NEW m \in Nat, n <= m, NEW d \in Nat \ {0}
    PROVE  n \div d <= m \div d
<1> DEFINE p == n \div d
           q == m \div d
<1>1. p \in Int /\ q \in Int /\ d * p <= n /\ n < d * (p + 1) /\ d * q <= m /\ m < d * (q + 1)
  OBVIOUS
<1> HIDE DEF p, q
<1>2. SUFFICES ASSUME q + 1 <= p PROVE FALSE
  BY <1>1 DEF p, q
<1>3. d * (q + 1) <= d * p
  BY <1>1, <1>2
<1> QED BY <1>1, <1>3

\* Rounding half to even never reverses an order.
LEMMA RoundGrows ==
    ASSUME NEW n \in Nat, NEW m \in Nat, n <= m, NEW d \in Nat \ {0}
    PROVE  RoundDiv(n, d) <= RoundDiv(m, d)
<1> DEFINE p == n \div d
           q == m \div d
<1>1. p \in Nat /\ q \in Nat /\ p <= q
  BY DivGrows
<1>2. RoundDiv(n, d) = IF 2 * (n - p * d) > d \/ (2 * (n - p * d) = d /\ p % 2 = 1) THEN p + 1 ELSE p
  BY DEF RoundDiv, TruncDiv
<1>3. RoundDiv(m, d) = IF 2 * (m - q * d) > d \/ (2 * (m - q * d) = d /\ q % 2 = 1) THEN q + 1 ELSE q
  BY DEF RoundDiv, TruncDiv
<1> HIDE DEF p, q
<1>4. CASE p < q
  BY <1>1, <1>2, <1>3, <1>4
<1>5. CASE p = q
  <2> DEFINE z == p * d
  <2>1. z \in Int
    BY <1>1
  <2> HIDE DEF z
  <2>2. RoundDiv(n, d) = IF 2 * (n - z) > d \/ (2 * (n - z) = d /\ p % 2 = 1) THEN p + 1 ELSE p
    BY <1>2 DEF z
  <2>3. RoundDiv(m, d) = IF 2 * (m - z) > d \/ (2 * (m - z) = d /\ p % 2 = 1) THEN p + 1 ELSE p
    BY <1>3, <1>5 DEF z
  <2> QED BY <1>1, <2>1, <2>2, <2>3
<1> QED BY <1>1, <1>4, <1>5

\* Rounding moves a quotient by at most half a unit.
LEMMA RoundDivNear ==
    ASSUME NEW n \in Nat, NEW d \in Nat \ {0}
    PROVE  /\ RoundDiv(n, d) \in Nat
           /\ 2 * (d * RoundDiv(n, d)) <= 2 * n + d
           /\ 2 * n <= 2 * (d * RoundDiv(n, d)) + d
<1> DEFINE q == n \div d
           r == n % d
           x == RoundDiv(n, d)
<1>1. q \in Nat /\ r \in Nat /\ r < d /\ n = d * q + r
  BY DivMod
<1>2. x = IF 2 * (n - q * d) > d \/ (2 * (n - q * d) = d /\ q % 2 = 1) THEN q + 1 ELSE q
  BY DEF RoundDiv, TruncDiv
<1> HIDE DEF q, r, x
<1> DEFINE z == d * q
<1>3. z \in Int /\ q * d = z /\ d * (q + 1) = z + d
  BY <1>1
<1> HIDE DEF z
<1>4. n = z + r
  BY <1>1 DEF z
<1>5. CASE x = q + 1
  <2>1. 2 * r >= d
    BY <1>1, <1>2, <1>3, <1>4, <1>5
  <2>2. d * x = z + d
    BY <1>3, <1>5
  <2> QED BY <1>1, <1>3, <1>4, <1>5, <2>1, <2>2 DEF x
<1>6. CASE x = q
  <2>1. 2 * r <= d
    BY <1>1, <1>2, <1>3, <1>4, <1>6
  <2>2. d * x = z
    BY <1>6 DEF z
  <2> QED BY <1>1, <1>3, <1>4, <1>6, <2>1, <2>2 DEF x
<1> QED BY <1>2, <1>5, <1>6

\* Nothing is rounded when the divisor divides.
LEMMA RoundDivExact ==
    ASSUME NEW k \in Nat, NEW d \in Nat \ {0}
    PROVE  RoundDiv(k * d, d) = k
<1>1. k * d \in Nat /\ (k * d) \div d = k
  BY DivMod, DivUnique
<1>2. k * d - k * d = 0
  BY <1>1
<1> QED BY <1>1, <1>2 DEF RoundDiv, TruncDiv

\* A quotient of naturals is one; it rounds to zero only below the last decimal.
LEMMA DecQuoNat ==
    ASSUME NEW x \in Nat, NEW y \in Nat \ {0}
    PROVE  /\ DecQuo(x, y) \in Nat
           /\ DecQuo(x, y) = 0 => x * One < y
<1> DEFINE n == x * One * One
           k == n \div y
<1>1. n \in Nat /\ One \in Nat \ {0}
  BY OneAssumption
<1>2. k \in Nat /\ DecQuo(x, y) = RoundDiv(k, One)
  <2>1. DecQuo(x, y) = RoundDiv(TruncDiv(n, y), One)
    BY DEF DecQuo
  <2> HIDE DEF n
  <2> QED BY <1>1, <2>1, DivMod DEF TruncDiv
<1> HIDE DEF k
<1>3. /\ RoundDiv(k, One) \in Nat
      /\ 2 * k <= 2 * (One * RoundDiv(k, One)) + One
  BY <1>1, <1>2, RoundDivNear
<1>4. ASSUME RoundDiv(k, One) = 0, x * One >= y PROVE FALSE
  <2>1. 2 * k <= One
    BY <1>1, <1>2, <1>3, <1>4
  <2>2. y * One <= n
    <3> DEFINE m == x * One
    <3>1. m \in Nat /\ y <= m /\ n = m * One
      BY <1>1, <1>4
    <3> HIDE DEF m, n
    <3>2. y * One <= m * One
      BY <1>1, <3>1
    <3> QED BY <3>1, <3>2
  <2>3. (y * One) \div y = One /\ y * One \in Nat
    BY <1>1, DivMod, DivUnique
  <2>4. One <= k
    <3> HIDE DEF n
    <3> QED BY <1>1, <2>2, <2>3, DivGrows DEF k
  <2> QED BY <1>1, <1>2, <2>1, <2>4
<1>5. x * One \in Int
  BY <1>1
<1> QED BY <1>2, <1>3, <1>4, <1>5

-----------------------------------------------------------------------------
(* Induction *)

\* A nonempty set of subsets of a finite set has a minimal member.
LEMMA MinimalSubset ==
    ASSUME NEW S, IsFiniteSet(S), NEW B \in SUBSET (SUBSET S), B # {}
    PROVE  \E U \in B : \A V \in B : V \subseteq U => V = U
<1>1. IsWellFoundedOn(StrictSubsetOrdering(S), SUBSET S)
  BY FS_StrictSubsetOrderingWellFounded, FS_FiniteSubsetsOfFinite
<1>2. PICK U \in B : \A V \in B : ~(<<V, U>> \in StrictSubsetOrdering(S))
  BY <1>1, WFMin
<1>3. \A V \in B : V \subseteq U => V = U
  BY <1>2 DEF StrictSubsetOrdering
<1> QED BY <1>3

\* Induction over a finite set: what holds of {} and survives one more element.
LEMMA FiniteInduction ==
    ASSUME NEW S, IsFiniteSet(S), NEW G, {} \in G,
           \A U \in SUBSET S : \A x \in S \ U : U \in G => U \cup {x} \in G
    PROVE  S \in G
<1> SUFFICES ASSUME S \notin G PROVE FALSE
  OBVIOUS
<1> DEFINE B == (SUBSET S) \ G
<1>1. PICK U \in B : \A V \in B : V \subseteq U => V = U
  <2>1. B \in SUBSET (SUBSET S) /\ B # {}
    OBVIOUS
  <2> HIDE DEF B
  <2> QED BY <2>1, MinimalSubset
<1>2. PICK x \in U : TRUE
  BY <1>1
<1>3. U \ {x} \in G
  BY <1>1, <1>2
<1>4. U = (U \ {x}) \cup {x}
  BY <1>2
<1> QED BY <1>1, <1>2, <1>3, <1>4

\* Induction over the naturals, with the predicate as a set.
LEMMA NaturalInduction ==
    ASSUME NEW G, 0 \in G, \A n \in Nat : n \in G => n + 1 \in G
    PROVE  \A n \in Nat : n \in G
<1> SUFFICES ASSUME NEW k \in Nat, k \notin G PROVE FALSE
  OBVIOUS
<1> DEFINE B == Nat \ G
<1>1. B \subseteq Nat /\ B # {}
  OBVIOUS
<1> HIDE DEF B
<1>2. PICK m \in B : \A n \in B : ~(<<n, m>> \in OpToRel(<, Nat))
  BY <1>1, WFMin, NatLessThanWellFounded, Zenon
<1>3. \A n \in B : ~(n < m)
  BY <1>1, <1>2, Zenon DEF OpToRel
<1>4. m \in Nat /\ m # 0 /\ m - 1 \in Nat
  BY DEF B
<1>5. m - 1 \in G
  BY <1>3, <1>4 DEF B
<1>6. (m - 1) + 1 \in G
  BY <1>4, <1>5
<1> QED BY <1>4, <1>6 DEF B

\* A nonempty set of naturals has a least member.
LEMMA NatMin ==
    ASSUME NEW B \in SUBSET Nat, B # {}
    PROVE  \E m \in B : \A n \in B : m <= n
<1>1. PICK m \in B : \A n \in B : ~(<<n, m>> \in OpToRel(<, Nat))
  BY WFMin, NatLessThanWellFounded, Zenon
<1>2. \A n \in B : ~(n < m)
  BY <1>1, Zenon DEF OpToRel
<1> QED BY <1>2

\* A function on a nonempty finite set takes a largest value.
LEMMA FiniteMax ==
    ASSUME NEW S, IsFiniteSet(S), S # {}, NEW f \in [S -> Nat]
    PROVE  \E x \in S : \A y \in S : f[y] <= f[x]
<1> DEFINE G == {U \in SUBSET S : U = {} \/ \E x \in U : \A y \in U : f[y] <= f[x]}
<1>1. {} \in G
  OBVIOUS
<1>2. ASSUME NEW U \in SUBSET S, NEW x \in S \ U, U \in G PROVE U \cup {x} \in G
  <2>1. CASE U = {}
    BY <2>1
  <2>2. CASE U # {}
    <3>1. PICK z \in U : \A y \in U : f[y] <= f[z]
      BY <1>2, <2>2
    <3>2. CASE f[z] <= f[x]
      BY <3>1, <3>2
    <3>3. CASE f[x] <= f[z]
      BY <3>1, <3>3
    <3> QED BY <3>2, <3>3
  <2> QED BY <2>1, <2>2
<1> HIDE DEF G
<1>3. S \in G
  BY <1>1, <1>2, FiniteInduction
<1> QED BY <1>3 DEF G

-----------------------------------------------------------------------------
(* Totals *)

\* The fold of the library takes elements out in some order; its recursion is
FirstOf(s) == CHOOSE x \in s : TRUE

SumStep(f, g, s) == IF s = {} THEN 0 ELSE f[FirstOf(s)] + g[s \ {FirstOf(s)}]

\* Total is what the fold of the library unfolds to.
LEMMA TotalDef ==
    ASSUME NEW f
    PROVE  Total(f) = (CHOOSE g : g = [s \in SUBSET DOMAIN f |-> SumStep(f, g, s)])[DOMAIN f]
BY DEF Total, FoldFunction, FoldFunctionOnSet, MapThenFoldSet, FirstOf, SumStep

\* The recursion of the fold has a solution on the subsets of a finite set.
LEMMA IterExists ==
    ASSUME NEW f, NEW S, IsFiniteSet(S)
    PROVE  \E g : g = [s \in SUBSET S |-> SumStep(f, g, s)]
<1> DEFINE D(n) == {s \in SUBSET S : Cardinality(s) <= n}
           G == {n \in Nat : \E g : g = [s \in D(n) |-> SumStep(f, g, s)]}
<1>0. \A s \in SUBSET S : IsFiniteSet(s) /\ Cardinality(s) \in Nat
  BY FS_Subset, FS_CardinalityType
<1>1. 0 \in G
  <2>1. D(0) = {{}}
    BY <1>0, FS_EmptySet
  <2> DEFINE g == [s \in {{}} |-> 0]
  <2>2. g = [s \in {{}} |-> SumStep(f, g, s)]
    BY DEF SumStep
  <2> HIDE DEF g
  <2> QED BY <2>1, <2>2
<1>2. ASSUME NEW n \in Nat, n \in G PROVE n + 1 \in G
  <2>1. PICK g : g = [s \in D(n) |-> SumStep(f, g, s)]
    BY <1>2
  <2> DEFINE h == [s \in D(n + 1) |-> SumStep(f, g, s)]
  <2>2. D(n) \subseteq D(n + 1)
    BY <1>0
  <2>3. \A s \in D(n + 1) : s # {} => s \ {FirstOf(s)} \in D(n)
    <3>1. TAKE s \in D(n + 1)
    <3>2. HAVE s # {}
    <3>3. FirstOf(s) \in s
      BY <3>2 DEF FirstOf
    <3>4. Cardinality(s \ {FirstOf(s)}) = Cardinality(s) - 1
      BY <1>0, <3>3, FS_RemoveElement
    <3> QED BY <1>0, <3>4
  <2>4. \A s \in D(n) : h[s] = g[s]
    BY <2>1, <2>2
  <2>5. \A s \in D(n + 1) : SumStep(f, g, s) = SumStep(f, h, s)
    BY <2>3, <2>4 DEF SumStep
  <2>6. h = [s \in D(n + 1) |-> SumStep(f, h, s)]
    BY <2>5
  <2> HIDE DEF h, D
  <2> QED BY <2>6
<1>3. Cardinality(S) \in G
  <2> HIDE DEF G
  <2> QED BY <1>1, <1>2, NaturalInduction, FS_CardinalityType
<1>4. D(Cardinality(S)) = SUBSET S
  BY <1>0, FS_Subset, FS_CardinalityType
<1> QED BY <1>3, <1>4

\* g sums f over the subsets of S
Iterates(f, S, g) == g = [s \in SUBSET S |-> SumStep(f, g, s)]

\* A total is a value of such a g.
LEMMA IterOfTotal ==
    ASSUME NEW f, IsFiniteSet(DOMAIN f)
    PROVE  \E g : Iterates(f, DOMAIN f, g) /\ Total(f) = g[DOMAIN f]
<1> DEFINE g == CHOOSE h : h = [s \in SUBSET DOMAIN f |-> SumStep(f, h, s)]
<1>1. g = [s \in SUBSET DOMAIN f |-> SumStep(f, g, s)]
  BY IterExists
<1>2. Total(f) = g[DOMAIN f]
  BY TotalDef
<1> HIDE DEF g
<1> QED BY <1>1, <1>2 DEF Iterates

\* One step of the recursion.
LEMMA IterStep ==
    ASSUME NEW f, NEW S, NEW g, Iterates(f, S, g), NEW s \in SUBSET S, s # {}
    PROVE  FirstOf(s) \in s /\ s \ {FirstOf(s)} \in SUBSET S /\ g[s] = f[FirstOf(s)] + g[s \ {FirstOf(s)}]
BY DEF Iterates, SumStep, FirstOf

\* Sums of functions that agree on a set agree there, on whatever domains.
LEMMA IterAgree ==
    ASSUME NEW f, NEW S, NEW g, Iterates(f, S, g),
           NEW e, NEW T, NEW h, Iterates(e, T, h),
           NEW U, IsFiniteSet(U), U \subseteq S, U \subseteq T, \A x \in U : f[x] = e[x]
    PROVE  g[U] = h[U]
<1> SUFFICES ASSUME g[U] # h[U] PROVE FALSE
  OBVIOUS
<1> DEFINE B == {V \in SUBSET U : g[V] # h[V]}
<1>1. PICK V \in B : \A W \in B : W \subseteq V => W = V
  <2>1. B \in SUBSET (SUBSET U) /\ B # {}
    OBVIOUS
  <2> HIDE DEF B
  <2> QED BY <2>1, MinimalSubset
<1>2. V \in SUBSET S /\ V \in SUBSET T
  OBVIOUS
<1>3. V # {}
  <2>1. g[{}] = 0 /\ h[{}] = 0
    BY DEF Iterates, SumStep
  <2> QED BY <2>1
<1>4. /\ FirstOf(V) \in V
      /\ g[V] = f[FirstOf(V)] + g[V \ {FirstOf(V)}]
      /\ h[V] = e[FirstOf(V)] + h[V \ {FirstOf(V)}]
  BY <1>2, <1>3, IterStep
<1>5. g[V \ {FirstOf(V)}] = h[V \ {FirstOf(V)}]
  BY <1>1, <1>4
<1> QED BY <1>4, <1>5

\* A sum of integers is one.
LEMMA IterInt ==
    ASSUME NEW S, IsFiniteSet(S), NEW f \in [S -> Int], NEW g, Iterates(f, S, g)
    PROVE  \A s \in SUBSET S : g[s] \in Int
<1> SUFFICES ASSUME NEW U \in SUBSET S, g[U] \notin Int PROVE FALSE
  OBVIOUS
<1> DEFINE B == {V \in SUBSET S : g[V] \notin Int}
<1>1. PICK V \in B : \A W \in B : W \subseteq V => W = V
  <2>1. B \in SUBSET (SUBSET S) /\ B # {}
    OBVIOUS
  <2> HIDE DEF B
  <2> QED BY <2>1, MinimalSubset
<1>3. V # {}
  BY DEF Iterates, SumStep
<1>4. /\ FirstOf(V) \in V
      /\ g[V] = f[FirstOf(V)] + g[V \ {FirstOf(V)}]
  BY <1>3, IterStep
<1>5. g[V \ {FirstOf(V)}] \in Int
  BY <1>1, <1>4
<1> QED BY <1>4, <1>5

\* The order does not matter: any element may be taken out first.
LEMMA IterRemove ==
    ASSUME NEW S, IsFiniteSet(S), NEW f \in [S -> Int], NEW g, Iterates(f, S, g)
    PROVE  \A s \in SUBSET S : \A x \in s : g[s] = f[x] + g[s \ {x}]
<1> DEFINE B == {V \in SUBSET S : \E x \in V : g[V] # f[x] + g[V \ {x}]}
<1> SUFFICES ASSUME B # {} PROVE FALSE
  OBVIOUS
<1>1. PICK V \in B : \A W \in B : W \subseteq V => W = V
  <2>1. B \in SUBSET (SUBSET S)
    OBVIOUS
  <2> HIDE DEF B
  <2> QED BY <2>1, MinimalSubset
<1>2. V \in SUBSET S /\ \A W \in SUBSET V : W # V => \A y \in W : g[W] = f[y] + g[W \ {y}]
  BY <1>1
<1>3. PICK x \in V : g[V] # f[x] + g[V \ {x}]
  OBVIOUS
<1> HIDE DEF B
<1>4. PICK p \in V : g[V] = f[p] + g[V \ {p}]
  <2>1. V \in SUBSET S /\ V # {}
    BY <1>2, <1>3
  <2>2. FirstOf(V) \in V /\ g[V] = f[FirstOf(V)] + g[V \ {FirstOf(V)}]
    BY <2>1, IterStep
  <2> QED BY <2>2
<1>5. g[V \ {p}] = f[x] + g[(V \ {p}) \ {x}]
  BY <1>2, <1>3, <1>4
<1>6. g[V \ {x}] = f[p] + g[(V \ {x}) \ {p}]
  BY <1>2, <1>3, <1>4
<1>7. (V \ {p}) \ {x} = (V \ {x}) \ {p}
  OBVIOUS
<1> DEFINE r == g[(V \ {x}) \ {p}]
<1>8. f[p] \in Int /\ f[x] \in Int /\ r \in Int
  BY <1>2, IterInt
<1> HIDE DEF r
<1>9. g[V] = f[p] + (f[x] + r) /\ g[V \ {x}] = f[p] + r
  BY <1>4, <1>5, <1>6, <1>7 DEF r
<1> QED BY <1>3, <1>8, <1>9

\* The total of nothing is zero.
LEMMA TotalEmpty ==
    ASSUME NEW f, DOMAIN f = {}
    PROVE  Total(f) = 0
<1>1. PICK g : Iterates(f, DOMAIN f, g) /\ Total(f) = g[DOMAIN f]
  BY FS_EmptySet, IterOfTotal
<1> QED BY <1>1 DEF Iterates, SumStep

\* A total of integers is one.
LEMMA TotalInt ==
    ASSUME NEW S, IsFiniteSet(S), NEW f \in [S -> Int]
    PROVE  Total(f) \in Int
<1>1. DOMAIN f = S
  OBVIOUS
<1>2. PICK g : Iterates(f, S, g) /\ Total(f) = g[S]
  BY <1>1, IterOfTotal
<1> QED BY <1>2, IterInt

\* Any summand can be taken out of a total.
LEMMA TotalRemove ==
    ASSUME NEW S, IsFiniteSet(S), NEW f \in [S -> Int], NEW x \in S
    PROVE  Total(f) = f[x] + Total([y \in S \ {x} |-> f[y]])
<1> DEFINE T == S \ {x}
           e == [y \in T |-> f[y]]
<1>1. DOMAIN f = S /\ DOMAIN e = T /\ IsFiniteSet(T)
  BY FS_RemoveElement
<1>2. PICK g : Iterates(f, S, g) /\ Total(f) = g[S]
  BY <1>1, IterOfTotal
<1>3. PICK h : Iterates(e, T, h) /\ Total(e) = h[T]
  <2> HIDE DEF e, T
  <2> QED BY <1>1, IterOfTotal
<1>4. g[T] = h[T]
  <2>1. T \subseteq S /\ \A y \in T : f[y] = e[y]
    OBVIOUS
  <2> HIDE DEF e, T
  <2> QED BY <1>1, <1>2, <1>3, <2>1, IterAgree
<1>5. g[S] = f[x] + g[T]
  BY <1>2, IterRemove
<1> QED BY <1>2, <1>3, <1>4, <1>5

\* Of a function restricted to a set, with one element more.
LEMMA TotalInsert ==
    ASSUME NEW S, IsFiniteSet(S), NEW f \in [S -> Int], NEW U \in SUBSET S, NEW x \in S \ U
    PROVE  Total(Restrict(f, U \cup {x})) = f[x] + Total(Restrict(f, U))
<1> DEFINE V == U \cup {x}
           e == Restrict(f, V)
<1>1. IsFiniteSet(V) /\ e \in [V -> Int] /\ x \in V /\ e[x] = f[x]
  BY FS_Subset DEF Restrict
<1>2. [y \in V \ {x} |-> e[y]] = Restrict(f, U)
  BY DEF Restrict
<1> HIDE DEF e, V
<1>3. Total(e) = e[x] + Total([y \in V \ {x} |-> e[y]])
  BY <1>1, TotalRemove
<1> QED BY <1>1, <1>2, <1>3 DEF e, V

\* The totals over the parts of a domain.
LEMMA TotalRestricted ==
    ASSUME NEW S, IsFiniteSet(S), NEW f \in [S -> Int]
    PROVE  /\ Restrict(f, S) = f
           /\ Total(Restrict(f, {})) = 0
           /\ \A U \in SUBSET S : Restrict(f, U) \in [U -> Int] /\ Total(Restrict(f, U)) \in Int
<1>1. Restrict(f, S) = f /\ DOMAIN Restrict(f, {}) = {}
  BY DEF Restrict
<1>2. ASSUME NEW U \in SUBSET S
      PROVE  Restrict(f, U) \in [U -> Int] /\ Total(Restrict(f, U)) \in Int
  <2>1. Restrict(f, U) \in [U -> Int] /\ IsFiniteSet(U)
    BY FS_Subset DEF Restrict
  <2> QED BY <2>1, TotalInt
<1> QED BY <1>1, <1>2, TotalEmpty

\* What obeys the equations of a total is the total.
LEMMA TotalUnique ==
    ASSUME NEW S, IsFiniteSet(S), NEW f \in [S -> Int],
           NEW h, h[{}] = 0,
           \A U \in SUBSET S : \A x \in S \ U : h[U \cup {x}] = f[x] + h[U]
    PROVE  Total(f) = h[S]
<1> DEFINE G == {U \in SUBSET S : Total(Restrict(f, U)) = h[U]}
<1>1. {} \in G
  BY TotalRestricted
<1>2. ASSUME NEW U \in SUBSET S, NEW x \in S \ U, U \in G
      PROVE  U \cup {x} \in G
  <2>1. Total(Restrict(f, U \cup {x})) = f[x] + Total(Restrict(f, U))
    BY TotalInsert
  <2>2. h[U \cup {x}] = f[x] + h[U]
    OBVIOUS
  <2> QED BY <1>2, <2>1, <2>2
<1>3. S \in G
  <2> HIDE DEF G
  <2> QED BY <1>1, <1>2, FiniteInduction
<1> QED BY <1>3, TotalRestricted

\* A total is monotonic in its summands.
LEMMA TotalMonotonic ==
    ASSUME NEW S, IsFiniteSet(S), NEW f \in [S -> Int], NEW g \in [S -> Int],
           \A x \in S : f[x] <= g[x]
    PROVE  Total(f) <= Total(g)
<1> DEFINE G == {U \in SUBSET S : Total(Restrict(f, U)) <= Total(Restrict(g, U))}
<1>1. {} \in G
  BY TotalRestricted
<1>2. ASSUME NEW U \in SUBSET S, NEW x \in S \ U, U \in G
      PROVE  U \cup {x} \in G
  <2>1. /\ Total(Restrict(f, U \cup {x})) = f[x] + Total(Restrict(f, U))
        /\ Total(Restrict(g, U \cup {x})) = g[x] + Total(Restrict(g, U))
    BY TotalInsert
  <2>2. Total(Restrict(f, U)) \in Int /\ Total(Restrict(g, U)) \in Int
    BY TotalRestricted
  <2>3. f[x] \in Int /\ g[x] \in Int /\ f[x] <= g[x]
    OBVIOUS
  <2> QED BY <1>2, <2>1, <2>2, <2>3
<1>3. S \in G
  <2> HIDE DEF G
  <2> QED BY <1>1, <1>2, FiniteInduction
<1> QED BY <1>3, TotalRestricted

\* The total of sums is the sum of the totals.
LEMMA TotalAdds ==
    ASSUME NEW S, IsFiniteSet(S), NEW f \in [S -> Int], NEW g \in [S -> Int]
    PROVE  Total([x \in S |-> f[x] + g[x]]) = Total(f) + Total(g)
<1> DEFINE e == [x \in S |-> f[x] + g[x]]
           h == [U \in SUBSET S |-> Total(Restrict(f, U)) + Total(Restrict(g, U))]
<1>1. e \in [S -> Int] /\ \A x \in S : e[x] = f[x] + g[x]
  OBVIOUS
<1>2. h[{}] = 0
  BY TotalRestricted
<1>3. ASSUME NEW U \in SUBSET S, NEW x \in S \ U
      PROVE  h[U \cup {x}] = e[x] + h[U]
  <2>1. /\ Total(Restrict(f, U \cup {x})) = f[x] + Total(Restrict(f, U))
        /\ Total(Restrict(g, U \cup {x})) = g[x] + Total(Restrict(g, U))
    BY TotalInsert
  <2>2. Total(Restrict(f, U)) \in Int /\ Total(Restrict(g, U)) \in Int
    BY TotalRestricted
  <2>3. f[x] \in Int /\ g[x] \in Int /\ U \cup {x} \in SUBSET S
    OBVIOUS
  <2> QED BY <1>1, <2>1, <2>2, <2>3
<1>4. h[S] = Total(f) + Total(g)
  BY TotalRestricted
<1> HIDE DEF e, h
<1>5. Total(e) = h[S]
  BY <1>1, <1>2, <1>3, TotalUnique
<1> QED BY <1>4, <1>5 DEF e

\* A constant factor can be taken out of a total.
LEMMA TotalScales ==
    ASSUME NEW S, IsFiniteSet(S), NEW f \in [S -> Int], NEW c \in Int
    PROVE  Total([x \in S |-> c * f[x]]) = c * Total(f)
<1> DEFINE e == [x \in S |-> c * f[x]]
           h == [U \in SUBSET S |-> c * Total(Restrict(f, U))]
<1>1. e \in [S -> Int] /\ \A x \in S : e[x] = c * f[x]
  OBVIOUS
<1>2. h[{}] = 0
  BY TotalRestricted
<1>3. ASSUME NEW U \in SUBSET S, NEW x \in S \ U
      PROVE  h[U \cup {x}] = e[x] + h[U]
  <2>1. Total(Restrict(f, U \cup {x})) = f[x] + Total(Restrict(f, U))
    BY TotalInsert
  <2>2. Total(Restrict(f, U)) \in Int
    BY TotalRestricted
  <2>3. f[x] \in Int /\ U \cup {x} \in SUBSET S
    OBVIOUS
  <2>4. \A a, b \in Int : c * (a + b) = c * a + c * b
    OBVIOUS
  <2> QED BY <1>1, <2>1, <2>2, <2>3, <2>4
<1>4. h[S] = c * Total(f)
  BY TotalRestricted
<1> HIDE DEF e, h
<1>5. Total(e) = h[S]
  BY <1>1, <1>2, <1>3, TotalUnique
<1> QED BY <1>4, <1>5 DEF e

\* A total over natural numbers is one, and bounds each of its summands.
LEMMA TotalNat ==
    ASSUME NEW S, IsFiniteSet(S), NEW f \in [S -> Nat]
    PROVE  Total(f) \in Nat /\ \A x \in S : f[x] <= Total(f)
<1>1. f \in [S -> Int] /\ Total(f) \in Int
  BY TotalInt
<1>2. ASSUME NEW U \in SUBSET S PROVE Total(Restrict(f, U)) >= 0
  <2> DEFINE z == [x \in U |-> 0 * Restrict(f, U)[x]]
  <2>1. IsFiniteSet(U) /\ Restrict(f, U) \in [U -> Nat]
    BY FS_Subset DEF Restrict
  <2>2. Total(z) = 0 * Total(Restrict(f, U)) /\ Total(Restrict(f, U)) \in Int
    BY <2>1, TotalScales, TotalInt
  <2>3. Total(z) <= Total(Restrict(f, U))
    <3>1. z \in [U -> Int] /\ \A x \in U : z[x] <= Restrict(f, U)[x]
      BY <2>1
    <3> HIDE DEF z
    <3> QED BY <2>1, <3>1, TotalMonotonic
  <2> QED BY <2>2, <2>3
<1>3. Total(f) >= 0
  BY <1>1, <1>2, TotalRestricted
<1>4. ASSUME NEW x \in S PROVE f[x] <= Total(f)
  <2>1. Total(f) = f[x] + Total(Restrict(f, S \ {x}))
    <3>1. S = (S \ {x}) \cup {x}
      OBVIOUS
    <3> QED BY <1>1, <3>1, TotalInsert, TotalRestricted
  <2>2. Total(Restrict(f, S \ {x})) \in Int /\ Total(Restrict(f, S \ {x})) >= 0
    BY <1>1, <1>2, TotalRestricted
  <2> QED BY <1>1, <2>1, <2>2
<1> QED BY <1>1, <1>3, <1>4

\* A total splits into those of two parts of its domain.
LEMMA TotalSplits ==
    ASSUME NEW S, IsFiniteSet(S), NEW f \in [S -> Int], NEW T \in SUBSET S
    PROVE  Total(f) = Total(Restrict(f, T)) + Total(Restrict(f, S \ T))
<1> DEFINE h == [U \in SUBSET S |-> Total(Restrict(f, U \cap T)) + Total(Restrict(f, U \ T))]
<1>1. h[{}] = 0
  <2>1. {} \cap T = {} /\ {} \ T = {}
    OBVIOUS
  <2> QED BY <2>1, TotalRestricted
<1>2. ASSUME NEW U \in SUBSET S, NEW x \in S \ U
      PROVE  h[U \cup {x}] = f[x] + h[U]
  <2> DEFINE A == U \cap T
             B == U \ T
  <2>1. Total(Restrict(f, A)) \in Int /\ Total(Restrict(f, B)) \in Int /\ f[x] \in Int
    BY TotalRestricted
  <2>2. Total(Restrict(f, A \cup {x})) = f[x] + Total(Restrict(f, A))
    BY TotalInsert
  <2>3. Total(Restrict(f, B \cup {x})) = f[x] + Total(Restrict(f, B))
    BY TotalInsert
  <2>4. CASE x \in T
    <3>1. (U \cup {x}) \cap T = A \cup {x} /\ (U \cup {x}) \ T = B
      BY <2>4
    <3>2. h[U \cup {x}] = Total(Restrict(f, A \cup {x})) + Total(Restrict(f, B))
      BY <3>1
    <3> HIDE DEF A, B
    <3> QED BY <2>1, <2>2, <3>2 DEF A, B
  <2>5. CASE x \notin T
    <3>1. (U \cup {x}) \cap T = A /\ (U \cup {x}) \ T = B \cup {x}
      BY <2>5
    <3>2. h[U \cup {x}] = Total(Restrict(f, A)) + Total(Restrict(f, B \cup {x}))
      BY <3>1
    <3> QED BY <2>1, <2>3, <3>2
  <2> QED BY <2>4, <2>5
<1>3. h[S] = Total(Restrict(f, T)) + Total(Restrict(f, S \ T))
  <2>1. S \cap T = T
    OBVIOUS
  <2> QED BY <2>1
<1> HIDE DEF h
<1> QED BY <1>1, <1>2, <1>3, TotalUnique

\* What a change of one summand does to a total.
LEMMA TotalUpdate ==
    ASSUME NEW S, IsFiniteSet(S), NEW f \in [S -> Int], NEW x \in S, NEW v \in Int
    PROVE  Total([f EXCEPT ![x] = v]) = Total(f) - f[x] + v
<1> DEFINE g == [f EXCEPT ![x] = v]
<1>1. g \in [S -> Int] /\ g[x] = v /\ [y \in S \ {x} |-> g[y]] = [y \in S \ {x} |-> f[y]]
  OBVIOUS
<1> DEFINE t == Total([y \in S \ {x} |-> f[y]])
<1>2. Total(f) = f[x] + t
  BY TotalRemove
<1>3. Total(g) = v + t
  <2> HIDE DEF g, t
  <2> QED BY <1>1, TotalRemove DEF t
<1>4. t \in Int
  <2>1. IsFiniteSet(S \ {x}) /\ [y \in S \ {x} |-> f[y]] \in [S \ {x} -> Int]
    BY FS_RemoveElement
  <2> QED BY <2>1, TotalInt
<1> HIDE DEF g, t
<1> QED BY <1>2, <1>3, <1>4 DEF g

\* A total of zeros, and of one number among zeros.
LEMMA TotalZero ==
    ASSUME NEW S, IsFiniteSet(S), NEW f \in [S -> Int], \A x \in S : f[x] = 0
    PROVE  Total(f) = 0
<1> DEFINE h == [U \in SUBSET S |-> 0]
<1>1. \A U \in SUBSET S : \A x \in S \ U : h[U \cup {x}] = f[x] + h[U]
  OBVIOUS
<1>2. h[{}] = 0 /\ h[S] = 0
  OBVIOUS
<1> HIDE DEF h
<1> QED BY <1>1, <1>2, TotalUnique

LEMMA TotalSingle ==
    ASSUME NEW S, IsFiniteSet(S), NEW f \in [S -> Int], NEW a \in S, \A x \in S \ {a} : f[x] = 0
    PROVE  Total(f) = f[a]
<1> DEFINE g == [x \in S \ {a} |-> f[x]]
<1>1. IsFiniteSet(S \ {a}) /\ g \in [S \ {a} -> Int] /\ \A x \in S \ {a} : g[x] = 0
  BY FS_RemoveElement
<1>2. Total(f) = f[a] + Total(g)
  BY TotalRemove
<1> HIDE DEF g
<1>3. Total(g) = 0
  BY <1>1, TotalZero
<1> QED BY <1>2, <1>3

\* A part of natural numbers has no larger total.
LEMMA TotalSubset ==
    ASSUME NEW D, IsFiniteSet(D), NEW f \in [D -> Nat], NEW T \in SUBSET D, NEW S \in SUBSET T
    PROVE  Total(Restrict(f, S)) <= Total(Restrict(f, T))
<1> DEFINE g == Restrict(f, T)
<1>1. IsFiniteSet(T) /\ g \in [T -> Int] /\ IsFiniteSet(T \ S)
  BY FS_Subset DEF Restrict
<1>2. Restrict(g, S) = Restrict(f, S) /\ Restrict(g, S) \in [S -> Int] /\ Restrict(g, T \ S) \in [T \ S -> Nat]
  BY DEF Restrict
<1>3. IsFiniteSet(S)
  BY <1>1, FS_Subset
<1> HIDE DEF g
<1>4. Total(g) = Total(Restrict(g, S)) + Total(Restrict(g, T \ S))
  BY <1>1, TotalSplits
<1>5. Total(Restrict(g, S)) \in Int /\ Total(Restrict(g, T \ S)) \in Nat
  BY <1>1, <1>2, <1>3, TotalInt, TotalNat
<1>6. Total(Restrict(f, S)) <= Total(g)
  BY <1>2, <1>4, <1>5
<1> QED BY <1>6 DEF g

\* What parts of a function of natural numbers sum up to.
LEMMA TotalOfPart ==
    ASSUME NEW D, IsFiniteSet(D), NEW f \in [D -> Nat], NEW T \in SUBSET D
    PROVE  /\ Total(Restrict(f, T)) \in Nat
           /\ T = {} => Total(Restrict(f, T)) = 0
           /\ \A S \in SUBSET T : Total(Restrict(f, S)) <= Total(Restrict(f, T))
           /\ \A v \in D \ T : Total(Restrict(f, T \cup {v})) = Total(Restrict(f, T)) + f[v]
           /\ (\A v \in T : f[v] = 0) => Total(Restrict(f, T)) = 0
<1>1. f \in [D -> Int]
  OBVIOUS
<1>2. IsFiniteSet(T)
  BY FS_Subset
<1>3. /\ Restrict(f, T) \in [T -> Nat] /\ Restrict(f, T) \in [T -> Int]
      /\ \A v \in T : Restrict(f, T)[v] = f[v]
  BY DEF Restrict
<1>4. Total(Restrict(f, T)) \in Nat
  BY <1>2, <1>3, TotalNat
<1>5. T = {} => Total(Restrict(f, T)) = 0
  BY <1>1, TotalRestricted
<1>6. \A S \in SUBSET T : Total(Restrict(f, S)) <= Total(Restrict(f, T))
  BY TotalSubset
<1>7. ASSUME NEW v \in D \ T PROVE Total(Restrict(f, T \cup {v})) = Total(Restrict(f, T)) + f[v]
  <2>1. Total(Restrict(f, T \cup {v})) = f[v] + Total(Restrict(f, T))
    BY <1>1, TotalInsert
  <2> QED BY <1>4, <2>1
<1>8. (\A v \in T : f[v] = 0) => Total(Restrict(f, T)) = 0
  BY <1>2, <1>3, TotalZero
<1> QED BY <1>4, <1>5, <1>6, <1>7, <1>8

\* A part of a domain in two parts.
LEMMA TotalParts ==
    ASSUME NEW D, IsFiniteSet(D), NEW f \in [D -> Int], NEW U \in SUBSET D, NEW T \in SUBSET U
    PROVE  Total(Restrict(f, U)) = Total(Restrict(f, T)) + Total(Restrict(f, U \ T))
<1> DEFINE g == Restrict(f, U)
<1>1. IsFiniteSet(U) /\ g \in [U -> Int]
  BY FS_Subset DEF Restrict
<1>2. Restrict(g, T) = Restrict(f, T) /\ Restrict(g, U \ T) = Restrict(f, U \ T)
  BY DEF Restrict
<1> HIDE DEF g
<1>3. Total(g) = Total(Restrict(g, T)) + Total(Restrict(g, U \ T))
  BY <1>1, TotalSplits
<1> QED BY <1>2, <1>3 DEF g

\* What two parts share: inclusion and exclusion.
LEMMA TotalUnion ==
    ASSUME NEW D, IsFiniteSet(D), NEW f \in [D -> Int], NEW A \in SUBSET D, NEW B \in SUBSET D
    PROVE  Total(Restrict(f, A)) + Total(Restrict(f, B))
             = Total(Restrict(f, A \cup B)) + Total(Restrict(f, A \cap B))
<1> DEFINE W(S) == Total(Restrict(f, S))
<1>1. (A \cup B) \ A = B \ A /\ B \ (A \cap B) = B \ A /\ A \cup B \in SUBSET D /\ A \cap B \in SUBSET B
      /\ A \in SUBSET (A \cup B) /\ B \ A \in SUBSET D /\ A \cap B \in SUBSET D
  OBVIOUS
<1>2. \A S \in SUBSET D : W(S) \in Int
  BY TotalRestricted
<1>3. W(A \cup B) = W(A) + W((A \cup B) \ A)
  BY <1>1, TotalParts
<1>4. W(B) = W(A \cap B) + W(B \ (A \cap B))
  BY <1>1, TotalParts
<1> HIDE DEF W
<1>5. W(A \cup B) = W(A) + W(B \ A) /\ W(B) = W(A \cap B) + W(B \ A)
  BY <1>1, <1>3, <1>4
<1>6. W(A) \in Int /\ W(B) \in Int /\ W(B \ A) \in Int /\ W(A \cap B) \in Int
  BY <1>1, <1>2
<1>7. W(A) + W(B) = W(A \cup B) + W(A \cap B)
  BY <1>5, <1>6
<1> QED BY <1>7 DEF W

\* Summands that are zero outside of A.
LEMMA TotalWhere ==
    ASSUME NEW S, IsFiniteSet(S), NEW f \in [S -> Int], NEW D \in SUBSET S, NEW A \in SUBSET D,
           NEW g \in [D -> Int], \A x \in A : g[x] = f[x], \A x \in D \ A : g[x] = 0
    PROVE  Total(g) = Total(Restrict(f, A))
<1>1. IsFiniteSet(D) /\ IsFiniteSet(D \ A) /\ D \ A \in SUBSET D
  BY FS_Subset
<1>2. Total(g) = Total(Restrict(g, A)) + Total(Restrict(g, D \ A))
  BY <1>1, TotalSplits
<1>3. Restrict(g, A) = Restrict(f, A)
  BY DEF Restrict
<1>4. Restrict(g, D \ A) \in [D \ A -> Int] /\ \A x \in D \ A : Restrict(g, D \ A)[x] = 0
  BY DEF Restrict
<1>5. Total(Restrict(g, D \ A)) = 0
  BY <1>1, <1>4, TotalZero
<1>6. Total(Restrict(f, A)) \in Int
  BY TotalRestricted
<1> QED BY <1>2, <1>3, <1>5, <1>6

\* Equal summands.
LEMMA TotalConstant ==
    ASSUME NEW S, IsFiniteSet(S), NEW c \in Int
    PROVE  Total([x \in S |-> c]) = c * Cardinality(S)
<1> DEFINE f == [x \in S |-> c]
           h == [U \in SUBSET S |-> c * Cardinality(U)]
<1>1. f \in [S -> Int] /\ \A x \in S : f[x] = c
  OBVIOUS
<1>2. h[{}] = 0
  BY FS_EmptySet
<1>3. ASSUME NEW U \in SUBSET S, NEW x \in S \ U PROVE h[U \cup {x}] = f[x] + h[U]
  <2>1. IsFiniteSet(U)
    BY FS_Subset
  <2>2. Cardinality(U) \in Nat /\ Cardinality(U \cup {x}) = Cardinality(U) + 1
    BY <2>1, FS_CardinalityType, FS_AddElement
  <2>3. c * (Cardinality(U) + 1) = c + c * Cardinality(U)
    BY <2>2
  <2> QED BY <2>2, <2>3
<1>4. h[S] = c * Cardinality(S)
  OBVIOUS
<1> HIDE DEF f, h
<1>5. Total(f) = h[S]
  BY <1>1, <1>2, <1>3, TotalUnique
<1> QED BY <1>4, <1>5 DEF f

-----------------------------------------------------------------------------
(* Shares of a pool *)

\* Shares in proportion to weights, cut to decimals, add up to one at most.
LEMMA SharesWithinOne ==
    ASSUME NEW C, IsFiniteSet(C), NEW w \in [C -> Nat], Total(w) # 0,
           NEW s \in [C -> Nat], \A v \in C : s[v] = QuoInt64(NewDec(w[v]), Total(w))
    PROVE  Total(s) <= One
<1> DEFINE total == Total(w)
           f == [v \in C |-> total * s[v]]
           g == [v \in C |-> One * w[v]]
<1>1. total \in Nat \ {0} /\ One \in Nat \ {0} /\ Total(s) \in Nat
  BY TotalNat, OneAssumption
<1> HIDE DEF total
<1>2. ASSUME NEW v \in C PROVE total * s[v] <= One * w[v] /\ total * s[v] \in Int /\ One * w[v] \in Int
  <2> DEFINE n == w[v] * One
             q == n \div total
  <2>1. n \in Nat
    BY <1>1
  <2>2. s[v] = q
    BY <1>1, <2>1 DEF QuoInt64, NewDec, TruncDiv, total
  <2> HIDE DEF n
  <2>3. q \in Nat /\ n = total * q + (n % total) /\ n % total \in Nat
    BY <1>1, <2>1, DivMod
  <2> HIDE DEF q
  <2>4. total * q \in Nat /\ total * q <= n
    <3>1. total * q \in Nat
      BY <1>1, <2>3
    <3> QED BY <2>1, <2>3, <3>1
  <2>5. n = One * w[v]
    BY <1>1 DEF n
  <2> QED BY <2>1, <2>2, <2>4, <2>5
<1>3. f \in [C -> Int] /\ g \in [C -> Int] /\ \A v \in C : f[v] <= g[v]
  BY <1>2
<1>4. s \in [C -> Int] /\ w \in [C -> Int] /\ total \in Int /\ One \in Int
  BY <1>1
<1>5. Total(f) = total * Total(s)
  BY <1>4, TotalScales
<1>6. Total(g) = One * Total(w)
  BY <1>4, TotalScales
<1> HIDE DEF f, g
<1>7. Total(f) <= Total(g)
  BY <1>3, TotalMonotonic
<1> DEFINE x == Total(s)
<1>8. total * x <= One * total
  BY <1>5, <1>6, <1>7 DEF total
<1> HIDE DEF x
<1>9. x \in Nat
  BY <1>1 DEF x
<1>10. x <= One
  <2> SUFFICES ASSUME One + 1 <= x PROVE FALSE
    BY <1>1, <1>9
  <2>1. total * (One + 1) <= total * x
    BY <1>1, <1>9
  <2>2. total * (One + 1) = One * total + total
    BY <1>1
  <2>3. One * total \in Nat /\ total * x \in Nat
    BY <1>1, <1>9
  <2> QED BY <1>1, <1>8, <2>1, <2>2, <2>3
<1> QED BY <1>10 DEF x

\* A product cut to whole units exceeds the exact one by half a decimal at
\* most, by which the multiplication may round up.
LEMMA TruncMulBound ==
    ASSUME NEW P \in Nat, NEW s \in Nat
    PROVE  LET r == TruncateInt(DecMul(P, s)) IN
           r \in Nat /\ (2 * (One * One)) * r <= (2 * P) * s + One
<1> DEFINE n == P * s
           x == RoundDiv(n, One)
           r == x \div One
<1>1. n \in Nat /\ One \in Nat \ {0}
  BY OneAssumption
<1> HIDE DEF n
<1>2. x \in Nat /\ 2 * (One * x) <= 2 * n + One
  BY <1>1, RoundDivNear
<1> HIDE DEF x
<1>3. r \in Nat /\ x = One * r + (x % One) /\ x % One \in Nat
  BY <1>1, <1>2, DivMod
<1> HIDE DEF r
<1>4. One * r <= x
  <2>1. One * r \in Nat
    BY <1>1, <1>3
  <2> QED BY <1>2, <1>3, <2>1
<1>5. One * (One * r) <= One * x
  <2> DEFINE y == One * r
  <2>1. y \in Nat /\ y <= x
    BY <1>1, <1>3, <1>4
  <2> HIDE DEF y
  <2>2. One * y <= One * x
    BY <1>1, <1>2, <2>1
  <2> QED BY <2>2 DEF y
<1>6. (2 * (One * One)) * r = 2 * (One * (One * r)) /\ One * (One * r) \in Nat /\ One * x \in Nat
  BY <1>1, <1>2, <1>3
<1>7. (2 * P) * s = 2 * n
  BY DEF n
<1>8. TruncateInt(DecMul(P, s)) = r
  BY <1>2 DEF TruncateInt, TruncDiv, DecMul, r, x, n
<1> QED BY <1>1, <1>2, <1>3, <1>5, <1>6, <1>7, <1>8

\* r pays every member of C its share of P by the weights w, the others nothing
PaysShares(S, C, w, P, r) ==
    \A v \in S : r[v] = IF v \in C THEN TruncateInt(DecMul(P, QuoInt64(NewDec(w[v]), Total(w)))) ELSE 0

\* What the shares of a pool are paid, all rounded, is no more than the pool:
\* n recipients gain at most n half decimals by rounding, less than one unit.
LEMMA PaymentsWithinPool ==
    ASSUME NEW S, IsFiniteSet(S), Cardinality(S) < 2 * One, NEW C \in SUBSET S,
           NEW w \in [C -> Nat], Total(w) # 0,
           NEW pool \in Nat, NEW P \in Nat, P <= pool * One,
           NEW r \in [S -> Nat], PaysShares(S, C, w, P, r)
    PROVE  Total(r) <= pool
<1> DEFINE total == Total(w)
           s == [v \in C |-> QuoInt64(NewDec(w[v]), total)]
           y == Restrict(r, C)
           K == 2 * (One * One)
           Q == 2 * P
           f == [v \in C |-> K * y[v]]
           a == [v \in C |-> Q * s[v]]
           c == [v \in C |-> One]
           g == [v \in C |-> a[v] + c[v]]
           n == Cardinality(C)
           Y == Total(y)
<1>0. IsFiniteSet(C) /\ n \in Nat /\ n < 2 * One /\ One \in Nat \ {0} /\ K \in Nat /\ Q \in Nat
  <2>1. IsFiniteSet(C) /\ n <= Cardinality(S)
    BY FS_Subset
  <2>2. n \in Nat /\ Cardinality(S) \in Nat
    BY <2>1, FS_CardinalityType
  <2> QED BY <2>1, <2>2, OneAssumption
<1>1. total \in Nat \ {0}
  BY <1>0, TotalNat
<1>2. s \in [C -> Nat] /\ s \in [C -> Int] /\ \A v \in C : s[v] = QuoInt64(NewDec(w[v]), total)
  <2>1. ASSUME NEW v \in C PROVE QuoInt64(NewDec(w[v]), total) \in Nat
    <3>1. NewDec(w[v]) \in Nat
      BY <1>0 DEF NewDec
    <3>2. TruncDiv(NewDec(w[v]), total) \in 0..NewDec(w[v])
      BY <1>1, <3>1, TruncDivBounds
    <3> QED BY <3>1, <3>2 DEF QuoInt64
  <2> QED BY <2>1
<1> HIDE DEF s
<1>3. Total(s) <= One /\ Total(s) \in Nat
  BY <1>0, <1>2, SharesWithinOne, TotalNat
<1>4. y \in [C -> Nat] /\ y \in [C -> Int] /\ \A v \in C : y[v] = r[v]
  BY DEF Restrict
<1>5. \A v \in C : y[v] = TruncateInt(DecMul(P, s[v]))
  BY <1>2, <1>4 DEF PaysShares
<1>6. Total(r) = Y
  <2>1. r \in [S -> Int] /\ S \in SUBSET S /\ \A v \in S \ C : r[v] = 0
    BY DEF PaysShares
  <2> QED BY <2>1, TotalWhere
<1> HIDE DEF y, K, Q
<1>7. ASSUME NEW v \in C PROVE K * y[v] <= Q * s[v] + One /\ K * y[v] \in Int /\ Q * s[v] \in Int
  <2>1. K * y[v] <= Q * s[v] + One
    BY <1>2, <1>5, TruncMulBound DEF K, Q
  <2> QED BY <1>0, <1>2, <1>4, <2>1
<1>8. /\ f \in [C -> Int] /\ a \in [C -> Int] /\ c \in [C -> Int] /\ g \in [C -> Int]
      /\ \A v \in C : f[v] <= g[v]
  BY <1>0, <1>7
<1>9. Total(f) = K * Y
  BY <1>0, <1>4, TotalScales
<1>10. Total(a) = Q * Total(s)
  BY <1>0, <1>2, TotalScales
<1>11. Total(c) = One * n
  <2>1. One \in Int
    BY <1>0
  <2> QED BY ONLY <1>0, <2>1, TotalConstant
<1> HIDE DEF f, a, c
<1>12. Total(g) = Total(a) + Total(c)
  BY <1>0, <1>8, TotalAdds
<1> HIDE DEF g
<1>13. Total(f) <= Total(g)
  BY <1>0, <1>8, TotalMonotonic
<1>14. Y \in Nat
  BY <1>0, <1>4, TotalNat
<1> DEFINE z == Total(s)
<1>15. K * Y <= Q * z + One * n
  BY <1>9, <1>10, <1>11, <1>12, <1>13
<1> HIDE DEF Y, z, n
<1>16. z \in Nat /\ z <= One
  BY <1>3 DEF z
<1>17. Q * z <= Q * One
  BY <1>0, <1>16
<1>18. 2 * (One * Y) <= Q + n
  <2> DEFINE u == 2 * (One * Y)
  <2>1. u \in Nat /\ Q + n \in Nat
    BY <1>0, <1>14
  <2>2. K * Y = One * u
    BY <1>0, <1>14 DEF K
  <2>3. Q * One + One * n = One * (Q + n)
    BY <1>0
  <2> HIDE DEF u
  <2>4. Q * z \in Nat /\ Q * One \in Nat /\ One * n \in Nat
    BY <1>0, <1>16
  <2> DEFINE m == Q + n
             i == K * Y
             j == Q * z
             k == Q * One
             l == One * n
  <2>5. One * u <= One * m
    <3>1. i <= j + l /\ j <= k /\ j \in Nat /\ k \in Nat /\ l \in Nat /\ i = One * u /\ k + l = One * m
      BY <1>15, <1>17, <2>2, <2>3, <2>4
    <3>2. i \in Nat
      BY <1>0, <1>14
    <3> HIDE DEF i, j, k, l, m
    <3>3. i <= k + l
      BY <3>1, <3>2
    <3> QED BY <3>1, <3>3
  <2> HIDE DEF m
  <2>6. m \in Nat
    BY <2>1 DEF m
  <2>7. u <= m
    <3> SUFFICES ASSUME m + 1 <= u PROVE FALSE
      BY <2>1, <2>6
    <3>1. One * (m + 1) <= One * u /\ One * (m + 1) = One * m + One /\ One * m \in Nat /\ One * u \in Nat
      BY <1>0, <2>1, <2>6
    <3> QED BY <1>0, <2>5, <3>1
  <2> QED BY <2>7 DEF u, m
<1>19. Y <= pool
  <2> SUFFICES ASSUME pool + 1 <= Y PROVE FALSE
    BY <1>14
  <2>1. One * (pool + 1) <= One * Y
    BY <1>0, <1>14
  <2>2. One * (pool + 1) = pool * One + One /\ pool * One \in Nat /\ One * Y \in Nat
    BY <1>0, <1>14
  <2>3. Q <= 2 * (pool * One)
    BY <2>2 DEF Q
  <2> QED BY <1>0, <1>18, <2>1, <2>2, <2>3
<1> QED BY <1>6, <1>19
=============================================================================
