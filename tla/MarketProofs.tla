---------------------------- MODULE MarketProofs ----------------------------
(***************************************************************************)
(* What Market guarantees for every pool, period, spread and set of rates: *)
(* balances stay balances, the end of a block only brings the pool nearer  *)
(* to its base, and but for rounding no swap creates value or uses up the  *)
(* pool.                                                                   *)
(***************************************************************************)
EXTENDS Market, NumberLemmas, TLAPS

\* ReplenishPools moves the pool towards its base and not past it.
LEMMA ReplenishedNearer ==
    ASSUME terraPoolDelta \in Int
    PROVE  /\ Replenished \in Int
           /\ terraPoolDelta >= 0 => Replenished \in 0..terraPoolDelta
           /\ terraPoolDelta <= 0 => Replenished \in terraPoolDelta..0
<1> DEFINE t == TruncDiv(terraPoolDelta, PoolRecoveryPeriod)
<1>1. /\ t \in Int
      /\ terraPoolDelta >= 0 => t \in 0..terraPoolDelta
      /\ terraPoolDelta <= 0 => t \in terraPoolDelta..0
  BY TruncDivBounds, MarketConstants
<1>2. Replenished = terraPoolDelta - t
  BY DEF Replenished, QuoInt64
<1> HIDE DEF t
<1> QED BY <1>1, <1>2

-----------------------------------------------------------------------------
\* A rate that is there and not zero is a positive integer.
LEMMA RateType ==
    ASSUME TypeOK, NEW d \in Denoms, HasRate(rates, d)
    PROVE  GetLunaExchangeRate(rates, d) \in Nat
BY MarketConstants, OneAssumption
   DEF TypeOK, HasRate, GetLunaExchangeRate, Denoms

\* An internal exchange that succeeds yields an integer, positive unless the
\* two denominations are the same.
LEMMA InternalAmountType ==
    ASSUME TypeOK, NEW amount \in Int, NEW offer \in Denoms, NEW ask \in Denoms,
           CanSwapInternally(rates, amount, offer, ask)
    PROVE  /\ InternalAmount(rates, amount, offer, ask) \in Int
           /\ amount > 0 => InternalAmount(rates, amount, offer, ask) > 0
<1>1. CASE offer = ask
  BY <1>1 DEF InternalAmount
<1>2. CASE offer # ask
  <2>1. GetLunaExchangeRate(rates, offer) \in Nat \ {0} /\ GetLunaExchangeRate(rates, ask) \in Nat
    BY <1>2, RateType DEF CanSwapInternally
  <2>2. DecMul(amount, GetLunaExchangeRate(rates, ask)) \in Int
    BY <2>1, DecMulType
  <2>3. DecQuo(DecMul(amount, GetLunaExchangeRate(rates, ask)), GetLunaExchangeRate(rates, offer)) \in Int
    BY <2>1, <2>2, DecQuoType
  <2>4. InternalAmount(rates, amount, offer, ask) > 0
    BY <1>2 DEF CanSwapInternally
  <2> QED BY <1>2, <2>3, <2>4 DEF InternalAmount
<1> QED BY <1>1, <1>2

\* The amounts of a swap that ComputeSwap accepts.
LEMMA SwapAmountType ==
    ASSUME TypeOK, NEW offer \in Denoms, NEW ask \in Denoms, NEW amount \in OfferAmounts,
           CanComputeSwap(offer, amount, ask)
    PROVE  /\ BaseOffer(offer, amount) \in Nat \ {0}
           /\ SwapAmount(offer, amount, ask) \in Nat \ {0}
<1>1. NewDec(amount) \in Nat \ {0}
  BY MarketConstants, OneAssumption DEF NewDec
<1>2. SDR \in Denoms
  BY MarketConstants DEF Denoms
<1>3. BaseOffer(offer, amount) \in Nat \ {0}
  BY <1>1, <1>2, InternalAmountType DEF CanComputeSwap, BaseOffer
<1>4. SwapAmount(offer, amount, ask) \in Nat \ {0}
  BY <1>2, <1>3, InternalAmountType DEF CanComputeSwap, SwapAmount
<1> QED BY <1>3, <1>4

\* The spread of such a swap is an integer.
LEMMA SpreadType ==
    ASSUME TypeOK, NEW offer \in Denoms, NEW ask \in Denoms, NEW amount \in OfferAmounts,
           CanComputeSwap(offer, amount, ask)
    PROVE  Spread(offer, amount, ask) \in Int
<1> DEFINE base == BaseOffer(offer, amount)
<1>0. base \in Nat \ {0}
  BY SwapAmountType
<1>1. CASE BetweenTerra(offer, ask)
  BY <1>1, MarketConstants DEF CanComputeSwap, Spread, TobinSpread
<1>2. CASE ~BetweenTerra(offer, ask)
  <2>1. PoolsQuote(offer, base)
    BY <1>2 DEF CanComputeSwap
  <2>2. ConstantProduct \in Int /\ TerraPool \in Nat \ {0}
    <3>1. BasePool \in Int /\ terraPoolDelta \in Int
      BY MarketConstants DEF TypeOK
    <3>2. ConstantProduct \in Int
      BY <3>1, DecMulType DEF ConstantProduct
    <3>3. TerraPool \in Int
      BY <3>1 DEF TerraPool
    <3> QED BY <2>1, <3>2, <3>3 DEF PoolsQuote
  <2>3. DecQuo(ConstantProduct, TerraPool) \in Int
    BY <2>2, DecQuoType
  <2>4. OfferPool(offer) \in Int /\ AskPool(offer) \in Int
    BY <2>2, <2>3 DEF OfferPool, AskPool
  <2>5. OfferPool(offer) + base \in Nat \ {0}
    BY <1>0, <2>1, <2>4 DEF PoolsQuote
  <2>6. DecQuo(ConstantProduct, OfferPool(offer) + base) \in Int
    BY <2>2, <2>5, DecQuoType
  <2> DEFINE askBase == AskPool(offer) - DecQuo(ConstantProduct, OfferPool(offer) + base)
  <2>7. base - askBase \in Int
    BY <1>0, <2>4, <2>6
  <2>8. DecQuo(base - askBase, base) \in Int
    BY <1>0, <2>7, DecQuoType
  <2>9. PoolSpread(offer, base) \in Int
    BY <2>8, MarketConstants DEF PoolSpread
  <2> QED BY <1>2, <2>9 DEF Spread
<1> QED BY <1>1, <1>2

\* What is paid out of such a swap, when it is paid: coins.
LEMMA PaidType ==
    ASSUME TypeOK, NEW offer \in Denoms, NEW ask \in Denoms, NEW amount \in OfferAmounts,
           CanComputeSwap(offer, amount, ask), SwapCoin(offer, amount, ask) > 0
    PROVE  /\ NetAmount(offer, amount, ask) \in Nat
           /\ SwapCoin(offer, amount, ask) \in Nat
           /\ FeeCoin(offer, amount, ask) \in Nat
<1> DEFINE gross == SwapAmount(offer, amount, ask)
           spread == Spread(offer, amount, ask)
           charged == FeeAmount(offer, amount, ask)
           net == NetAmount(offer, amount, ask)
           paid == SwapCoin(offer, amount, ask)
<1>1. gross \in Nat /\ spread \in Int
  BY SwapAmountType, SpreadType
<1>2. charged \in Nat
  BY <1>1, DecMulType DEF FeeAmount
<1>3. net \in Int
  BY <1>1, <1>2 DEF NetAmount
<1>4. paid = TruncDiv(net, One) /\ paid \in Int
  BY <1>3, TruncDivBounds, OneAssumption DEF SwapCoin, TruncateInt
<1>5. net > 0
  BY <1>3, <1>4, TruncDivBounds, OneAssumption
<1>6. net - NewDec(paid) \in Nat
  <2> HIDE DEF net, paid
  <2>1. paid = net \div One
    BY <1>3, <1>4, <1>5 DEF TruncDiv
  <2>2. (net \div One) * One <= net
    BY <1>3, <1>5, OneAssumption
  <2> QED BY <1>3, <1>4, <2>1, <2>2, OneAssumption DEF NewDec
<1>7. FeeCoin(offer, amount, ask) = TruncDiv(charged + (net - NewDec(paid)), One)
  BY DEF FeeCoin, TruncateInt
<1> HIDE DEF gross, spread, charged, net, paid
<1>8. charged + (net - NewDec(paid)) \in Nat
  BY <1>2, <1>6
<1>9. FeeCoin(offer, amount, ask) \in Nat
  BY <1>7, <1>8, TruncDivBounds, OneAssumption
<1> QED BY <1>3, <1>4, <1>5, <1>9 DEF net, paid

-----------------------------------------------------------------------------
\* Swap and SwapSend never leave a negative balance, nor a pool that is not
\* a number, whatever the rates of the oracle.
THEOREM MarketTypeCorrect == Spec => []TypeOK
<1>1. Init => TypeOK
  BY MarketConstants DEF Init, TypeOK, Accounts, Denoms
<1>2. TypeOK /\ [Next]_vars => TypeOK'
  <2> SUFFICES ASSUME TypeOK, [Next]_vars PROVE TypeOK'
    OBVIOUS
  <2>1. CASE UNCHANGED vars
    BY <2>1 DEF vars, TypeOK
  <2>2. CASE EndBlock
    BY <2>2, ReplenishedNearer DEF EndBlock, TypeOK
  <2>3. ASSUME NEW trader \in Traders, NEW receiver \in Traders, NEW offer \in Denoms,
               NEW ask \in Denoms, NEW amount \in OfferAmounts,
               Swap(trader, receiver, offer, amount, ask)
        PROVE  TypeOK'
    <3> DEFINE net == NetAmount(offer, amount, ask)
               paid == SwapCoin(offer, amount, ask)
               fee == FeeCoin(offer, amount, ask)
    <3>1. /\ CanComputeSwap(offer, amount, ask)
          /\ CanApplySwap(offer, net, ask)
          /\ HasCoins(trader, offer, amount)
          /\ paid > 0
          /\ terraPoolDelta' = AppliedDelta(offer, amount, net, ask)
          /\ coins' = [[[coins EXCEPT ![trader][offer] = @ - amount]
                               EXCEPT ![receiver][ask] = @ + paid]
                               EXCEPT ![OracleAccount][ask] = @ + fee]
          /\ UNCHANGED rates
          /\ swaps < MaxSwaps /\ swaps' = swaps + 1
      BY <2>3 DEF Swap, HandleSwapRequest
    <3>2. net \in Nat /\ paid \in Nat /\ fee \in Nat
      BY <3>1, PaidType
    <3>3. terraPoolDelta' \in Int
      <4>1. BaseOffer(offer, amount) \in Nat /\ terraPoolDelta \in Int
        BY <3>1, SwapAmountType DEF TypeOK
      <4>2. offer = Luna => InternalAmount(rates, net, ask, SDR) \in Int
        BY <3>1, <3>2, InternalAmountType, MarketConstants DEF CanApplySwap, Denoms
      <4>3. offer # ask
        BY <3>1 DEF CanComputeSwap
      <4> QED BY <3>1, <4>1, <4>2, <4>3 DEF AppliedDelta, BetweenTerra
    <3>4. coins' \in [Accounts -> [Denoms -> Nat]]
      <4> HIDE DEF paid, fee
      <4>1. {trader, receiver, OracleAccount} \subseteq Accounts
        BY DEF Accounts
      <4>2. coins[trader][offer] - amount \in Nat
        BY <3>1, <4>1, MarketConstants DEF HasCoins, TypeOK
      <4> DEFINE c1 == [coins EXCEPT ![trader][offer] = @ - amount]
                 c2 == [c1 EXCEPT ![receiver][ask] = @ + paid]
                 c3 == [c2 EXCEPT ![OracleAccount][ask] = @ + fee]
      <4>3. c1 \in [Accounts -> [Denoms -> Nat]]
        BY <4>1, <4>2 DEF TypeOK
      <4>4. c2 \in [Accounts -> [Denoms -> Nat]]
        <5> HIDE DEF c1
        <5> QED BY <4>1, <4>3, <3>2
      <4>5. c3 \in [Accounts -> [Denoms -> Nat]]
        <5> HIDE DEF c2
        <5> QED BY <4>1, <4>4, <3>2
      <4> QED BY <3>1, <4>5
    <3>5. rates' \in RateChoices /\ swaps' \in 0..MaxSwaps
      BY <3>1, MarketConstants DEF TypeOK
    <3> QED BY <3>3, <3>4, <3>5 DEF TypeOK
  <2> QED BY <2>1, <2>2, <2>3 DEF Next
<1> QED BY <1>1, <1>2, PTL DEF Spec

\* Whatever the recovery period and whatever swaps came before, the end of a
\* block brings the pool nearer to its base and never past it.
THEOREM PoolNeverOvershoots == Spec => PoolRecovers
<1>1. TypeOK /\ [Next]_vars => [EndBlock => Recovering]_vars
  <2> SUFFICES ASSUME TypeOK, EndBlock PROVE Recovering
    OBVIOUS
  <2>1. terraPoolDelta \in Int /\ terraPoolDelta' = Replenished
    BY DEF TypeOK, EndBlock
  <2> QED BY <2>1, ReplenishedNearer DEF Recovering
<1> QED BY <1>1, MarketTypeCorrect, PTL DEF Spec, PoolRecovers

\* A quotient that is cut off is zero exactly below the divisor.
LEMMA TruncDivZero ==
    ASSUME NEW n \in Int, NEW d \in Nat \ {0}
    PROVE  TruncDiv(n, d) = 0 <=> -d < n /\ n < d
<1>1. ASSUME NEW m \in Nat PROVE m \div d = 0 <=> m < d
  <2>1. m = d * (m \div d) + (m % d) /\ m % d < d /\ m % d \in Nat /\ m \div d \in Nat
    BY DivMod
  <2>2. CASE m \div d = 0
    BY <2>1, <2>2
  <2>3. CASE m \div d # 0
    <3>1. \A q \in Nat : q # 0 => d * q >= d
      OBVIOUS
    <3>2. d * (m \div d) >= d
      BY ONLY <2>1, <2>3, <3>1, Zenon
    <3> QED BY <2>1, <2>3, <3>2
  <2> QED BY <2>2, <2>3
<1>2. CASE n >= 0
  BY <1>1, <1>2 DEF TruncDiv
<1>3. CASE n < 0
  <2>1. -n \in Nat
    BY <1>3
  <2>2. (-n) \div d = 0 <=> -n < d
    BY <1>1, <2>1
  <2>3. (-n) \div d \in Int
    BY <2>1
  <2> QED BY <1>3, <2>2, <2>3 DEF TruncDiv
<1> QED BY <1>2, <1>3

\* The end of a block strictly nears the pool to its base until it is settled,
\* and then leaves it alone.  Deltas are integers, so this is a variant: the
\* reason why PoolSettles holds, for every recovery period.
Approaching ==
    /\ Settled => terraPoolDelta' = terraPoolDelta
    /\ ~Settled /\ terraPoolDelta > 0 => terraPoolDelta' \in 0..(terraPoolDelta - 1)
    /\ ~Settled /\ terraPoolDelta < 0 => terraPoolDelta' \in (terraPoolDelta + 1)..0

PoolApproaches == [][EndBlock => Approaching]_vars

\* ReplenishPools never stalls outside the band in which QuoInt64 cuts off
\* everything, and never leaves that band.
THEOREM PoolNeverStalls == Spec => PoolApproaches
<1>1. TypeOK /\ [Next]_vars => [EndBlock => Approaching]_vars
  <2> SUFFICES ASSUME TypeOK, EndBlock PROVE Approaching
    OBVIOUS
  <2> DEFINE t == TruncDiv(terraPoolDelta, PoolRecoveryPeriod)
  <2>1. terraPoolDelta \in Int /\ terraPoolDelta' = terraPoolDelta - t
    BY DEF TypeOK, EndBlock, Replenished, QuoInt64
  <2>2. /\ t \in Int /\ (t = 0 <=> Settled)
        /\ terraPoolDelta >= 0 => t \in 0..terraPoolDelta
        /\ terraPoolDelta <= 0 => t \in terraPoolDelta..0
    BY <2>1, TruncDivZero, TruncDivBounds, MarketConstants DEF Settled
  <2> HIDE DEF t
  <2> QED BY <2>1, <2>2 DEF Approaching
<1> QED BY <1>1, MarketTypeCorrect, PTL DEF Spec, PoolApproaches

-----------------------------------------------------------------------------
(* No value out of nothing, up to rounding *)

\* An exchange at the rates o and a exceeds the exact one by the rounding of a
\* product and of a quotient at most.
LEMMA ExchangeBound ==
    ASSUME NEW x \in Nat, NEW o \in Nat \ {0}, NEW a \in Nat
    PROVE  LET y == DecQuo(DecMul(x, a), o) IN
           y \in Nat /\ 2 * (o * y) <= 2 * (x * a) + One + o
<1> DEFINE xa == x * a
           p == RoundDiv(xa, One)
           n == p * One * One
           q == n \div o
           y == RoundDiv(q, One)
<1>1. xa \in Nat /\ One \in Nat \ {0}
  BY OneAssumption
<1> HIDE DEF xa
<1>2. p \in Nat /\ 2 * (One * p) <= 2 * xa + One
  BY <1>1, RoundDivNear
<1> HIDE DEF p
<1>3. n \in Nat /\ n = One * (One * p)
  BY <1>1, <1>2
<1> HIDE DEF n
<1>4. q \in Nat /\ o * q <= n /\ o * q \in Nat
  <2>1. q \in Nat /\ n = o * q + (n % o) /\ n % o \in Nat
    BY <1>3, DivMod
  <2>2. o * q \in Nat
    BY <2>1
  <2> HIDE DEF q
  <2> QED BY <1>3, <2>1, <2>2
<1> HIDE DEF q
<1>5. y \in Nat /\ 2 * (One * y) <= 2 * q + One
  BY <1>1, <1>4, RoundDivNear
<1>6. DecQuo(DecMul(x, a), o) = y
  BY <1>3 DEF DecQuo, DecMul, TruncDiv, y, q, n, p, xa
<1> HIDE DEF y
<1>7. 2 * (o * y) <= 2 * (One * p) + o
  <2> DEFINE u == 2 * (One * y)
             r == 2 * q + One
             l == 2 * (o * y)
             h == 2 * (One * p) + o
  <2>1. u \in Nat /\ r \in Nat /\ u <= r /\ l \in Nat /\ h \in Nat
    BY <1>1, <1>2, <1>4, <1>5
  <2>2. o * u = One * l /\ o * r = 2 * (o * q) + o * One /\ One * h = 2 * n + o * One
    BY <1>1, <1>2, <1>3, <1>4, <1>5
  <2> HIDE DEF u, r, l, h
  <2>3. o * u <= o * r /\ o * u \in Nat /\ o * r \in Nat
    BY <2>1
  <2>4. One * l <= One * h
    <3>1. o * One \in Nat
      BY <1>1
    <3> QED BY <1>3, <1>4, <2>2, <2>3, <3>1
  <2>5. l <= h
    <3> SUFFICES ASSUME h + 1 <= l PROVE FALSE
      BY <2>1
    <3>1. One * (h + 1) <= One * l /\ One * (h + 1) = One * h + One /\ One * h \in Nat /\ One * l \in Nat
      BY <1>1, <2>1
    <3> QED BY <1>1, <2>4, <3>1
  <2> QED BY <2>5 DEF l, h
<1>8. 2 * (o * y) <= 2 * xa + One + o
  <2>1. o * y \in Nat /\ One * p \in Nat
    BY <1>1, <1>2, <1>5
  <2> QED BY <1>1, <1>2, <1>7, <2>1
<1> QED BY <1>5, <1>6, <1>8 DEF xa

\* What a swap mints: the exchanged amount, cut to whole coins.  The fee gets
\* the decimals that are cut off the payment.
LEMMA MintedIsGross ==
    ASSUME TypeOK, NEW offer \in Denoms, NEW ask \in Denoms, NEW amount \in OfferAmounts,
           CanComputeSwap(offer, amount, ask), SwapCoin(offer, amount, ask) > 0
    PROVE  SwapCoin(offer, amount, ask) + FeeCoin(offer, amount, ask)
             = TruncateInt(SwapAmount(offer, amount, ask))
<1> DEFINE gross == SwapAmount(offer, amount, ask)
           charged == FeeAmount(offer, amount, ask)
           net == NetAmount(offer, amount, ask)
           paid == SwapCoin(offer, amount, ask)
           fee == FeeCoin(offer, amount, ask)
           rest == gross - paid * One
<1>1. gross \in Nat /\ paid \in Nat /\ fee \in Nat /\ net \in Nat /\ One \in Nat \ {0}
  BY SwapAmountType, PaidType, OneAssumption
<1>2. charged \in Nat
  <2>1. Spread(offer, amount, ask) \in Int
    BY SpreadType
  <2> HIDE DEF net, paid, fee
  <2> QED BY <1>1, <2>1, DecMulType DEF FeeAmount
<1>3. net = gross - charged
  BY DEF NetAmount
<1>4. fee = TruncateInt(charged + (net - NewDec(paid)))
  BY DEF FeeCoin
<1>5. paid * One <= net /\ paid * One \in Nat
  <2>1. paid = net \div One
    BY <1>1 DEF SwapCoin, TruncateInt, TruncDiv
  <2> HIDE DEF paid, net
  <2>2. net = One * (net \div One) + (net % One) /\ net % One \in Nat
    BY <1>1, DivMod
  <2>3. One * (net \div One) = paid * One
    BY <1>1, <2>1
  <2>4. paid * One \in Nat
    BY <1>1
  <2> QED BY <1>1, <2>2, <2>3, <2>4
<1> HIDE DEF gross, charged, net, paid, fee
<1>6. rest \in Nat /\ charged + (net - NewDec(paid)) = rest
  BY <1>1, <1>2, <1>3, <1>5 DEF NewDec
<1> HIDE DEF rest
<1>7. fee = rest \div One
  BY <1>4, <1>6 DEF TruncateInt, TruncDiv
<1>8. rest = One * fee + (rest % One) /\ rest % One \in Nat /\ rest % One < One
  BY <1>1, <1>6, <1>7, DivMod
<1>9. gross = One * (paid + fee) + (rest % One)
  <2>1. One * (paid + fee) = paid * One + One * fee /\ One * fee \in Nat
    BY <1>1
  <2> DEFINE i == paid * One
             j == One * fee
             k == rest % One
             l == One * (paid + fee)
  <2>2. rest = gross - i /\ i \in Nat /\ j \in Nat /\ l = i + j /\ rest = j + k /\ k \in Nat
    BY <1>5, <1>8, <2>1 DEF rest
  <2> HIDE DEF i, j, k, l
  <2>3. gross = l + k
    BY <1>1, <1>6, <2>2
  <2> QED BY <2>3 DEF k, l
<1>10. gross \div One = paid + fee
  <2> DEFINE z == paid + fee
  <2>1. z \in Nat
    BY <1>1
  <2> HIDE DEF z
  <2>2. gross \div One = z
    BY <1>1, <1>8, <1>9, <2>1, DivUnique DEF z
  <2> QED BY <2>2 DEF z
<1> QED BY <1>1, <1>10 DEF TruncateInt, TruncDiv, gross, paid, fee

\* The two exchanges of a swap, by way of SDR, together.
LEMMA TwoExchanges ==
    ASSUME NEW x \in Nat, NEW b \in Nat, NEW y \in Nat, NEW o \in Nat, NEW s \in Nat, NEW a \in Nat,
           2 * (o * b) <= 2 * (x * s) + One + o, 2 * (s * y) <= 2 * (b * a) + One + s
    PROVE  2 * (s * (o * y)) <= 2 * (s * (x * a)) + (One * (a + o) + o * (a + s))
<1>0. One \in Nat
  BY OneAssumption
<1> DEFINE l1 == 2 * (o * b)
           h1 == 2 * (x * s) + One + o
           l2 == 2 * (s * y)
           h2 == 2 * (b * a) + One + s
<1>1. l1 \in Nat /\ h1 \in Nat /\ l2 \in Nat /\ h2 \in Nat /\ l1 <= h1 /\ l2 <= h2
  BY <1>0
<1>2. /\ o * l2 = 2 * (s * (o * y))
      /\ o * h2 = a * l1 + o * One + o * s
      /\ a * h1 = 2 * (s * (x * a)) + a * One + a * o
  BY <1>0
<1> HIDE DEF l1, h1, l2, h2
<1>3. o * l2 <= o * h2 /\ a * l1 <= a * h1 /\ o * l2 \in Nat /\ o * h2 \in Nat /\ a * l1 \in Nat /\ a * h1 \in Nat
  BY <1>1
<1>4. One * (a + o) + o * (a + s) = a * One + o * One + a * o + o * s
  BY <1>0
<1>5. a * One \in Nat /\ o * One \in Nat /\ a * o \in Nat /\ o * s \in Nat
  BY <1>0
<1> DEFINE u == s * (o * y)
           v == s * (x * a)
           e == One * (a + o) + o * (a + s)
<1>6. u \in Nat /\ v \in Nat /\ e \in Nat
  BY <1>0
<1>7. 2 * u <= 2 * v + e
  <2>1. o * l2 = 2 * u /\ a * h1 = 2 * v + a * One + a * o /\ e = a * One + o * One + a * o + o * s
    BY <1>2, <1>4
  <2> HIDE DEF u, v, e
  <2> QED BY <1>2, <1>3, <1>5, <1>6, <2>1
<1> QED BY <1>7

\* A swap exchanges at the rates of the oracle, up to the rounding of its two
\* exchanges; it needs a positive rate of SDR.
LEMMA SwapAtRates ==
    ASSUME TypeOK, NEW offer \in Denoms, NEW ask \in Denoms, NEW amount \in OfferAmounts,
           CanComputeSwap(offer, amount, ask)
    PROVE  LET o == GetLunaExchangeRate(rates, offer)
               a == GetLunaExchangeRate(rates, ask)
               s == GetLunaExchangeRate(rates, SDR)
           IN  /\ o \in Nat /\ a \in Nat /\ s \in Nat \ {0}
               /\ 2 * (s * (o * SwapAmount(offer, amount, ask)))
                    <= 2 * (s * (NewDec(amount) * a)) + (One * (a + o) + o * (a + s))
<1> DEFINE o == GetLunaExchangeRate(rates, offer)
           a == GetLunaExchangeRate(rates, ask)
           s == GetLunaExchangeRate(rates, SDR)
           x == NewDec(amount)
           b == BaseOffer(offer, amount)
           y == SwapAmount(offer, amount, ask)
<1>1. x \in Nat /\ b \in Nat /\ y \in Nat /\ SDR \in Denoms /\ One \in Nat \ {0}
  BY SwapAmountType, MarketConstants, OneAssumption DEF NewDec, Denoms
<1>2. /\ offer # ask
      /\ CanSwapInternally(rates, x, offer, SDR) /\ CanSwapInternally(rates, b, SDR, ask)
  BY DEF CanComputeSwap
<1>3. HasRate(rates, offer) /\ HasRate(rates, ask) /\ HasRate(rates, SDR)
  BY <1>2 DEF CanSwapInternally
<1>4. o \in Nat /\ a \in Nat /\ s \in Nat
  BY <1>1, <1>3, RateType
<1>5. 2 * (o * b) <= 2 * (x * s) + One + o
  <2>1. CASE offer = SDR
    <3>1. b = x /\ o = s
      BY <2>1 DEF BaseOffer, InternalAmount
    <3> HIDE DEF o, s, x, b
    <3>2. o * b = x * s /\ x * s \in Nat
      BY <1>1, <1>4, <3>1
    <3> QED BY <1>1, <1>4, <3>2
  <2>2. CASE offer # SDR
    <3>1. o # 0 /\ b = DecQuo(DecMul(x, s), o)
      BY <1>2, <2>2 DEF CanSwapInternally, BaseOffer, InternalAmount
    <3> HIDE DEF o, s, x, b
    <3> QED BY <1>1, <1>4, <3>1, ExchangeBound
  <2> QED BY <2>1, <2>2
<1>6. 2 * (s * y) <= 2 * (b * a) + One + s
  <2>1. CASE ask = SDR
    <3>1. y = b /\ a = s
      BY <2>1 DEF SwapAmount, InternalAmount
    <3> HIDE DEF a, s, y, b
    <3>2. s * y = b * a /\ b * a \in Nat
      BY <1>1, <1>4, <3>1
    <3> QED BY <1>1, <1>4, <3>2
  <2>2. CASE ask # SDR
    <3>1. s # 0 /\ y = DecQuo(DecMul(b, a), s)
      BY <1>2, <2>2 DEF CanSwapInternally, SwapAmount, InternalAmount
    <3> HIDE DEF a, s, y, b
    <3> QED BY <1>1, <1>4, <3>1, ExchangeBound
  <2> QED BY <2>1, <2>2
<1>8. s # 0
  <2>1. CASE ask # SDR
    BY <1>2, <2>1 DEF CanSwapInternally
  <2>2. CASE ask = SDR
    <3>1. b = DecQuo(DecMul(x, s), o) /\ b > 0 /\ o \in Nat \ {0}
      BY <1>2, <1>4, <2>2 DEF CanSwapInternally, BaseOffer, InternalAmount
    <3> HIDE DEF o, a, s, x, b, y
    <3>2. ASSUME s = 0 PROVE FALSE
      <4>1. RoundDiv(0 * One, One) = 0 /\ 0 * One = 0 /\ x * s = 0
        BY <1>1, <3>2, RoundDivExact
      <4>2. DecMul(x, s) = 0
        BY <4>1 DEF DecMul
      <4>3. DecQuo(0, o) = 0
        BY <1>1, <3>1, <4>1 DEF DecQuo, TruncDiv
      <4> QED BY <3>1, <4>2, <4>3
    <3> QED BY <3>2
  <2> QED BY <2>1, <2>2
<1> HIDE DEF o, a, s, x, b, y
<1>7. 2 * (s * (o * y)) <= 2 * (s * (x * a)) + (One * (a + o) + o * (a + s))
  BY <1>1, <1>4, <1>5, <1>6, TwoExchanges
<1> QED BY <1>4, <1>7, <1>8 DEF o, a, s, x, y

\* A swap burns the offer and mints the payment and the fee; it leaves the
\* supply of every other denomination alone.
LEMMA SwapSupply ==
    ASSUME TypeOK, NEW trader \in Traders, NEW receiver \in Traders, NEW offer \in Denoms,
           NEW ask \in Denoms, NEW amount \in OfferAmounts,
           HandleSwapRequest(trader, receiver, offer, amount, ask)
    PROVE  /\ Supply(offer)' = Supply(offer) - amount
           /\ Supply(ask)' = Supply(ask) + (SwapCoin(offer, amount, ask) + FeeCoin(offer, amount, ask))
           /\ \A d \in Denoms \ {offer, ask} : Supply(d)' = Supply(d)
           /\ \A d \in Denoms : Supply(d) \in Int
<1> DEFINE paid == SwapCoin(offer, amount, ask)
           fee == FeeCoin(offer, amount, ask)
           f(d) == [x \in Accounts |-> coins[x][d]]
           g(d) == [x \in Accounts |-> coins'[x][d]]
<1>1. /\ trader \in Accounts /\ receiver \in Accounts /\ OracleAccount \in Accounts
      /\ receiver # OracleAccount /\ amount \in Nat /\ IsFiniteSet(Accounts)
  BY MarketConstants, FS_AddElement DEF Accounts
<1>2. /\ CanComputeSwap(offer, amount, ask) /\ paid > 0 /\ offer # ask
      /\ coins' = [[[coins EXCEPT ![trader][offer] = @ - amount]
                           EXCEPT ![receiver][ask] = @ + paid]
                           EXCEPT ![OracleAccount][ask] = @ + fee]
  BY DEF HandleSwapRequest, CanComputeSwap
<1>3. paid \in Nat /\ fee \in Nat
  BY <1>2, PaidType
<1> HIDE DEF paid, fee
<1>4. ASSUME NEW x \in Accounts, NEW d \in Denoms
      PROVE  /\ coins[x][d] \in Int
             /\ coins'[x][d] = IF d = offer THEN IF x = trader THEN coins[x][d] - amount ELSE coins[x][d]
                               ELSE IF d = ask
                               THEN IF x = receiver THEN coins[x][d] + paid
                                    ELSE IF x = OracleAccount THEN coins[x][d] + fee ELSE coins[x][d]
                               ELSE coins[x][d]
  <2>1. coins \in [Accounts -> [Denoms -> Nat]]
    BY DEF TypeOK
  <2>2. coins[x][d] \in Int
    BY <2>1
  <2> QED BY <1>1, <1>2, <2>1, <2>2
<1>5. \A d \in Denoms : f(d) \in [Accounts -> Int] /\ Supply(d) = Total(f(d)) /\ Supply(d)' = Total(g(d))
  BY <1>4 DEF Supply
<1>6. \A d \in Denoms : Total(f(d)) \in Int
  <2> SUFFICES ASSUME NEW d \in Denoms PROVE Total(f(d)) \in Int
    OBVIOUS
  <2>1. f(d) \in [Accounts -> Int]
    BY <1>5
  <2> HIDE DEF f
  <2> QED BY <1>1, <2>1, TotalInt
<1>7. Total(g(offer)) = Total(f(offer)) - amount
  <2> DEFINE F == f(offer)
  <2>1. F \in [Accounts -> Int] /\ F[trader] - amount \in Int
    BY <1>1, <1>4
  <2>2. g(offer) = [F EXCEPT ![trader] = F[trader] - amount]
    BY <1>1, <1>4
  <2> HIDE DEF F
  <2>3. Total([F EXCEPT ![trader] = F[trader] - amount]) = Total(F) - F[trader] + (F[trader] - amount)
    BY <1>1, <2>1, TotalUpdate
  <2>4. Total(F) \in Int /\ F[trader] \in Int
    BY <1>1, <2>1, TotalInt
  <2>5. Total(g(offer)) = Total(F) - amount
    BY <1>1, <2>2, <2>3, <2>4
  <2> QED BY <2>5 DEF F
<1>8. Total(g(ask)) = Total(f(ask)) + (paid + fee)
  <2> DEFINE F == f(ask)
             G == [F EXCEPT ![receiver] = F[receiver] + paid]
             H == [G EXCEPT ![OracleAccount] = G[OracleAccount] + fee]
  <2>1. F \in [Accounts -> Int]
    BY <1>4
  <2>2. g(ask) = H
    <3>1. \A x \in Accounts : g(ask)[x] = IF x = receiver THEN F[x] + paid
                                          ELSE IF x = OracleAccount THEN F[x] + fee ELSE F[x]
      BY <1>2, <1>4
    <3>2. g(ask) = [x \in Accounts |-> g(ask)[x]]
      OBVIOUS
    <3> HIDE DEF F, g
    <3> QED BY <1>1, <2>1, <3>1, <3>2
  <2> HIDE DEF F
  <2>3. G \in [Accounts -> Int] /\ F[receiver] + paid \in Int /\ F[receiver] \in Int
    BY <1>1, <1>3, <2>1
  <2>4. Total(G) = Total(F) - F[receiver] + (F[receiver] + paid)
    <3> DEFINE r == F[receiver] + paid
    <3>1. r \in Int
      BY <2>3
    <3> HIDE DEF r
    <3>2. Total([F EXCEPT ![receiver] = r]) = Total(F) - F[receiver] + r
      BY <1>1, <2>1, <3>1, TotalUpdate
    <3> QED BY <3>2 DEF r
  <2> HIDE DEF G
  <2>5. G[OracleAccount] \in Int /\ G[OracleAccount] + fee \in Int
    BY <1>1, <1>3, <2>3
  <2>6. Total(H) = Total(G) - G[OracleAccount] + (G[OracleAccount] + fee)
    BY <1>1, <2>3, <2>5, TotalUpdate
  <2>7. Total(F) \in Int /\ Total(G) \in Int
    BY <1>1, <2>1, <2>3, TotalInt
  <2> HIDE DEF H
  <2>8. Total(g(ask)) = Total(F) + (paid + fee)
    BY <1>3, <2>2, <2>3, <2>4, <2>5, <2>6, <2>7
  <2> QED BY <2>8 DEF F
<1>9. ASSUME NEW d \in Denoms \ {offer, ask} PROVE g(d) = f(d)
  BY <1>4
<1> HIDE DEF f, g
<1> QED BY <1>5, <1>6, <1>7, <1>8, <1>9 DEF paid, fee

\* minted coins at the rate a for burned coins at the rate o are worth no more,
\* up to the rounding of an exchange by way of SDR, whose rate is s.  For rates
\* near One this allows two units of the last decimal of one coin.
WorthNoMore(minted, burned, o, a, s) ==
    s > 0 /\ (2 * (One * s)) * (minted * o - burned * a) <= One * (a + o) + o * (a + s)

\* Of a step that burns one denomination and mints another, the coins minted
\* are worth no more at the oracle's rates than the coins burned.
SwapsAtRates ==
    [][\A o, a \in Denoms :
          LET burned == Supply(o) - Supply(o)'
              minted == Supply(a)' - Supply(a)
          IN  burned > 0 /\ minted > 0 =>
                  WorthNoMore(minted, burned, GetLunaExchangeRate(rates, o),
                              GetLunaExchangeRate(rates, a), GetLunaExchangeRate(rates, SDR))]_vars

\* A swap mints what its exchange comes to, cut to coins, for what it burns.
LEMMA SwapWorth ==
    ASSUME TypeOK, NEW offer \in Denoms, NEW ask \in Denoms, NEW amount \in OfferAmounts,
           CanComputeSwap(offer, amount, ask), SwapCoin(offer, amount, ask) > 0
    PROVE  WorthNoMore(SwapCoin(offer, amount, ask) + FeeCoin(offer, amount, ask), amount,
                       GetLunaExchangeRate(rates, offer), GetLunaExchangeRate(rates, ask),
                       GetLunaExchangeRate(rates, SDR))
<1> DEFINE o == GetLunaExchangeRate(rates, offer)
           a == GetLunaExchangeRate(rates, ask)
           s == GetLunaExchangeRate(rates, SDR)
           y == SwapAmount(offer, amount, ask)
           m == SwapCoin(offer, amount, ask) + FeeCoin(offer, amount, ask)
           e == One * (a + o) + o * (a + s)
<1>1. /\ y \in Nat /\ amount \in Nat /\ One \in Nat \ {0} /\ m \in Nat
      /\ m = y \div One
  <2>1. y \in Nat /\ amount \in Nat /\ One \in Nat \ {0} /\ m \in Nat
    BY SwapAmountType, PaidType, MarketConstants, OneAssumption
  <2> QED BY <2>1, MintedIsGross DEF TruncateInt, TruncDiv
<1>2. o \in Nat /\ a \in Nat /\ s \in Nat \ {0} /\ 2 * (s * (o * y)) <= 2 * (s * ((amount * One) * a)) + e
  BY SwapAtRates DEF NewDec
<1> HIDE DEF o, a, s, y, m
<1>3. One * m <= y
  <2>1. y = One * m + (y % One) /\ y % One \in Nat
    BY <1>1, DivMod
  <2>2. One * m \in Nat
    BY <1>1
  <2> QED BY <1>1, <2>1, <2>2
<1>4. s * (o * (One * m)) <= s * (o * y)
  <2> DEFINE z == One * m
  <2>1. z \in Nat /\ z <= y
    BY <1>1, <1>3
  <2> HIDE DEF z
  <2>2. o * z <= o * y /\ o * z \in Nat /\ o * y \in Nat
    BY <1>1, <1>2, <2>1
  <2> DEFINE i == o * z
             j == o * y
  <2> HIDE DEF i, j
  <2>3. i \in Nat /\ j \in Nat /\ i <= j
    BY <2>2 DEF i, j
  <2>4. s * i <= s * j
    BY <1>2, <2>3
  <2> QED BY <2>4 DEF i, j, z
<1> DEFINE u == s * (o * (One * m))
           v == s * ((amount * One) * a)
           w == s * (o * y)
<1>5. u \in Nat /\ v \in Nat /\ w \in Nat /\ e \in Nat
  BY <1>1, <1>2
<1>6. (2 * (One * s)) * (m * o - amount * a) = 2 * u - 2 * v
  BY <1>1, <1>2
<1>7. u <= w /\ 2 * w <= 2 * v + e
  BY <1>2, <1>4
<1> HIDE DEF u, v, w, e
<1>8. 2 * u - 2 * v <= e
  BY <1>5, <1>7
<1>9. (2 * (One * s)) * (m * o - amount * a) <= One * (a + o) + o * (a + s) /\ s > 0
  BY <1>2, <1>6, <1>8 DEF e
<1> QED BY <1>9 DEF WorthNoMore, o, a, s, m

\* For every set of rates, taxes, pools and offers no swap creates value: what
\* is minted, fee included, is worth no more at the oracle's rates than what is
\* burned, but for the rounding of the two exchanges (ComputeSwap).
THEOREM NoValueBeyondRounding == Spec => SwapsAtRates
<1> DEFINE Kept ==
       \A o, a \in Denoms :
          LET burned == Supply(o) - Supply(o)'
              minted == Supply(a)' - Supply(a)
          IN  burned > 0 /\ minted > 0 =>
                  WorthNoMore(minted, burned, GetLunaExchangeRate(rates, o),
                              GetLunaExchangeRate(rates, a), GetLunaExchangeRate(rates, SDR))
<1>1. ASSUME TypeOK, NEW trader \in Traders, NEW receiver \in Traders, NEW offer \in Denoms,
             NEW ask \in Denoms, NEW amount \in OfferAmounts,
             HandleSwapRequest(trader, receiver, offer, amount, ask)
      PROVE  Kept
  <2> DEFINE m == SwapCoin(offer, amount, ask) + FeeCoin(offer, amount, ask)
  <2>1. CanComputeSwap(offer, amount, ask) /\ SwapCoin(offer, amount, ask) > 0 /\ offer # ask
    BY <1>1 DEF HandleSwapRequest, CanComputeSwap
  <2>2. m \in Nat /\ amount \in Nat
    BY <1>1, <2>1, PaidType, MarketConstants
  <2>3. /\ Supply(offer)' = Supply(offer) - amount
        /\ Supply(ask)' = Supply(ask) + m
        /\ \A d \in Denoms \ {offer, ask} : Supply(d)' = Supply(d)
        /\ \A d \in Denoms : Supply(d) \in Int
    BY <1>1, SwapSupply
  <2>4. WorthNoMore(m, amount, GetLunaExchangeRate(rates, offer), GetLunaExchangeRate(rates, ask),
                    GetLunaExchangeRate(rates, SDR))
    BY <1>1, <2>1, SwapWorth
  <2> HIDE DEF m
  <2> SUFFICES ASSUME NEW o \in Denoms, NEW a \in Denoms,
                      Supply(o) - Supply(o)' > 0, Supply(a)' - Supply(a) > 0
               PROVE  WorthNoMore(Supply(a)' - Supply(a), Supply(o) - Supply(o)',
                              GetLunaExchangeRate(rates, o),
                              GetLunaExchangeRate(rates, a), GetLunaExchangeRate(rates, SDR))
    OBVIOUS
  <2>5. o = offer /\ a = ask
    BY <2>2, <2>3
  <2>6. Supply(a)' - Supply(a) = m /\ Supply(o) - Supply(o)' = amount
    BY <2>2, <2>3, <2>5
  <2> QED BY <2>4, <2>5, <2>6
<1>2. ASSUME TypeOK, UNCHANGED coins PROVE Kept
  <2>1. ASSUME NEW d \in Denoms PROVE Supply(d)' = Supply(d) /\ Supply(d) \in Int
    <3> DEFINE f == [x \in Accounts |-> coins[x][d]]
    <3>1. f \in [Accounts -> Int] /\ IsFiniteSet(Accounts)
      BY <1>2, MarketConstants, FS_AddElement DEF TypeOK, Accounts
    <3>2. Supply(d) = Total(f) /\ Supply(d)' = Total(f)
      BY <1>2 DEF Supply
    <3> HIDE DEF f
    <3> QED BY <3>1, <3>2, TotalInt
  <2> QED BY <2>1
<1>3. TypeOK /\ [Next]_vars => [Kept]_vars
  <2> SUFFICES ASSUME TypeOK, Next PROVE Kept
    OBVIOUS
  <2> HIDE DEF Kept
  <2> QED BY <1>1, <1>2 DEF Next, EndBlock, Swap
<1> QED BY <1>3, MarketTypeCorrect, PTL DEF Spec, SwapsAtRates

-----------------------------------------------------------------------------
(* The pool is not used up, as long as the rounding of a swap does not matter *)

\* What the constant product leaves in the pool when Luna worth base is offered
LeftInPool(base) == DecQuo(ConstantProduct, OfferPool(Luna) + base)

\* The offers of Luna that can be priced in this state are small against the
\* pool: what the constant product leaves is more than the roundings of the
\* spread, the fee and the two exchanges can take, which is about
\* base / (2 * One) + One / a + s / a + 1 / 2 units of the last decimal.
OffersFit ==
    \A ask \in Terra, amount \in OfferAmounts :
        CanComputeSwap(Luna, amount, ask) =>
            LET base == BaseOffer(Luna, amount)
                a == GetLunaExchangeRate(rates, ask)
                s == GetLunaExchangeRate(rates, SDR)
            IN  (One + 2) * (a * base) + (One * One) * (2 * One + 2 * s + a)
                    < 2 * ((One * One) * (a * LeftInPool(base)))

\* A quotient of decimals is at most half a unit and its cut below the exact one.
LEMMA DecQuoLower ==
    ASSUME NEW x \in Nat, NEW y \in Nat \ {0}
    PROVE  /\ DecQuo(x, y) \in Nat
           /\ 2 * ((One * One) * x) <= 2 * (One * (y * DecQuo(x, y))) + (One + 2) * y
<1> DEFINE n == x * One * One
           q == n \div y
           r == RoundDiv(q, One)
<1>1. n \in Nat /\ One \in Nat \ {0} /\ n = (One * One) * x
  BY OneAssumption
<1> HIDE DEF n
<1>2. q \in Nat /\ n % y \in 0..(y - 1) /\ n = y * q + (n % y)
  BY <1>1, DivMod
<1>3. DecQuo(x, y) = r
  BY <1>1 DEF DecQuo, TruncDiv, n
<1> HIDE DEF q
<1>4. r \in Nat /\ 2 * q <= 2 * (One * r) + One
  BY <1>1, <1>2, RoundDivNear
<1> HIDE DEF r
<1> DEFINE l == 2 * q
           h == 2 * (One * r) + One
<1>5. l \in Nat /\ h \in Nat /\ l <= h
  BY <1>1, <1>2, <1>4
<1>6. y * l = 2 * (y * q) /\ y * h = 2 * (One * (y * r)) + One * y
  BY <1>1, <1>2, <1>4
<1> HIDE DEF l, h
<1>7. y * l <= y * h
  BY <1>5
<1> DEFINE yq == y * q
           oyr == One * (y * r)
           oy == One * y
<1>8. yq \in Nat /\ oyr \in Nat /\ oy \in Nat /\ (One + 2) * y = oy + 2 * y
  BY <1>1, <1>2, <1>4
<1>9. n = yq + (n % y) /\ 2 * yq <= 2 * oyr + oy
  BY <1>2, <1>6, <1>7
<1> HIDE DEF yq, oyr, oy
<1>10. 2 * n <= 2 * oyr + (One + 2) * y
  BY <1>1, <1>2, <1>8, <1>9
<1> QED BY <1>1, <1>3, <1>4, <1>10 DEF oyr

\* The four roundings of an offer of Luna, put together: k is what the spread
\* leaves of One, p what the offer may take from the pool.
LEMMA RoundingsOfSwap ==
    ASSUME NEW back \in Nat, NEW net \in Nat \ {0}, NEW y \in Nat, NEW base \in Nat,
           NEW k \in Int, k <= One, NEW p \in Int, NEW a \in Nat, NEW s \in Nat,
           2 * (a * back) <= 2 * (net * s) + One + a,
           2 * (One * net) <= 2 * (k * y) + One,
           2 * (s * y) <= 2 * (base * a) + One + s,
           2 * (One * (k * base)) <= 2 * ((One * One) * p) + (One + 2) * base
    PROVE  2 * ((One * One) * (a * back))
             <= 2 * ((One * One) * (a * p)) + (One + 2) * (a * base) + (One * One) * (2 * One + 2 * s + a)
<1>0. One \in Nat \ {0}
  BY OneAssumption
<1>1. k \in Nat
  <2>1. One * net \in Nat /\ One * net >= One /\ k * y \in Int
    BY <1>0
  <2> DEFINE on == One * net
             ky == k * y
  <2> HIDE DEF on, ky
  <2>2. on \in Nat /\ on >= One /\ ky \in Int /\ 2 * on <= 2 * ky + One
    BY <2>1 DEF on, ky
  <2>3. ky > 0
    BY <1>0, <2>2
  <2>4. k <= 0 => k * y <= 0
    OBVIOUS
  <2> QED BY <2>3, <2>4 DEF ky
<1> DEFINE oo == One * One
           l1 == 2 * (a * back)
           h1 == 2 * (net * s) + One + a
           l2 == 2 * (One * net)
           h2 == 2 * (k * y) + One
           l3 == 2 * (s * y)
           h3 == 2 * (base * a) + One + s
           l4 == 2 * (One * (k * base))
           h4 == 2 * (oo * p) + (One + 2) * base
           os == One * s
           ok == One * k
<1>2. /\ oo \in Nat /\ os \in Nat /\ ok \in Nat
      /\ l1 \in Nat /\ l2 \in Nat /\ l3 \in Nat /\ l4 \in Nat
      /\ h1 \in Nat /\ h2 \in Nat /\ h3 \in Nat /\ h4 \in Int
  BY <1>0, <1>1
<1>3. l1 <= h1 /\ l2 <= h2 /\ l3 <= h3 /\ l4 <= h4
  OBVIOUS
<1>4. /\ oo * l1 = 2 * (oo * (a * back))
      /\ oo * h1 = os * l2 + oo * One + oo * a
  BY <1>0, <1>1
<1>5. os * h2 = ok * l3 + oo * s
  BY <1>0, <1>1
<1>6. ok * h3 = a * l4 + ok * One + ok * s
  BY <1>0, <1>1
<1>7. a * h4 = 2 * (oo * (a * p)) + (One + 2) * (a * base)
  BY <1>0, <1>1, <1>2
<1>8. ok * One <= oo * One /\ ok * s <= oo * s
  <2>1. ok <= oo
    BY <1>0, <1>1
  <2> HIDE DEF ok, oo
  <2> QED BY <1>0, <1>2, <2>1
<1>9. oo * (2 * One + 2 * s + a) = 2 * (oo * One) + 2 * (oo * s) + oo * a
  BY <1>0, <1>2
<1> HIDE DEF oo, l1, h1, l2, h2, l3, h3, l4, h4, os, ok
<1>10. oo * l1 <= oo * h1 /\ os * l2 <= os * h2 /\ ok * l3 <= ok * h3 /\ a * l4 <= a * h4
  BY <1>2, <1>3
<1> DEFINE x1 == oo * l1
           x2 == os * l2
           x3 == ok * l3
           x4 == a * l4
           x5 == a * h4
           c1 == oo * One
           c2 == oo * s
           c3 == oo * a
           c4 == ok * One
           c5 == ok * s
<1>11. /\ x1 \in Int /\ x2 \in Int /\ x3 \in Int /\ x4 \in Int /\ x5 \in Int
       /\ c1 \in Int /\ c2 \in Int /\ c3 \in Int /\ c4 \in Int /\ c5 \in Int
  BY <1>0, <1>2
<1>12. x1 <= x2 + c1 + c3 /\ x2 <= x3 + c2 /\ x3 <= x4 + c4 + c5 /\ x4 <= x5 /\ c4 <= c1 /\ c5 <= c2
  BY <1>4, <1>5, <1>6, <1>8, <1>10
<1> HIDE DEF x1, x2, x3, x4, x5, c1, c2, c3, c4, c5
<1>13. x1 <= x5 + (2 * c1 + 2 * c2 + c3)
  BY <1>11, <1>12
<1> QED BY <1>4, <1>7, <1>9, <1>13 DEF x1, x5, c1, c2, c3, oo

\* What the spread of an offer of Luna leaves of it: p is what the constant
\* product takes from the pool.
LEMMA SpreadOfLuna ==
    ASSUME TypeOK, NEW ask \in Terra, NEW amount \in OfferAmounts, CanComputeSwap(Luna, amount, ask)
    PROVE  LET base == BaseOffer(Luna, amount)
               sp == Spread(Luna, amount, ask)
               p == TerraPool - LeftInPool(base)
           IN  /\ sp \in Nat /\ p \in Int /\ TerraPool \in Int /\ LeftInPool(base) \in Int
               /\ 2 * (One * ((One - sp) * base)) <= 2 * ((One * One) * p) + (One + 2) * base
<1> DEFINE base == BaseOffer(Luna, amount)
           sp == Spread(Luna, amount, ask)
           left == LeftInPool(base)
           p == TerraPool - left
<1>1. Luna \in Denoms /\ ask \in Denoms /\ ~BetweenTerra(Luna, ask) /\ ask # Luna
  BY MarketConstants DEF Denoms, BetweenTerra
<1>2. base \in Nat \ {0} /\ sp \in Int /\ One \in Nat \ {0}
  BY <1>1, SwapAmountType, SpreadType, OneAssumption
<1>3. PoolsQuote(Luna, base)
  BY <1>1 DEF CanComputeSwap
<1>4. BasePool \in Int /\ terraPoolDelta \in Int
  BY MarketConstants DEF TypeOK
<1>5. ConstantProduct \in Int /\ TerraPool \in Nat \ {0}
  <2>1. ConstantProduct \in Int
    BY <1>4, DecMulType DEF ConstantProduct
  <2> QED BY <1>3, <1>4, <2>1 DEF PoolsQuote, TerraPool
<1>6. OfferPool(Luna) \in Int
  BY <1>5, DecQuoType DEF OfferPool
<1>7. OfferPool(Luna) + base \in Nat \ {0}
  BY <1>2, <1>3, <1>6 DEF PoolsQuote
<1>8. left \in Int
  BY <1>5, <1>7, DecQuoType DEF LeftInPool
<1>9. p \in Int
  BY <1>5, <1>8
<1> DEFINE q == DecQuo(base - p, base)
<1>10. sp = IF q < MinStabilitySpread THEN MinStabilitySpread ELSE q
  BY <1>1 DEF Spread, PoolSpread, AskPool, LeftInPool
<1>11. q \in Int
  BY <1>2, <1>9, DecQuoType
<1> HIDE DEF base, sp, left, p, q
<1>12. sp \in Nat /\ q <= sp
  BY <1>2, <1>10, <1>11, MarketConstants
<1>13. 2 * ((One * One) * (base - p)) <= 2 * (One * (base * sp)) + (One + 2) * base
  <2>1. CASE base - p >= 0
    <3>1. q \in Nat /\ 2 * ((One * One) * (base - p)) <= 2 * (One * (base * q)) + (One + 2) * base
      <4>1. base - p \in Nat
        BY <1>2, <1>9, <2>1
      <4> QED BY <1>2, <4>1, DecQuoLower DEF q
    <3>2. base * q <= base * sp /\ base * q \in Nat /\ base * sp \in Nat
      BY <1>2, <1>12, <3>1
    <3> DEFINE u == base * q
               v == base * sp
    <3> HIDE DEF u, v
    <3>3. u \in Nat /\ v \in Nat /\ u <= v
      BY <3>2 DEF u, v
    <3>4. One * u <= One * v
      BY <1>2, <3>3
    <3> DEFINE ou == One * u
               ov == One * v
               l == (One * One) * (base - p)
               m == (One + 2) * base
    <3>5. ou \in Int /\ ov \in Int /\ l \in Int /\ m \in Int
      BY <1>2, <1>9, <3>3
    <3>6. ou <= ov /\ 2 * l <= 2 * ou + m
      BY <3>1, <3>4 DEF u
    <3> HIDE DEF ou, ov, l, m
    <3>7. 2 * l <= 2 * ov + m
      BY <3>5, <3>6
    <3> QED BY <3>7 DEF l, m, ov, v
  <2>2. CASE base - p < 0
    <3> DEFINE n == p - base
               oo == One * One
    <3>1. n \in Nat /\ base - p = -n /\ oo \in Nat
      BY <1>2, <1>9, <2>2
    <3>2. One * (base * sp) \in Nat /\ (One + 2) * base \in Nat
      BY <1>2, <1>12
    <3> HIDE DEF n, oo
    <3>3. oo * n \in Nat /\ oo * (-n) = -(oo * n)
      BY <3>1
    <3>4. 2 * (oo * (base - p)) <= 0
      BY <3>1, <3>3
    <3>5. oo * (base - p) \in Int
      BY <1>2, <1>9, <3>1
    <3> QED BY <3>2, <3>4, <3>5 DEF oo
  <2> QED BY <1>2, <1>9, <2>1, <2>2
<1>14. 2 * (One * ((One - sp) * base)) <= 2 * ((One * One) * p) + (One + 2) * base
  <2> DEFINE oob == (One * One) * base
             oop == (One * One) * p
             obs == One * (base * sp)
             m == (One + 2) * base
  <2>1. oob \in Int /\ oop \in Int /\ obs \in Int /\ m \in Int
    BY <1>2, <1>9, <1>12
  <2>2. (One * One) * (base - p) = oob - oop /\ One * ((One - sp) * base) = oob - obs
    BY <1>2, <1>9, <1>12
  <2>3. 2 * (oob - oop) <= 2 * obs + m
    BY <1>13, <2>2
  <2> HIDE DEF oob, oop, obs, m
  <2>4. 2 * (oob - obs) <= 2 * oop + m
    BY <2>1, <2>3
  <2> QED BY <2>2, <2>4 DEF oop, m
<1> QED BY <1>5, <1>8, <1>9, <1>12, <1>14 DEF base, sp, p, left

\* What is left of the ask after the fee, up to half a unit.
LEMMA NetAfterSpread ==
    ASSUME TypeOK, NEW offer \in Denoms, NEW ask \in Denoms, NEW amount \in OfferAmounts,
           CanComputeSwap(offer, amount, ask), Spread(offer, amount, ask) \in Nat
    PROVE  2 * (One * NetAmount(offer, amount, ask))
             <= 2 * ((One - Spread(offer, amount, ask)) * SwapAmount(offer, amount, ask)) + One
<1> DEFINE sp == Spread(offer, amount, ask)
           y == SwapAmount(offer, amount, ask)
           f == FeeAmount(offer, amount, ask)
<1>1. sp \in Nat /\ y \in Nat /\ One \in Nat \ {0}
  BY SwapAmountType, OneAssumption
<1>2. f = IF sp > 0 THEN DecMul(sp, y) ELSE 0
  BY DEF FeeAmount
<1>3. NetAmount(offer, amount, ask) = y - f
  BY DEF NetAmount
<1> HIDE DEF sp, y, f
<1>4. f \in Nat /\ 2 * (sp * y) <= 2 * (One * f) + One
  <2>1. CASE sp > 0
    <3>1. sp * y \in Nat
      BY <1>1
    <3> QED BY <1>1, <1>2, <2>1, <3>1, RoundDivNear DEF DecMul
  <2>2. CASE sp = 0
    BY <1>1, <1>2, <2>2
  <2> QED BY <1>1, <2>1, <2>2
<1> DEFINE oy == One * y
           of == One * f
           sy == sp * y
<1>5. oy \in Int /\ of \in Int /\ sy \in Int /\ One * (y - f) = oy - of /\ (One - sp) * y = oy - sy
  BY <1>1, <1>4
<1>6. 2 * sy <= 2 * of + One
  BY <1>4
<1> HIDE DEF oy, of, sy
<1>7. 2 * (oy - of) <= 2 * (oy - sy) + One
  BY <1>1, <1>5, <1>6
<1> QED BY <1>3, <1>5, <1>7 DEF sp, y

\* An offer of Luna takes less from the pool than there is.
LEMMA LunaOfferLeavesPool ==
    ASSUME TypeOK, OffersFit, NEW ask \in Terra, NEW amount \in OfferAmounts,
           CanComputeSwap(Luna, amount, ask), SwapCoin(Luna, amount, ask) > 0,
           CanApplySwap(Luna, NetAmount(Luna, amount, ask), ask)
    PROVE  /\ InternalAmount(rates, NetAmount(Luna, amount, ask), ask, SDR) \in Int
           /\ InternalAmount(rates, NetAmount(Luna, amount, ask), ask, SDR) < TerraPool
<1> DEFINE base == BaseOffer(Luna, amount)
           y == SwapAmount(Luna, amount, ask)
           sp == Spread(Luna, amount, ask)
           net == NetAmount(Luna, amount, ask)
           back == InternalAmount(rates, net, ask, SDR)
           left == LeftInPool(base)
           p == TerraPool - left
           a == GetLunaExchangeRate(rates, ask)
           s == GetLunaExchangeRate(rates, SDR)
<1>1. Luna \in Denoms /\ ask \in Denoms /\ SDR \in Denoms /\ ask # Luna
  BY MarketConstants DEF Denoms
<1>2. base \in Nat /\ y \in Nat /\ net \in Nat \ {0} /\ One \in Nat \ {0}
  <2>1. net \in Nat /\ SwapCoin(Luna, amount, ask) \in Nat
    BY <1>1, PaidType
  <2>2. net # 0
    <3>1. SwapCoin(Luna, amount, ask) = TruncDiv(net, One)
      BY DEF SwapCoin, TruncateInt
    <3> HIDE DEF net
    <3> QED BY <2>1, <3>1, TruncDivBounds, OneAssumption
  <2> QED BY <1>1, <2>1, <2>2, SwapAmountType, OneAssumption
<1>3. /\ sp \in Nat /\ p \in Int /\ TerraPool \in Int /\ left \in Int
      /\ 2 * (One * ((One - sp) * base)) <= 2 * ((One * One) * p) + (One + 2) * base
  BY SpreadOfLuna
<1>4. 2 * (One * net) <= 2 * ((One - sp) * y) + One
  BY <1>1, <1>3, NetAfterSpread
<1>5. a \in Nat /\ s \in Nat
  BY <1>1, SwapAtRates
<1>6. (One + 2) * (a * base) + (One * One) * (2 * One + 2 * s + a) < 2 * ((One * One) * (a * left))
  BY DEF OffersFit
<1>7. 2 * (s * y) <= 2 * (base * a) + One + s
  <2>1. CASE ask = SDR
    <3>1. y = base /\ a = s
      BY <2>1 DEF SwapAmount, InternalAmount
    <3> HIDE DEF y, base, a, s
    <3>2. s * base \in Nat /\ s * base = base * s
      BY <1>2, <1>5
    <3> QED BY <1>2, <1>5, <3>1, <3>2
  <2>2. CASE ask # SDR
    <3>1. s # 0 /\ y = DecQuo(DecMul(base, a), s)
      BY <2>2 DEF CanComputeSwap, CanSwapInternally, SwapAmount, InternalAmount
    <3> HIDE DEF y, base, a, s
    <3> QED BY <1>2, <1>5, <3>1, ExchangeBound
  <2> QED BY <2>1, <2>2
<1>8. back \in Nat /\ 2 * (a * back) <= 2 * (net * s) + One + a
  <2>1. CASE ask = SDR
    <3>1. back = net /\ a = s
      BY <2>1 DEF InternalAmount
    <3> HIDE DEF back, net, a, s
    <3>2. s * net \in Nat /\ s * net = net * s
      BY <1>2, <1>5
    <3> QED BY <1>2, <1>5, <3>1, <3>2
  <2>2. CASE ask # SDR
    <3>1. a # 0 /\ back = DecQuo(DecMul(net, s), a)
      BY <2>2 DEF CanApplySwap, CanSwapInternally, InternalAmount
    <3> HIDE DEF back, net, a, s
    <3> QED BY <1>2, <1>5, <3>1, ExchangeBound
  <2> QED BY <2>1, <2>2
<1> HIDE DEF base, y, sp, net, back, left, a, s
<1> DEFINE k == One - sp
           oo == One * One
<1>9. k \in Int /\ k <= One /\ oo \in Nat \ {0}
  BY <1>2, <1>3
<1>10. 2 * (oo * (a * back)) <= 2 * (oo * (a * p)) + (One + 2) * (a * base) + oo * (2 * One + 2 * s + a)
  <2> HIDE DEF p, k
  <2>1. 2 * (One * (k * base)) <= 2 * ((One * One) * p) + (One + 2) * base /\ 2 * (One * net) <= 2 * (k * y) + One
    BY <1>3, <1>4 DEF k
  <2> QED BY <1>2, <1>3, <1>5, <1>7, <1>8, <1>9, <2>1, RoundingsOfSwap
<1>11. oo * (a * p) = oo * (a * TerraPool) - oo * (a * left)
  BY <1>2, <1>3, <1>5
<1>12. oo * (a * back) < oo * (a * TerraPool)
  <2> DEFINE x1 == oo * (a * back)
             x2 == oo * (a * p)
             x3 == oo * (a * TerraPool)
             x4 == oo * (a * left)
             c == (One + 2) * (a * base) + oo * (2 * One + 2 * s + a)
  <2>1. x1 \in Int /\ x2 \in Int /\ x3 \in Int /\ x4 \in Int /\ c \in Int
    BY <1>2, <1>3, <1>5, <1>8, <1>9
  <2>2. 2 * x1 <= 2 * x2 + c /\ x2 = x3 - x4 /\ c < 2 * x4
    <3>1. 2 * x1 <= 2 * x2 + c
      <4> DEFINE c1 == (One + 2) * (a * base)
                 c2 == oo * (2 * One + 2 * s + a)
      <4>1. c1 \in Int /\ c2 \in Int /\ c = c1 + c2
        BY <1>2, <1>3, <1>5, <1>8, <1>9
      <4>2. 2 * x1 <= 2 * x2 + c1 + c2
        BY <1>10
      <4> HIDE DEF x1, x2, c1, c2, c
      <4> QED BY <2>1, <4>1, <4>2
    <3> QED BY <1>6, <1>11, <3>1
  <2> HIDE DEF x1, x2, x3, x4, c
  <2>3. x1 < x3
    BY <2>1, <2>2
  <2> QED BY <2>3 DEF x1, x3
<1>13. back < TerraPool
  <2> HIDE DEF oo
  <2>1. back >= TerraPool => a * back >= a * TerraPool
    BY <1>3, <1>5, <1>8
  <2> DEFINE u == a * back
             v == a * TerraPool
  <2>2. u \in Int /\ v \in Int /\ oo * u < oo * v
    BY <1>3, <1>5, <1>8, <1>12
  <2> HIDE DEF u, v
  <2>3. u < v
    BY <1>9, <2>2
  <2> QED BY <1>3, <1>8, <2>1, <2>2, <2>3 DEF u, v
<1> QED BY <1>8, <1>13 DEF back, net

\* For every positive base pool, every spread, recovery period, set of rates
\* and sequence of swaps the pool of Terra is not used up, as long as no offer
\* of Luna is so large that the rounding of its swap exceeds what the constant
\* product leaves (ComputeSwap, ApplySwapToPool).  With a base pool of zero
\* there is nothing to divide by and no swap through the pool goes through.
THEOREM PoolNotUsedUp ==
    ASSUME BasePool > 0
    PROVE  Spec /\ []OffersFit => []PoolPositive
<1>1. Init => PoolPositive
  BY MarketConstants DEF Init, PoolPositive, TerraPool
<1>2. ASSUME TypeOK, OffersFit, PoolPositive, [Next]_vars
      PROVE  PoolPositive'
  <2>0. BasePool \in Nat /\ terraPoolDelta \in Int /\ BasePool + terraPoolDelta > 0
    BY <1>2, MarketConstants DEF TypeOK, PoolPositive, TerraPool
  <2>1. CASE EndBlock
    <3>1. Replenished \in Int /\ (Replenished >= terraPoolDelta \/ Replenished >= 0)
      BY <2>0, ReplenishedNearer
    <3> QED BY <2>0, <2>1, <3>1 DEF EndBlock, PoolPositive, TerraPool
  <2>2. ASSUME NEW trader \in Traders, NEW receiver \in Traders, NEW offer \in Denoms,
               NEW ask \in Denoms, NEW amount \in OfferAmounts,
               HandleSwapRequest(trader, receiver, offer, amount, ask)
        PROVE  PoolPositive'
    <3> DEFINE net == NetAmount(offer, amount, ask)
    <3>1. /\ CanComputeSwap(offer, amount, ask) /\ SwapCoin(offer, amount, ask) > 0 /\ offer # ask
          /\ CanApplySwap(offer, net, ask)
          /\ terraPoolDelta' = AppliedDelta(offer, amount, net, ask)
      BY <2>2 DEF HandleSwapRequest, CanComputeSwap
    <3>2. CASE BetweenTerra(offer, ask)
      BY <2>0, <3>1, <3>2 DEF AppliedDelta, PoolPositive, TerraPool
    <3>3. CASE ask = Luna
      <4>1. BaseOffer(offer, amount) \in Nat
        BY <1>2, <2>2, <3>1, SwapAmountType
      <4> QED BY <2>0, <3>1, <3>3, <4>1 DEF AppliedDelta, BetweenTerra, PoolPositive, TerraPool
    <3>4. CASE offer = Luna /\ ask # Luna
      <4>1. ask \in Terra
        BY <2>2, <3>4 DEF Denoms
      <4>2. InternalAmount(rates, net, ask, SDR) \in Int /\ InternalAmount(rates, net, ask, SDR) < TerraPool
        BY <1>2, <2>2, <3>1, <3>4, <4>1, LunaOfferLeavesPool
      <4>3. terraPoolDelta' = terraPoolDelta - InternalAmount(rates, net, ask, SDR)
        BY <3>1, <3>4 DEF AppliedDelta, BetweenTerra
      <4> QED BY <2>0, <4>2, <4>3 DEF PoolPositive, TerraPool
    <3> QED BY <3>2, <3>3, <3>4 DEF BetweenTerra
  <2>3. CASE UNCHANGED vars
    BY <1>2, <2>3 DEF vars, PoolPositive, TerraPool
  <2> QED BY <1>2, <2>1, <2>2, <2>3 DEF Next, Swap
<1>3. TypeOK /\ OffersFit /\ PoolPositive /\ [Next]_vars => PoolPositive'
  BY <1>2
<1> QED BY <1>1, <1>3, MarketTypeCorrect, PTL DEF Spec
=============================================================================
