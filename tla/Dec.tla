-------------------------------- MODULE Dec --------------------------------
(***************************************************************************)
(* The fixed-point decimals of the Cosmos SDK (sdk.Dec), as the modules of *)
(* this repository use them.  A decimal x is the integer x * One; the SDK  *)
(* has One = 10^18, a model picks a smaller One.  Only the operations that *)
(* the modelled code calls are here, each with the rounding of the SDK:    *)
(* Mul, Quo and RoundInt round half to even, QuoInt64 and TruncateInt cut  *)
(* towards zero.  Every division needs a divisor other than zero: the SDK  *)
(* panics on zero, and the callers model that panic.                       *)
(***************************************************************************)
EXTENDS Integers

CONSTANT One

ASSUME OneAssumption == One \in Nat \ {0}

\* n / d cut towards zero, for any integer n and positive d
TruncDiv(n, d) == IF n >= 0 THEN n \div d ELSE -((-n) \div d)

\* n / d rounded half to even, for any integer n and positive d
RoundDiv(n, d) ==
    LET q == TruncDiv(n, d)
        r == IF n >= 0 THEN n - q * d ELSE q * d - n
    IN  IF \/ 2 * r > d
           \/ 2 * r = d /\ q % 2 = 1
        THEN IF n >= 0 THEN q + 1 ELSE q - 1
        ELSE q

NewDec(n) == n * One

DecMul(x, y) == RoundDiv(x * y, One)

\* Quo cuts the quotient to twice the precision before it rounds
DecQuo(x, y) == RoundDiv(TruncDiv(x * One * One, y), One)

QuoInt64(x, n) == TruncDiv(x, n)

RoundInt(x) == RoundDiv(x, One)

TruncateInt(x) == TruncDiv(x, One)
=============================================================================
