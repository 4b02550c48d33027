------------------------------ MODULE Vesting ------------------------------
(***************************************************************************)
(* x/vesting: the LazyGradedVestingAccount, whose coins vest by a list of  *)
(* schedules.  One account and one denomination: the code treats every     *)
(* denomination by itself.  A schedule is [start, end, ratio]; an account  *)
(* without a schedule for the denomination has the empty list.             *)
(*                                                                         *)
(* The bank, the staking module and the tracking of delegations in the     *)
(* SDK's BaseVestingAccount are external, modelled from how the account    *)
(* uses them.  Coins are integers, ratios are decimals (Dec).              *)
(***************************************************************************)
EXTENDS Dec, Sums, Sequences

CONSTANTS
    OriginalVesting,
    ScheduleLists,     \* lists that a genesis file may hold
    FixedPoint,        \* fixedPointDecimals: 10^9, where One is 10^18
    ExtraCoins,        \* coins an account may own beyond the vesting ones
    Amounts,           \* amounts of a transfer or delegation
    MaxTime            \* bound: time stops here, after the last schedule

ASSUME VestingConstants ==
    /\ OriginalVesting \in Nat
    /\ FixedPoint \in 1..One
    /\ ExtraCoins \subseteq Nat
    /\ Amounts \subseteq Nat \ {0}
    /\ MaxTime \in Nat
    /\ \A l \in ScheduleLists : l \in Seq([start : Int, end : 0..MaxTime, ratio : Int])

VARIABLES
    schedules,
    time,
    balance,           \* coins of the account in the bank
    delegated,         \* coins it has at validators, after slashes
    delegatedVesting,
    delegatedFree

tracked == <<delegatedVesting, delegatedFree>>
vars == <<schedules, time, balance, delegated, tracked>>

-----------------------------------------------------------------------------
\* Validation of an account in a genesis file

ScheduleOK(s) == s.start >= 0 /\ s.end >= s.start /\ s.ratio > 0

TotalRatio(l) == Total([i \in 1..Len(l) |-> l[i].ratio])

\* Mutant: a larger total passes too
TotalAtLeastOne(l) == QuoInt64(NewDec(RoundInt(TotalRatio(l) * FixedPoint)), FixedPoint) >= One

\* The total is rounded to FixedPoint before it is compared with one
TotalIsOne(l) == QuoInt64(NewDec(RoundInt(TotalRatio(l) * FixedPoint)), FixedPoint) = One

Validate(l) == (\A i \in 1..Len(l) : ScheduleOK(l[i])) /\ TotalIsOne(l)

-----------------------------------------------------------------------------
AtMost(a, b) == IF a < b THEN a ELSE b

\* Mutant: a schedule counts only while it runs
RatioWhileRunning(s, t) ==
    IF t < s.start \/ t > s.end THEN 0
    ELSE IF t < s.end THEN QuoInt64(s.ratio * (t - s.start), s.end - s.start)
    ELSE s.ratio

\* Mutant: one second too many in the length of a schedule
RatioTooLong(s, t) ==
    IF t < s.start THEN 0
    ELSE QuoInt64(s.ratio * (AtMost(t, s.end) - s.start), s.end - s.start + 1)

\* The part of one schedule that has vested at t
RatioOf(s, t) ==
    IF t < s.start THEN 0
    ELSE IF t < s.end THEN QuoInt64(s.ratio * (t - s.start), s.end - s.start)
    ELSE s.ratio

GetVestedRatio(l, t) == Total([i \in 1..Len(l) |-> RatioOf(l[i], t)])

GetVestedCoins(t) ==
    IF schedules = << >> THEN OriginalVesting
    ELSE RoundInt(DecMul(NewDec(OriginalVesting), GetVestedRatio(schedules, t)))

\* OriginalVesting.Sub panics below zero, and with it whatever asked
Computable == GetVestedCoins(time) <= OriginalVesting

GetVestingCoins == OriginalVesting - GetVestedCoins(time)

\* Mutant: coins unlock a second early
LockedCoinsEarly ==
    LET vesting == OriginalVesting - GetVestedCoins(time + 1) IN
    vesting - AtMost(vesting, delegatedVesting)

LockedCoins == GetVestingCoins - AtMost(GetVestingCoins, delegatedVesting)

-----------------------------------------------------------------------------
Init ==
    /\ schedules \in {l \in ScheduleLists : Validate(l)} \cup {<< >>}
    /\ time = 0
    /\ \E extra \in ExtraCoins : balance = OriginalVesting + extra
    /\ delegated = 0
    /\ delegatedVesting = 0
    /\ delegatedFree = 0

\* The bank lets an account send what is not locked
Send(a) ==
    /\ Computable
    /\ a <= balance - LockedCoins
    /\ balance' = balance - a
    /\ UNCHANGED <<schedules, time, delegated, tracked>>

\* TrackDelegation: vesting coins that are not yet delegated come first
Delegate(a) ==
    LET fromVesting == AtMost(LockedCoins, a) IN
    /\ Computable
    /\ a <= balance
    /\ balance' = balance - a
    /\ delegated' = delegated + a
    /\ delegatedVesting' = delegatedVesting + fromVesting
    /\ delegatedFree' = delegatedFree + (a - fromVesting)
    /\ UNCHANGED <<schedules, time>>

\* TrackUndelegation: free coins come back first
Undelegate(a) ==
    LET free == AtMost(delegatedFree, a) IN
    /\ a <= delegated
    /\ balance' = balance + a
    /\ delegated' = delegated - a
    /\ delegatedFree' = delegatedFree - free
    /\ delegatedVesting' = delegatedVesting - AtMost(delegatedVesting, a - free)
    /\ UNCHANGED <<schedules, time>>

\* A validator is slashed: the account does not learn of it
Slash(a) ==
    /\ a <= delegated
    /\ delegated' = delegated - a
    /\ UNCHANGED <<schedules, time, balance, tracked>>

Tick ==
    /\ time < MaxTime
    /\ time' = time + 1
    /\ UNCHANGED <<schedules, balance, delegated, tracked>>

Next ==
    \/ \E a \in Amounts : Send(a) \/ Delegate(a) \/ Undelegate(a) \/ Slash(a)
    \/ Tick

Spec == Init /\ [][Next]_vars

\* Time goes on
FairSpec == Spec /\ WF_vars(Tick)

-----------------------------------------------------------------------------
\* The coins that are still vesting have not left the account: they are in its
\* balance, or counted as delegated, whatever mixture of transfers, delegations,
\* undelegations and slashes went before.
VestingBacked == Computable => balance + delegatedVesting >= GetVestingCoins

\* What has vested stays vested: no end of a schedule or rounding of a part
\* takes coins back.
VestedOnlyGrows == [][GetVestedCoins(time)' >= GetVestedCoins(time)]_vars

FreeButForRounding ==
    GetVestedCoins(time) >= OriginalVesting - (OriginalVesting + FixedPoint) \div (2 * FixedPoint)

\* In the end the account is free, but for the rounding that Validate allows:
\* half a unit of FixedPoint of the coins may stay locked.
FreeInTheEnd == <>[]FreeButForRounding

\* The same rounding bounds by how much the vested coins can exceed the
\* original ones.  Beyond them GetVestingCoins panics and the account cannot
\* send or delegate.
ExcessBounded == 2 * FixedPoint * (GetVestedCoins(time) - OriginalVesting) <= OriginalVesting + FixedPoint
=============================================================================
