SPECIFICATION FairSpec
CONSTANTS
    One = 1000
    OriginalVesting = 100
    ScheduleLists <- MCScheduleLists
    FixedPoint = 10
    ExtraCoins = {0, 30}
    Amounts = {30, 55}
    MaxTime = 6
INVARIANTS
    VestingBacked
    ExcessBounded
PROPERTIES
    VestedOnlyGrows
    FreeInTheEnd
CHECK_DEADLOCK FALSE
