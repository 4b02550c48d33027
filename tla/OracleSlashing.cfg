SPECIFICATION Spec
CONSTANTS
    v1 = v1
    v2 = v2
    v3 = v3
    f1 = f1
    One = 100
    FloatUnit = 1
    Validators = {v1, v2}
    Denoms = {1}
    Feeders = {}
    VoteChoices <- OneVote
    InitParams <- FourPeriodWindow
    ParamChoices = {}
    InitTokens <- EqualTokens
    TokenChoices = {0, 40}
    JailChoices = {v1}
    PowerReduction = 10
    MaxValidators = 1
    UnbondingBlocks = 4
    InitPool <- NoPool
    InitHeight = 1
    MaxHeight = 8
INVARIANTS
    NeverHalts
    MissesWithinWindow
PROPERTIES
    SlashDeserved
CHECK_DEADLOCK FALSE
