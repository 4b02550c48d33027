SPECIFICATION Spec
CONSTANTS
    v1 = v1
    v2 = v2
    v3 = v3
    f1 = f1
    One = 100
    FloatUnit = 1
    Validators = {v1, v2}
    Denoms = {1}
    Feeders = {f1}
    VoteChoices <- VotesOn1
    InitParams <- TwoBlockPeriods
    ParamChoices = {}
    InitTokens <- EqualTokens
    TokenChoices = {}
    JailChoices = {}
    PowerReduction = 10
    MaxValidators = 3
    UnbondingBlocks = 5
    InitPool <- NoPool
    InitHeight = 1
    MaxHeight = 6
INVARIANTS
    TypeOK
    CommitBeforeReveal
    PrevoteLifetime
CHECK_DEADLOCK FALSE
