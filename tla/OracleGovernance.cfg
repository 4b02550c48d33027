SPECIFICATION Spec
CONSTANTS
    v1 = v1
    v2 = v2
    v3 = v3
    f1 = f1
    One = 100
    FloatUnit = 1
    Validators = {v1, v2}
    Denoms = {1, 2}
    Feeders = {}
    VoteChoices <- VotesOnEach
    InitParams <- TwoDenomsHalf
    ParamChoices <- WhitelistChanges
    InitTokens <- EqualTokens
    TokenChoices = {}
    JailChoices = {}
    PowerReduction = 10
    MaxValidators = 3
    UnbondingBlocks = 5
    InitPool <- NoPool
    InitHeight = 1
    MaxHeight = 4
PROPERTIES
    WhitelistCovered
CHECK_DEADLOCK FALSE
