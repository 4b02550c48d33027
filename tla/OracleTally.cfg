SPECIFICATION Spec
CONSTANTS
    v1 = v1
    v2 = v2
    v3 = v3
    f1 = f1
    One = 100
    FloatUnit = 1
    Validators = {v1, v2, v3}
    Denoms = {1, 2}
    Feeders = {}
    VoteChoices <- VotesOnBoth
    InitParams <- TwoDenoms
    ParamChoices = {}
    InitTokens <- EqualTokens
    TokenChoices = {}
    JailChoices = {}
    PowerReduction = 10
    MaxValidators = 3
    UnbondingBlocks = 5
    InitPool <- SmallPool
    InitHeight = 1
    MaxHeight = 2
INVARIANTS
    NeverHalts
PROPERTIES
    FaithfulNotMissed
    AbstainersUnpaid
SYMMETRY Symmetry
CHECK_DEADLOCK FALSE
