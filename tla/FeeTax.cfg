SPECIFICATION AnteSpec
CONSTANTS
    One = 100
    Luna = luna
    SDR = sdr
    Terra <- MCTerra
    RateChoices <- MCRates
    LunaSupplies = {50}
    Stakes = {2}
    TaxChoices = {}
    TaxPolicies <- MCTaxPolicies
    RewardPolicies <- MCRewardPolicies
    GenesisTaxRates = {5}
    GenesisRewardWeights = {10}
    SeigniorageBurdenTarget = 67
    MiningIncrement = 107
    WindowShort = 1
    WindowLong = 2
    WindowProbation = 0
    BlocksPerWeek = 2
    MaxHeight = 3
    MaxProceeds = 0
    Txs <- MCTxs
    Msgs <- MCMsgs
    Fee <- MCFee
    Validators = {"v", "none"}
    Addresses = {"dex"}
    Contracts = {"dex"}
    MinGasFee <- MCMinGasFee
    BurnSplitRate = 20
    MaxCollected = 8
INVARIANTS
    TaxesCountedOnce
    FreeOncePerHeight
PROPERTIES
    FeeCoversBurn
CHECK_DEADLOCK FALSE
