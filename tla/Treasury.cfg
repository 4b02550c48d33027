SPECIFICATION Spec
CONSTANTS
    One = 100
    Luna = luna
    SDR = sdr
    KRW = krw
    Terra <- MCTerra
    RateChoices <- MCRates
    LunaSupplies = {40, 50}
    Stakes = {0, 2}
    TaxChoices <- MCTaxes
    TaxPolicies <- MCTaxPolicies
    RewardPolicies <- MCRewardPolicies
    GenesisTaxRates = {5, 20}
    GenesisRewardWeights = {25, 60}
    SeigniorageBurdenTarget = 67
    MiningIncrement = 107
    WindowShort = 2
    WindowLong = 3
    WindowProbation = 1
    BlocksPerWeek = 2
    MaxHeight = 3
    MaxProceeds = 4
INVARIANTS
    RunsOnPositiveRates
    IssuanceTracked
PROPERTIES
    TaxLeverKept
    RewardLeverKept
CHECK_DEADLOCK FALSE
