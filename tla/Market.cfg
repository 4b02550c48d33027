SPECIFICATION FairSpec
CONSTANTS
    One = 100
    Luna = luna
    SDR = sdr
    KRW = krw
    Terra <- MCTerra
    Traders = {alice, bob}
    OracleAccount = oracle
    OfferAmounts = {7, 40}
    InitialCoins <- MCCoins
    alice = alice
    bob = bob
    RateChoices <- MCRates
    TobinTaxes <- MCTaxes
    BasePool = 1000
    PoolRecoveryPeriod = 2
    MinStabilitySpread = 2
    MaxSwaps = 2
INVARIANTS
    TypeOK
    PoolPositive
PROPERTIES
    NoValueCreated
    PoolRecovers
    PoolSettles
CHECK_DEADLOCK FALSE
