SPECIFICATION Spec
CONSTANTS
    One = 100
    Validators = {"v", "w"}
    Powers = {1, 30}
    Rates = {5, 12}
    MaxRates = {12, 15}
    MaxChangeRate = 10
    BlocksPerWeek = 2
    ParamChoices <- MCParams
INVARIANTS
    TypeOK
    RateWithinMax
PROPERTIES
    IntentRestored
