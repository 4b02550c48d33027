SPECIFICATION LoopsSpec
CONSTANTS
    One = 100
    FloatUnit = 1
    Denoms <- MCDenoms
    VoteMaps <- MCVoteMaps
    Thresholds = {0, 2}
    Voters = {1, 2, 3, 4}
    VoteRates = {100, 200}
    Powers = {1, 2, 3}
INVARIANTS
    OrderFree
    MedianAgrees
    MedianPositive
CHECK_DEADLOCK FALSE
