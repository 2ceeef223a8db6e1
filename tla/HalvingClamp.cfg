CONSTANTS
    a = a
    b = b
    c = c
    Models = {a, b, c}
    Stages = {"draft", "judge"}
    NRounds = 2
    RoundSizes <- MCRoundSizes
    UnitsPerArm <- MCTwoUnits
    PoolSize = 1
    CoveragePct = 70
    NoPruneUpTo = 2
    Points <- MCPoints
    FullPoints = 20
    Bonus = 1
    CostRank <- MCCostRank
    DeadAt = 1
SPECIFICATION Spec
CHECK_DEADLOCK FALSE
INVARIANT FullAttemptKept
