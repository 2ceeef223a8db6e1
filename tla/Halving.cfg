CONSTANTS
    a = a
    b = b
    c = c
    Models = {a, b, c}
    Stages = {"draft", "judge"}
    NRounds = 2
    RoundSizes <- MCRoundSizes
    UnitsPerArm <- MCOneUnit
    PoolSize = 1
    CoveragePct = 70
    NoPruneUpTo = 2
    Points <- MCPoints
    FullPoints = 20
    Bonus = 1
    CostRank <- MCCostRank
    DeadAt = 2
SPECIFICATION Spec
CHECK_DEADLOCK FALSE
INVARIANTS
    TypeOK
    FieldNarrows
    NoDeadSurvivor
PROPERTIES
    EliminatedStayOut
    SpecialistSurvives
