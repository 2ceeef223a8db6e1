SPECIFICATION Spec
CONSTANTS
    Models = {m1, m2}
    Units = {u1}
    NStages = 2
    ParentOf <- MCParentOf
    Validators = {}
    OpOf <- MCOpOf
    GlobalLimit = 2
    OpLimit <- MCOpLimit
    Substrate <- WinnerSubstrate
    StrikesToAbort = 2
    Outcomes = {"good", "short"}
    MaxCrashes = 1
INVARIANTS
    FullCoverage
    CacheIsBacked
PROPERTIES
    NeverRepaid
SYMMETRY ModelSymmetry
CHECK_DEADLOCK FALSE
