SPECIFICATION FairSpec
CONSTANTS
    Models = {m1, m2}
    Units = {u1}
    NStages = 3
    ParentOf <- MCParentOf
    Validators = {3}
    OpOf <- MCOpOf
    GlobalLimit = 1
    OpLimit <- MCOpLimit
    Substrate <- NoSubstrate
    StrikesToAbort = 1
    Outcomes = {"good", "short", "junk", "dead"}
    MaxCrashes = 0
INVARIANTS
    TypeOK
    AttemptsAreCounted
    LeaksAreNoted
    PromptsAreKept

    
CHECK_DEADLOCK FALSE
