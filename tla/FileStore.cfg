SPECIFICATION FairSpec
CONSTANTS
    NCalls = 3
    Keys = {"k1"}
    Tags = {"A", "B"}
    KeyOf <- MCKeyOf
    TagOf <- MCTagOf
    Outcomes = {"usable", "failed"}
    Deletable = {"A"}
    MaxCrashes = 1
INVARIANTS
    TypeOK
    IndexIsView
PROPERTIES
    KeepsPromise
    OperationsEnd
CHECK_DEADLOCK FALSE
