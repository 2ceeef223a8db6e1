SPECIFICATION BothSpec
CONSTANTS
    NCalls = 4
    Keys = {"k1", "k2"}
    Tags = {"A", "B"}
    KeyOf <- MCKeyOf
    TagOf <- MCTagOf
    Outcomes = {"usable", "junk", "failed"}
INVARIANTS
    TypeOK
    SameAnswers
PROPERTIES
    KeepsPromise
    PostgresKeepsPromise
