SPECIFICATION Spec
CONSTANTS
    NCalls = 2
    Keys = {"k1"}
    Tags = {"A", "B"}
    KeyOf <- MCKeyOf
    TagOf <- MCTagOf
    Outcomes = {"usable", "failed"}
    Deletable = {}
    MaxCrashes = 1
PROPERTIES
    SuccessStays
CHECK_DEADLOCK FALSE
