SPECIFICATION Spec
CONSTANTS
    NCalls = 2
    Keys = {"k1"}
    Tags = {"A", "B"}
    KeyOf <- MCKeyOf
    TagOf <- MCTagOf
    Outcomes = {"usable", "short"}
PROPERTIES
    KeepsPromise
