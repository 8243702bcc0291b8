SPECIFICATION Spec
CONSTANTS
    Data = {"a", "b", "c"}
    Depth = 4
INVARIANTS
    TypeOK
    FlagsSafe
PROPERTIES
    IsQueue
