SPECIFICATION Spec
CONSTANTS
    XLEN = 4
    Variants <- MCVariants
    Sample <- MCSample
INVARIANTS
    ExecuteCorrect
    DecodeCorrect
