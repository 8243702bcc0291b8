SPECIFICATION FairSpec
CONSTANTS
    t1 = t1
    t2 = t2
    Thread = {t1, t2}
    NoThread = none
    NoCall = nocall
    Calls <- MCCalls
    MaxRx = 3
    TxRoom = 1
    Stream <- MCStream
    Eol <- MCEol
    Constant = 2
    Multiplier = 0
    Res = 1
    Word = 3
    ByteTicks = 1
    SecondTicks = 3
INVARIANTS
    TypeOK
    ReadsContiguous
    WritesContiguous
    ShortOnlyLate
    LinesRight
    WaitsWithinDeadline
PROPERTIES
    CallReturns
