SPECIFICATION FairSpec
CONSTANTS
    RxCap = 2
    TxCap = 3
    InCap = 3
    RamSize = 8
    Count = 32
    DbgReg <- MCDbgReg
    Image <- MCImage
    RamData <- MCRamData
    RamBlk = 2
    Input <- MCInput
    InBlk = 1
    PeekSize = 2
    Program <- MCProgram
    ToolPackets <- MCToolPackets
    MaxSession = 2
    MaxTool = 1
    MaxPeek = 1
    MaxReset = 1
INVARIANTS
    TypeOK
    MemReplyWhole
PROPERTIES
    HelloSync
    RunsImage
    OutputInOrder
    HostFinishes
