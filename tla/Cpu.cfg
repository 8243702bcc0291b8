SPECIFICATION RunSpec
CONSTANTS
    Byte = {0, 1, 2, 3}
    Zero = 0
    ByteBits = 2
    XLEN = 8
    MemSize = 32
    IcacheNum = 32
    RegNum = 4
    Slots = 3
    Pool = {2, 8, 10, 32, 34, 40, 42, 128, 130, 136, 138, 160, 162, 168}
    Decode <- MCDecode
    Programs <- MCPrograms
    InitRegs <- MCInitRegs
INVARIANTS
    TypeOK
PROPERTIES
    KeepsRetiring
    ImplementsIsa
