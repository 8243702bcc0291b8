SPECIFICATION RunSpec
CONSTANTS
    Byte = {0, 1, 2, 3}
    Zero = 0
    ByteBits = 2
    XLEN = 8
    MemSize = 32
    IcacheNum = 32
    RegNum = 4
    Slots = 2
    Pool = {2, 162}
    Decode <- MCZeroDecode
    Programs <- MCPrograms
    InitRegs <- MCInitRegs
INVARIANTS
    ZeroReadsZero
