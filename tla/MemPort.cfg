SPECIFICATION FairSpec
CONSTANTS
    Byte = {0, 1}
    Zero = 0
    MemSize = 12
    IcacheNum = 4
    CodeAddr <- MCCodeAddr
    JumpAddr = {0}
    Instrs <- MCInstrs
    InitRam <- MCInitRam
    HostAddr = {1}
    HostByte = {1}
    InitWord <- MCInitWord
INVARIANTS
    TypeOK
    FetchCorrect
    CacheCoherent
    IInv
    RepliesCorrect
PROPERTIES
    OwnerStable
    NotAbandoned
    NoStrayWrite
    MemOpCompletes
    ReplyOnce
