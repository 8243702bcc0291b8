SPECIFICATION FairSpec
CONSTANTS
    Byte <- MCByte
    DataBits = 2
    StopBits = 1
    ParityMode = {1}
    Rate = 4
    Div = 2
    TxDepth = 3
    Skew = 1
    MaxSent = 2
PROPERTIES
    Received
