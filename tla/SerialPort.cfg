SPECIFICATION Spec
CONSTANTS
    System = {"unix", "windows"}
    NoPort = none
    Port = {com}
    Second = 1000000
    Baudrate = {9600, 300000}
    StandardBaud = {9600, 38400}
    Bytesize = {4, 7}
    Parity = {"odd", "space"}
    Stopbits = {"one", "one_point_five"}
    Flowcontrol = {"hardware"}
    Built <- MCBuilt
    Timeout = {0}
    DefaultTimeout = 0
    MaxHandles = 2
INVARIANTS
    TypeOK
    LineAsReported
    
PROPERTIES
    HandleLostByThrow
    OrphansByThrow
