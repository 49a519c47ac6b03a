SPECIFICATION Spec
CONSTANTS
    Plain = {1, 44}
    Others = {3}
    MaxPayload = 3
    SubMax = 7
    ChunkSize = 3
    NetBuf = 7
    SerialBuf = 4
INVARIANTS
    TypeOK
    
    
    CommandsIntact
    WritesWhatItDecodes
    OverrunNeedsLongRead
    WireCarriesRead
CHECK_DEADLOCK FALSE
