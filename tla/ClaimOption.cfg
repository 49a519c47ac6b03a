SPECIFICATION Spec
CONSTANTS
    Plain = {1, 2}
    Others = {3}
    MaxPayload = 3
    SubMax = 7
    ChunkSize = 3
    NetBuf = 7
    SerialBuf = 4
INVARIANT
    DataIntact
