SPECIFICATION Spec
CONSTANTS
    LongChunks = {}
    Configs <- MCCrc
    MaxBufferSize = 8
    SparseLimit = 2
    Chunks <- MCChunks
    MaxStream = 7
CHECK_DEADLOCK FALSE
INVARIANTS
    PacketsAreFrames
