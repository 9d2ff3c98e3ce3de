SPECIFICATION Spec
CONSTANTS
    LongChunks <- MCLongChunks
    Configs <- MCConfigs
    MaxBufferSize = 5
    SparseLimit = 2
    Chunks <- MCChunks
    MaxStream = 6
CHECK_DEADLOCK FALSE
INVARIANTS
    TypeOK
    BufferIsTheTail
    PacketsPartitionTheStream
    ChunksDoNotMatter
    PacketsAreFrames
PROPERTIES
    EachIterationConsumes
