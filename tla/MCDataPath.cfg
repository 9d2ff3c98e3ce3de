SPECIFICATION FairSpec
CONSTANTS
    Chunks = 4
    MaxPending = 2
    Sockets = {s1, s2}
    Target = 2
INVARIANTS
    TypeOK
    NoIdleListener
    EveryChunkHasOnePlace
PROPERTIES
    ImplementsPipe
