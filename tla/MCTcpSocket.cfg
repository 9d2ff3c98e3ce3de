SPECIFICATION FairSpec
CONSTANTS
    InitialDelay = 1
    MaxDelay = 3
    MaxRetries = 1
    MaxQueued = 2
CHECK_DEADLOCK FALSE
INVARIANTS
    TypeOK
    ExactlyOneWayBack
    NoWriterIsStranded
PROPERTIES
    LossIsRepaired
