SPECIFICATION FairSpec
CONSTANTS
    hall = hall
    r1 = r1
    r2 = r2
    r3 = r3
    NoRun = NoRun
    Automations <- MCOne
    Runs <- MCRuns
    Mode0 <- MCModes
    Edits = {"parallel"}
    Body <- MCBodies
INVARIANTS
    TypeOK
    NoOverlap
    QueuedInOrder
    QueuesAreServed
PROPERTIES
    CancelledRunsStop
    EveryRunEnds
