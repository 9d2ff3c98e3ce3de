SPECIFICATION FairSpec
CONSTANTS
    light = light
    dim = dim
    query = query
    blind = blind
    lamp = lamp
    done = done
    NoJob = NoJob
    NoEntity = NoEntity
    NoAck = NoAck
    Jobs <- MCJobs
    Entities = {lamp}
    Acks = {done}
    EntityOf <- MCEntityOf
    AckOf <- MCAckOf
    Priority <- MCPriority
    Retries <- MCRetries
INVARIANTS
    TypeOK
    ListenersMatchTheCommand
    TimersBelongToTheActiveJob
    NoCommandIsForgotten
    AttemptsAreAccounted
    SamePriorityIsFifo
PROPERTIES
    ImplementsService
    NormalCommandsResolve
    LowCommandsResolveUnlessNormalOnesKeepComing
