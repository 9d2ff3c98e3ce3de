SPECIFICATION FairSpec
CONSTANTS
    Faults = {port, mqtt}
    Serial = {port}
    Timers = {t1, t2}
    None = None
    MaxCalls = 2
INVARIANTS
    TypeOK
    LastingFaultIsPending
PROPERTIES
    NoFaultLastsForEver
