SPECIFICATION FairSpec
CONSTANTS
    Faults = {port}
    Serial = {port}
    Timers = {t1, t2}
    None = None
    MaxCalls = 1
PROPERTIES
    IdlePortIsTriedAgain
