SPECIFICATION Spec
CONSTANTS
    Faults = {mqtt}
    Serial = {}
    Timers = {t1, t2}
    None = None
    MaxCalls = 2
PROPERTIES
    RecoveredFaultDoesNotRestart
