SPECIFICATION FairSpec
CONSTANTS
    virtual = virtual
    holder = holder
    flag = flag
    on = on
    off = off
    None = None
    Torn = Torn
    Entities = {virtual, holder, flag}
    Values = {on, off}
    Kind <- MCKind
    Default <- MCDefault
    Internal = {flag}
    Restarts = {"bridge", "process"}
INVARIANTS
    TypeOK
    BrokerAgrees
    CacheHidesNoChange
    QuietFileIsCurrent
PROPERTIES
    StatesReachTheFile
