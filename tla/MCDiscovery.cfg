SPECIFICATION FairSpec
CONSTANTS
    plug = plug
    voltage = voltage
    n1 = n1
    n2 = n2
    None = None
    Ids = {plug, voltage}
    Entities = {voltage}
    Links <- MCLinks
    Options <- MCOptions
    Names = {n1, n2}
    MaxOutbox = 4
    MaxRenames = 2
INVARIANTS
    TypeOK
    BrokerHoldsTheDiscovered
PROPERTIES
    HomeAssistantIsAnswered
