SPECIFICATION Spec
CONSTANTS
    Clients = {k1, k2}
    Callers = {g1}
    Settings <- MCSettings
    DefaultTopicChannels = 2
    MaxChannels = 2
    MaxCloses = 2
    MaxCalls = 2
INVARIANTS
    TypeOK
    LeaksAreAccounted
    EagerClientsWereConnected
    SpreadUpToOthers
    CallsAfterClose
PROPERTIES
    TidyClientsKeepThePromise
    ConstructorsReturn
