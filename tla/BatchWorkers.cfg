SPECIFICATION FairSpec
CONSTANTS
    k1 = k1
    k2 = k2
    k3 = k3
    Nil = Nil
    Unhashable = {k2}
    Keys <- RepeatedKeys
    MaxConcurrent = 2
    IsDelete = TRUE
INVARIANTS
    TypeOK
    NoKeyLost
    NoKeyTwice
PROPERTIES
    NeverBlocks
    ImplementsBatchOperation
