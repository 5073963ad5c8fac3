CONSTANTS
    Host <- MCHost
    SR <- MCSR
    PoolOf <- MCPoolOf
    SeenFrom <- MCSeenFrom
    DefaultSR <- MCDefaultSR
    Addr = {a1, a2}
    None = None
    MaxDisk = 4
    MaxTrouble = 1
    SrAndNetwork = FALSE
SYMMETRY Leases
SPECIFICATION Spec
INVARIANTS
    TypeOK
    ObjectIsRight
    DisksWhereAsked
    WaitsAtTheRightAddress
    
PROPERTIES
    DestroyTakesTheDisks
