SPECIFICATION FairSpec
CONSTANTS
    m1 = m1
    s1 = s1
    m2 = m2
    Host <- MCHost
    MasterOf <- MCMasterOf
    PoolMasters <- MCMasters
    PoolOthers <- MCOthers
    PoolHosts <- MCHosts
    Nested <- MCNested
    Workers = 2
    MaxRuns = 2
    MaxFaults = 1
INVARIANTS
    TypeOK
    MastersFirst
    OutcomeIsTrue
PROPERTIES
    RunEnds
CHECK_DEADLOCK FALSE
