SPECIFICATION Spec
CONSTANTS
    h1 = h1
    h2 = h2
    Host <- MCHost
    Master <- MCMaster
    A2 <- MCA2
    NoHost = NoHost
    Packages <- AllPackages
    MaxPackages = 2
    MaxFaults = 2
INVARIANTS
    TypeOK
    UnsavedIsPristine
    RollbackTargetIsSaved

    
