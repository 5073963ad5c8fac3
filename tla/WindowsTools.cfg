CONSTANTS
    TestSign = TRUE
    MaxTests = 2
    MaxTrouble = 1
    MaxVanish = 2
SPECIFICATION Spec
INVARIANTS
    TypeOK
    InstallerNotInterrupted
    SignedWhenInstalled
    
