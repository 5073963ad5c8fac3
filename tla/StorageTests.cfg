SPECIFICATION FairSpec
CONSTANTS
    MaxVdi = 7
    MaxTests = 3
    MaxFaults = 2
INVARIANTS
    TypeOK
    PassMeansCoalesced
    
PROPERTIES
    TestsEnd
CHECK_DEADLOCK FALSE
