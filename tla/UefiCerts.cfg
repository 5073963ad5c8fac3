SPECIFICATION Spec
CONSTANTS
    Host = {h1, h2}
    Tests <- MCTests
    MaxModules = 2
    MaxTests = 3
    MaxFaults = 2
INVARIANTS
    TypeOK
    CleanSlate
    NothingInherited
PROPERTIES
    Contract
CHECK_DEADLOCK FALSE
