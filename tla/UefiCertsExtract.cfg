SPECIFICATION Spec
CONSTANTS
    Host = {h1, h2}
    Tests <- MCTests
    MaxModules = 1
    MaxTests = 1
    MaxFaults = 1
INVARIANTS
    SavedIsExact
CHECK_DEADLOCK FALSE
