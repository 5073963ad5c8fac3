SPECIFICATION FairSpec
CONSTANTS
    VM <- MCVM
    UserVM <- MCUserVM
    Disk = {1}
    SR = {sr1, sr2}
    ImportKey <- MCImportKey
    ImageKey <- MCImageKey
    image = image
    output1 = output1
    output2 = output2
    NoKey = NoKey
    NoVm = NoVm
    MaxDefs = 2
    MaxFixtures = 2
    MaxFaults = 2
INVARIANTS
    TypeOK
    RegisteredVmsExist
    ImportEntriesPristine
    UserVmsSurvive
    NoLeakWithoutFault
PROPERTIES
    SaveLeavesOneEntry
CHECK_DEADLOCK FALSE
