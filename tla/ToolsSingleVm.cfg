CONSTANTS
    Ignored = {"skip"}
    None = None
    MaxSize = 4
SPECIFICATION Spec
INVARIANT SingleVmForItsHost
CHECK_DEADLOCK FALSE
