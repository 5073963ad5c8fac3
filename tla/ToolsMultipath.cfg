CONSTANTS
    Ignored = {"skip"}
    None = None
    MaxSize = 4
SPECIFICATION Spec
INVARIANT FreeMultipathOffered
CHECK_DEADLOCK FALSE
