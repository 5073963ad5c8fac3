CONSTANTS
    Ignored = {"skip"}
    None = None
    MaxSize = 16
SPECIFICATION Spec
INVARIANTS
    
    
    
    SpansFit
CHECK_DEADLOCK FALSE
