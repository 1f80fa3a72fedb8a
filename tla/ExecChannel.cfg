SPECIFICATION Spec
CONSTANTS
    Entity = {e1}
    Server = {s1}
    ExecID = {x1, x2}
    None = None
    Unsupported = {e1}
    Persistent = FALSE
    MaxLoad = 2
    MaxRetries = 1
    MaxFaults = 2
SYMMETRY Symmetry
INVARIANTS NoSilentLoss
CHECK_DEADLOCK FALSE
