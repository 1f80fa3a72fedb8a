SPECIFICATION Spec
CONSTANTS
    Entity = {e1}
    Server = {s1, s2}
    ExecID = {x1, x2}
    None = None
    Unsupported = {}
    Persistent = TRUE
    MaxLoad = 2
    MaxRetries = 1
    MaxFaults = 1
SYMMETRY Symmetry
INVARIANTS TypeOK MutualExclusion NoSilentLoss
PROPERTIES ImplementsLease
CHECK_DEADLOCK FALSE
