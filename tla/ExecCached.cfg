SPECIFICATION FairSpec
CONSTANTS
    Entity = {e1}
    Server = {s1}
    ExecID = {x1,x2}
    None = None
    Unsupported = {}
    Persistent = TRUE
    MaxLoad = 2
    MaxRetries = 1
    MaxFaults = 0
PROPERTIES CachedEventLeaves
CHECK_DEADLOCK FALSE
