SPECIFICATION FairSpec
CONSTANTS
    Entity = {1}
    Present = {1}
    Worker = {w1, w2}
    Op = {"register", "webhook", "delete", "profile", "change", "elsewhere"}
    BatchSize = 1
    MaxRetries = 0
    MaxFaults = 2
    MaxCalls = 3
INVARIANTS NothingForgotten
PROPERTIES ChangeSeen
CHECK_DEADLOCK FALSE
