SPECIFICATION FairSpec
CONSTANTS
    Entity = {1, 2}
    Present = {1}
    Worker = {w1}
    Op = {"register", "delete", "webhook", "profile", "change"}
    BatchSize = 1
    MaxRetries = 0
    MaxFaults = 1
    MaxCalls = 2
INVARIANTS TypeOK NothingForgotten
PROPERTIES EvaluatedAgain
CHECK_DEADLOCK FALSE
