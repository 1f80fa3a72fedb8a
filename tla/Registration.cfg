SPECIFICATION FairSpec
CONSTANTS
    Repo = {r1}
    Project = {p1, p2}
    Installed = p1
    MaxHooks = 3
    Task = {t1, t2}
    Op = {"register", "delete", "delete_entity", "hook", "vanish", "leave", "join", "archive"}
    None = None
    MaxRetries = 1
    MaxFaults = 1
    MaxCalls = 3
INVARIANTS TypeOK OneHook HookOwned DeletedForCause
PROPERTIES UnwatchedForgotten
CHECK_DEADLOCK FALSE
