SPECIFICATION FairSpec
CONSTANTS
    Repo = {r1}
    Project = {p1}
    Installed = p1
    MaxHooks = 3
    Task = {t1}
    Op = {"register"}
    None = None
    MaxRetries = 1
    MaxFaults = 0
    MaxCalls = 2
PROPERTIES RegistrationKept
CHECK_DEADLOCK FALSE
