SPECIFICATION FairSpec
CONSTANTS
    User = {u1, u2}
    Machine = {}
    Role = {"admin", "viewer"}
    Project = {p1, p2}
    Code = {c1}
    Task = {t1}
    Cron = Cron
    Op = {"create_project", "delete_user", "update_role", "remove_role"}
    Founders = {u1, u2}
    AdminDeleters = {}
    Home = p1
    None = None
    MaxFaults = 1
    MaxCalls = 2
INVARIANTS RolesBacked ProjectsManaged
PROPERTIES DeletedUserForgotten
CHECK_DEADLOCK FALSE
