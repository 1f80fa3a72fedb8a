SPECIFICATION Spec
CONSTANTS
    User = {u1, u2}
    Machine = {m1}
    Role = {"admin", "viewer"}
    Project = {p1, p2}
    Code = {c1, c2}
    Task = {t1, t2}
    Cron = Cron
    Op = {"create_user", "create_child", "delete_project", "invite", "update_invite", "remove_invite", "accept", "decline", "update_role", "remove_role", "assign"}
    Founders = {u1}
    AdminDeleters = {u2}
    Home = p1
    None = None
    MaxFaults = 1
    MaxCalls = 4
SYMMETRY Symmetry
INVARIANTS TypeOK AcceptedOnce OneRole OneInvitation InvitationMailed RolesBacked
CHECK_DEADLOCK FALSE
