SPECIFICATION Spec
CONSTANTS
    Task = {t1, t2}
    Overlap = TRUE
    ID = {i1, i2, i3}
    None = None
    RemediateTypes = {"rest"}
    AlertTypes = {"security_advisory"}
    RemediateOpt = {"on"}
    AlertOpt = {"on", "off"}
    Outcome = {"success", "failure"}
    MaxFaults = 1
SYMMETRY Symmetry
INVARIANTS TypeOK AdvisoryTracked 
CHECK_DEADLOCK FALSE
