SPECIFICATION Spec
CONSTANTS
    Task = {t1}
    Overlap = FALSE
    ID = {i1, i2, i3, i4}
    None = None
    RemediateTypes = {"gh_branch_protection", "issue", "pull_request", "none"}
    AlertTypes = {"security_advisory", "pull_request_comment"}
    RemediateOpt = {"on", "dry_run"}
    AlertOpt = {"on", "dry_run"}
    Outcome = {"success", "failure", "error", "skipped", "silent"}
    MaxFaults = 2
SYMMETRY Symmetry
INVARIANTS AdvisoryTracked NoRemediationLoop OnePullRequest OneReview AlertMirrorsEvaluation TicketMirrorsEvaluation
CHECK_DEADLOCK FALSE
