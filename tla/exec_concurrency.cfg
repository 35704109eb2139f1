\* Two requests and a limit of one concurrent run.
CONSTANTS
    r1 = r1
    r2 = r2
    r3 = r3
    safe = safe
    risky = risky
    none = none
    Runs <- TwoRuns
    Versions <- OneVersion
    NeedsApproval <- NoVersions
    NoVersion <- none
    MaxConcurrentRuns = 1
    MaxRunsPerDay = 2
    LastDay = 1
    MaxAttempts = 1
    Backends <- RecordOnly
SPECIFICATION Spec
INVARIANT ConcurrencyLimit
CHECK_DEADLOCK FALSE
