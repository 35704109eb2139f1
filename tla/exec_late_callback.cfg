\* One run on Cloud Run: does a callback change a terminal status?
CONSTANTS
    r1 = r1
    r2 = r2
    r3 = r3
    safe = safe
    risky = risky
    none = none
    Runs <- OneRun
    Versions <- OneVersion
    NeedsApproval <- NoVersions
    NoVersion <- none
    MaxConcurrentRuns = 1
    MaxRunsPerDay = 2
    LastDay = 1
    MaxAttempts = 1
    Backends <- CloudRun
SPECIFICATION Spec
PROPERTY LateCallbackRefused
CHECK_DEADLOCK FALSE
