\* One run on Cloud Run, whose job is executed once (the job is deployed with
\* --max-retries=0); the version that needs approval may be published at any time.
CONSTANTS
    r1 = r1
    r2 = r2
    r3 = r3
    safe = safe
    risky = risky
    none = none
    Runs <- OneRun
    Versions <- TwoVersions
    NeedsApproval <- RiskyVersions
    NoVersion <- none
    MaxConcurrentRuns = 1
    MaxRunsPerDay = 1
    LastDay = 1
    MaxAttempts = 1
    Backends <- CloudRun
SPECIFICATION FairSpec
INVARIANTS
    TypeOK
    RowTimestamps
    ApprovalGate
    DispatchFailureReleasesSlot
    ExecInv
PROPERTIES
    ImplementsContract
    EveryRunSettles
