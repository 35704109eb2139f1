\* Three requests compete for the limits over two days where nothing is executed
\* remotely; and one on Cloud Run, whose job may be executed twice.
CONSTANTS
    r1 = r1
    r2 = r2
    r3 = r3
    safe = safe
    risky = risky
    none = none
    Runs <- ThreeRuns
    Versions <- TwoVersions
    NeedsApproval <- RiskyVersions
    NoVersion <- none
    MaxConcurrentRuns = 2
    MaxRunsPerDay = 1
    LastDay = 2
    MaxAttempts = 2
    Backends <- AllBackends
SPECIFICATION Spec
INVARIANTS
    QuotaCountsCharges
PROPERTIES
    PendingStaysInert
    ImplementsContract
CONSTRAINT CloudRunIsAlone
SYMMETRY RunSymmetry
