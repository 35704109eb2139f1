\* One run whose job Cloud Run may execute twice, with one callback on its way
\* at a time; and two calls of the MCP server with an access token and an agent's,
\* over a cache of one entry.
CONSTANTS
    access = access
    agent = agent
    c1 = c1
    c2 = c2
    r1 = r1
    safe = safe
    None = None
    Tokens <- TwoTokens
    Agents <- AgentTokens
    Expiry <- AccessExpiry
    Calls <- TwoCalls
    TTL = 2
    Capacity = 1
    MaxTime = 3
    Runs <- OneRun
    Versions <- OneVersion
    NeedsApproval <- NoVersions
    NoVersion = None
    MaxConcurrentRuns = 1
    MaxRunsPerDay = 1
    LastDay = 1
    MaxAttempts = 2
    Backends <- CloudRun
SPECIFICATION CallsSpec
INVARIANTS
    RetriedExecInv
    CallsTypeOK
    RevokedIsRefused
    CacheBounded
PROPERTIES
    ImplementsContract
CONSTRAINT OneCallbackInFlight
\* The last attempt ends and nothing is left to do.
CHECK_DEADLOCK FALSE
