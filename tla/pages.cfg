\* Two versions of a skill and two changes by its author; a team, two periods and two
\* rules; two changes and two pending requests for each query of the client.  A part stops
\* when its bounds are reached.
CONSTANTS
    None = None
    Asked = Asked
    p1 = p1
    p2 = p2
    t1 = t1
    t2 = t2
    t3 = t3
    shown2 = shown2
    clean3 = clean3
    Scaffold = Scaffold
    old = old
    other = other
    new = new
    a = a
    d1 = d1
    d2 = d2
    Workspace = Workspace
    On = On
    Off = Off
    Inherit = Inherit
    Teams <- OneTeam
    Days <- TwoPeriods
    MaxRules = 2
    Paths <- MCPaths
    Blobs <- MCBlobs
    Texts <- MCTexts
    FirstVersions <- MCFirst
    OtherVersion <- MCOther
    Imported <- MCImported
    NewText = t3
    NewBlob = new
    AddedPath = p2
    Sanitized <- MCSanitized
    Parsed <- MCParsed
    MaxVersions = 2
    MaxSaves = 2
    MaxChanges = 2
    Site <- MCSite
    MaxFacts = 2
    MaxPending = 2
SPECIFICATION MCSpec
CONSTRAINTS
    SavesAreFew
    MutationsAreFew
INVARIANTS
    AllTypeOK
    CleanMeansStored
    SavedAsSubmitted
    ReadYourWrites
PROPERTIES
    SavedVersionIsListed
    OtherScopesKeepTheirs
    AppliedPeriodHolds
    MonotonicReads
CHECK_DEADLOCK FALSE
