\* Three writers of one skill, with or without one support file, and every order of
\* their steps and deaths: this part stops when each request has ended.  And two
\* handlers that publish, edit and import, with the index jobs they queue.
CONSTANTS
    h1 = h1
    h2 = h2
    ta = ta
    tb = tb
    w1 = w1
    w2 = w2
    w3 = w3
    content = content
    path = path
    blob = blob
    NoFile = NoFile
    NoRow = NoRow
    Unsubmitted = Unsubmitted
    None = None
    Operator = Operator
    Handlers <- TwoHandlers
    Titles <- TwoTitles
    Forced <- Unforced
    MaxVersions = 2
    Requests <- ThreeRequests
    Contents <- OneContent
    Sanitized <- KeepContent
    Paths <- OnePath
    Blobs <- OneBlob
SPECIFICATION MCSpec
INVARIANTS
    BackendTypeOK
    IndexedWasPublished
    SpecWasPublished
PROPERTIES
    EveryRequestEnds
    IndexCatchesUp
CHECK_DEADLOCK FALSE
