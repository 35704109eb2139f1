\* Three writers of one skill whose versions have files at two paths; contents
\* come with and without tags to strip.  The requests are finite:
\* the model stops when each has ended.
CONSTANTS
    w1 = w1
    w2 = w2
    w3 = w3
    plain = plain
    tagged = tagged
    p1 = p1
    p2 = p2
    b1 = b1
    Requests <- ThreeRequests
    Contents <- PlainAndTagged
    Sanitized <- StripTags
    Paths <- TwoPaths
    Blobs <- OneBlob
    NoFile = NoFile
    NoRow = NoRow
    Unsubmitted = Unsubmitted
    None = None
SPECIFICATION Spec
SYMMETRY Symmetry
INVARIANTS
    VersionAsRequested
    NumbersContiguous
    VersionsInv
PROPERTIES
    ImplementsHistory
CHECK_DEADLOCK FALSE
