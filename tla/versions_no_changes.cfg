\* Two versions suffice to see the last support file removed.
CONSTANTS
    w1 = w1
    w2 = w2
    w3 = w3
    plain = plain
    tagged = tagged
    p1 = p1
    p2 = p2
    b1 = b1
    Requests <- ThreeRequests
    Contents <- OnlyPlain
    Sanitized <- KeepPlain
    Paths <- OnePath
    Blobs <- OneBlob
    NoFile = NoFile
    NoRow = NoRow
    Unsubmitted = Unsubmitted
    None = None
SPECIFICATION Spec
INVARIANTS
    NoChangesMeansNoChanges
CHECK_DEADLOCK FALSE
