\* One draft of the IDE, saved and rerun.
CONSTANTS
    None = None
    p1 = p1
    p2 = p2
    old = old
    other = other
    new = new
    required = required
    optional = optional
    Fields <- TwoFields
    Required <- OneRequired
    Extra = extra
    Default <- OptionalDefault
    Example <- EmptyExample
    MaxRequests = 2
    Scalar = Scalar
    Broken = Broken
    Paths <- TwoPaths
    Blobs <- ThreeBlobs
    Written <- NewBlob
    FirstTree <- OldTree
    OtherTrees <- OtherTree
    MaxVersions = 2
SPECIFICATION DialogSpec
INVARIANTS
    RerunTestsTheFix
CHECK_DEADLOCK FALSE
