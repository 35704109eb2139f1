\* Two runs, two files, two versions, one field of each kind; one component at a time.
\* The model stops when the requests are used up and nothing is left to be shown.
CONSTANTS
    None = None
    p1 = p1
    p2 = p2
    old = old
    other = other
    new = new
    required = required
    optional = optional
    Fields <- TwoFields
    Required <- OneRequired
    Extra = extra
    Default <- OptionalDefault
    Example <- EmptyExample
    MaxRequests = 2
    Scalar = Scalar
    Broken = Broken
    Paths <- TwoPaths
    Blobs <- ThreeBlobs
    Written <- NewBlob
    FirstTree <- OldTree
    OtherTrees <- OtherTree
    MaxVersions = 2
SPECIFICATION DialogFairSpec
INVARIANTS
    DialogTypeOK
    NoMixedTrees
    ViewsAgree
    FormPayloadValid
PROPERTIES
    EndedStaysEnded
    
CHECK_DEADLOCK FALSE
