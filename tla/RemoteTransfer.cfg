SPECIFICATION MCSpec
CONSTANTS
    Ids <- MCIds
    Refs <- MCRefs
    Listing <- MCListing
    Closures <- MCClosures
    Mirrors <- MCMirrors
    leaf = leaf
    pair = pair
    huge = huge
    Ops <- MCOps
    alice = alice
    bob = bob
    Verbs <- MCVerbs
    Large = {huge}
    NoOp = NoOp
    NoReply = NoReply
    Bounds <- MCBounds
    MaxAttempts = 2
    MaxCalls = 2
    MaxFailures = 1
    Base = 3
    NumberWidth = 2
    AddressWidth = 2
    None = None
    Trees <- MCTrees
    MaxDocument = 7
    MaxFragment = 3
INVARIANTS
    NothingLeaks
    BeliefsHold
    StreamExact
    ProofsSound
PROPERTY CallsEnd
