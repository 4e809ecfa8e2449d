SPECIFICATION MCSpec
CONSTANTS
    Ids <- MCIds
    Nodes <- MCNodes
    Known <- MCKnown
    Tags <- MCTags
    TagOf <- MCTagOf
    RefsOf <- MCRefsOf
    NoTag = 0
    Absent = Absent
    NotLoaded = NotLoaded
    leaf = leaf
    left = left
    top = top
    skew = skew
    odd = odd
    junk = junk
    code = code
    past = past
    T = T
    U = U
    EmptyName = EmptyName
    KindTag = 3
    NoDocument = NoDocument
    DocOf <- MCDocOf
    Presented <- MCPresented
    MaxLies = 2
    Liable <- MCLiable
    Codes <- MCCodes
    Payloads <- MCPayloads
INVARIANTS
    ClosureComplete
    AuditExact
    AssemblyExact
    DoorExact
PROPERTY ReadersAnswer
