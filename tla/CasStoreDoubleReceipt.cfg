SPECIFICATION Spec
CONSTANTS
    Ids <- MCIds
    Nodes <- MCNodes
    Known <- MCKnown
    Tags <- MCTags
    TagOf <- MCTagOf
    RefsOf <- MCRefsOf
    NoTag = 0
    Absent = Absent
    leaf = leaf
    pair = pair
    wrong = wrong
    odd = odd
    junk = junk
    Callers = {c1, c2}
    Oversize = {junk}
    Closures <- MCClosures
    Damaged = {leaf, junk}
    MaxDamage = 0
INVARIANT OneReceiptPerAddress
