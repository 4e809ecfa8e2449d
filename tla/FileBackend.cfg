SPECIFICATION Spec
CONSTANTS
    Ids <- MCIds
    Puts <- MCPuts
    IdOf <- MCIdOf
    Absent = Absent
    Whole = Whole
    Part = Part
    Other = Other
    a = a
    b = b
    p1 = p1
    p2 = p2
    p3 = p3
    p4 = p4
    MaxDamage = 1
SYMMETRY Racers
CHECK_DEADLOCK FALSE
INVARIANTS
    SuccessFinished
PROPERTY RefinesPlane
