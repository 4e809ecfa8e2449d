SPECIFICATION FairSpec
CONSTANTS
    Processes <- MCProcesses
    Writers <- MCWriters
    ProcessOf <- MCProcessOf
    LockAttempts = 1
    Partial = Partial
    Fused = Fused
    NoFile = NoFile
    MaxAppends = 4
    MaxCrashes = 2
    p1 = p1
    p2 = p2
    w1 = w1
    w2 = w2
    w3 = w3
CHECK_DEADLOCK FALSE
INVARIANTS
    LogReadable
    AcknowledgedKept
PROPERTIES
    RefinesWord
    AppendsAnswer
