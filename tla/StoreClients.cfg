SPECIFICATION MCSpec
CONSTANTS
    NoNode = NoNode
    WireBound = 4
    ByteBound = 16
    ChunkSize = 2
    MaxUint32 = 3
    MaxUint64 = 5
    MaxMaterialized = 4
    c1 = c1
    c2 = c2
    Clients = {c1, c2}
    Tables <- MCTables
    Sources <- MCSources
    Typed <- MCTyped
    Foreign <- MCForeign
    MaxSafe = 7
    MaxCalls = 2
    EmptyName = EmptyName
    Prints <- MCPrints
SYMMETRY ClientSymmetry
INVARIANTS
    ProgramsHold
    BlobsExact
    ValuesExact
    SourceLoads
CHECK_DEADLOCK FALSE
