SPECIFICATION MCSpec
CONSTANTS
    NoFile = NoFile
    Garbled = Garbled
    Unreadable = Unreadable
    NoPolicy = NoPolicy
    NoRequest = NoRequest
    Junk = Junk
    leaf = leaf
    note = note
    large = large
    prog = prog
    bulky = bulky
    m1 = m1
    m2 = m2
    e1 = e1
    e2 = e2
    Makers = {m1, m2}
    Policies <- MCPolicies
    DefaultPolicy <- Open
    EditedConfigs <- MCEdited
    MaxInits = 2
    MaxEdits = 1
    Nodes <- MCNodes
    Size <- MCSize
    FrameBytes = 9
    FrameSlack = 2
    Envelope = 1
    AddressBytes = 4
    Exchanges = {e1, e2}
    Requests <- MCRequests
    WirePolicies <- MCWirePolicies
    Refs <- MCRefs
    Nameable <- MCNameable
    Tables <- MCTables
    Seeds <- MCSeeds
    MaxHung = 1
    Upper <- MCUpper
    Spelling <- MCSpelling
    Artifacts = {"tools", "index", "env"}
    MaxSafeInteger = 20
    Asked <- MCAsked
INVARIANTS
    ConfigHonoured
    GatesExact
    OnlyLetIn
    AnswersHold
    FrontDoorExact
PROPERTIES
    ExchangesEnd
CHECK_DEADLOCK FALSE
