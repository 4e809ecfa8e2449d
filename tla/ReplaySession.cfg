SPECIFICATION MCSpec
CONSTANTS
    Nothing = Nothing
    main = main
    side = side
    Main = main
    Others = {side}
    Calls <- MCCalls
    Outcomes = {"value", "map"}
    Unstorable = {"map"}
    Terminals = {"done"}
    MaxCalls = 2
    MaxSessions = 2
    Base = 9
    HexBase = 3
    CountWidth = 2
    FloatWidth = 3
    Carried <- MCCarried
    Uncarried = Uncarried
INVARIANTS
    CarrierExact
    HistoryTrue
    ReplayRepeats
PROPERTIES
    LateOutcomesDropped
    InterruptsEnd
