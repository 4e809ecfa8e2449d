SPECIFICATION AllSpec
CONSTANTS
    Readers <- MCReaders
    Marks <- MCMarks
    Limits <- MCLimits
    Unbounded = Unbounded
    PageLimit = 2
    MaxWord = 4
    PanelReader = 1
    Lanes = 3
    LaneOf <- MCLaneOf
    ClassStarts = {0}
    Carried = 2
    Span = 1
    Views <- MCViews
    Ratios = {2, 3, 4, 6}
    MaxDelivered = 4
    NoFile = NoFile
    Garbled = Garbled
    Unreadable = Unreadable
    NoLab = NoLab
    Named = "named"
    Chain <- MCChain
    Order <- MCOrder
    Refs <- MCRefs
    Tag <- MCTag
    Nameable = {"blob"}
    About <- MCAbout
    Names = {"name"}
    Table <- MCTable
    Fan <- MCFan
    Above <- MCAbove
    Stems <- MCStems
    Asks <- MCAsks
    Worlds <- MCWorlds
    EditedFiles <- MCEdited
    MaxElse = 2
    MaxMeddled = 1
    MaxFaults = 1
INVARIANT SqlNothingMissed
