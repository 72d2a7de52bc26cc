SPECIFICATION MCSpec
CONSTANTS
    Addresses = {"v4", "v6"}
    AddrLength <- MCAddrLength
    Answers <- MCAnswers
    Word32 = 2
    Word64 = 8
    MaxBytes = 2
    MaxChanges = 2
    MaxSignals = 1
    Word = 536870912
    DigitWidth = 2
    DotWidth = 1
    RowWidth = 34
    SideIcon = 4
    Lengths = {2, 4, 12, 17}
    Uptimes <- MCUptimes
    Loads <- MCLoads
    CpuSteps <- MCCpuSteps
    MaxSteps = 2
    Temperatures <- MCTemperatures
    MemInfos <- MCMemInfos
    FileSystems <- MCFileSystems
    Counts <- MCCounts
    Interval = 1000
    Geometries <- MCGeometries
INVARIANTS
    CallbackHonest
    RateExact
    StateShown
    RedrawComplete
    AmountsTrue
    UptimeTrue
    UsageTrue
    TextsFit
    AreasDisjoint
PROPERTIES
    CallbackEnds
CHECK_DEADLOCK FALSE
