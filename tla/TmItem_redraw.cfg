SPECIFICATION FairSpec
CHECK_DEADLOCK FALSE
CONSTANTS
    i1 = i1
    i2 = i2
    i3 = i3
    Items <- TwoItems
    Strs <- TwoStrs
    EmptyStr <- MCEmpty
    MaxTicks <- TwoTicks
PROPERTY RedrawEnds
