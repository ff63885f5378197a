SPECIFICATION ConverterSpec
CONSTANTS
    Types <- MCTypes
    Depth <- MCDepth
    MaxDepth = 2
    Defaults <- MCDefaults
    Values <- MCValues
    WordMax = 7
    ByteMax = 3
    UuidSize = 2
INVARIANTS SentFits AbsentIsNull IntsKept PositionsKept
CHECK_DEADLOCK FALSE
