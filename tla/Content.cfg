CONSTANTS
    MaxSize = 3
    MaxMessage = 12
    MaxBreaks = 2
    NonceSize = 2
    TagSize = 2
    BlockLen = 4
    VarintBase = 4
    PositionBase = 16
SPECIFICATION
    FairSpec
INVARIANTS
    WrittenIsTheFile
    MessagesComeThrough
PROPERTY
    UnchangedFileArrives
CHECK_DEADLOCK FALSE
