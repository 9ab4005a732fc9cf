SPECIFICATION FairSpec
CONSTANTS
    Size = 5
    ChunkSize = 2
    Window = 3
    MaxRetries = 1
    Transports = {"Both", "P2P", "Relay"}
INVARIANTS
    TypeOK
    ContentIsInOrder
    OverMeansWritten
    WindowIsFull
PROPERTY
    DownloadReturns
CHECK_DEADLOCK FALSE
