SPECIFICATION Spec
CONSTANTS
    Size = 4
    ChunkSize = 2
    Window = 3
    MaxRetries = 1
    Transports = {"Both"}
INVARIANT
    RequestsAreAhead
CHECK_DEADLOCK FALSE
