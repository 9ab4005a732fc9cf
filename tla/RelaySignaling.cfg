CONSTANTS
    Uploads = {}
    Downloads = {}
    Checks = {}
    Finishes = {}
    UpPeers = {a1, a2}
    DownPeers = {b1}
    Frames <- MCFrames
    Chunks <- MCChunks
    FileSize = 0
    MaxHeld = 4
    MaxFrames = 2
    NoOne = NoOne
SPECIFICATION RelaySpec
SYMMETRY Symmetry
CHECK_DEADLOCK FALSE
INVARIANTS FramesInOrder FramesAreKept
