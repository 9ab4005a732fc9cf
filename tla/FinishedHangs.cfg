CONSTANTS
    Uploads = {u1, u2}
    Downloads = {}
    Checks = {}
    Finishes = {f1}
    UpPeers = {}
    DownPeers = {}
    Frames <- MCFrames
    Chunks <- MCChunks
    FileSize = 0
    MaxHeld = 0
    MaxFrames = 0
    NoOne = NoOne
SPECIFICATION FairSpec

CHECK_DEADLOCK FALSE
PROPERTIES FinishedUploadReturns
