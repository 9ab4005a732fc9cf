CONSTANTS
    Uploads = {u1, u2}
    Downloads = {d1}
    Checks = {}
    Finishes = {f1}
    UpPeers = {}
    DownPeers = {}
    Frames <- MCFrames
    Chunks <- MCChunks
    FileSize = 2
    MaxHeld = 0
    MaxFrames = 0
    NoOne = NoOne
SPECIFICATION RelaySpec
SYMMETRY Symmetry
CHECK_DEADLOCK FALSE
INVARIANTS RelayTypeOK PositionsAreTrue StreamIsContiguous NoCallIsForgotten NoLiveWaiterIsDropped
    NoGhostUploader OkMeansHandedOver
