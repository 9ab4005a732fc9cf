CONSTANTS
    Uploads = {u1, u2}
    Downloads = {d1, d2}
    Checks = {c1}
    Finishes = {f1}
    UpPeers = {a1}
    DownPeers = {b1}
    Frames = {x}
    Chunks <- MCChunks
    FileSize = 1
    MaxHeld = 1
    MaxQueue = 2
    NoOne = NoOne
SPECIFICATION BoundedSpec
SYMMETRY Symmetry
CHECK_DEADLOCK FALSE
INVARIANTS PositionsAgree QueueIsContinued
    QueuedErrorHasAReader HeldOnlyForAbsentPeers ReplacedIsLast
