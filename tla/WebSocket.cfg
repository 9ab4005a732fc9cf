CONSTANTS
    Platforms = {"native", "web"}
    MaxAttempts = 3
    MaxMessages = 3
SPECIFICATION FairSpec
INVARIANTS NobodyWaitsInVain
PROPERTIES IsALine ConnectReturns
CHECK_DEADLOCK FALSE
