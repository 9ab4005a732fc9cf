CONSTANTS
    Size = 2
    MaxAcks = 2
    Transports = {"Both", "P2P", "Relay"}
SPECIFICATION FairSpec
INVARIANTS SlicesFit OutcomeIsTheRelays
PROPERTIES UnacknowledgedEnds QuietRelayIsServed
CHECK_DEADLOCK FALSE
