CONSTANTS
    Platforms = {"native", "web"}
    MaxOffers = 2
    MaxCandidates = 2
SPECIFICATION FairSpec
INVARIANTS HeardIsOpen
PROPERTIES CandidatesFit HandshakeCompletes
CHECK_DEADLOCK FALSE
