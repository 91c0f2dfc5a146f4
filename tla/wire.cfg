\* Every text, offered and answered, and a candidate found later.
SPECIFICATION MCSpec
CONSTANTS
    Texts <- MCTexts
    Trickled <- MCTrickled
    OverTcp = {"hosttcp", "relaytcp"}
    MaxFound = 1
    ForeignNames = {"other"}
CHECK_DEADLOCK FALSE
INVARIANT
    LocalDescriptionIsUnderstood
    PeerIsToldTheSame
    CandidateReachesItsSection
