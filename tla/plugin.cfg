\* Two boxes, searches of three attempts.
SPECIFICATION FairPlugin
CONSTANTS
    Boxes = {"b1", "b2"}
    NoBox = "none"
    MaxAttempts = 3
    Accounts = {"home"}
    Own <- MCOwn
    Audio <- MCAudio
    Video = "video"
    HasVideo = TRUE
INVARIANT
    ButtonShowsTheCall
    TimeoutsAreHeld
    KeepsLooking
    CapabilitiesFollowPlugin
PROPERTY SearchesEnd
