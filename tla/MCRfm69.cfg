CONSTANTS
    Peers = {2, 3}
    HIGH_POWER = TRUE
    PROMISCUOUS = FALSE
    RETRIES = 1
    FRAMES = 2
    MESSAGES = 1
    DATES = 2
SPECIFICATION Spec
INVARIANTS
    EachFrameOnce
    AnswersGoToSenders
    ModeIsTheChips
PROPERTIES
    AckIsNew
CHECK_DEADLOCK FALSE
