CONSTANTS
    POLLS = 2
    SAMPLES = 2
    FAILURES = 1
    COMMANDS = 1
    Frames <- MCFrames
    Delays = {15, 60}
SPECIFICATION DriversSpec
INVARIANTS
    ModeStays
    EverySampleOnce
    OnePreemptionIsFound
PROPERTIES
    MeasurementEnds
CHECK_DEADLOCK FALSE
