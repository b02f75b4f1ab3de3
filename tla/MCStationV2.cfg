CONSTANTS
    Base = {b1, b2, b3}
    Near = {b1, b2}
    Far = {b2, b3}
    Free = Free
    MAX_NEIGHBOURS = 2
    RETRIES = 3
    LIMIT = 1
    PINGS = 1
    SETUP_ADDRESS = f0
    Address = {a1}
    Blank = ff
    Button <- MCButton
    MAX_SENSORS = 2
    MESSAGES = 1
    LOSSES = 1
    RESTARTS = 1
SPECIFICATION FairStation
INVARIANTS
    ScoreBounded
    OneSlotPerNeighbour
    TriesTwo
    ReadsWhatConverts
PROPERTIES
    FindsNewBases
