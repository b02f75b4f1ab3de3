CONSTANTS
    MODULUS = 6
    GAP = 3
    AGE = 1
    Station = {1}
    QUEUE = 2
    LOSSES = 1
    READINGS = 7
    RESTARTS = 1
    FAILURES = 1
SPECIFICATION FairHubSpec
PROPERTIES
    NewReadingsPass
    RepeatsAreDropped
    HubStops
CHECK_DEADLOCK FALSE
