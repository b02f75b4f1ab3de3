CONSTANTS
    u1 = u1
    u2 = u2
    UUID <- One
    NoUUID = NoUUID
    NODES_LENGTH = 3
    AUTO_NODE_OFFSET = 2
    Unconfigured = 7
    StationId <- MCStationId
    Home <- OneUnset
    DEVICES = 1
    RETRIES = 1
    HostIds = {}
    SENSOR_RESTARTS = 0
    GATEWAY_RESTARTS = 0
SPECIFICATION FairSpec
PROPERTIES
    EventuallyEnrolled
