CONSTANTS
    u1 = u1
    u2 = u2
    UUID <- MCUUID
    NoUUID = NoUUID
    NODES_LENGTH = 3
    AUTO_NODE_OFFSET = 2
    Unconfigured = 7
    StationId <- MCStationId
    Home <- Distinct
    DEVICES = 1
    RETRIES = 1
    HostIds = {}
    SENSOR_RESTARTS = 1
    GATEWAY_RESTARTS = 2
SPECIFICATION FairSpec
PROPERTIES
    EnrolledWhenTold
