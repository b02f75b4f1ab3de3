CONSTANTS
    u1 = u1
    u2 = u2
    UUID <- Two
    NoUUID = NoUUID
    NODES_LENGTH = 4
    AUTO_NODE_OFFSET = 2
    Unconfigured = 7
    StationId <- MCStationId
    Home <- Distinct
    DEVICES = 1
    RETRIES = 0
    HostIds = {}
    SENSOR_RESTARTS = 1
    GATEWAY_RESTARTS = 1
    BUFFERS = 1
    RESTARTS = 1
SPECIFICATION NamesSpec
INVARIANTS
    NamedByOwner
    NoSharedId
CHECK_DEADLOCK FALSE
