CONSTANTS
    u1 = u1
    u2 = u2
    UUID <- MCUUID
    NoUUID = NoUUID
    NODES_LENGTH = 2
    AUTO_NODE_OFFSET = 2
    Unconfigured = 7
    StationId <- MCStationId
    Home <- Same
    DEVICES = 1
    RETRIES = 1
    HostIds = {2}
    SENSOR_RESTARTS = 1
    GATEWAY_RESTARTS = 1
SPECIFICATION Spec
INVARIANTS
    OwnerIffAssigned
    SaneAddress
    GrantIsOwned
    OneSlotPerSensor
PROPERTIES
    MovesOnlyToAssignedId
    RequestLeavesInAck
    RetryGetsSameId
    IdsGrantedOnce
SYMMETRY Symmetry
