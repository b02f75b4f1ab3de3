----------------------------- MODULE NodeTable -----------------------------
(* The gateway's table of radio ids, rf_sensor_v3/framing.cpp: slot i holds *)
(* the UUID of the sensor that owns the radio id i + AUTO_NODE_OFFSET, and  *)
(* the flags the gateway keeps for that id.  The table lives in RAM.        *)
EXTENDS Integers

CONSTANTS
    UUID,               \* the serial numbers of the sensors
    NoUUID,             \* the all-zero UUID of a slot nobody owns
    NODES_LENGTH,       \* slots in the table (64)
    AUTO_NODE_OFFSET,   \* the radio id of slot 0 (10)
    Unconfigured,       \* the address of a sensor without an id (0xf0)
    StationId           \* the radio addresses in use, bytes

Slot == 0 .. NODES_LENGTH - 1
TableId == {i + AUTO_NODE_OFFSET : i \in Slot}
NoId == 0               \* assign_node's answer to a station it cannot place

ASSUME TableAssumption ==
    /\ NODES_LENGTH \in Nat \ {0}
    /\ AUTO_NODE_OFFSET \in Nat \ {0}
    /\ NODES_LENGTH + AUTO_NODE_OFFSET <= Unconfigured
    /\ StationId \subseteq 0 .. 255
    /\ TableId \cup {Unconfigured} \subseteq StationId
    /\ NoUUID \notin UUID

\* node_id - AUTO_NODE_OFFSET in a uint8_t: an id below the offset wraps to
\* an index past the end of the table.
Index(id) == (id - AUTO_NODE_OFFSET) % 256

\* A flags byte is the set of its bits.
ASSIGNED == "NODE_FLAG_ASSIGNED"
REQUEST  == "NODE_FLAG_REQUEST_PAYLOAD_DESCRIPTORS"
Flags == SUBSET {ASSIGNED, REQUEST}

Node == [uuid : UUID \cup {NoUUID}, flags : Flags]

VARIABLE nodes

----------------------------------------------------------------------------
\* Power-up: .bss is zero (clear_nodes passes memset its arguments in the
\* wrong order and clears nothing, which the zeroed .bss hides).
EmptyTable == [i \in Slot |-> [uuid |-> NoUUID, flags |-> {}]]

TableInit == nodes = EmptyTable

\* Mutations of Stops: the UUIDs are not compared; a slot is free already when
\* it is not ASSIGNED.
StopsAtFreeOnly(uuid, i) == nodes[i].flags = {}
StopsUnlessAssigned(uuid, i) == nodes[i].uuid = uuid \/ ASSIGNED \notin nodes[i].flags

\* The slots at which assign_node's search for uuid stops.
Stops(uuid, i) == nodes[i].uuid = uuid \/ nodes[i].flags = {}

\* Slot i is the first one from slot c on at which the search stops.
FirstFrom(c, uuid, i) ==
    /\ i \in Slot /\ c <= i
    /\ Stops(uuid, i)
    /\ \A j \in Slot : c <= j /\ j < i => ~Stops(uuid, j)

\* Slot i becomes uuid's, unless it already was.  The slot of the station's
\* own id (i = c) is tested for being free before the UUIDs are compared.
Take(c, uuid, i) ==
    IF nodes[i].flags = {} /\ (i = c \/ nodes[i].uuid # uuid)
    THEN nodes' = [nodes EXCEPT ![i] = [uuid |-> uuid, flags |-> {ASSIGNED}]]
    ELSE UNCHANGED nodes

\* assign_node(uuid, station): the station that calls itself `station` gets
\* `id`, or 0 when the search runs off the end of the table.
AssignNode(uuid, station, id) ==
    LET c == Index(station) IN
    \/ \E i \in Slot : /\ FirstFrom(c, uuid, i)
                       /\ id = i + AUTO_NODE_OFFSET
                       /\ Take(c, uuid, i)
    \/ /\ \A i \in Slot : c <= i => ~Stops(uuid, i)
       /\ id = NoId
       /\ UNCHANGED nodes

\* The flags of an id; none for an id outside the table.
FlagsOf(id) == IF Index(id) \in Slot THEN nodes[Index(id)].flags ELSE {}

\* Mutation of ClearFlags: ASSIGNED is cleared with the others.
ClearAllFlags(id) ==
    nodes' = IF Index(id) \in Slot THEN [nodes EXCEPT ![Index(id)].flags = {}]
                                  ELSE nodes

\* get_flags(id, true): what FlagsOf(id) was, and only ASSIGNED stays.
ClearFlags(id) ==
    nodes' = IF Index(id) \in Slot
             THEN [nodes EXCEPT ![Index(id)].flags = @ \cap {ASSIGNED}]
             ELSE nodes

\* set_flag(id, flags), on behalf of the host.
SetFlag(id, flags) ==
    nodes' = IF Index(id) \in Slot
             THEN [nodes EXCEPT ![Index(id)].flags = @ \cup (flags \ {ASSIGNED})]
             ELSE nodes

\* The gateway is reset or loses power.
ClearTable == nodes' = EmptyTable

TableNext ==
    \/ \E uuid \in UUID, station \in StationId, id \in TableId \cup {NoId} :
          AssignNode(uuid, station, id)
    \/ \E id \in StationId : ClearFlags(id)
    \/ \E id \in StationId, flags \in Flags : SetFlag(id, flags)
    \/ ClearTable

TableSpec == TableInit /\ [][TableNext]_nodes
============================================================================
