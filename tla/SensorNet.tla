----------------------------- MODULE SensorNet -----------------------------
(* Version 3 sensors and the gateway over the radio: Thread1 and send_frame *)
(* of rf_sensor_v3/main.cpp on both kinds of board, with the stop-and-wait  *)
(* exchange of RFM69.cpp between them and the id table of framing.cpp.      *)
(* A sensor sends its readings, asks for an id while it has none and sends  *)
(* the descriptors of its readings when asked; the gateway answers every    *)
(* frame in the frame's ACK.  Frames and ACKs get lost, ACKs come late, and *)
(* an ACK goes to an address: every sensor that waits there takes it.       *)
(* A sensor is identified by its serial number, a member of UUID.           *)
EXTENDS NodeTable

CONSTANTS
    Home,             \* NODE_ID: the address compiled into each sensor
    DEVICES,          \* devices on a sensor: one reading per round from each
    RETRIES,          \* sendWithRetry's `true`: one repetition
    HostIds,          \* the ids the host asks descriptors of
    SENSOR_RESTARTS,  \* bounds on the restarts explored
    GATEWAY_RESTARTS

ASSUME NetAssumption ==
    /\ Home \in [UUID -> StationId \ {NoId}]
    /\ DEVICES \in Nat /\ RETRIES \in Nat
    /\ HostIds \subseteq StationId
    /\ SENSOR_RESTARTS \in Nat /\ GATEWAY_RESTARTS \in Nat

VARIABLES
    fifo,      \* the frame in the gateway's radio, not yet read by Thread1
    ack,       \* the ACK the gateway's sendACK has still to put on the air
    sensor,    \* Thread1 of each sensor, and its radio address
    history    \* restarts and host requests so far: to bound the exploration
               \* and for the properties, not code

vars == <<nodes, fifo, ack, sensor, history>>

Nothing == [type |-> "nothing"]

\* What the gateway uses of a frame: its source (the radio header and DATA[0]
\* agree, both are set by the same code), whether it is a PAYLOAD_UUID, and
\* the UUID that one carries.
Frame == [type : {"uuid", "data"}, src : StationId, uuid : UUID]

\* The ACKs: one byte, 0x88 with an id, 0x8a with flags, 0x86 with part of a
\* UUID.  to is the station the ACK is sent to, asker the sensor whose UUID
\* an id was given for, which the ACK does not say.
Ack == [type : {"empty"}, to : StationId]
       \cup [type : {"assign"}, to : StationId, id : TableId, asker : UUID]
       \cup [type : {"flags"}, to : StationId, flags : Flags]
       \cup [type : {"verify"}, to : StationId, uuid : UUID \cup {NoUUID}]

\* stage and left: which frames of the round come next, and how many;
\* link and attempt: where sendWithRetry is.
Sensor == [addr : StationId, flags : Flags,
           stage : {"readings", "enrol", "descriptors"},
           left : 0 .. 2 * DEVICES,
           link : {"idle", "sending", "waiting"},
           attempt : 0 .. RETRIES]

\* main(): the address is NODE_ID, flags a local that starts at 0.
Boot(n) == [addr |-> Home[n], flags |-> {}, stage |-> "readings",
            left |-> DEVICES, link |-> "idle", attempt |-> 0]

Init == /\ TableInit
        /\ fifo = Nothing
        /\ ack = Nothing
        /\ sensor = [n \in UUID |-> Boot(n)]
        /\ history = [sensors |-> 0, gateway |-> 0, requested |-> FALSE]

----------------------------------------------------------------------------
(* A sensor: the rounds of Thread1.                                         *)

\* The rest of the round is over and the next one begins.
NextRound(s) == [s EXCEPT !.stage = "readings", !.left = DEVICES]

\* One frame of the stage is dealt with; the id request is alone in its own.
StepOn(s) == LET t == [s EXCEPT !.link = "idle", !.attempt = 0] IN
             IF s.stage = "enrol" THEN NextRound(t) ELSE [t EXCEPT !.left = @ - 1]

\* uuid_node_number_request's condition.
NeedsId(s) == s.addr = Unconfigured \/ ASSIGNED \notin s.flags

\* A device gives a reading and send_frame begins, or it gives none (the
\* DHT22's readData fails).
Reading(n) ==
    /\ sensor[n].stage = "readings" /\ sensor[n].left > 0
    /\ sensor[n].link = "idle"
    /\ \/ sensor' = [sensor EXCEPT ![n].link = "sending"]
       \/ sensor' = [sensor EXCEPT ![n] = StepOn(@)]
    /\ UNCHANGED <<nodes, fifo, ack, history>>

\* After the readings: the id request, or the descriptors if they were asked
\* for, or nothing.
Enrol(n) ==
    /\ sensor[n].stage = "readings" /\ sensor[n].left = 0
    /\ sensor[n].link = "idle"
    /\ \/ /\ NeedsId(sensor[n])
          /\ sensor' = [sensor EXCEPT ![n].stage = "enrol", ![n].link = "sending"]
       \/ /\ ~NeedsId(sensor[n]) /\ REQUEST \in sensor[n].flags
          /\ sensor' = [sensor EXCEPT ![n].stage = "descriptors",
                                      ![n].left = 2 * DEVICES]
       \/ /\ ~NeedsId(sensor[n]) /\ REQUEST \notin sensor[n].flags
          /\ sensor' = [sensor EXCEPT ![n] = NextRound(@)]
    /\ UNCHANGED <<nodes, fifo, ack, history>>

\* flags = flags & ~NODE_FLAG_REQUEST_PAYLOAD_DESCRIPTORS.
ActedOn(s) == [s EXCEPT !.flags = @ \ {REQUEST}]

\* handle_dht22_ident and handle_mppl3115a2_ident, two frames a device; then
\* the request is cleared, whatever came in meanwhile.
Descriptors(n) ==
    /\ sensor[n].stage = "descriptors" /\ sensor[n].link = "idle"
    /\ \/ /\ sensor[n].left > 0
          /\ sensor' = [sensor EXCEPT ![n].link = "sending"]
       \/ /\ sensor[n].left = 0
          /\ sensor' = [sensor EXCEPT ![n] = NextRound(ActedOn(@))]
    /\ UNCHANGED <<nodes, fifo, ack, history>>

\* send(): the frame is on the air.  The gateway's radio holds one frame and
\* the CSMA loop of its sendACK throws away what comes in; else the frame may
\* still be lost.
Transmit(n) ==
    LET s == sensor[n] IN
    /\ s.link = "sending"
    /\ sensor' = [sensor EXCEPT ![n].link = "waiting"]
    /\ \/ /\ fifo = Nothing /\ ack = Nothing
          /\ fifo' = [type |-> IF s.stage = "enrol" THEN "uuid" ELSE "data",
                      src |-> s.addr, uuid |-> n]
       \/ UNCHANGED fifo
    /\ UNCHANGED <<nodes, ack, history>>

\* retryWaitTime runs out: send again, or give up.
Timeout(n) ==
    /\ sensor[n].link = "waiting"
    /\ \/ /\ sensor[n].attempt < RETRIES
          /\ sensor' = [sensor EXCEPT ![n].link = "sending", ![n].attempt = @ + 1]
       \/ /\ sensor[n].attempt = RETRIES
          /\ sensor' = [sensor EXCEPT ![n] = StepOn(@)]
    /\ UNCHANGED <<nodes, fifo, ack, history>>

\* Mutation of TakeFlags: ASSIGNED is never cleared.
TakeFlagsAssigned(flags, told) == flags \cup told

\* 0x8A: flags |= DATA[2] after the id request and DATA[2] | (flags &
\* ~ASSIGNED) in send_frame come to the same: ASSIGNED is the gateway's.
TakeFlags(flags, told) == (flags \ {ASSIGNED}) \cup told

\* Mutation of OnAck: the address is taken and ASSIGNED is not set.
OnAckAddressOnly(s, a) ==
    IF a.type = "assign" /\ s.stage = "enrol" THEN [s EXCEPT !.addr = a.id] ELSE s

\* What sendWithRetry's caller does with the ACK a.  0x88 counts only as the
\* answer to an id request; one byte and 0x86 are never looked at.
OnAck(s, a) ==
    CASE a.type = "assign" /\ s.stage = "enrol" ->
             [s EXCEPT !.addr = a.id, !.flags = @ \cup {ASSIGNED}]
      [] a.type = "flags" ->
             [s EXCEPT !.flags = TakeFlags(@, a.flags)]
      [] OTHER -> s

----------------------------------------------------------------------------
(* The gateway: Thread1 with GATEWAY_DEVICE.                                *)

\* The flags word the gateway's choice of answer rests on: get_flags is
\* called with theNodeID before theNodeID is set, so with any byte at all.
StaleFlags == {FlagsOf(id) : id \in StationId}

\* The first four bytes sent to prove who owns an id: nodes[] is indexed by
\* the id and not by the id's slot, past the end of the table for some.
CheckUUID(id) == IF id \in Slot THEN {nodes[id].uuid} ELSE UUID \cup {NoUUID}

\* Mutation of AnswerUuid: the test for assign_node's 0 is missing.
AnswerUuidAlways ==
    /\ fifo.type = "uuid"
    /\ \E id \in TableId \cup {NoId} :
         /\ AssignNode(fifo.uuid, fifo.src, id)
         /\ ack' = [type |-> "assign", to |-> fifo.src, id |-> id, asker |-> fifo.uuid]

\* Answer to a PAYLOAD_UUID frame.
AnswerUuid ==
    /\ fifo.type = "uuid"
    /\ \/ \E id \in TableId :
             /\ AssignNode(fifo.uuid, fifo.src, id)
             /\ ack' = [type |-> "assign", to |-> fifo.src, id |-> id,
                        asker |-> fifo.uuid]
       \/ /\ AssignNode(fifo.uuid, fifo.src, NoId)
          /\ ack' = [type |-> "empty", to |-> fifo.src]

\* Mutation of AnswerData: get_flags clears at the early, stale read.
AnswerDataClearsEarly ==
    /\ fifo.type = "data"
    /\ \E id \in StationId :
         /\ ack' = [type |-> "flags", to |-> fifo.src, flags |-> FlagsOf(fifo.src)]
         /\ ClearFlags(id)

\* Answer to any other frame: the flags, which clears what is told in the
\* table, or the verification UUID.
AnswerData ==
    /\ fifo.type = "data"
    /\ \E stale \in StaleFlags :
         IF stale # {ASSIGNED}
         THEN /\ ack' = [type |-> "flags", to |-> fifo.src,
                         flags |-> FlagsOf(fifo.src)]
              /\ ClearFlags(fifo.src)
         ELSE /\ \E u \in CheckUUID(fifo.src) :
                    ack' = [type |-> "verify", to |-> fifo.src, uuid |-> u]
              /\ UNCHANGED nodes

\* receiveDone hands Thread1 a frame, up to the call of sendACK.
GatewayReceive ==
    /\ fifo # Nothing /\ ack = Nothing
    /\ AnswerUuid \/ AnswerData
    /\ fifo' = Nothing
    /\ UNCHANGED <<sensor, history>>

\* sendACK gets the channel, at once or after a second.  Of the sensors that
\* wait at the ACK's address, `heard` take it: whoever it was meant for, and
\* whichever of their frames it answers.
SendAck(heard) ==
    /\ ack # Nothing
    /\ heard \subseteq {n \in UUID : sensor[n].link = "waiting" /\ sensor[n].addr = ack.to}
    /\ sensor' = [n \in UUID |-> IF n \in heard THEN StepOn(OnAck(sensor[n], ack))
                                                ELSE sensor[n]]
    /\ ack' = Nothing
    /\ UNCHANGED <<nodes, fifo, history>>

\* Command 0x2001 of the host, which wants the names of id's readings.  The
\* thread reads the host's commands when it is not in sendACK.
HostRequest(id) ==
    /\ ack = Nothing
    /\ SetFlag(id, {REQUEST})
    /\ history' = [history EXCEPT !.requested = TRUE]
    /\ UNCHANGED <<fifo, ack, sensor>>

----------------------------------------------------------------------------
SensorRestart(n) ==
    /\ history.sensors < SENSOR_RESTARTS
    /\ history' = [history EXCEPT !.sensors = @ + 1]
    /\ sensor' = [sensor EXCEPT ![n] = Boot(n)]
    /\ UNCHANGED <<nodes, fifo, ack>>

GatewayRestart ==
    /\ history.gateway < GATEWAY_RESTARTS
    /\ history' = [history EXCEPT !.gateway = @ + 1]
    /\ ClearTable
    /\ fifo' = Nothing
    /\ ack' = Nothing
    /\ UNCHANGED sensor

SensorStep(n) == Reading(n) \/ Enrol(n) \/ Descriptors(n) \/ Transmit(n) \/ Timeout(n)

Next == \/ \E n \in UUID : SensorStep(n) \/ SensorRestart(n)
        \/ GatewayReceive
        \/ \E heard \in SUBSET UUID : SendAck(heard)
        \/ \E id \in HostIds : HostRequest(id)
        \/ GatewayRestart

Spec == Init /\ [][Next]_vars
============================================================================
