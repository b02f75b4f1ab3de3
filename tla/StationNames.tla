---------------------------- MODULE StationNames ----------------------------
(* How readings get their names: sensors and gateway of SensorNet, and      *)
(* src/interface.py on the host at the other end of the FastBus.  The host  *)
(* keeps the UUID of each radio id and the names of each UUID's readings,   *)
(* asks the gateway for what it misses, and publishes a reading when it has *)
(* both.  The gateway's Thread1 answers those requests between two frames.  *)
EXTENDS SensorNetProps, Sequences

CONSTANTS
    BUFFERS,   \* packets on their way, per direction
    RESTARTS   \* a bound on the restarts of sensors, gateway and host together

ASSUME NamesAssumption == BUFFERS \in Nat \ {0} /\ RESTARTS \in Nat

VARIABLES
    carried,     \* the stage of the sender's round that the frame in fifo is of
    up, down,    \* the FastBus: packets to the host, commands to the gateway
    hosts,       \* Serial_Bus.hosts: the UUID of a radio id
    named,       \* long_names: the UUIDs whose readings have names
    hostRestarts

namesVars == <<vars, carried, up, down, hosts, named, hostRestarts>>
hostVars == <<hosts, named, hostRestarts>>

Unknown == [id \in StationId |-> NoUUID]

NamesInit ==
    /\ Init
    /\ carried = "readings"
    /\ up = <<>> /\ down = <<>>
    /\ hosts = Unknown /\ named = {}
    /\ hostRestarts = 0

\* FastBus1.Write with a timeout of nothing: a full bus loses the packet.  On
\* the host a full bus is a USB timeout, which main() ignores.
Put(queue, packet) == IF Len(queue) < BUFFERS THEN Append(queue, packet) ELSE queue

MayRestart == history.sensors + history.gateway + hostRestarts < RESTARTS

Sensing(n) ==
    /\ SensorStep(n) \/ (MayRestart /\ SensorRestart(n))
    /\ carried' = IF fifo' = fifo THEN carried ELSE sensor[n].stage
    /\ UNCHANGED <<up, down>> /\ UNCHANGED hostVars

\* Thread1 passes on every frame, then answers it.
Forward ==
    /\ GatewayReceive
    /\ up' = Put(up, [stage |-> carried, id |-> fifo.src, uuid |-> fifo.uuid])
    /\ UNCHANGED <<carried, down>> /\ UNCHANGED hostVars

Acknowledge ==
    /\ \E heard \in SUBSET UUID : SendAck(heard)
    /\ UNCHANGED <<carried, up, down>> /\ UNCHANGED hostVars

\* FastBus1.Read in Thread1: 0x2000 asks for the UUID of an id, which only an
\* assigned one has; 0x2001 for the descriptors of an id.
Command ==
    /\ down # <<>> /\ down' = Tail(down)
    /\ LET id == Head(down).id IN
       \/ /\ Head(down).cmd = "req_addr" /\ ack = Nothing
          /\ up' = IF ASSIGNED \in FlagsOf(id)
                   THEN Put(up, [stage |-> "enrol", id |-> id,
                                 uuid |-> nodes[Index(id)].uuid])
                   ELSE up
          /\ UNCHANGED vars
       \/ Head(down).cmd = "req_descriptors" /\ HostRequest(id) /\ UNCHANGED up
    /\ UNCHANGED carried /\ UNCHANGED hostVars

----------------------------------------------------------------------------
(* The host: Serial_Bus.read and _decode_packet.                            *)

Request(cmd, id) == down' = Put(down, [cmd |-> cmd, id |-> id])

\* 0x86 and 0x88: a sensor's id request, with the address it asks from, or the
\* gateway's answer to req_addr.
LearnUuid(id, uuid) == hosts' = [hosts EXCEPT ![id] = uuid]

\* A packet from an id without UUID: only the UUID is asked for.
ReadUnknown ==
    /\ Head(up).stage # "enrol" /\ hosts[Head(up).id] = NoUUID
    /\ Request("req_addr", Head(up).id)
    /\ UNCHANGED <<hosts, named>>

ReadUuid ==
    /\ Head(up).stage = "enrol"
    /\ LearnUuid(Head(up).id, Head(up).uuid)
    /\ UNCHANGED <<named, down>>

ReadDescriptor ==
    /\ Head(up).stage = "descriptors" /\ hosts[Head(up).id] # NoUUID
    /\ named' = named \cup {hosts[Head(up).id]}
    /\ UNCHANGED <<hosts, down>>

\* What a packet's reading is published for, if it is.
Publishes(packet, uuid) ==
    packet.stage = "readings" /\ hosts[packet.id] = uuid /\ uuid \in named

\* A reading with a name is published under the name and the UUID of its id;
\* for one without, the descriptors are asked for.
ReadReading ==
    /\ Head(up).stage = "readings" /\ hosts[Head(up).id] # NoUUID
    /\ IF Publishes(Head(up), hosts[Head(up).id])
       THEN UNCHANGED down
       ELSE Request("req_descriptors", Head(up).id)
    /\ UNCHANGED <<hosts, named>>

HostRead ==
    /\ up # <<>> /\ up' = Tail(up)
    /\ ReadUuid \/ ReadUnknown \/ ReadDescriptor \/ ReadReading
    /\ UNCHANGED hostRestarts /\ UNCHANGED carried /\ UNCHANGED vars

----------------------------------------------------------------------------
\* Mutation of HostForgets: a new gateway is opened by the same process.
HostRemembers == UNCHANGED <<hosts, named>>

\* Started again, interface.py knows nothing.
HostForgets == hosts' = Unknown /\ named' = {}

HostRestart ==
    /\ MayRestart
    /\ hostRestarts' = hostRestarts + 1
    /\ HostForgets
    /\ UNCHANGED <<carried, up, down>> /\ UNCHANGED vars

\* Without the gateway the USB device is gone, which ends interface.py.
Restart ==
    /\ MayRestart /\ GatewayRestart
    /\ up' = <<>> /\ down' = <<>>
    /\ HostForgets
    /\ UNCHANGED <<carried, hostRestarts>>

NamesNext == \/ \E n \in UUID : Sensing(n)
             \/ Forward \/ Acknowledge \/ Command
             \/ HostRead \/ HostRestart \/ Restart

NamesSpec == NamesInit /\ [][NamesNext]_namesVars

----------------------------------------------------------------------------
\* A reading is published under the UUID of the sensor that sent it, whoever
\* is restarted in between, provided the sensors have different NODE_IDs.
NamedByOwner ==
    up # <<>> => \A uuid \in UUID : Publishes(Head(up), uuid) => uuid = Head(up).uuid
=============================================================================
