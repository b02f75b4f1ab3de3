-------------------------- MODULE SensorNetProps --------------------------
(* The properties of sensors and gateway together, and the fairness under   *)
(* which a sensor gets its id.                                              *)
EXTENDS SensorNet

\* Type invariant.
TypeOK == /\ nodes \in [Slot -> Node]
          /\ fifo \in Frame \cup {Nothing}
          /\ ack \in Ack \cup {Nothing}
          /\ sensor \in [UUID -> Sensor]
          /\ history \in [sensors : 0 .. SENSOR_RESTARTS,
                          gateway : 0 .. GATEWAY_RESTARTS,
                          requested : BOOLEAN]

\* assign_node's 0 ("no slot"), and whatever byte is in the place of an id in
\* an ACK without one, never becomes a sensor's address: late, lost or
\* overheard ACKs leave a sensor at its NODE_ID or at an id of the table.
SaneAddress == \A n \in UUID : sensor[n].addr \in {Home[n]} \cup TableId

\* While an ACK with an id waits for the channel, the id's slot is held by
\* the sensor that asked: retries, host commands and restarts of sensors in
\* between cannot give it away.
GrantIsOwned ==
    ack.type = "assign" =>
       LET slot == nodes[Index(ack.id)] IN
       slot.uuid = ack.asker /\ ASSIGNED \in slot.flags

\* A sensor that is not restarted moves only to an id the gateway's table has
\* assigned at that moment, and believes itself assigned from then on.
MovesOnlyToAssignedId ==
    [][\A n \in UUID :
          sensor'[n].addr # sensor[n].addr =>
             \/ ASSIGNED \in FlagsOf(sensor'[n].addr) /\ ASSIGNED \in sensor'[n].flags
             \/ sensor'[n] = Boot(n)]_vars

\* get_flags(id, true) forgets a descriptor request when the ACK is built: it
\* leaves the table only in an ACK to that id which carries it.
RequestLeavesInAck ==
    [][\A i \in Slot :
          REQUEST \in nodes[i].flags /\ REQUEST \notin nodes'[i].flags =>
             \/ /\ ack'.type = "flags" /\ REQUEST \in ack'.flags
                /\ ack'.to = i + AUTO_NODE_OFFSET
             \/ nodes' = EmptyTable]_vars

\* The search of assign_node never finds a second slot for a sensor, however
\* often it asks, loses the answer, takes another sensor's or is restarted, as
\* long as the table is not lost and the host has asked for nothing (set_flag
\* can reserve a slot that nobody owns).
Undisturbed == history.gateway = 0 /\ ~history.requested

OneSlot ==
    \A i, j \in Slot : nodes[i].uuid = nodes[j].uuid /\ i # j => nodes[i].uuid = NoUUID

OneSlotPerSensor == Undisturbed => OneSlot

\* Why there is one slot only: slots are never given back, so those between a
\* sensor's NODE_ID and its slot stay taken and every search ends at the slot.
\* A sensor asks from its NODE_ID only, for one that has moved on holds an id
\* that the table keeps as assigned, and no ACK can tell it otherwise.
SearchFindsSlot ==
    \A n \in UUID, k \in Slot :
       nodes[k].uuid = n =>
          /\ Index(Home[n]) <= k
          /\ \A j \in Slot : Index(Home[n]) <= j /\ j < k => nodes[j].flags # {}

AsksFromHome ==
    /\ fifo.type = "uuid" => fifo.src = Home[fifo.uuid]
    /\ \A n \in UUID : sensor[n].stage = "enrol" => sensor[n].addr = Home[n]

MovedIsAssigned ==
    \A n \in UUID :
       \/ sensor[n].addr = Home[n]
       \/ /\ sensor[n].addr \in TableId /\ ASSIGNED \in sensor[n].flags
          /\ ASSIGNED \in nodes[Index(sensor[n].addr)].flags

AckTellsAssigned ==
    ack.type = "flags" /\ Index(ack.to) \in Slot =>
       (ASSIGNED \in ack.flags <=> ASSIGNED \in nodes[Index(ack.to)].flags)

QuietInv == /\ \A i \in Slot : REQUEST \notin nodes[i].flags
            /\ AckTellsAssigned /\ MovedIsAssigned /\ AsksFromHome
            /\ SearchFindsSlot /\ OneSlot

\* Two sensors that both hold ASSIGNED use different ids (main.cpp:217 sends
\* part of the UUID "to verify it isn't shared. With any other node").
NoSharedId ==
    \A m, n \in UUID :
       /\ ASSIGNED \in sensor[m].flags /\ ASSIGNED \in sensor[n].flags
       /\ sensor[m].addr = sensor[n].addr
       => m = n

----------------------------------------------------------------------------
(* Liveness.                                                                *)

\* n hears the answer to the frame it waits with, one of this stage of its
\* round.
Answered(n, stage) ==
    /\ sensor[n].stage = stage /\ sensor[n].link = "waiting"
    /\ ack.type \in IF stage = "enrol" THEN {"assign", "empty"} ELSE {"flags", "verify"}
    /\ \E heard \in SUBSET UUID : n \in heard /\ SendAck(heard)

\* A sensor's thread runs, and the radio does not stop all of its exchanges of
\* one kind: of the readings it sends in round after round, and of the id
\* requests it repeats, some are heard, handled by the gateway and answered
\* within retryWaitTime.  What the answer says is not assumed.
Fairness ==
    \A n \in UUID :
       /\ WF_vars(SensorStep(n))
       /\ \A stage \in {"readings", "enrol"} :
             []<>(sensor[n].stage = stage) => []<><<Answered(n, stage)>>_vars

FairSpec == Spec /\ Fairness

\* Sensor and gateway agree on the sensor's id.
Enrolled(n) == /\ ASSIGNED \in sensor[n].flags
               /\ Index(sensor[n].addr) \in Slot
               /\ nodes[Index(sensor[n].addr)].uuid = n

\* What the code says of its flags: a sensor without an id gets one, and one
\* whose id the gateway has lost in a restart is told so ("Flags can only clear
\* NODE_FLAG_ASSIGNED to signify that the nodes ID is no longer assigned. eg.
\* the gateway has been restarted", main.cpp:370) and gets one again.  It does
\* not hold: not for a sensor at 0xf0, and not after a restart of the gateway
\* for a sensor whose frames follow those of one that is assigned already.
EventuallyEnrolled == \A n \in UUID : ~Enrolled(n) ~> Enrolled(n)

\* n's radio takes an ACK with flags.
ToldFlags(n) ==
    ack.type = "flags" /\ \E heard \in SUBSET UUID : n \in heard /\ SendAck(heard)

\* What does hold, for sensors with different NODE_IDs in the table and a host
\* that asks for nothing: through losses, late ACKs and restarts each sensor
\* gets its id, and gets it again after restarts of the gateway, if only it is
\* told flags again and again.  The answer 'verify' is all that can keep it
\* from that, and only once the gateway has been restarted.
EnrolledWhenTold ==
    \A n \in UUID :
       [](history.gateway = 0) \/ []<><<ToldFlags(n)>>_vars
          => (~Enrolled(n) ~> Enrolled(n))

=============================================================================
