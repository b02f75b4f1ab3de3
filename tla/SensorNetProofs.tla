-------------------------- MODULE SensorNetProofs --------------------------
(* Proofs about the id table - its invariants, the idempotence of           *)
(* assign_node, the refinement of the id service - and then about sensors   *)
(* and gateway together, for any number of sensors, any table, any NODE_IDs *)
(* and any number of restarts.                                              *)
EXTENDS SensorNetProps, NodeTableProps, TLAPS

(* The id table alone.                                                      *)

\* The uint8_t index of an id of the table is the id's slot, and every id
\* with a slot is an id of the table.
LEMMA IndexOfId == \A i \in Slot : Index(i + AUTO_NODE_OFFSET) = i
<1> SUFFICES ASSUME NEW i \in Slot PROVE Index(i + AUTO_NODE_OFFSET) = i
  OBVIOUS
<1>1. i \in Nat /\ i < NODES_LENGTH
  BY TableAssumption DEF Slot
<1>2. Unconfigured \in 0 .. 255
  BY TableAssumption
<1>3. i < 256 /\ i + AUTO_NODE_OFFSET - AUTO_NODE_OFFSET = i
  BY <1>1, <1>2, TableAssumption
<1>4. i % 256 = i
  BY <1>1, <1>3
<1>5. Index(i + AUTO_NODE_OFFSET) = (i + AUTO_NODE_OFFSET - AUTO_NODE_OFFSET) % 256
  BY <1>1, TableAssumption DEF Index
<1> QED BY <1>3, <1>4, <1>5

LEMMA IdOfIndex ==
  \A id \in StationId : Index(id) \in Slot => id = Index(id) + AUTO_NODE_OFFSET
<1> SUFFICES ASSUME NEW id \in StationId, Index(id) \in Slot
             PROVE  id = Index(id) + AUTO_NODE_OFFSET
  OBVIOUS
<1>1. /\ id \in 0 .. 255 /\ Unconfigured \in 0 .. 255
      /\ NODES_LENGTH \in Nat /\ AUTO_NODE_OFFSET \in Nat
      /\ NODES_LENGTH + AUTO_NODE_OFFSET <= Unconfigured
  BY TableAssumption
<1>2. Index(id) = (id - AUTO_NODE_OFFSET) % 256
  BY <1>1 DEF Index
<1>3. CASE id >= AUTO_NODE_OFFSET
  <2>1. id - AUTO_NODE_OFFSET \in 0 .. 255
    BY <1>1, <1>3
  <2>2. (id - AUTO_NODE_OFFSET) % 256 = id - AUTO_NODE_OFFSET
    BY <2>1
  <2> QED BY <1>1, <1>2, <2>2
<1>4. CASE id < AUTO_NODE_OFFSET
  <2>1. id - AUTO_NODE_OFFSET \in -256 .. -1
    BY <1>1, <1>4
  <2>2. (id - AUTO_NODE_OFFSET) % 256 = id - AUTO_NODE_OFFSET + 256
    BY <2>1
  <2>3. id - AUTO_NODE_OFFSET + 256 < NODES_LENGTH
    <3>1. Index(id) \in Int /\ Index(id) < NODES_LENGTH
      BY <1>1 DEF Slot
    <3> QED BY <1>2, <2>2, <3>1
  <2> QED BY <1>1, <2>1, <2>3
<1> QED BY <1>1, <1>3, <1>4

----------------------------------------------------------------------------
(* Each operation keeps the table well-formed.                              *)

TableInv == TableTypeOK /\ OwnerIffAssigned

LEMMA TableInitInv == TableInit => TableInv
<1> SUFFICES ASSUME TableInit PROVE TableInv
  OBVIOUS
<1>1. nodes = [i \in Slot |-> [uuid |-> NoUUID, flags |-> {}]]
  BY DEF TableInit, EmptyTable
<1>2. TableTypeOK
  BY <1>1 DEF TableTypeOK, Node, Flags
<1>3. OwnerIffAssigned
  BY <1>1, TableAssumption DEF OwnerIffAssigned
<1> QED BY <1>2, <1>3 DEF TableInv

\* Overwriting one slot with a well-formed one.
LEMMA UpdateKeepsInv ==
  ASSUME TableInv, NEW k \in Slot, NEW n \in Node,
         ASSIGNED \in n.flags <=> n.uuid \in UUID,
         nodes' = [nodes EXCEPT ![k] = n]
  PROVE  TableInv'
<1>1. TableTypeOK'
  BY DEF TableInv, TableTypeOK
<1>2. OwnerIffAssigned'
  BY DEF TableInv, TableTypeOK, OwnerIffAssigned
<1> QED BY <1>1, <1>2 DEF TableInv

LEMMA AssignKeepsInv ==
  ASSUME TableInv, NEW uuid \in UUID, NEW station \in StationId, NEW id,
         AssignNode(uuid, station, id)
  PROVE  TableInv'
<1>1. CASE nodes' = nodes
  BY <1>1 DEF TableInv, TableTypeOK, OwnerIffAssigned
<1>2. ASSUME NEW i \in Slot,
             nodes' = [nodes EXCEPT ![i] = [uuid |-> uuid, flags |-> {ASSIGNED}]]
      PROVE  TableInv'
  <2>1. [uuid |-> uuid, flags |-> {ASSIGNED}] \in Node
    BY DEF Node, Flags
  <2> QED BY <1>2, <2>1, UpdateKeepsInv
<1> QED BY <1>1, <1>2 DEF AssignNode, Take

LEMMA ClearKeepsInv ==
  ASSUME TableInv, NEW id, ClearFlags(id)
  PROVE  TableInv'
<1>1. CASE Index(id) \notin Slot
  BY <1>1 DEF ClearFlags, TableInv, TableTypeOK, OwnerIffAssigned
<1>2. CASE Index(id) \in Slot
  <2> DEFINE old == nodes[Index(id)]
             new == [old EXCEPT !.flags = @ \cap {ASSIGNED}]
  <2>1. old \in Node
    BY <1>2 DEF TableInv, TableTypeOK
  <2>2. new \in Node /\ new.uuid = old.uuid /\ new.flags = old.flags \cap {ASSIGNED}
    BY <2>1 DEF Node, Flags
  <2>3. ASSIGNED \in new.flags <=> new.uuid \in UUID
    BY <1>2, <2>2 DEF TableInv, OwnerIffAssigned
  <2>4. nodes' = [nodes EXCEPT ![Index(id)] = new]
    BY <1>2 DEF ClearFlags, TableInv, TableTypeOK
  <2> QED BY <1>2, <2>2, <2>3, <2>4, UpdateKeepsInv
<1> QED BY <1>1, <1>2

LEMMA SetKeepsInv ==
  ASSUME TableInv, NEW id, NEW flags \in Flags, SetFlag(id, flags)
  PROVE  TableInv'
<1>1. CASE Index(id) \notin Slot
  BY <1>1 DEF SetFlag, TableInv, TableTypeOK, OwnerIffAssigned
<1>2. CASE Index(id) \in Slot
  <2> DEFINE old == nodes[Index(id)]
             new == [old EXCEPT !.flags = @ \cup (flags \ {ASSIGNED})]
  <2>1. old \in Node
    BY <1>2 DEF TableInv, TableTypeOK
  <2>2. /\ new \in Node /\ new.uuid = old.uuid
        /\ new.flags = old.flags \cup (flags \ {ASSIGNED})
    BY <2>1 DEF Node, Flags
  <2>3. ASSIGNED \in new.flags <=> new.uuid \in UUID
    BY <1>2, <2>2 DEF TableInv, OwnerIffAssigned
  <2>4. nodes' = [nodes EXCEPT ![Index(id)] = new]
    BY <1>2 DEF SetFlag, TableInv, TableTypeOK
  <2> QED BY <1>2, <2>2, <2>3, <2>4, UpdateKeepsInv
<1> QED BY <1>1, <1>2

LEMMA ClearTableKeepsInv == ClearTable => TableInv'
<1> SUFFICES ASSUME ClearTable PROVE TableInv'
  OBVIOUS
<1>1. nodes' = [i \in Slot |-> [uuid |-> NoUUID, flags |-> {}]]
  BY DEF ClearTable, EmptyTable
<1>2. TableTypeOK'
  BY <1>1 DEF TableTypeOK, Node, Flags
<1>3. OwnerIffAssigned'
  BY <1>1, TableAssumption DEF OwnerIffAssigned
<1> QED BY <1>2, <1>3 DEF TableInv

LEMMA TableStepInv == TableInv /\ [TableNext]_nodes => TableInv'
<1> SUFFICES ASSUME TableInv, [TableNext]_nodes PROVE TableInv'
  OBVIOUS
<1>1. CASE UNCHANGED nodes
  BY <1>1 DEF TableInv, TableTypeOK, OwnerIffAssigned
<1>2. CASE TableNext
  BY <1>2, AssignKeepsInv, ClearKeepsInv, SetKeepsInv, ClearTableKeepsInv
     DEF TableNext
<1> QED BY <1>1, <1>2

LEMMA TableInvariant == TableSpec => []TableInv
<1> QED BY TableInitInv, TableStepInv, PTL DEF TableSpec

\* The table is always an array of slots with a UUID and flags.
THEOREM TableTypeCorrect == TableSpec => []TableTypeOK
<1>1. TableInv => TableTypeOK
  BY DEF TableInv
<1> QED BY <1>1, TableInvariant, PTL

\* Whatever the order of assign_node, get_flags and set_flag, the ASSIGNED
\* flag of a slot says whether a sensor's UUID is in it.
THEOREM TableOwners == TableSpec => []OwnerIffAssigned
<1>1. TableInv => OwnerIffAssigned
  BY DEF TableInv
<1> QED BY <1>1, TableInvariant, PTL

----------------------------------------------------------------------------
(* assign_node is idempotent.                                               *)

\* An answer with an id comes from the slot of that id.
LEMMA AnswerSlot ==
  ASSUME NEW uuid, NEW station, NEW i \in Slot,
         AssignNode(uuid, station, i + AUTO_NODE_OFFSET)
  PROVE  /\ FirstFrom(Index(station), uuid, i)
         /\ Take(Index(station), uuid, i)
<1>1. i \in Nat /\ AUTO_NODE_OFFSET \in Nat \ {0}
  BY TableAssumption DEF Slot
<1>2. i + AUTO_NODE_OFFSET # NoId
  BY <1>1 DEF NoId
<1>3. PICK k \in Slot : /\ FirstFrom(Index(station), uuid, k)
                        /\ i + AUTO_NODE_OFFSET = k + AUTO_NODE_OFFSET
                        /\ Take(Index(station), uuid, k)
  BY <1>2 DEF AssignNode
<1>4. k \in Nat
  BY TableAssumption DEF Slot
<1>5. k = i
  BY <1>1, <1>3, <1>4
<1> QED BY <1>3, <1>5

LEMMA RetryStep ==
  ASSUME TableInv, NEW uuid \in UUID, NEW station \in StationId, NEW i \in Slot,
         AssignNode(uuid, station, i + AUTO_NODE_OFFSET)
  PROVE  FirstFrom(Index(station), uuid, i)' /\ nodes'[i].flags # {}
<1> DEFINE c == Index(station)
<1>1. FirstFrom(c, uuid, i) /\ Take(c, uuid, i)
  BY AnswerSlot
<1>2. nodes[i] \in Node /\ (ASSIGNED \in nodes[i].flags <=> nodes[i].uuid \in UUID)
  BY DEF TableInv, TableTypeOK, OwnerIffAssigned
<1>3. CASE nodes[i].flags = {} /\ (i = c \/ nodes[i].uuid # uuid)
  <2>1. nodes' = [nodes EXCEPT ![i] = [uuid |-> uuid, flags |-> {ASSIGNED}]]
    BY <1>1, <1>3 DEF Take
  <2>2. /\ nodes'[i] = [uuid |-> uuid, flags |-> {ASSIGNED}]
        /\ \A j \in Slot : j # i => nodes'[j] = nodes[j]
    BY <2>1 DEF TableInv, TableTypeOK
  <2>3. i \in Int /\ \A j \in Slot : j < i => j # i
    BY TableAssumption DEF Slot
  <2> QED BY <1>1, <2>2, <2>3 DEF FirstFrom, Stops
<1>4. CASE ~(nodes[i].flags = {} /\ (i = c \/ nodes[i].uuid # uuid))
  <2>1. nodes' = nodes
    BY <1>1, <1>4 DEF Take
  <2>2. nodes[i].flags # {}
    BY <1>2, <1>4
  <2> QED BY <1>1, <2>1, <2>2 DEF FirstFrom, Stops
<1> QED BY <1>3, <1>4

\* A sensor that repeats its request because the ACK was lost finds the slot
\* the first request took, and takes no other.
THEOREM RetryIsIdempotent == TableSpec => RetryGetsSameId
<1> DEFINE A == \A uuid \in UUID, station \in StationId, i \in Slot :
                   AssignNode(uuid, station, i + AUTO_NODE_OFFSET) =>
                      FirstFrom(Index(station), uuid, i)' /\ nodes'[i].flags # {}
<1>1. TableInv => A
  BY RetryStep
<1>2. []TableInv => [][A]_nodes
  BY <1>1, PTL
<1> QED BY <1>2, TableInvariant DEF RetryGetsSameId

----------------------------------------------------------------------------
(* The table implements the id service.                                     *)

LEMMA RefinedInit == TableInit => Ids!Init
<1> SUFFICES ASSUME TableInit PROVE Ids!Init
  OBVIOUS
<1>1. \A i \in Slot : nodes[i].flags = {}
  BY DEF TableInit, EmptyTable
<1>2. Owner = [i \in Slot |-> NoUUID]
  BY <1>1 DEF Owner
<1> QED BY <1>2 DEF Ids!Init

\* A step that changes no owner is a stutter of the service.
LEMMA SameOwners ==
  ASSUME \A i \in Slot : /\ ASSIGNED \in nodes'[i].flags <=> ASSIGNED \in nodes[i].flags
                         /\ nodes'[i].uuid = nodes[i].uuid
  PROVE  Owner' = Owner
<1> QED BY DEF Owner

LEMMA RefinedStep == TableInv /\ [TableNext]_nodes => [Ids!Next]_Owner
<1> SUFFICES ASSUME TableInv, [TableNext]_nodes PROVE [Ids!Next]_Owner
  OBVIOUS
<1> USE DEF TableInv, TableTypeOK
<1>1. CASE UNCHANGED nodes
  BY <1>1, SameOwners
<1>2. ASSUME NEW uuid \in UUID, NEW station \in StationId, NEW id,
             AssignNode(uuid, station, id)
      PROVE  [Ids!Next]_Owner
  <2>1. CASE UNCHANGED nodes
    BY <2>1, SameOwners
  <2>2. ASSUME NEW i \in Slot, nodes[i].flags = {},
               nodes' = [nodes EXCEPT ![i] = [uuid |-> uuid, flags |-> {ASSIGNED}]]
        PROVE  Ids!Next
    <3>1. Owner[i] = NoUUID
      BY <2>2 DEF Owner
    <3>2. /\ nodes'[i] = [uuid |-> uuid, flags |-> {ASSIGNED}]
          /\ \A j \in Slot : j # i => nodes'[j] = nodes[j]
      BY <2>2
    <3>3. \A j \in Slot : (IF ASSIGNED \in nodes'[j].flags THEN nodes'[j].uuid ELSE NoUUID)
                          = IF j = i THEN uuid ELSE Owner[j]
      BY <3>2 DEF Owner
    <3>4. Owner' = [j \in Slot |-> IF j = i THEN uuid ELSE Owner[j]]
      BY <3>3 DEF Owner
    <3>5. Owner' = [Owner EXCEPT ![i] = uuid]
      BY <3>4 DEF Owner
    <3> QED BY <3>1, <3>5 DEF Ids!Next, Ids!Grant
  <2> QED BY <1>2, <2>1, <2>2 DEF AssignNode, Take
<1>3. ASSUME NEW id, ClearFlags(id)
      PROVE  UNCHANGED Owner
  <2>1. \A i \in Slot : /\ ASSIGNED \in nodes'[i].flags <=> ASSIGNED \in nodes[i].flags
                        /\ nodes'[i].uuid = nodes[i].uuid
    BY <1>3 DEF ClearFlags, Node
  <2> QED BY <2>1, SameOwners
<1>4. ASSUME NEW id, NEW flags \in Flags, SetFlag(id, flags)
      PROVE  UNCHANGED Owner
  <2>1. \A i \in Slot : /\ ASSIGNED \in nodes'[i].flags <=> ASSIGNED \in nodes[i].flags
                        /\ nodes'[i].uuid = nodes[i].uuid
    BY <1>4 DEF SetFlag, Node
  <2> QED BY <2>1, SameOwners
<1>5. CASE ClearTable
  <2>1. \A i \in Slot : nodes'[i].flags = {}
    BY <1>5 DEF ClearTable, EmptyTable
  <2>2. Ids!ForgetAll
    BY <2>1 DEF Ids!ForgetAll, Owner
  <2> QED BY <2>2 DEF Ids!Next
<1> QED BY <1>1, <1>2, <1>3, <1>4, <1>5 DEF TableNext

\* Every behaviour of the table is one of the id service: an id is handed out
\* once, to one sensor, and taken back only with the whole table.
THEOREM TableImplementsIds == TableSpec => IdsGrantedOnce
<1>1. TableInit => Ids!Init
  BY RefinedInit
<1>2. TableInv /\ [TableNext]_nodes => [Ids!Next]_Owner
  BY RefinedStep
<1> QED BY <1>1, <1>2, TableInvariant, PTL DEF TableSpec, IdsGrantedOnce, Ids!Spec

----------------------------------------------------------------------------
(* Sensors and gateway.                                                     *)

\* While a frame of a counted stage is under way the count is not used up.
LinkOK(s) == s.link # "idle" /\ s.stage # "enrol" => s.left > 0

\* The inductive invariant of the type proof.
NetTypeInv == /\ TypeOK /\ OwnerIffAssigned
              /\ \A n \in UUID : LinkOK(sensor[n])

LEMMA BootType ==
  ASSUME NEW n \in UUID
  PROVE  Boot(n) \in Sensor /\ LinkOK(Boot(n)) /\ Boot(n).stage = "readings"
<1>1. Home[n] \in StationId /\ DEVICES \in 0 .. 2 * DEVICES /\ 0 \in 0 .. RETRIES
  BY NetAssumption
<1> QED BY <1>1 DEF Boot, Sensor, Flags, LinkOK

LEMMA NextRoundType ==
  ASSUME NEW s \in Sensor, s.link = "idle"
  PROVE  /\ NextRound(s) \in Sensor /\ LinkOK(NextRound(s))
         /\ NextRound(s).addr = s.addr /\ NextRound(s).flags = s.flags
         /\ NextRound(s).stage = "readings"
<1>1. DEVICES \in 0 .. 2 * DEVICES
  BY NetAssumption
<1> QED BY <1>1 DEF NextRound, Sensor, LinkOK

LEMMA StepOnType ==
  ASSUME NEW s \in Sensor, s.stage = "enrol" \/ s.left > 0
  PROVE  /\ StepOn(s) \in Sensor /\ LinkOK(StepOn(s))
         /\ StepOn(s).addr = s.addr /\ StepOn(s).flags = s.flags
         /\ StepOn(s).stage # "enrol"
<1> DEFINE t == [s EXCEPT !.link = "idle", !.attempt = 0]
<1>1. /\ t \in Sensor /\ t.link = "idle" /\ t.addr = s.addr /\ t.flags = s.flags
      /\ t.left = s.left /\ t.stage = s.stage
  <2>1. 0 \in 0 .. RETRIES
    BY NetAssumption
  <2> QED BY <2>1 DEF Sensor
<1>2. CASE s.stage = "enrol"
  <2>1. StepOn(s) = NextRound(t)
    BY <1>2 DEF StepOn
  <2> QED BY <1>1, <2>1, NextRoundType
<1>3. CASE s.stage # "enrol"
  <2>1. StepOn(s) = [t EXCEPT !.left = @ - 1]
    BY <1>3 DEF StepOn
  <2>2. s.left - 1 \in 0 .. 2 * DEVICES
    BY <1>3, NetAssumption DEF Sensor
  <2>3. StepOn(s) = [t EXCEPT !.left = s.left - 1]
    BY <1>1, <2>1
  <2> HIDE DEF t
  <2> QED BY <1>1, <1>3, <2>2, <2>3 DEF Sensor, LinkOK
<1> QED BY <1>2, <1>3

LEMMA OnAckType ==
  ASSUME NEW s \in Sensor, NEW a \in Ack
  PROVE  /\ OnAck(s, a) \in Sensor
         /\ OnAck(s, a).stage = s.stage /\ OnAck(s, a).left = s.left
<1>1. CASE a.type = "assign" /\ s.stage = "enrol"
  <2>1. OnAck(s, a) = [s EXCEPT !.addr = a.id, !.flags = @ \cup {ASSIGNED}]
    BY <1>1 DEF OnAck
  <2>2. a.id \in StationId
    BY <1>1, TableAssumption DEF Ack
  <2>3. s.flags \cup {ASSIGNED} \in Flags
    BY DEF Sensor, Flags
  <2> QED BY <2>1, <2>2, <2>3 DEF Sensor
<1>2. CASE a.type = "flags"
  <2>1. OnAck(s, a) = [s EXCEPT !.flags = TakeFlags(@, a.flags)]
    BY <1>2 DEF OnAck
  <2>2. a.flags \in Flags
    BY <1>2 DEF Ack
  <2>3. TakeFlags(s.flags, a.flags) \in Flags
    BY <2>2 DEF Sensor, Flags, TakeFlags
  <2> QED BY <2>1, <2>3 DEF Sensor
<1>3. CASE ~(a.type = "assign" /\ s.stage = "enrol") /\ a.type # "flags"
  BY <1>3 DEF OnAck
<1> QED BY <1>1, <1>2, <1>3

\* Replacing one sensor's state keeps all sensors well-formed.
LEMMA SensorUpdate ==
  ASSUME NetTypeInv, NEW n \in UUID, NEW r \in Sensor, LinkOK(r),
         sensor' = [sensor EXCEPT ![n] = r]
  PROVE  sensor' \in [UUID -> Sensor] /\ \A m \in UUID : LinkOK(sensor'[m])
<1>1. sensor \in [UUID -> Sensor] /\ \A m \in UUID : LinkOK(sensor[m])
  BY DEF NetTypeInv, TypeOK
<1> QED BY <1>1

----------------------------------------------------------------------------
LEMMA InitTypeInv == Init => NetTypeInv
<1> SUFFICES ASSUME Init PROVE NetTypeInv
  OBVIOUS
<1>1. TableInv
  BY TableInitInv DEF Init
<1>2. sensor \in [UUID -> Sensor] /\ \A n \in UUID : LinkOK(sensor[n])
  BY BootType DEF Init
<1>3. history \in [sensors : 0 .. SENSOR_RESTARTS, gateway : 0 .. GATEWAY_RESTARTS, requested : BOOLEAN]
  BY NetAssumption DEF Init
<1> QED BY <1>1, <1>2, <1>3 DEF Init, NetTypeInv, TypeOK, TableInv, TableTypeOK

\* The table part of the type invariant.
LEMMA TableOfNet == NetTypeInv => TableInv
<1> QED BY DEF NetTypeInv, TypeOK, TableInv, TableTypeOK

----------------------------------------------------------------------------
(* Type correctness, one lemma per actor.                                   *)

LEMMA ReadingType ==
  ASSUME NetTypeInv, NEW n \in UUID, Reading(n)
  PROVE  /\ sensor' \in [UUID -> Sensor] /\ \A m \in UUID : LinkOK(sensor'[m])
         /\ UNCHANGED fifo
<1> DEFINE s == sensor[n]
<1>1. s \in Sensor /\ s.left > 0 /\ s.stage = "readings"
  BY DEF NetTypeInv, TypeOK, Reading
<1>2. CASE sensor' = [sensor EXCEPT ![n].link = "sending"]
  <2>1. [s EXCEPT !.link = "sending"] \in Sensor /\ LinkOK([s EXCEPT !.link = "sending"])
    BY <1>1 DEF Sensor, LinkOK
  <2> QED BY <1>2, <2>1, SensorUpdate DEF Reading
<1>3. CASE sensor' = [sensor EXCEPT ![n] = StepOn(@)]
  <2>1. StepOn(s) \in Sensor /\ LinkOK(StepOn(s))
    BY <1>1, StepOnType
  <2> QED BY <1>3, <2>1, SensorUpdate DEF Reading
<1> QED BY <1>2, <1>3 DEF Reading

LEMMA EnrolType ==
  ASSUME NetTypeInv, NEW n \in UUID, Enrol(n)
  PROVE  /\ sensor' \in [UUID -> Sensor] /\ \A m \in UUID : LinkOK(sensor'[m])
         /\ UNCHANGED fifo
<1> DEFINE s == sensor[n]
<1>1. s \in Sensor /\ s.link = "idle" /\ 2 * DEVICES \in 0 .. 2 * DEVICES
  BY NetAssumption DEF NetTypeInv, TypeOK, Enrol
<1>2. CASE sensor' = [sensor EXCEPT ![n].stage = "enrol", ![n].link = "sending"]
  <2> DEFINE r == [s EXCEPT !.stage = "enrol", !.link = "sending"]
  <2>1. r \in Sensor /\ LinkOK(r)
    BY <1>1 DEF Sensor, LinkOK
  <2>2. sensor' = [sensor EXCEPT ![n] = r]
    BY <1>2 DEF NetTypeInv, TypeOK
  <2> QED BY <2>1, <2>2, SensorUpdate DEF Enrol
<1>3. CASE sensor' = [sensor EXCEPT ![n].stage = "descriptors", ![n].left = 2 * DEVICES]
  <2> DEFINE r == [s EXCEPT !.stage = "descriptors", !.left = 2 * DEVICES]
  <2>1. r \in Sensor /\ LinkOK(r)
    BY <1>1 DEF Sensor, LinkOK
  <2>2. sensor' = [sensor EXCEPT ![n] = r]
    BY <1>3 DEF NetTypeInv, TypeOK
  <2> QED BY <2>1, <2>2, SensorUpdate DEF Enrol
<1>4. CASE sensor' = [sensor EXCEPT ![n] = NextRound(@)]
  <2>1. NextRound(s) \in Sensor /\ LinkOK(NextRound(s))
    BY <1>1, NextRoundType
  <2> QED BY <1>4, <2>1, SensorUpdate DEF Enrol
<1> QED BY <1>2, <1>3, <1>4 DEF Enrol

LEMMA DescriptorsType ==
  ASSUME NetTypeInv, NEW n \in UUID, Descriptors(n)
  PROVE  /\ sensor' \in [UUID -> Sensor] /\ \A m \in UUID : LinkOK(sensor'[m])
         /\ UNCHANGED fifo
<1> DEFINE s == sensor[n]
           t == ActedOn(s)
<1>1. s \in Sensor /\ s.link = "idle"
  BY DEF NetTypeInv, TypeOK, Descriptors
<1>2. CASE s.left > 0 /\ sensor' = [sensor EXCEPT ![n].link = "sending"]
  <2>1. [s EXCEPT !.link = "sending"] \in Sensor /\ LinkOK([s EXCEPT !.link = "sending"])
    BY <1>1, <1>2 DEF Sensor, LinkOK
  <2> QED BY <1>2, <2>1, SensorUpdate DEF Descriptors
<1>3. CASE sensor' = [sensor EXCEPT ![n] = NextRound(ActedOn(@))]
  <2>1. t \in Sensor /\ t.link = "idle"
    <3>1. s.flags \ {REQUEST} \in Flags
      BY <1>1 DEF Sensor, Flags
    <3> QED BY <1>1, <3>1 DEF Sensor, ActedOn
  <2>2. NextRound(t) \in Sensor /\ LinkOK(NextRound(t))
    BY <2>1, NextRoundType
  <2>3. sensor' = [sensor EXCEPT ![n] = NextRound(t)]
    BY <1>3
  <2> QED BY <2>2, <2>3, SensorUpdate DEF Descriptors
<1> QED BY <1>2, <1>3 DEF Descriptors

LEMMA TransmitType ==
  ASSUME NetTypeInv, NEW n \in UUID, Transmit(n)
  PROVE  /\ sensor' \in [UUID -> Sensor] /\ \A m \in UUID : LinkOK(sensor'[m])
         /\ fifo' \in Frame \cup {Nothing}
<1> DEFINE s == sensor[n]
           r == [s EXCEPT !.link = "waiting"]
<1>1. s \in Sensor /\ s.link = "sending" /\ LinkOK(s)
  BY DEF NetTypeInv, TypeOK, Transmit
<1>2. r \in Sensor /\ LinkOK(r)
  BY <1>1 DEF Sensor, LinkOK
<1>3. sensor' = [sensor EXCEPT ![n] = r]
  BY DEF Transmit
<1>4. fifo' \in Frame \cup {Nothing}
  <2>1. s.addr \in StationId
    BY <1>1 DEF Sensor
  <2>2. CASE fifo' = [type |-> IF s.stage = "enrol" THEN "uuid" ELSE "data",
                      src |-> s.addr, uuid |-> n]
    BY <2>1, <2>2 DEF Frame
  <2>3. CASE UNCHANGED fifo
    BY <2>3 DEF NetTypeInv, TypeOK
  <2> QED BY <2>2, <2>3 DEF Transmit
<1> QED BY <1>2, <1>3, <1>4, SensorUpdate

LEMMA TimeoutType ==
  ASSUME NetTypeInv, NEW n \in UUID, Timeout(n)
  PROVE  /\ sensor' \in [UUID -> Sensor] /\ \A m \in UUID : LinkOK(sensor'[m])
         /\ UNCHANGED fifo
<1> DEFINE s == sensor[n]
           r == [s EXCEPT !.link = "sending", !.attempt = s.attempt + 1]
<1>1. s \in Sensor /\ s.link = "waiting" /\ LinkOK(s)
  BY DEF NetTypeInv, TypeOK, Timeout
<1>2. CASE /\ s.attempt < RETRIES
           /\ sensor' = [sensor EXCEPT ![n].link = "sending", ![n].attempt = @ + 1]
  <2>1. s.attempt + 1 \in 0 .. RETRIES
    BY <1>1, <1>2, NetAssumption DEF Sensor
  <2>2. r \in Sensor /\ LinkOK(r)
    BY <1>1, <2>1 DEF Sensor, LinkOK
  <2>3. sensor' = [sensor EXCEPT ![n] = r]
    BY <1>2 DEF NetTypeInv, TypeOK, Sensor
  <2> QED BY <2>2, <2>3, SensorUpdate DEF Timeout
<1>3. CASE sensor' = [sensor EXCEPT ![n] = StepOn(@)]
  <2>1. s.stage = "enrol" \/ s.left > 0
    BY <1>1 DEF LinkOK
  <2>2. StepOn(s) \in Sensor /\ LinkOK(StepOn(s))
    BY <1>1, <2>1, StepOnType
  <2> QED BY <1>3, <2>2, SensorUpdate DEF Timeout
<1> QED BY <1>2, <1>3 DEF Timeout

LEMMA SensorStepType ==
  ASSUME NetTypeInv, NEW n \in UUID, SensorStep(n)
  PROVE  NetTypeInv'
<1>1. /\ sensor' \in [UUID -> Sensor] /\ \A m \in UUID : LinkOK(sensor'[m])
      /\ fifo' \in Frame \cup {Nothing}
  BY ReadingType, EnrolType, DescriptorsType, TransmitType, TimeoutType
     DEF SensorStep, NetTypeInv, TypeOK
<1>2. UNCHANGED <<nodes, ack, history>>
  BY DEF SensorStep, Reading, Enrol, Descriptors, Transmit, Timeout
<1> QED BY <1>1, <1>2 DEF NetTypeInv, TypeOK, OwnerIffAssigned

\* The gateway's answer, and the slot an id comes with.
LEMMA GatewayReceiveType ==
  ASSUME NetTypeInv, GatewayReceive
  PROVE  NetTypeInv' /\ GrantIsOwned'
<1>1. fifo \in Frame /\ TableInv
  BY TableOfNet DEF GatewayReceive, NetTypeInv, TypeOK
<1>2. fifo.src \in StationId /\ fifo.uuid \in UUID
  BY <1>1 DEF Frame
<1> SUFFICES TableInv' /\ ack' \in Ack /\ GrantIsOwned'
  BY DEF NetTypeInv, TypeOK, TableInv, TableTypeOK, GatewayReceive
<1>3. ASSUME NEW id \in TableId, AssignNode(fifo.uuid, fifo.src, id),
             ack' = [type |-> "assign", to |-> fifo.src, id |-> id, asker |-> fifo.uuid]
      PROVE  TableInv' /\ ack' \in Ack /\ GrantIsOwned'
  <2>1. TableInv'
    BY <1>1, <1>2, <1>3, AssignKeepsInv
  <2>2. ack' \in Ack
    BY <1>2, <1>3 DEF Ack
  <2>3. PICK i \in Slot : id = i + AUTO_NODE_OFFSET
    BY DEF TableId
  <2>4. Index(id) = i
    BY <2>3, IndexOfId
  <2>5. Stops(fifo.uuid, i) /\ Take(Index(fifo.src), fifo.uuid, i)
    BY <1>3, <2>3, AnswerSlot DEF FirstFrom
  <2>6. nodes'[i].uuid = fifo.uuid
    BY <1>1, <2>5 DEF Take, Stops, TableInv, TableTypeOK
  <2>7. ASSIGNED \in nodes'[i].flags
    BY <1>2, <2>1, <2>6 DEF TableInv, OwnerIffAssigned
  <2> QED BY <1>3, <2>1, <2>2, <2>4, <2>6, <2>7 DEF GrantIsOwned
<1>4. ASSUME AssignNode(fifo.uuid, fifo.src, NoId),
             ack' = [type |-> "empty", to |-> fifo.src]
      PROVE  TableInv' /\ ack' \in Ack /\ GrantIsOwned'
  <2>1. TableInv'
    BY <1>1, <1>2, <1>4, AssignKeepsInv
  <2> QED BY <1>2, <1>4, <2>1 DEF Ack, GrantIsOwned
<1>5. ASSUME ack' = [type |-> "flags", to |-> fifo.src, flags |-> FlagsOf(fifo.src)],
             ClearFlags(fifo.src)
      PROVE  TableInv' /\ ack' \in Ack /\ GrantIsOwned'
  <2>1. TableInv'
    BY <1>1, <1>5, ClearKeepsInv
  <2>2. FlagsOf(fifo.src) \in Flags
    BY <1>1 DEF FlagsOf, TableInv, TableTypeOK, Node, Flags
  <2> QED BY <1>2, <1>5, <2>1, <2>2 DEF Ack, GrantIsOwned
<1>6. ASSUME NEW u \in CheckUUID(fifo.src), UNCHANGED nodes,
             ack' = [type |-> "verify", to |-> fifo.src, uuid |-> u]
      PROVE  TableInv' /\ ack' \in Ack /\ GrantIsOwned'
  <2>1. TableInv'
    BY <1>1, <1>6 DEF TableInv, TableTypeOK, OwnerIffAssigned
  <2>2. u \in UUID \cup {NoUUID}
    BY <1>1 DEF CheckUUID, TableInv, TableTypeOK, Node
  <2> QED BY <1>2, <1>6, <2>1, <2>2 DEF Ack, GrantIsOwned
<1> QED BY <1>3, <1>4, <1>5, <1>6 DEF GatewayReceive, AnswerUuid, AnswerData

LEMMA SendAckType ==
  ASSUME NetTypeInv, NEW heard \in SUBSET UUID, SendAck(heard)
  PROVE  NetTypeInv'
<1>1. ack \in Ack /\ sensor \in [UUID -> Sensor]
  BY DEF NetTypeInv, TypeOK, SendAck
<1>2. ASSUME NEW n \in heard
      PROVE  StepOn(OnAck(sensor[n], ack)) \in Sensor /\ LinkOK(StepOn(OnAck(sensor[n], ack)))
  <2> DEFINE s == sensor[n]
             r == OnAck(s, ack)
  <2>1. s \in Sensor /\ s.link = "waiting" /\ LinkOK(s)
    BY <1>1 DEF SendAck, NetTypeInv
  <2>2. r \in Sensor /\ r.stage = s.stage /\ r.left = s.left
    BY <1>1, <2>1, OnAckType
  <2>3. r.stage = "enrol" \/ r.left > 0
    BY <2>1, <2>2 DEF LinkOK
  <2> QED BY <2>2, <2>3, StepOnType
<1>3. sensor' \in [UUID -> Sensor] /\ \A n \in UUID : LinkOK(sensor'[n])
  BY <1>1, <1>2 DEF SendAck, NetTypeInv
<1> QED BY <1>3 DEF SendAck, NetTypeInv, TypeOK, OwnerIffAssigned

LEMMA HostRequestType ==
  ASSUME NetTypeInv, NEW id, HostRequest(id)
  PROVE  NetTypeInv'
<1>1. TableInv'
  BY TableOfNet, SetKeepsInv DEF HostRequest, Flags
<1> QED BY <1>1 DEF HostRequest, NetTypeInv, TypeOK, TableInv, TableTypeOK

LEMMA SensorRestartType ==
  ASSUME NetTypeInv, NEW n \in UUID, SensorRestart(n)
  PROVE  NetTypeInv'
<1>1. sensor' \in [UUID -> Sensor] /\ \A m \in UUID : LinkOK(sensor'[m])
  BY BootType, SensorUpdate DEF SensorRestart
<1>2. history' \in [sensors : 0 .. SENSOR_RESTARTS, gateway : 0 .. GATEWAY_RESTARTS, requested : BOOLEAN]
  BY NetAssumption DEF SensorRestart, NetTypeInv, TypeOK
<1> QED BY <1>1, <1>2 DEF SensorRestart, NetTypeInv, TypeOK, OwnerIffAssigned

LEMMA GatewayRestartType ==
  ASSUME NetTypeInv, GatewayRestart
  PROVE  NetTypeInv'
<1>1. TableInv'
  BY ClearTableKeepsInv DEF GatewayRestart
<1>2. history' \in [sensors : 0 .. SENSOR_RESTARTS, gateway : 0 .. GATEWAY_RESTARTS, requested : BOOLEAN]
  BY NetAssumption DEF GatewayRestart, NetTypeInv, TypeOK
<1> QED BY <1>1, <1>2 DEF GatewayRestart, NetTypeInv, TypeOK, TableInv, TableTypeOK

LEMMA StepTypeInv == NetTypeInv /\ [Next]_vars => NetTypeInv'
<1> SUFFICES ASSUME NetTypeInv, [Next]_vars PROVE NetTypeInv'
  OBVIOUS
<1>1. CASE UNCHANGED vars
  BY <1>1 DEF vars, NetTypeInv, TypeOK, OwnerIffAssigned
<1>2. CASE Next
  BY <1>2, SensorStepType, GatewayReceiveType, SendAckType, HostRequestType,
     SensorRestartType, GatewayRestartType DEF Next
<1> QED BY <1>1, <1>2

LEMMA NetTypeInvariant == Spec => []NetTypeInv
<1> QED BY InitTypeInv, StepTypeInv, PTL DEF Spec

\* Every variable of sensors, gateway and radio keeps its type; the counts
\* of frames and attempts never leave their ranges.
THEOREM NetTypeCorrect == Spec => []TypeOK
<1>1. NetTypeInv => TypeOK
  BY DEF NetTypeInv
<1> QED BY <1>1, NetTypeInvariant, PTL

----------------------------------------------------------------------------
(* Ids and addresses.                                                       *)

LEMMA GrantStep == NetTypeInv /\ GrantIsOwned /\ [Next]_vars => GrantIsOwned'
<1> SUFFICES ASSUME NetTypeInv, GrantIsOwned, [Next]_vars PROVE GrantIsOwned'
  OBVIOUS
<1>1. CASE UNCHANGED <<nodes, ack>>
  BY <1>1 DEF GrantIsOwned
<1>2. CASE ack' = Nothing
  BY <1>2 DEF GrantIsOwned, Nothing
<1>3. CASE GatewayReceive
  BY <1>3, GatewayReceiveType
<1>4. CASE \E id \in HostIds : HostRequest(id)
  BY <1>4 DEF HostRequest, GrantIsOwned, Nothing
<1> QED BY <1>1, <1>2, <1>3, <1>4
       DEF Next, vars, SensorStep, Reading, Enrol, Descriptors, Transmit, Timeout,
           SendAck, SensorRestart, GatewayRestart

LEMMA NetInvariant == Spec => [](NetTypeInv /\ GrantIsOwned)
<1>1. Init => GrantIsOwned
  BY DEF Init, GrantIsOwned, Nothing
<1> QED BY <1>1, InitTypeInv, StepTypeInv, GrantStep, PTL DEF Spec

\* An id in an ACK on its way belongs, in the table, to the sensor that asked
\* for it.
THEOREM GrantsAreOwned == Spec => []GrantIsOwned
<1> QED BY NetInvariant, PTL

\* What the sensor's own steps leave alone.
LEMMA SensorStepEffect ==
  ASSUME NetTypeInv, NEW n \in UUID, SensorStep(n), NEW m \in UUID
  PROVE  /\ sensor'[m].addr = sensor[m].addr
         /\ ASSIGNED \in sensor'[m].flags <=> ASSIGNED \in sensor[m].flags
         /\ sensor'[m].stage = "enrol" =>
               sensor[m].stage = "enrol" \/ NeedsId(sensor[m])
<1>1. sensor \in [UUID -> Sensor] /\ sensor[n] \in Sensor /\ LinkOK(sensor[n])
  BY DEF NetTypeInv, TypeOK
<1>2. CASE Reading(n)
  BY <1>1, <1>2, StepOnType DEF Reading, Sensor
<1>3. CASE Enrol(n)
  BY <1>1, <1>3, NextRoundType DEF Enrol, Sensor
<1>4. CASE Descriptors(n)
  <2> DEFINE t == ActedOn(sensor[n])
  <2>1. /\ t \in Sensor /\ t.link = "idle" /\ t.addr = sensor[n].addr
        /\ ASSIGNED \in t.flags <=> ASSIGNED \in sensor[n].flags
    <3>1. sensor[n].flags \ {REQUEST} \in Flags /\ ASSIGNED # REQUEST
      BY <1>1 DEF Sensor, Flags, ASSIGNED, REQUEST
    <3> QED BY <1>1, <1>4, <3>1 DEF ActedOn, Sensor, Descriptors
  <2>2. /\ NextRound(t).addr = sensor[n].addr /\ NextRound(t).stage = "readings"
        /\ ASSIGNED \in NextRound(t).flags <=> ASSIGNED \in sensor[n].flags
    BY <2>1, NextRoundType
  <2> QED BY <1>1, <1>4, <2>2 DEF Descriptors, Sensor
<1>5. CASE Transmit(n)
  BY <1>1, <1>5 DEF Transmit, Sensor
<1>6. CASE Timeout(n)
  BY <1>1, <1>6, StepOnType DEF Timeout, Sensor, LinkOK
<1> QED BY <1>2, <1>3, <1>4, <1>5, <1>6 DEF SensorStep

\* What an ACK does to a sensor that hears it, and that it leaves the others
\* alone.
LEMMA SendAckEffect ==
  ASSUME NetTypeInv, NEW heard \in SUBSET UUID, SendAck(heard), NEW m \in UUID
  PROVE  \/ sensor'[m] = sensor[m]
         \/ /\ ack.type = "assign" /\ sensor[m].stage = "enrol"
            /\ sensor'[m].addr = ack.id /\ sensor'[m].stage # "enrol"
            /\ ASSIGNED \in sensor'[m].flags
         \/ /\ ack.type = "flags" /\ sensor[m].addr = ack.to
            /\ sensor'[m].addr = sensor[m].addr /\ sensor'[m].stage # "enrol"
            /\ ASSIGNED \in sensor'[m].flags <=> ASSIGNED \in ack.flags
         \/ /\ ~(ack.type = "assign" /\ sensor[m].stage = "enrol")
            /\ sensor'[m].addr = sensor[m].addr /\ sensor'[m].stage # "enrol"
            /\ sensor'[m].flags = sensor[m].flags
<1> DEFINE s == sensor[m]
           r == OnAck(s, ack)
<1>1. ack \in Ack /\ s \in Sensor /\ LinkOK(s)
  BY DEF NetTypeInv, TypeOK, SendAck
<1>2. CASE m \notin heard
  BY <1>2 DEF SendAck
<1>3. CASE m \in heard
  <2>1. s.link = "waiting" /\ s.addr = ack.to /\ sensor'[m] = StepOn(r)
    BY <1>3 DEF SendAck
  <2>2. r \in Sensor /\ (r.stage = "enrol" \/ r.left > 0)
    BY <1>1, <2>1, OnAckType DEF LinkOK
  <2>3. /\ sensor'[m].addr = r.addr /\ sensor'[m].flags = r.flags
        /\ sensor'[m].stage # "enrol"
    BY <2>1, <2>2, StepOnType
  <2>4. CASE ack.type = "assign" /\ s.stage = "enrol"
    <3>1. r = [s EXCEPT !.addr = ack.id, !.flags = @ \cup {ASSIGNED}]
      BY <2>4 DEF OnAck
    <3> QED BY <1>1, <2>3, <2>4, <3>1 DEF Sensor
  <2>5. CASE ack.type = "flags"
    <3>1. r = [s EXCEPT !.flags = TakeFlags(s.flags, ack.flags)]
      BY <1>1, <2>5 DEF OnAck, Sensor
    <3>2. ASSIGNED \in TakeFlags(s.flags, ack.flags) <=> ASSIGNED \in ack.flags
      BY DEF TakeFlags
    <3> QED BY <1>1, <2>1, <2>3, <2>5, <3>1, <3>2 DEF Sensor
  <2>6. CASE ~(ack.type = "assign" /\ s.stage = "enrol") /\ ack.type # "flags"
    <3>1. r = s
      BY <2>6 DEF OnAck
    <3> QED BY <2>3, <2>6, <3>1
  <2> QED BY <2>4, <2>5, <2>6
<1> QED BY <1>2, <1>3

LEMMA AddressStep ==
  NetTypeInv /\ SaneAddress /\ [Next]_vars => SaneAddress'
<1> SUFFICES ASSUME NetTypeInv, SaneAddress, [Next]_vars, NEW m \in UUID
             PROVE  sensor'[m].addr \in {Home[m]} \cup TableId
  BY DEF SaneAddress
<1>1. sensor[m].addr \in {Home[m]} \cup TableId
  BY DEF SaneAddress
<1>2. CASE UNCHANGED sensor
  BY <1>1, <1>2
<1>3. ASSUME NEW n \in UUID, SensorStep(n)
      PROVE  sensor'[m].addr \in {Home[m]} \cup TableId
  BY <1>1, <1>3, SensorStepEffect
<1>4. ASSUME NEW heard \in SUBSET UUID, SendAck(heard)
      PROVE  sensor'[m].addr \in {Home[m]} \cup TableId
  <2>1. ack.type = "assign" => ack.id \in TableId
    BY <1>4 DEF NetTypeInv, TypeOK, SendAck, Ack
  <2> QED BY <1>1, <1>4, <2>1, SendAckEffect
<1>5. ASSUME NEW n \in UUID, SensorRestart(n)
      PROVE  sensor'[m].addr \in {Home[m]} \cup TableId
  BY <1>1, <1>5 DEF SensorRestart, Boot, NetTypeInv, TypeOK
<1> QED BY <1>2, <1>3, <1>4, <1>5
       DEF Next, vars, GatewayReceive, HostRequest, GatewayRestart

\* No ACK, whatever it answers and whoever overhears it, makes a sensor take
\* an address that is neither its NODE_ID nor an id of the table.
THEOREM AddressesAreSane == Spec => []SaneAddress
<1>1. Init => SaneAddress
  <2>1. \A n \in UUID : Boot(n).addr = Home[n]
    BY DEF Boot
  <2> QED BY <2>1 DEF Init, SaneAddress
<1> QED BY <1>1, AddressStep, NetTypeInvariant, PTL DEF Spec

LEMMA MoveStep ==
  ASSUME NetTypeInv, GrantIsOwned, [Next]_vars, NEW m \in UUID,
         sensor'[m].addr # sensor[m].addr
  PROVE  \/ ASSIGNED \in FlagsOf(sensor'[m].addr) /\ ASSIGNED \in sensor'[m].flags
         \/ sensor'[m] = Boot(m)
<1>1. CASE UNCHANGED sensor
  BY <1>1
<1>2. ASSUME NEW n \in UUID, SensorStep(n) PROVE FALSE
  BY <1>2, SensorStepEffect
<1>3. ASSUME NEW heard \in SUBSET UUID, SendAck(heard)
      PROVE  ASSIGNED \in FlagsOf(sensor'[m].addr) /\ ASSIGNED \in sensor'[m].flags
  <2>1. ack.type = "assign" /\ sensor'[m].addr = ack.id /\ ASSIGNED \in sensor'[m].flags
    BY <1>3, SendAckEffect
  <2>2. PICK i \in Slot : ack.id = i + AUTO_NODE_OFFSET
    BY <1>3, <2>1 DEF NetTypeInv, TypeOK, SendAck, Ack, TableId
  <2>3. Index(ack.id) = i
    BY <2>2, IndexOfId
  <2> QED BY <2>1, <2>3 DEF FlagsOf, GrantIsOwned
<1>4. ASSUME NEW n \in UUID, SensorRestart(n) PROVE sensor'[m] = Boot(m)
  BY <1>4 DEF SensorRestart, NetTypeInv, TypeOK
<1> QED BY <1>1, <1>2, <1>3, <1>4
       DEF Next, vars, GatewayReceive, HostRequest, GatewayRestart

\* A sensor changes its address only to an id that the gateway's table holds
\* as assigned at that very moment.
THEOREM MovesAreToAssignedIds == Spec => MovesOnlyToAssignedId
<1> DEFINE A == \A n \in UUID :
                  sensor'[n].addr # sensor[n].addr =>
                     \/ ASSIGNED \in FlagsOf(sensor'[n].addr) /\ ASSIGNED \in sensor'[n].flags
                     \/ sensor'[n] = Boot(n)
<1>1. NetTypeInv /\ GrantIsOwned /\ [Next]_vars => A
  BY MoveStep
<1>2. [](NetTypeInv /\ GrantIsOwned) /\ [][Next]_vars => [][A]_vars
  <2> HIDE DEF A
  <2> QED BY <1>1, PTL
<1> QED BY <1>2, NetInvariant, PTL DEF Spec, MovesOnlyToAssignedId

----------------------------------------------------------------------------
(* A descriptor request leaves the table only in an ACK.                    *)

LEMMA RequestStep ==
  ASSUME NetTypeInv, [Next]_vars, NEW i \in Slot,
         REQUEST \in nodes[i].flags, REQUEST \notin nodes'[i].flags
  PROVE  \/ /\ ack'.type = "flags" /\ REQUEST \in ack'.flags
            /\ ack'.to = i + AUTO_NODE_OFFSET
         \/ nodes' = EmptyTable
<1>1. nodes \in [Slot -> Node]
  BY DEF NetTypeInv, TypeOK
<1>2. CASE UNCHANGED nodes
  BY <1>2
<1>3. ASSUME NEW id \in HostIds, HostRequest(id) PROVE FALSE
  BY <1>1, <1>3 DEF HostRequest, SetFlag
<1>4. CASE GatewayRestart
  BY <1>4 DEF GatewayRestart, ClearTable
<1>5. ASSUME NEW uuid, NEW station, NEW id, AssignNode(uuid, station, id)
      PROVE  FALSE
  BY <1>1, <1>5 DEF AssignNode, Take
<1>6. CASE /\ fifo.type = "data" /\ ClearFlags(fifo.src)
           /\ ack' = [type |-> "flags", to |-> fifo.src, flags |-> FlagsOf(fifo.src)]
           /\ GatewayReceive
  <2>1. fifo.src \in StationId
    BY <1>6 DEF NetTypeInv, TypeOK, GatewayReceive, Frame
  <2>2. Index(fifo.src) = i
    BY <1>1, <1>6 DEF ClearFlags
  <2>3. fifo.src = i + AUTO_NODE_OFFSET
    BY <2>1, <2>2, IdOfIndex
  <2> QED BY <1>6, <2>2, <2>3 DEF FlagsOf
<1>7. CASE GatewayReceive
  BY <1>2, <1>5, <1>6, <1>7 DEF GatewayReceive, AnswerUuid, AnswerData
<1> QED BY <1>2, <1>3, <1>4, <1>7
       DEF Next, vars, SensorStep, Reading, Enrol, Descriptors, Transmit, Timeout,
           SendAck, SensorRestart

\* The gateway gives up a descriptor request only by putting it into an ACK to
\* the id it was made for, or by losing the whole table.
THEOREM RequestsLeaveInAcks == Spec => RequestLeavesInAck
<1> DEFINE A == \A i \in Slot :
                  REQUEST \in nodes[i].flags /\ REQUEST \notin nodes'[i].flags =>
                     \/ /\ ack'.type = "flags" /\ REQUEST \in ack'.flags
                        /\ ack'.to = i + AUTO_NODE_OFFSET
                     \/ nodes' = EmptyTable
<1>1. NetTypeInv /\ [Next]_vars => A
  BY RequestStep
<1>2. []NetTypeInv /\ [][Next]_vars => [][A]_vars
  <2> HIDE DEF A
  <2> QED BY <1>1, PTL
<1> QED BY <1>2, NetTypeInvariant, PTL DEF Spec, RequestLeavesInAck

----------------------------------------------------------------------------
(* One slot per sensor, while the gateway keeps its table and the host asks *)
(* for no descriptors: until then the invariant QuietInv is inductive.      *)

\* The strengthened invariant.
NetInv == NetTypeInv /\ GrantIsOwned /\ QuietInv

LEMMA TableIdIndex ==
  ASSUME NEW id \in TableId
  PROVE  Index(id) \in Slot /\ id = Index(id) + AUTO_NODE_OFFSET /\ id # Unconfigured
<1>1. PICK i \in Slot : id = i + AUTO_NODE_OFFSET
  BY DEF TableId
<1>2. Index(id) = i
  BY <1>1, IndexOfId
<1>3. Unconfigured \in 0 .. 255
  BY TableAssumption
<1>4. id # Unconfigured
  BY <1>1, <1>3, TableAssumption DEF Slot
<1> QED BY <1>1, <1>2, <1>4

LEMMA QuietInit == Init => QuietInv
<1> SUFFICES ASSUME Init PROVE QuietInv
  OBVIOUS
<1>1. \A i \in Slot : nodes[i].flags = {} /\ nodes[i].uuid = NoUUID
  BY DEF Init, TableInit, EmptyTable
<1>2. \A n \in UUID : sensor[n].addr = Home[n] /\ sensor[n].stage = "readings"
  BY DEF Init, Boot
<1>3. fifo.type = "nothing" /\ ack.type = "nothing"
  BY DEF Init, Nothing
<1> QED BY <1>1, <1>2, <1>3, TableAssumption
       DEF QuietInv, AckTellsAssigned, MovedIsAssigned, AsksFromHome,
           SearchFindsSlot, OneSlot

\* Only a sensor at its NODE_ID asks for an id.
LEMMA NeedyIsHome ==
  ASSUME MovedIsAssigned, NEW n \in UUID, NeedsId(sensor[n])
  PROVE  sensor[n].addr = Home[n]
<1> QED BY TableIdIndex DEF MovedIsAssigned, NeedsId

\* Steps of a sensor.
LEMMA QuietSensorStep ==
  ASSUME NetInv, NEW n \in UUID, SensorStep(n)
  PROVE  QuietInv'
<1> USE DEF NetInv
<1>1. UNCHANGED <<nodes, ack>>
  BY DEF SensorStep, Reading, Enrol, Descriptors, Transmit, Timeout
<1>2. MovedIsAssigned'
  BY <1>1, SensorStepEffect DEF QuietInv, MovedIsAssigned
<1>3. \A m \in UUID : sensor'[m].stage = "enrol" => sensor'[m].addr = Home[m]
  BY SensorStepEffect, NeedyIsHome DEF QuietInv, AsksFromHome
<1>4. fifo'.type = "uuid" => fifo'.src = Home[fifo'.uuid]
  <2>1. CASE UNCHANGED fifo
    BY <2>1 DEF QuietInv, AsksFromHome
  <2>2. CASE Transmit(n) /\ fifo' # fifo
    <3>1. fifo' = [type |-> IF sensor[n].stage = "enrol" THEN "uuid" ELSE "data",
                   src |-> sensor[n].addr, uuid |-> n]
      BY <2>2 DEF Transmit
    <3> QED BY <3>1 DEF QuietInv, AsksFromHome
  <2> QED BY <2>1, <2>2 DEF SensorStep, Reading, Enrol, Descriptors, Timeout
<1> QED BY <1>1, <1>2, <1>3, <1>4
       DEF QuietInv, AckTellsAssigned, AsksFromHome, SearchFindsSlot, OneSlot

\* An ACK reaches the sensors.
LEMMA QuietSendAck ==
  ASSUME NetInv, NEW heard \in SUBSET UUID, SendAck(heard)
  PROVE  QuietInv'
<1> USE DEF NetInv
<1>1. UNCHANGED <<nodes, fifo>> /\ ack' = Nothing
  BY DEF SendAck
<1>2. ASSUME NEW m \in UUID
      PROVE  /\ sensor'[m].stage = "enrol" => sensor'[m].addr = Home[m]
             /\ \/ sensor'[m].addr = Home[m]
                \/ /\ sensor'[m].addr \in TableId /\ ASSIGNED \in sensor'[m].flags
                   /\ ASSIGNED \in nodes[Index(sensor'[m].addr)].flags
  <2>1. CASE sensor'[m] = sensor[m]
    BY <2>1 DEF QuietInv, AsksFromHome, MovedIsAssigned
  <2>2. CASE /\ ack.type = "assign" /\ sensor'[m].addr = ack.id
             /\ sensor'[m].stage # "enrol" /\ ASSIGNED \in sensor'[m].flags
    <3>1. ack.id \in TableId
      BY <2>2 DEF NetTypeInv, TypeOK, SendAck, Ack
    <3> QED BY <2>2, <3>1 DEF GrantIsOwned
  <2>3. CASE /\ ack.type = "flags" /\ sensor[m].addr = ack.to
             /\ sensor'[m].addr = sensor[m].addr /\ sensor'[m].stage # "enrol"
             /\ ASSIGNED \in sensor'[m].flags <=> ASSIGNED \in ack.flags
    BY <2>3, TableIdIndex DEF QuietInv, MovedIsAssigned, AckTellsAssigned
  <2>4. CASE /\ sensor'[m].addr = sensor[m].addr /\ sensor'[m].stage # "enrol"
             /\ sensor'[m].flags = sensor[m].flags
    BY <2>4 DEF QuietInv, MovedIsAssigned
  <2> QED BY <2>1, <2>2, <2>3, <2>4, SendAckEffect
<1>3. MovedIsAssigned' /\ AsksFromHome'
  BY <1>1, <1>2 DEF QuietInv, MovedIsAssigned, AsksFromHome
<1> QED BY <1>1, <1>3
       DEF QuietInv, AckTellsAssigned, SearchFindsSlot, OneSlot, Nothing

\* A search that starts at the NODE_ID of its sensor keeps the table in order.
LEMMA SearchStep ==
  ASSUME TableInv, SearchFindsSlot, OneSlot,
         \A i \in Slot : REQUEST \notin nodes[i].flags,
         NEW n \in UUID, NEW id, AssignNode(n, Home[n], id)
  PROVE  /\ SearchFindsSlot' /\ OneSlot'
         /\ \A i \in Slot : /\ REQUEST \notin nodes'[i].flags
                            /\ ASSIGNED \in nodes[i].flags => ASSIGNED \in nodes'[i].flags
<1> DEFINE c == Index(Home[n])
<1>1. nodes \in [Slot -> Node]
  BY DEF TableInv, TableTypeOK
<1>2. \A i \in Slot : nodes[i].flags = {} <=> nodes[i].uuid \notin UUID
  BY <1>1 DEF TableInv, OwnerIffAssigned, Node, Flags
<1>3. CASE UNCHANGED nodes
  BY <1>3 DEF SearchFindsSlot, OneSlot
<1>4. ASSUME NEW i \in Slot, FirstFrom(c, n, i), nodes[i].flags = {},
             nodes' = [nodes EXCEPT ![i] = [uuid |-> n, flags |-> {ASSIGNED}]]
      PROVE  /\ SearchFindsSlot' /\ OneSlot'
             /\ \A k \in Slot : /\ REQUEST \notin nodes'[k].flags
                                /\ ASSIGNED \in nodes[k].flags => ASSIGNED \in nodes'[k].flags
  <2>1. /\ nodes'[i] = [uuid |-> n, flags |-> {ASSIGNED}]
        /\ \A k \in Slot : k # i => nodes'[k] = nodes[k]
    BY <1>1, <1>4
  <2>2. \A k \in Slot : nodes[k].uuid # n
    <3> SUFFICES ASSUME NEW k \in Slot, nodes[k].uuid = n PROVE FALSE
      OBVIOUS
    <3>1. c <= k /\ \A j \in Slot : c <= j /\ j < k => nodes[j].flags # {}
      BY DEF SearchFindsSlot
    <3>2. Stops(n, k) /\ k # i
      BY <1>2, <1>4 DEF Stops
    <3>3. c <= i /\ ~(k < i)
      BY <1>4, <3>1, <3>2 DEF FirstFrom
    <3>4. i < k
      BY <3>2, <3>3, TableAssumption DEF Slot
    <3> QED BY <1>4, <3>1, <3>3, <3>4
  <2>3. OneSlot'
    <3> SUFFICES ASSUME NEW j \in Slot, NEW k \in Slot,
                        nodes'[j].uuid = nodes'[k].uuid, j # k
                 PROVE  nodes'[j].uuid = NoUUID
      BY DEF OneSlot
    <3>1. CASE j # i /\ k # i
      BY <2>1, <3>1 DEF OneSlot
    <3>2. CASE j = i \/ k = i
      BY <2>1, <2>2, <3>2
    <3> QED BY <3>1, <3>2
  <2>4. SearchFindsSlot'
    <3> SUFFICES ASSUME NEW m \in UUID, NEW k \in Slot, nodes'[k].uuid = m
                 PROVE  /\ Index(Home[m]) <= k
                        /\ \A j \in Slot : Index(Home[m]) <= j /\ j < k => nodes'[j].flags # {}
      BY DEF SearchFindsSlot
    <3>1. \A j \in Slot : nodes[j].flags # {} => nodes'[j].flags # {}
      BY <2>1
    <3>2. CASE k # i
      BY <2>1, <3>1, <3>2 DEF SearchFindsSlot
    <3>3. CASE k = i
      <4>1. m = n
        BY <2>1, <3>3
      <4>2. c <= i /\ \A j \in Slot : c <= j /\ j < i => nodes[j].flags # {}
        BY <1>4 DEF FirstFrom, Stops
      <4> QED BY <3>1, <3>3, <4>1, <4>2
    <3> QED BY <3>2, <3>3
  <2>5. \A k \in Slot : /\ REQUEST \notin nodes'[k].flags
                        /\ ASSIGNED \in nodes[k].flags => ASSIGNED \in nodes'[k].flags
    BY <2>1 DEF ASSIGNED, REQUEST
  <2> QED BY <2>3, <2>4, <2>5
<1> QED BY <1>3, <1>4 DEF AssignNode, Take

\* The gateway handles a frame.
LEMMA QuietGatewayReceive ==
  ASSUME NetInv, GatewayReceive
  PROVE  QuietInv'
<1> USE DEF NetInv
<1>1. fifo \in Frame /\ TableInv
  BY TableOfNet DEF GatewayReceive, NetTypeInv, TypeOK
<1>2. fifo.src \in StationId /\ fifo.uuid \in UUID /\ fifo'.type = "nothing"
  BY <1>1 DEF Frame, GatewayReceive, Nothing
<1>3. UNCHANGED sensor
  BY DEF GatewayReceive
<1>4. AsksFromHome'
  BY <1>2, <1>3 DEF QuietInv, AsksFromHome
<1>5. ASSUME \A i \in Slot : ASSIGNED \in nodes[i].flags => ASSIGNED \in nodes'[i].flags
      PROVE  MovedIsAssigned'
  BY <1>3, <1>5, TableIdIndex DEF QuietInv, MovedIsAssigned
<1>6. CASE AnswerUuid
  <2>1. fifo.src = Home[fifo.uuid]
    BY <1>6 DEF QuietInv, AsksFromHome, AnswerUuid
  <2>2. PICK id : AssignNode(fifo.uuid, Home[fifo.uuid], id)
    BY <1>6, <2>1 DEF AnswerUuid
  <2>3. /\ SearchFindsSlot' /\ OneSlot'
        /\ \A i \in Slot : /\ REQUEST \notin nodes'[i].flags
                           /\ ASSIGNED \in nodes[i].flags => ASSIGNED \in nodes'[i].flags
    BY <1>1, <1>2, <2>2, SearchStep DEF QuietInv
  <2>4. ack'.type # "flags"
    BY <1>6 DEF AnswerUuid
  <2> QED BY <1>4, <1>5, <2>3, <2>4 DEF QuietInv, AckTellsAssigned
<1>7. CASE AnswerData
  <2>1. nodes' = nodes
    <3>1. CASE ClearFlags(fifo.src) /\ Index(fifo.src) \in Slot
      <4> DEFINE k == Index(fifo.src)
      <4>1. nodes[k] \in Node /\ nodes[k].flags \cap {ASSIGNED} = nodes[k].flags
        BY <1>1, <3>1 DEF QuietInv, TableInv, TableTypeOK, Node, Flags
      <4>2. [nodes[k] EXCEPT !.flags = nodes[k].flags \cap {ASSIGNED}] = nodes[k]
        BY <4>1 DEF Node
      <4>3. nodes' = [nodes EXCEPT ![k] = nodes[k]]
        BY <3>1, <4>1, <4>2 DEF ClearFlags
      <4> QED BY <1>1, <4>3 DEF TableInv, TableTypeOK
    <3> QED BY <1>7, <3>1 DEF AnswerData, ClearFlags
  <2>2. AckTellsAssigned'
    BY <1>7, <2>1 DEF AnswerData, AckTellsAssigned, FlagsOf
  <2> QED BY <1>4, <1>5, <2>1, <2>2 DEF QuietInv, SearchFindsSlot, OneSlot
<1> QED BY <1>6, <1>7 DEF GatewayReceive

LEMMA QuietSensorRestart ==
  ASSUME NetInv, NEW n \in UUID, SensorRestart(n)
  PROVE  QuietInv'
<1> USE DEF NetInv
<1>1. /\ \A m \in UUID : m # n => sensor'[m] = sensor[m]
      /\ sensor'[n].addr = Home[n]
  BY DEF SensorRestart, Boot, NetTypeInv, TypeOK
<1>2. UNCHANGED <<nodes, fifo, ack>>
  BY DEF SensorRestart
<1> QED BY <1>1, <1>2
       DEF QuietInv, AckTellsAssigned, MovedIsAssigned, AsksFromHome,
           SearchFindsSlot, OneSlot

\* As long as the host has asked for nothing and the gateway has kept its table,
\* assign_node never gives a sensor a second slot, however many sensors share a
\* NODE_ID, whatever is lost, late or overheard, and however often sensors
\* restart.
THEOREM OneSlotForEach == Spec => []OneSlotPerSensor
<1> DEFINE Inv == Undisturbed => QuietInv
<1>1. Init => Inv
  BY QuietInit
<1>2. ASSUME NetTypeInv, GrantIsOwned, Inv, [Next]_vars PROVE Inv'
  <2> SUFFICES ASSUME Undisturbed' PROVE QuietInv'
    OBVIOUS
  <2>1. CASE UNCHANGED vars
    BY <1>2, <2>1
       DEF vars, Undisturbed, QuietInv, AckTellsAssigned, MovedIsAssigned,
           AsksFromHome, SearchFindsSlot, OneSlot
  <2>2. /\ history.sensors \in Nat /\ history.gateway \in Nat
        /\ history = [sensors |-> history.sensors, gateway |-> history.gateway,
                      requested |-> history.requested]
    BY <1>2, NetAssumption DEF NetTypeInv, TypeOK
  <2>3. ~GatewayRestart
    BY <2>2 DEF GatewayRestart, Undisturbed
  <2>4. \A id \in HostIds : ~HostRequest(id)
    BY <2>2 DEF HostRequest, Undisturbed
  <2>5. CASE \E n \in UUID : SensorRestart(n)
    <3>1. Undisturbed
      BY <2>2, <2>5 DEF SensorRestart, Undisturbed
    <3> QED BY <1>2, <2>5, <3>1, QuietSensorRestart DEF NetInv
  <2>6. CASE UNCHANGED history
    <3>1. NetInv
      BY <1>2, <2>6 DEF NetInv, Undisturbed
    <3> QED BY <1>2, <2>1, <2>3, <2>4, <2>5, <3>1, QuietSensorStep,
               QuietGatewayReceive, QuietSendAck DEF Next
  <2>7. /\ \A n \in UUID : SensorStep(n) => UNCHANGED history
        /\ GatewayReceive => UNCHANGED history
        /\ \A heard : SendAck(heard) => UNCHANGED history
    BY DEF SensorStep, Reading, Enrol, Descriptors, Transmit, Timeout, GatewayReceive,
           SendAck
  <2> QED BY <1>2, <2>1, <2>3, <2>4, <2>5, <2>6, <2>7 DEF Next
<1>3. Inv => OneSlotPerSensor
  BY DEF QuietInv, OneSlotPerSensor
<1>4. [](NetTypeInv /\ GrantIsOwned) /\ Inv /\ [][Next]_vars => []Inv
  BY <1>2, PTL
<1> QED BY <1>1, <1>3, <1>4, NetInvariant, PTL DEF Spec
=============================================================================
