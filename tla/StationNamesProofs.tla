------------------------- MODULE StationNamesProofs -------------------------
(* Proofs about the names of readings: any number of sensors whose NODE_IDs *)
(* differ, any table, any number of packets on the FastBus and of restarts. *)
(* The one idea behind them: without a slot that the host reserves before   *)
(* it has an owner, no sensor is ever given an id other than its NODE_ID.   *)
EXTENDS StationNames, SensorNetProofs, SequenceTheorems

\* The condition on the boards' configuration.
HomesDiffer == \A m, n \in UUID : Home[m] = Home[n] => m = n

Stage == {"readings", "enrol", "descriptors"}
Packet == [stage : Stage, id : StationId, uuid : UUID]
HostCommand == [cmd : {"req_addr", "req_descriptors"}, id : StationId]

NamesTypes ==
    /\ NetTypeInv
    /\ carried \in Stage
    /\ up \in Seq(Packet) /\ down \in Seq(HostCommand)
    /\ hosts \in [StationId -> UUID \cup {NoUUID}]

\* Sensors, table, frame and ACK: every id is the NODE_ID of who has it.
StaysHome == \A n \in UUID : sensor[n].addr = Home[n]

SlotsOfHomes ==
    \A i \in Slot : nodes[i].flags # {} =>
       nodes[i].uuid \in UUID /\ Home[nodes[i].uuid] = i + AUTO_NODE_OFFSET

FrameFromHome ==
    fifo # Nothing => /\ fifo.src = Home[fifo.uuid]
                      /\ carried = "enrol" <=> fifo.type = "uuid"

GrantOfHome ==
    ack.type = "assign" => ack.to = Home[ack.asker] /\ ack.id = Home[ack.asker]

NetHome == StaysHome /\ SlotsOfHomes /\ FrameFromHome /\ GrantOfHome

\* FastBus and host: descriptors are asked for only of an id that the host has
\* a UUID for, and that one has its slot by then.
Owned(id) == Index(id) \in Slot => nodes[Index(id)].flags # {}

PacketOK(p) == Home[p.uuid] = p.id /\ (p.stage = "enrol" => Owned(p.id))
CommandOK(c) == c.cmd = "req_descriptors" => Owned(c.id)

PacketsFromHome == \A i \in 1 .. Len(up) : PacketOK(up[i])
CommandsForOwned == \A i \in 1 .. Len(down) : CommandOK(down[i])
HostsOfHomes ==
    \A id \in StationId : hosts[id] # NoUUID => Home[hosts[id]] = id /\ Owned(id)

BusHome == PacketsFromHome /\ CommandsForOwned /\ HostsOfHomes

\* The inductive invariant.
NamesInv == NamesTypes /\ NetHome /\ BusHome

----------------------------------------------------------------------------
LEMMA InitNames == NamesInit => NamesInv
<1> SUFFICES ASSUME NamesInit PROVE NamesInv
  OBVIOUS
<1>1. NamesTypes
  BY InitTypeInv DEF NamesInit, NamesTypes, Stage, Unknown
<1>2. NetHome
  BY DEF NamesInit, Init, TableInit, EmptyTable, Boot, Nothing,
         NetHome, StaysHome, SlotsOfHomes, FrameFromHome, GrantOfHome
<1>3. BusHome
  BY DEF NamesInit, Unknown, BusHome, PacketsFromHome, CommandsForOwned, HostsOfHomes
<1> QED BY <1>1, <1>2, <1>3 DEF NamesInv

\* A sequence with one element more or without its first has nothing new.
LEMMA PutPacket ==
  ASSUME up \in Seq(Packet), NEW p \in Packet, up' = Put(up, p)
  PROVE  /\ up' \in Seq(Packet)
         /\ \A i \in 1 .. Len(up') : up'[i] = p \/ \E j \in 1 .. Len(up) : up'[i] = up[j]
<1>1. CASE up' = up
  BY <1>1
<1>2. CASE up' = Append(up, p)
  <2>1. up' \in Seq(Packet) /\ Len(up') = Len(up) + 1
    BY <1>2
  <2>2. \A i \in 1 .. Len(up') : up'[i] = IF i <= Len(up) THEN up[i] ELSE p
    BY <1>2, <2>1
  <2> QED BY <2>1, <2>2
<1> QED BY <1>1, <1>2 DEF Put

LEMMA PutRequest ==
  ASSUME down \in Seq(HostCommand), NEW c \in HostCommand, down' = Put(down, c)
  PROVE  /\ down' \in Seq(HostCommand)
         /\ \A i \in 1 .. Len(down') : down'[i] = c \/ \E j \in 1 .. Len(down) : down'[i] = down[j]
<1>1. CASE down' = down
  BY <1>1
<1>2. CASE down' = Append(down, c)
  <2>1. down' \in Seq(HostCommand) /\ Len(down') = Len(down) + 1
    BY <1>2
  <2>2. \A i \in 1 .. Len(down') : down'[i] = IF i <= Len(down) THEN down[i] ELSE c
    BY <1>2, <2>1
  <2> QED BY <2>1, <2>2
<1> QED BY <1>1, <1>2 DEF Put

LEMMA TakeFirst ==
  ASSUME NEW S, NEW q \in Seq(S), q # <<>>
  PROVE  /\ Head(q) = q[1] /\ q[1] \in S /\ Tail(q) \in Seq(S) /\ 1 \in 1 .. Len(q)
         /\ \A i \in 1 .. Len(Tail(q)) : \E j \in 1 .. Len(q) : Tail(q)[i] = q[j]
<1>1. Len(q) \in Nat /\ Len(q) > 0
  OBVIOUS
<1>2. Tail(q) \in Seq(S) /\ Len(Tail(q)) = Len(q) - 1
  OBVIOUS
<1>3. \A i \in 1 .. Len(Tail(q)) : i + 1 \in 1 .. Len(q) /\ Tail(q)[i] = q[i + 1]
  BY <1>1, <1>2
<1> QED BY <1>1, <1>2, <1>3

\* As long as the table keeps every slot that is taken, so do the FastBus's
\* packets and commands and the host's ids.
LEMMA OwnedKept ==
  ASSUME \A i \in Slot : nodes[i].flags # {} => nodes'[i].flags # {}
  PROVE  \A id : Owned(id) => Owned(id)'
<1> QED BY DEF Owned

----------------------------------------------------------------------------
(* Sensors and gateway.                                                     *)

\* A sensor that asks from its NODE_ID gets it, or nothing.
LEMMA AssignHome ==
  ASSUME HomesDiffer, TableInv, SlotsOfHomes, NEW n \in UUID, NEW id,
         AssignNode(n, Home[n], id)
  PROVE  /\ SlotsOfHomes' /\ Owned(Home[n])'
         /\ id \in TableId => id = Home[n]
         /\ \A i \in Slot : nodes[i].flags # {} => nodes'[i].flags # {}
<1> DEFINE c == Index(Home[n])
<1>1. nodes \in [Slot -> Node] /\ Home[n] \in StationId /\ Home \in [UUID -> StationId]
  BY NetAssumption DEF TableInv, TableTypeOK
<1>2. CASE c \in Slot
  <2>1. Home[n] = c + AUTO_NODE_OFFSET
    BY <1>1, <1>2, IdOfIndex
  <2>2. Stops(n, c)
    BY <1>2, <2>1 DEF SlotsOfHomes, HomesDiffer, Stops
  <2>3. ASSUME NEW i \in Slot, FirstFrom(c, n, i) PROVE i = c
    <3> HIDE DEF c
    <3>1. c \in Int /\ i \in Int
      BY <1>2 DEF Slot
    <3>2. c <= i /\ ~(c < i)
      BY <1>2, <2>2, <2>3, <3>1 DEF FirstFrom
    <3> QED BY <3>1, <3>2
  <2>4. ~(\A i \in Slot : c <= i => ~Stops(n, i))
    BY <1>2, <2>2 DEF Slot
  <2>5. id = c + AUTO_NODE_OFFSET /\ Take(c, n, c)
    <3> HIDE DEF c
    <3> QED BY <2>3, <2>4 DEF AssignNode, c
  <2>6. CASE nodes[c].flags = {}
    <3>1. nodes' = [nodes EXCEPT ![c] = [uuid |-> n, flags |-> {ASSIGNED}]]
      BY <2>5, <2>6 DEF Take
    <3>2. /\ nodes'[c].uuid = n /\ nodes'[c].flags # {}
          /\ \A i \in Slot : i # c => nodes'[i] = nodes[i]
      BY <1>1, <1>2, <3>1
    <3> QED BY <1>2, <2>1, <2>5, <2>6, <3>2 DEF SlotsOfHomes, Owned
  <2>7. CASE nodes[c].flags # {}
    <3>1. nodes' = nodes
      BY <2>5, <2>7 DEF Take
    <3> QED BY <1>2, <2>1, <2>5, <2>7, <3>1 DEF SlotsOfHomes, Owned
  <2> QED BY <2>6, <2>7
<1>3. CASE c \notin Slot
  <2>1. c \in Nat /\ c >= NODES_LENGTH
    <3>1. Home[n] \in Int /\ AUTO_NODE_OFFSET \in Int /\ NODES_LENGTH \in Nat
      <4>1. Home[n] \in 0 .. 255
        BY <1>1, TableAssumption
      <4>2. AUTO_NODE_OFFSET \in Nat /\ NODES_LENGTH \in Nat
        BY TableAssumption
      <4> QED BY <4>1, <4>2
    <3>2. (Home[n] - AUTO_NODE_OFFSET) % 256 \in 0 .. 255
      BY <3>1
    <3> QED BY <1>3, <3>1, <3>2 DEF Index, Slot
  <2>2. \A i \in Slot : ~(c <= i)
    BY <2>1, TableAssumption DEF Slot
  <2>3. id = NoId /\ nodes' = nodes
    <3> HIDE DEF c
    <3> QED BY <2>2 DEF AssignNode, FirstFrom, c
  <2>4. NoId \notin TableId
    BY TableAssumption DEF NoId, TableId, Slot
  <2> QED BY <1>3, <2>3, <2>4 DEF SlotsOfHomes, Owned
<1> QED BY <1>2, <1>3

\* What the gateway does with a frame, whatever it answers.
LEMMA ReceiveHome ==
  ASSUME HomesDiffer, NetTypeInv, NetHome, GatewayReceive
  PROVE  /\ NetHome'
         /\ \A id : fifo.type = "uuid" /\ id = fifo.src => Owned(id)'
         /\ \A i \in Slot : nodes[i].flags # {} => nodes'[i].flags # {}
<1>1. fifo \in Frame /\ TableInv /\ fifo.src = Home[fifo.uuid] /\ UNCHANGED sensor
      /\ fifo' = Nothing
  BY TableOfNet DEF GatewayReceive, NetTypeInv, TypeOK, NetHome, FrameFromHome
<1>2. fifo.uuid \in UUID /\ StaysHome' /\ FrameFromHome'
  BY <1>1 DEF Frame, NetHome, StaysHome, FrameFromHome
<1>3. CASE AnswerUuid
  <2>0. PICK n \in UUID : n = fifo.uuid
    BY <1>2
  <2>1. PICK id : /\ AssignNode(n, Home[n], id)
                  /\ \/ id \in TableId /\ ack' = [type |-> "assign", to |-> fifo.src,
                                                  id |-> id, asker |-> fifo.uuid]
                     \/ ack' = [type |-> "empty", to |-> fifo.src]
    BY <1>1, <1>3, <2>0 DEF AnswerUuid
  <2>2. /\ SlotsOfHomes' /\ Owned(Home[n])'
        /\ id \in TableId => id = Home[n]
        /\ \A i \in Slot : nodes[i].flags # {} => nodes'[i].flags # {}
    BY <1>1, <2>1, AssignHome DEF NetHome
  <2>3. GrantOfHome'
    BY <1>1, <2>0, <2>1, <2>2 DEF GrantOfHome
  <2> QED BY <1>1, <1>2, <2>0, <2>2, <2>3 DEF NetHome
<1>4. CASE AnswerData
  <2>1. GrantOfHome'
    BY <1>4 DEF AnswerData, GrantOfHome
  <2>2. \A i \in Slot : /\ nodes'[i].uuid = nodes[i].uuid
                        /\ nodes[i].flags # {} <=> nodes'[i].flags # {}
    <3>1. CASE nodes' = nodes
      BY <3>1
    <3>2. CASE ClearFlags(fifo.src) /\ Index(fifo.src) \in Slot
      <4> DEFINE k == Index(fifo.src)
      <4>1. nodes' = [nodes EXCEPT ![k].flags = nodes[k].flags \cap {ASSIGNED}]
        BY <1>1, <3>2 DEF ClearFlags, TableInv, TableTypeOK
      <4>2. nodes \in [Slot -> Node] /\ nodes[k] \in Node
        BY <1>1, <3>2 DEF TableInv, TableTypeOK
      <4>3. nodes[k].flags # {} => ASSIGNED \in nodes[k].flags
        BY <1>1, <3>2 DEF NetHome, SlotsOfHomes, TableInv, OwnerIffAssigned
      <4>4. /\ nodes'[k].uuid = nodes[k].uuid
            /\ nodes'[k].flags = nodes[k].flags \cap {ASSIGNED}
            /\ \A i \in Slot : i # k => nodes'[i] = nodes[i]
        <5> HIDE DEF k
        <5> QED BY <3>2, <4>1, <4>2 DEF Node, k
      <4> QED BY <4>3, <4>4
    <3> QED BY <1>4, <3>1, <3>2 DEF AnswerData, ClearFlags
  <2>3. SlotsOfHomes'
    BY <2>2 DEF NetHome, SlotsOfHomes
  <2>4. fifo.type # "uuid"
    BY <1>4 DEF AnswerData
  <2> QED BY <1>2, <2>1, <2>2, <2>3, <2>4 DEF NetHome
<1> QED BY <1>3, <1>4 DEF GatewayReceive

\* A step of a sensor: it stays where it is, and so says its frame.
LEMMA SensingHome ==
  ASSUME NamesInv, NEW n \in UUID, Sensing(n)
  PROVE  NamesInv'
<1>1. NetTypeInv /\ StaysHome /\ sensor[n] \in Sensor
  BY DEF NamesInv, NamesTypes, NetHome, NetTypeInv, TypeOK
<1>2. UNCHANGED <<nodes, ack, up, down, hosts>>
  BY DEF Sensing, hostVars, SensorStep, Reading, Enrol, Descriptors, Transmit, Timeout,
         SensorRestart
<1>3. NetTypeInv' /\ carried' \in Stage
  BY <1>1, SensorStepType, SensorRestartType
     DEF Sensing, NamesInv, NamesTypes, Sensor, Stage
<1>4. StaysHome'
  <2>1. CASE SensorStep(n)
    BY <1>1, <2>1, SensorStepEffect DEF StaysHome
  <2>2. CASE SensorRestart(n)
    BY <1>1, <2>2 DEF StaysHome, SensorRestart, Boot, NetTypeInv, TypeOK
  <2> QED BY <2>1, <2>2 DEF Sensing
<1>5. FrameFromHome'
  <2>1. CASE fifo' = fifo
    BY <2>1 DEF Sensing, NamesInv, NetHome, FrameFromHome
  <2>2. CASE fifo' # fifo
    <3>1. Transmit(n)
      BY <2>2 DEF Sensing, SensorStep, Reading, Enrol, Descriptors, Timeout, SensorRestart
    <3>2. /\ fifo' = [type |-> IF sensor[n].stage = "enrol" THEN "uuid" ELSE "data",
                      src |-> sensor[n].addr, uuid |-> n]
          /\ carried' = sensor[n].stage
      BY <2>2, <3>1 DEF Transmit, Sensing
    <3> QED BY <1>1, <3>2 DEF FrameFromHome, StaysHome
  <2> QED BY <2>1, <2>2
<1> QED BY <1>2, <1>3, <1>4, <1>5
       DEF NamesInv, NamesTypes, NetHome, BusHome, SlotsOfHomes, GrantOfHome,
           PacketsFromHome, PacketOK, CommandsForOwned, CommandOK, HostsOfHomes, Owned

\* An ACK is heard only where its NODE_ID is, and gives no other.
LEMMA AcknowledgeHome ==
  ASSUME HomesDiffer, NamesInv, NEW heard \in SUBSET UUID, SendAck(heard),
         UNCHANGED <<carried, up, down>>, UNCHANGED hostVars
  PROVE  NamesInv'
<1>1. NetTypeInv /\ NetTypeInv' /\ StaysHome /\ GrantOfHome
  BY SendAckType DEF NamesInv, NamesTypes, NetHome
<1>2. UNCHANGED <<nodes, fifo>> /\ ack' = Nothing /\ ack \in Ack
  BY <1>1 DEF SendAck, NetTypeInv, TypeOK
<1>3. ASSUME NEW m \in UUID PROVE sensor'[m].addr = Home[m]
  <2>1. CASE sensor'[m].addr = sensor[m].addr
    BY <1>1, <2>1 DEF StaysHome
  <2>2. CASE ack.type = "assign" /\ sensor'[m].addr = ack.id /\ sensor'[m] # sensor[m]
    <3>1. sensor[m].addr = ack.to
      BY <2>2 DEF SendAck
    <3>2. ack.asker \in UUID
      BY <1>2, <2>2 DEF Ack
    <3> QED BY <1>1, <2>2, <3>1, <3>2 DEF GrantOfHome, StaysHome, HomesDiffer
  <2> QED BY <1>1, <2>1, <2>2, SendAckEffect
<1>4. NetHome'
  BY <1>2, <1>3 DEF NamesInv, NetHome, StaysHome, SlotsOfHomes, FrameFromHome,
                    GrantOfHome, Nothing
<1> QED BY <1>1, <1>2, <1>4
       DEF NamesInv, NamesTypes, BusHome, PacketsFromHome, PacketOK, CommandsForOwned,
           CommandOK, HostsOfHomes, Owned, hostVars

----------------------------------------------------------------------------
(* FastBus and host.                                                        *)

\* A packet is put on the FastBus, and the rest of it stays right.
LEMMA UpHome ==
  ASSUME NamesTypes, PacketsFromHome, NEW p \in Packet,
         \A i \in Slot : nodes[i].flags # {} => nodes'[i].flags # {},
         Home[p.uuid] = p.id, p.stage = "enrol" => Owned(p.id)',
         up' = Put(up, p)
  PROVE  up' \in Seq(Packet) /\ PacketsFromHome'
<1>1. /\ up' \in Seq(Packet)
      /\ \A i \in 1 .. Len(up') : up'[i] = p \/ \E j \in 1 .. Len(up) : up'[i] = up[j]
  BY PutPacket DEF NamesTypes
<1>2. \A id : Owned(id) => Owned(id)'
  BY OwnedKept
<1>3. ASSUME NEW q, PacketOK(q) PROVE PacketOK(q)'
  BY <1>2, <1>3 DEF PacketOK
<1>4. PacketOK(p)'
  BY DEF PacketOK
<1>5. ASSUME NEW i \in 1 .. Len(up') PROVE PacketOK(up[i])'
  <2>1. PICK q : q = up'[i]
    OBVIOUS
  <2>2. PacketOK(q)'
    BY <1>1, <1>3, <1>4, <2>1 DEF PacketsFromHome
  <2> QED BY <2>1, <2>2
<1> QED BY <1>1, <1>5 DEF PacketsFromHome

\* A command is put on the FastBus, while the table stays.
LEMMA DownHome ==
  ASSUME NamesTypes, CommandsForOwned, NEW c \in HostCommand, CommandOK(c),
         UNCHANGED nodes, down' = Put(down, c)
  PROVE  down' \in Seq(HostCommand) /\ CommandsForOwned'
<1>1. /\ down' \in Seq(HostCommand)
      /\ \A i \in 1 .. Len(down') : down'[i] = c \/ \E j \in 1 .. Len(down) : down'[i] = down[j]
  BY PutRequest DEF NamesTypes
<1> QED BY <1>1 DEF CommandsForOwned, CommandOK, Owned

\* What holds of the bus and of the host's ids goes on to hold while the slots
\* that are taken stay taken.
LEMMA BusKept ==
  ASSUME BusHome, \A i \in Slot : nodes[i].flags # {} => nodes'[i].flags # {}
  PROVE  /\ UNCHANGED up => PacketsFromHome'
         /\ UNCHANGED down => CommandsForOwned'
         /\ UNCHANGED hosts => HostsOfHomes'
<1>1. \A id : Owned(id) => Owned(id)'
  BY OwnedKept
<1>2. ASSUME UNCHANGED up PROVE PacketsFromHome'
  <2>1. ASSUME NEW p, PacketOK(p) PROVE PacketOK(p)'
    BY <1>1, <2>1 DEF PacketOK
  <2>2. ASSUME NEW i \in 1 .. Len(up) PROVE PacketOK(up[i])'
    <3>1. PICK p : p = up[i]
      OBVIOUS
    <3>2. PacketOK(p)'
      BY <2>1, <3>1 DEF BusHome, PacketsFromHome
    <3> QED BY <1>2, <3>1, <3>2
  <2> QED BY <1>2, <2>2 DEF PacketsFromHome
<1>3. ASSUME UNCHANGED down PROVE CommandsForOwned'
  <2>1. ASSUME NEW c, CommandOK(c) PROVE CommandOK(c)'
    BY <1>1, <2>1 DEF CommandOK
  <2>2. ASSUME NEW i \in 1 .. Len(down) PROVE CommandOK(down[i])'
    <3>1. PICK c : c = down[i]
      OBVIOUS
    <3>2. CommandOK(c)'
      BY <2>1, <3>1 DEF BusHome, CommandsForOwned
    <3> QED BY <1>3, <3>1, <3>2
  <2> QED BY <1>3, <2>2 DEF CommandsForOwned
<1>4. ASSUME UNCHANGED hosts PROVE HostsOfHomes'
  BY <1>1, <1>4 DEF BusHome, HostsOfHomes
<1> QED BY <1>2, <1>3, <1>4

LEMMA ForwardHome == HomesDiffer /\ NamesInv /\ Forward => NamesInv'
<1> SUFFICES ASSUME HomesDiffer, NamesInv, Forward PROVE NamesInv'
  OBVIOUS
<1>1. NetTypeInv /\ NetHome /\ BusHome /\ GatewayReceive
  BY DEF NamesInv, NamesTypes, Forward
<1>2. /\ NetHome' /\ \A i \in Slot : nodes[i].flags # {} => nodes'[i].flags # {}
      /\ \A id : fifo.type = "uuid" /\ id = fifo.src => Owned(id)'
  BY <1>1, ReceiveHome
<1>3. NetTypeInv'
  BY <1>1, GatewayReceiveType
<1>4. UNCHANGED <<carried, down, hosts>>
  BY DEF Forward, hostVars
<1>5. PICK p : p = [stage |-> carried, id |-> fifo.src, uuid |-> fifo.uuid]
  OBVIOUS
<1>6. fifo \in Frame /\ carried \in Stage /\ up' = Put(up, p)
  BY <1>1, <1>5 DEF NamesInv, NamesTypes, NetTypeInv, TypeOK, GatewayReceive, Forward
<1>7. p \in Packet /\ Home[p.uuid] = p.id /\ (p.stage = "enrol" => Owned(p.id)')
  BY <1>1, <1>2, <1>5, <1>6 DEF Packet, Frame, NetHome, FrameFromHome, GatewayReceive
<1>8. up' \in Seq(Packet) /\ PacketsFromHome'
  BY <1>1, <1>2, <1>6, <1>7, UpHome DEF NamesInv, BusHome
<1>9. CommandsForOwned' /\ HostsOfHomes'
  BY <1>1, <1>2, <1>4, BusKept
<1> QED BY <1>2, <1>3, <1>4, <1>8, <1>9 DEF NamesInv, NamesTypes, BusHome

LEMMA CommandHome == NamesInv /\ Command => NamesInv'
<1> SUFFICES ASSUME NamesInv, Command PROVE NamesInv'
  OBVIOUS
<1>1. NamesTypes /\ NetTypeInv /\ NetHome /\ BusHome /\ down # <<>> /\ down' = Tail(down)
  BY DEF NamesInv, NamesTypes, Command
<1>2. UNCHANGED <<carried, hosts>>
  BY DEF Command, hostVars
<1>3. PICK c : c = Head(down)
  OBVIOUS
<1>4. /\ c \in HostCommand /\ CommandOK(c) /\ down' \in Seq(HostCommand)
      /\ \A i \in 1 .. Len(down') : \E j \in 1 .. Len(down) : down'[i] = down[j]
  BY <1>1, <1>3, TakeFirst DEF NamesTypes, BusHome, CommandsForOwned
<1>5. ASSUME \A i \in Slot : nodes[i].flags # {} => nodes'[i].flags # {}
      PROVE  CommandsForOwned' /\ HostsOfHomes' /\ (UNCHANGED up => PacketsFromHome')
  <2>1. \A id : Owned(id) => Owned(id)'
    BY <1>5, OwnedKept
  <2>2. ASSUME NEW q, CommandOK(q) PROVE CommandOK(q)'
    BY <2>1, <2>2 DEF CommandOK
  <2>3. ASSUME NEW i \in 1 .. Len(down') PROVE CommandOK(down[i])'
    <3>1. PICK q : q = down'[i]
      OBVIOUS
    <3>2. CommandOK(q)'
      BY <1>1, <1>4, <2>2, <3>1 DEF BusHome, CommandsForOwned
    <3> QED BY <3>1, <3>2
  <2>4. HostsOfHomes' /\ (UNCHANGED up => PacketsFromHome')
    BY <1>1, <1>2, <1>5, BusKept
  <2> QED BY <2>3, <2>4 DEF CommandsForOwned
<1>6. CASE c.cmd = "req_addr" /\ UNCHANGED vars
  <2>1. NetTypeInv' /\ NetHome' /\ UNCHANGED nodes
    BY <1>1, <1>2, <1>6 DEF vars, NetTypeInv, TypeOK, OwnerIffAssigned, LinkOK,
       NetHome, StaysHome, SlotsOfHomes, FrameFromHome, GrantOfHome
  <2>2. up' \in Seq(Packet) /\ PacketsFromHome'
    <3>1. CASE up' = up
      BY <1>1, <1>5, <2>1, <3>1 DEF NamesTypes
    <3>2. CASE ASSIGNED \in FlagsOf(c.id) /\ up' # up
      <4>1. PICK p : p = [stage |-> "enrol", id |-> c.id, uuid |-> nodes[Index(c.id)].uuid]
        OBVIOUS
      <4>2. up' = Put(up, p)
        BY <1>3, <1>6, <3>2, <4>1 DEF Command
      <4>3. Index(c.id) \in Slot /\ nodes[Index(c.id)].flags # {} /\ c.id \in StationId
        BY <1>4, <3>2 DEF FlagsOf, HostCommand
      <4>4. /\ nodes[Index(c.id)].uuid \in UUID
            /\ Home[nodes[Index(c.id)].uuid] = c.id
        BY <1>1, <4>3, IdOfIndex DEF NetHome, SlotsOfHomes
      <4>5. p \in Packet /\ Home[p.uuid] = p.id /\ Owned(p.id)'
        BY <2>1, <4>1, <4>3, <4>4 DEF Packet, Stage, Owned
      <4> QED BY <1>1, <2>1, <4>2, <4>5, UpHome DEF BusHome
    <3> QED BY <1>3, <1>6, <3>1, <3>2 DEF Command
  <2> QED BY <1>1, <1>2, <1>4, <1>5, <2>1, <2>2 DEF NamesInv, NamesTypes, BusHome
<1>7. CASE c.cmd = "req_descriptors" /\ HostRequest(c.id) /\ UNCHANGED up
  <2>1. NetTypeInv' /\ UNCHANGED <<fifo, ack, sensor>> /\ SetFlag(c.id, {REQUEST})
    BY <1>1, <1>7, HostRequestType DEF HostRequest
  <2>2. Owned(c.id) /\ nodes \in [Slot -> Node]
    BY <1>1, <1>4, <1>7 DEF CommandOK, NetTypeInv, TypeOK
  <2>3. \A i \in Slot : /\ nodes'[i].uuid = nodes[i].uuid
                        /\ nodes[i].flags # {} <=> nodes'[i].flags # {}
    <3>1. CASE nodes' = nodes
      BY <3>1
    <3>2. CASE Index(c.id) \in Slot
      <4> DEFINE k == Index(c.id)
      <4>1. nodes' = [nodes EXCEPT ![k].flags = nodes[k].flags \cup ({REQUEST} \ {ASSIGNED})]
        BY <2>1, <2>2, <3>2 DEF SetFlag
      <4>2. nodes[k] \in Node /\ nodes[k].flags # {} /\ k \in Slot
        BY <2>2, <3>2 DEF Owned
      <4>3. /\ nodes'[k].uuid = nodes[k].uuid
            /\ nodes'[k].flags = nodes[k].flags \cup ({REQUEST} \ {ASSIGNED})
            /\ \A i \in Slot : i # k => nodes'[i] = nodes[i]
        <5> HIDE DEF k
        <5> QED BY <2>2, <4>1, <4>2 DEF Node
      <4> QED BY <4>2, <4>3
    <3> QED BY <2>1, <3>1, <3>2 DEF SetFlag
  <2>4. NetHome'
    BY <1>1, <1>2, <2>1, <2>3
       DEF NetHome, StaysHome, SlotsOfHomes, FrameFromHome, GrantOfHome
  <2> QED BY <1>1, <1>2, <1>4, <1>5, <1>7, <2>1, <2>3, <2>4
          DEF NamesInv, NamesTypes, BusHome
<1> QED BY <1>3, <1>6, <1>7 DEF Command

LEMMA HostReadHome == NamesInv /\ HostRead => NamesInv'
<1> SUFFICES ASSUME NamesInv, HostRead PROVE NamesInv'
  OBVIOUS
<1>1. NamesTypes /\ NetTypeInv /\ NetHome /\ BusHome /\ up # <<>> /\ up' = Tail(up)
  BY DEF NamesInv, NamesTypes, HostRead
<1>2. UNCHANGED <<vars, carried>>
  BY DEF HostRead
<1>3. NetTypeInv' /\ NetHome' /\ UNCHANGED nodes /\ carried' \in Stage
  BY <1>1, <1>2 DEF vars, NetTypeInv, TypeOK, OwnerIffAssigned, LinkOK, NamesTypes,
     NetHome, StaysHome, SlotsOfHomes, FrameFromHome, GrantOfHome
<1>4. PICK p : p = Head(up)
  OBVIOUS
<1>5. /\ p \in Packet /\ PacketOK(p) /\ up' \in Seq(Packet)
      /\ \A i \in 1 .. Len(up') : \E j \in 1 .. Len(up) : up'[i] = up[j]
  BY <1>1, <1>4, TakeFirst DEF NamesTypes, BusHome, PacketsFromHome
<1>6. PacketsFromHome'
  BY <1>1, <1>3, <1>5 DEF BusHome, PacketsFromHome, PacketOK, Owned
<1>7. /\ hosts' \in [StationId -> UUID \cup {NoUUID}] /\ HostsOfHomes'
      /\ down' \in Seq(HostCommand) /\ CommandsForOwned'
  <2>1. CASE UNCHANGED <<hosts, down>>
    BY <1>1, <1>3, <2>1 DEF NamesTypes, BusHome, CommandsForOwned, CommandOK, HostsOfHomes, Owned
  <2>2. CASE ReadUuid
    <3>1. /\ hosts' = [hosts EXCEPT ![p.id] = p.uuid] /\ UNCHANGED down
          /\ Home[p.uuid] = p.id /\ Owned(p.id) /\ p.id \in StationId /\ p.uuid \in UUID
      BY <1>4, <1>5, <2>2 DEF ReadUuid, LearnUuid, PacketOK, Packet
    <3>2. hosts' \in [StationId -> UUID \cup {NoUUID}]
      BY <1>1, <3>1 DEF NamesTypes
    <3>3. \A id \in StationId : hosts'[id] = IF id = p.id THEN p.uuid ELSE hosts[id]
      BY <1>1, <3>1 DEF NamesTypes
    <3>4. HostsOfHomes'
      BY <1>1, <1>3, <3>1, <3>3 DEF BusHome, HostsOfHomes, Owned
    <3> QED BY <1>1, <1>3, <3>1, <3>2, <3>4
            DEF NamesTypes, BusHome, CommandsForOwned, CommandOK, Owned
  <2>3. ASSUME NEW cmd \in {"req_addr", "req_descriptors"}, Request(cmd, p.id), UNCHANGED hosts,
               cmd = "req_descriptors" => hosts[p.id] # NoUUID
        PROVE  /\ hosts' \in [StationId -> UUID \cup {NoUUID}] /\ HostsOfHomes'
               /\ down' \in Seq(HostCommand) /\ CommandsForOwned'
    <3>1. PICK c : c = [cmd |-> cmd, id |-> p.id]
      OBVIOUS
    <3>2. c \in HostCommand /\ CommandOK(c) /\ down' = Put(down, c)
      BY <1>1, <1>5, <2>3, <3>1
         DEF HostCommand, CommandOK, Packet, BusHome, HostsOfHomes, Request
    <3>3. down' \in Seq(HostCommand) /\ CommandsForOwned'
      BY <1>1, <1>3, <3>2, DownHome DEF BusHome
    <3> QED BY <1>1, <1>3, <2>3, <3>3 DEF NamesTypes, BusHome, HostsOfHomes, Owned
  <2>4. CASE ReadUnknown
    BY <1>4, <2>3, <2>4 DEF ReadUnknown
  <2>5. CASE ReadDescriptor
    BY <2>1, <2>5 DEF ReadDescriptor
  <2>6. CASE ReadReading
    BY <1>4, <2>1, <2>3, <2>6 DEF ReadReading
  <2> QED BY <2>2, <2>4, <2>5, <2>6 DEF HostRead
<1> QED BY <1>3, <1>5, <1>6, <1>7 DEF NamesInv, NamesTypes, BusHome

\* interface.py starts again and knows nothing.
LEMMA HostRestartHome == NamesInv /\ HostRestart => NamesInv'
<1> SUFFICES ASSUME NamesInv, HostRestart PROVE NamesInv'
  OBVIOUS
<1>1. UNCHANGED <<vars, carried, up, down>> /\ hosts' = Unknown
  BY DEF HostRestart, HostForgets
<1>2. NetTypeInv' /\ NetHome' /\ UNCHANGED nodes
  BY <1>1 DEF vars, NamesInv, NetTypeInv, TypeOK, OwnerIffAssigned, LinkOK, NamesTypes,
     NetHome, StaysHome, SlotsOfHomes, FrameFromHome, GrantOfHome
<1>3. HostsOfHomes' /\ hosts' \in [StationId -> UUID \cup {NoUUID}]
  BY <1>1 DEF HostsOfHomes, Unknown
<1>4. PacketsFromHome' /\ CommandsForOwned'
  BY <1>1, <1>2 DEF NamesInv, BusHome, PacketsFromHome, PacketOK, CommandsForOwned,
                    CommandOK, Owned
<1> QED BY <1>1, <1>2, <1>3, <1>4 DEF NamesInv, NamesTypes, BusHome

\* The gateway starts again with an empty table, and with it the host; the
\* sensors stay at the ids they have.
LEMMA RestartHome == NamesInv /\ Restart => NamesInv'
<1> SUFFICES ASSUME NamesInv, Restart PROVE NamesInv'
  OBVIOUS
<1>1. /\ GatewayRestart /\ up' = <<>> /\ down' = <<>> /\ hosts' = Unknown
      /\ UNCHANGED carried
  BY DEF Restart, HostForgets
<1>2. NetTypeInv'
  BY <1>1, GatewayRestartType DEF NamesInv, NamesTypes
<1>3. NetHome'
  BY <1>1 DEF NamesInv, GatewayRestart, ClearTable, EmptyTable, Nothing,
              NetHome, StaysHome, SlotsOfHomes, FrameFromHome, GrantOfHome
<1>4. BusHome'
  BY <1>1 DEF BusHome, PacketsFromHome, CommandsForOwned, HostsOfHomes, Unknown
<1>5. up' \in Seq(Packet) /\ down' \in Seq(HostCommand)
      /\ hosts' \in [StationId -> UUID \cup {NoUUID}]
  BY <1>1 DEF Unknown
<1> QED BY <1>1, <1>2, <1>3, <1>4, <1>5 DEF NamesInv, NamesTypes

LEMMA NamesStep == HomesDiffer /\ NamesInv /\ [NamesNext]_namesVars => NamesInv'
<1> SUFFICES ASSUME HomesDiffer, NamesInv, [NamesNext]_namesVars PROVE NamesInv'
  OBVIOUS
<1>1. CASE UNCHANGED namesVars
  BY <1>1 DEF namesVars, vars, NamesInv, NamesTypes, NetTypeInv, TypeOK, OwnerIffAssigned,
     LinkOK, NetHome, StaysHome, SlotsOfHomes, FrameFromHome, GrantOfHome, BusHome,
     PacketsFromHome, PacketOK, CommandsForOwned, CommandOK, HostsOfHomes, Owned
<1>2. CASE Acknowledge
  BY <1>2, AcknowledgeHome DEF Acknowledge
<1> QED BY <1>1, <1>2, SensingHome, ForwardHome, CommandHome, HostReadHome,
           HostRestartHome, RestartHome DEF NamesNext

\* NODE_IDs are compiled in.
LEMMA HomesStay == HomesDiffer => []HomesDiffer
<1> SUFFICES ASSUME HomesDiffer PROVE []HomesDiffer
  OBVIOUS
<1> QED BY PTL

\* Sensors with NODE_IDs of their own keep them, and frames, grants, packets,
\* commands and the host's table say of each id that it is its owner's NODE_ID.
THEOREM NamesInvariant == HomesDiffer /\ NamesSpec => []NamesInv
<1> QED BY HomesStay, InitNames, NamesStep, PTL DEF NamesSpec

\* A reading is published under the UUID of the sensor that sent it, with any
\* number of sensors, packets on the way and restarts of sensors, gateway and
\* host in between.
THEOREM ReadingsAreNamedRight == HomesDiffer /\ NamesSpec => []NamedByOwner
<1>1. HomesDiffer /\ NamesInv => NamedByOwner
  <2> SUFFICES ASSUME HomesDiffer, NamesInv, up # <<>>, NEW uuid \in UUID,
                      Publishes(Head(up), uuid)
               PROVE  uuid = Head(up).uuid
    BY DEF NamedByOwner
  <2>1. Head(up) \in Packet /\ PacketOK(Head(up))
    BY TakeFirst DEF NamesInv, NamesTypes, BusHome, PacketsFromHome
  <2>2. hosts[Head(up).id] = uuid /\ uuid # NoUUID
    BY TableAssumption DEF Publishes
  <2>3. Home[uuid] = Head(up).id
    BY <2>1, <2>2 DEF Packet, NamesInv, BusHome, HostsOfHomes
  <2> QED BY <2>1, <2>3 DEF Packet, PacketOK, HomesDiffer
<1> QED BY <1>1, HomesStay, NamesInvariant, PTL

\* No two sensors hold the same id, whatever table the gateway has lost and
\* whatever the host asks for.
THEOREM IdsAreNotShared == HomesDiffer /\ NamesSpec => []NoSharedId
<1>1. HomesDiffer /\ NamesInv => NoSharedId
  BY DEF NamesInv, NetHome, StaysHome, NoSharedId, HomesDiffer
<1> QED BY <1>1, HomesStay, NamesInvariant, PTL

----------------------------------------------------------------------------
(* The composition.                                                         *)

LEMMA NamesUseNet ==
  ASSUME NamesInv, StationId \subseteq HostIds, [NamesNext]_namesVars
  PROVE  [Next]_vars
<1>1. CASE UNCHANGED namesVars
  BY <1>1 DEF namesVars
<1>2. ASSUME NEW n \in UUID, Sensing(n) PROVE Next
  BY <1>2 DEF Sensing, Next
<1>3. CASE Forward
  BY <1>3 DEF Forward, Next
<1>4. CASE Acknowledge
  BY <1>4 DEF Acknowledge, Next
<1>5. CASE Command
  <2>1. Head(down).id \in StationId
    <3>1. down \in Seq(HostCommand) /\ down # <<>>
      BY <1>5 DEF Command, NamesInv, NamesTypes
    <3>2. Head(down) \in HostCommand
      BY <3>1, TakeFirst
    <3> QED BY <3>2 DEF HostCommand
  <2> QED BY <1>5, <2>1 DEF Command, Next
<1>6. CASE HostRead \/ HostRestart
  BY <1>6 DEF HostRead, HostRestart
<1>7. CASE Restart
  BY <1>7 DEF Restart, Next
<1> QED BY <1>1, <1>2, <1>3, <1>4, <1>5, <1>6, <1>7 DEF NamesNext

LEMMA HostIdsStay == StationId \subseteq HostIds => [](StationId \subseteq HostIds)
<1> SUFFICES ASSUME StationId \subseteq HostIds PROVE [](StationId \subseteq HostIds)
  OBVIOUS
<1> QED BY PTL

\* The host is one of the hosts that SensorNet allows: every step of sensors,
\* gateway, FastBus and host is a step or a stutter of SensorNet, if its host may
\* ask for the descriptors of any id.  What is proved of it holds with the host.
THEOREM NamesImplementNet ==
  HomesDiffer /\ StationId \subseteq HostIds /\ NamesSpec => Spec
<1>1. NamesInit => Init
  BY DEF NamesInit
<1>2. NamesInv /\ StationId \subseteq HostIds /\ [NamesNext]_namesVars => [Next]_vars
  BY NamesUseNet
<1>3. HomesDiffer /\ NamesSpec => []NamesInv
  BY NamesInvariant
<1> QED BY <1>1, <1>2, <1>3, HostIdsStay, PTL DEF NamesSpec, Spec
=============================================================================
