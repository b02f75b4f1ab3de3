--------------------------- MODULE StationV2Proofs ---------------------------
(* Proofs about the version 2 station, for any bases, sizes of the table,   *)
(* tries, limits and bounds: types, scores, slots, the probe that converts, *)
(* and that a message which is not acknowledged is offered to two           *)
(* neighbours.                                                              *)
EXTENDS StationV2Props, FiniteSetTheorems, TLAPS

\* The table by itself: what the types say of it, its scores and its slots.
TableOK ==
    /\ neighbours \in [Slot -> Neighbour] /\ heard \in 0 .. PINGS
    /\ ScoreBounded /\ OneSlotPerNeighbour

\* The numbers the arithmetic of bytes needs.
LEMMA Bounds == /\ LIMIT \in Nat /\ PINGS \in Nat /\ PINGS <= LIMIT
                /\ LIMIT + PINGS < 256 /\ MAX_NEIGHBOURS \in Nat /\ RETRIES \in Nat
  BY NeighbourAssumption

LEMMA EmptyTable == EmptySlots \in [Slot -> Neighbour]
  BY DEF EmptySlots, NoNeighbour, Neighbour, Byte

----------------------------------------------------------------------------
(* The table, operation by operation.                                       *)

\* Setup, in Init, Restart and SetupRequest.
LEMMA ClearedTable ==
    ASSUME neighbours' = EmptySlots, heard' = 0
    PROVE  TableOK'
<1>1. neighbours' \in [Slot -> Neighbour] /\ heard' \in 0 .. PINGS
  BY EmptyTable, Bounds
<1>2. \A i \in Slot : neighbours'[i] = [addr |-> Free, score |-> 0]
  BY DEF EmptySlots, NoNeighbour
<1>3. ScoreBounded'
  BY <1>2, Bounds DEF ScoreBounded
<1>4. OneSlotPerNeighbour'
  BY <1>2 DEF OneSlotPerNeighbour
<1> QED BY <1>1, <1>3, <1>4 DEF TableOK

\* A slot with one more ping, as long as the pings are within their bound.
LEMMA MoreFacts ==
    ASSUME NEW n \in Neighbour, NEW h \in 0 .. PINGS, h < PINGS, n.score <= LIMIT + h
    PROVE  /\ More(n) = [addr |-> n.addr, score |-> n.score + 1]
           /\ More(n) \in Neighbour /\ More(n).score <= LIMIT + (h + 1)
<1>1. n.score + 1 \in 0 .. 255 /\ (n.score + 1) % 256 = n.score + 1
  BY Bounds DEF Neighbour, Byte
<1>2. More(n) = [addr |-> n.addr, score |-> n.score + 1]
  BY <1>1 DEF More, Neighbour
<1> QED BY <1>1, <1>2, Bounds DEF Neighbour, Byte

\* A slot that lost a point, which it had.
LEMMA LessFacts ==
    ASSUME NEW n \in Neighbour, n.score > 0
    PROVE  /\ Less(n) = [addr |-> n.addr, score |-> n.score - 1]
           /\ Less(n) \in Neighbour
<1>1. n.score - 1 \in 0 .. 255 /\ (n.score - 1) % 256 = n.score - 1
  BY DEF Neighbour, Byte
<1>2. Less(n) = [addr |-> n.addr, score |-> n.score - 1]
  BY <1>1 DEF Less, Neighbour
<1> QED BY <1>1, <1>2 DEF Neighbour, Byte

LEMMA PingStep ==
    ASSUME TableOK, NEW b \in Base, heard < PINGS, heard' = heard + 1, CountPing(b)
    PROVE  TableOK'
<1> DEFINE Scored(n) == n.score <= LIMIT + heard
<1>0. /\ heard' \in 0 .. PINGS /\ heard \in 0 .. PINGS /\ heard \in Int
      /\ \A i \in Slot : neighbours[i] \in Neighbour /\ Scored(neighbours[i])
      /\ b # Free /\ LIMIT \in Int
  BY Bounds, NeighbourAssumption DEF TableOK, ScoreBounded
<1>1. CASE /\ Known(b)
           /\ neighbours' = [i \in Slot |-> IF neighbours[i].addr = b
                                            THEN More(neighbours[i]) ELSE neighbours[i]]
  <2>1. \A i \in Slot : /\ neighbours'[i] \in Neighbour
                        /\ neighbours'[i].score <= LIMIT + (heard + 1)
                        /\ neighbours'[i].addr = neighbours[i].addr
                        /\ neighbours[i].addr # b => neighbours'[i] = neighbours[i]
    <3> SUFFICES ASSUME NEW i \in Slot
                 PROVE  /\ neighbours'[i] \in Neighbour
                        /\ neighbours'[i].score <= LIMIT + (heard + 1)
                        /\ neighbours'[i].addr = neighbours[i].addr
                        /\ neighbours[i].addr # b => neighbours'[i] = neighbours[i]
      OBVIOUS
    <3>1. CASE neighbours[i].addr = b
      BY <1>0, <1>1, <3>1, MoreFacts
    <3>2. CASE neighbours[i].addr # b
      BY <1>0, <1>1, <3>2 DEF Neighbour, Byte
    <3> QED BY <3>1, <3>2
  <2>2. neighbours' \in [Slot -> Neighbour]
    BY <1>1, <2>1
  <2>3. ScoreBounded'
    BY <2>1 DEF ScoreBounded
  <2>4. OneSlotPerNeighbour'
    BY <1>0, <2>1 DEF TableOK, OneSlotPerNeighbour
  <2> QED BY <1>0, <2>2, <2>3, <2>4 DEF TableOK
<1>2. ASSUME NEW k \in Slot, FirstFree(k), ~Known(b),
             neighbours' = [neighbours EXCEPT ![k] = More([@ EXCEPT !.addr = b])]
      PROVE  TableOK'
  <2> DEFINE N == [neighbours[k] EXCEPT !.addr = b]
  <2>1. N \in Neighbour /\ Scored(N) /\ N.addr = b /\ N.score = neighbours[k].score
    BY <1>0 DEF Neighbour
  <2>2. More(N) \in Neighbour /\ More(N).score <= LIMIT + (heard + 1) /\ More(N).addr = b
    <3>1. N \in Neighbour /\ N.score <= LIMIT + heard /\ N.addr = b
      BY <2>1
    <3> HIDE DEF N
    <3> QED BY <1>0, <3>1, MoreFacts
  <2>3. \A i \in Slot : neighbours'[i] = IF i = k THEN More(N) ELSE neighbours[i]
    BY <1>2 DEF TableOK
  <2>4. neighbours' \in [Slot -> Neighbour]
    BY <1>2, <2>2 DEF TableOK
  <2>5. ScoreBounded'
    <3> SUFFICES ASSUME NEW i \in Slot PROVE neighbours'[i].score <= LIMIT + (heard + 1)
      BY DEF ScoreBounded
    <3>1. CASE i = k
      BY <2>2, <2>3, <3>1
    <3>2. CASE i # k
      BY <1>0, <2>3, <3>2 DEF Neighbour, Byte
    <3> QED BY <3>1, <3>2
  <2>6. OneSlotPerNeighbour'
    <3>1. \A i \in Slot : neighbours[i].addr # b
      BY <1>2 DEF Known
    <3> QED BY <1>0, <2>2, <2>3, <3>1 DEF TableOK, OneSlotPerNeighbour
  <2> QED BY <1>0, <2>4, <2>5, <2>6 DEF TableOK
<1>3. CASE UNCHANGED neighbours
  <2>1. ScoreBounded'
    BY <1>0, <1>3 DEF ScoreBounded, Neighbour, Byte
  <2>2. OneSlotPerNeighbour'
    BY <1>3 DEF TableOK, OneSlotPerNeighbour
  <2> QED BY <1>0, <1>3, <2>1, <2>2 DEF TableOK
<1> QED BY <1>1, <1>2, <1>3 DEF CountPing

\* A score after an ageing: a byte, and at most the limit.
LEMMA AgedScore ==
    ASSUME NEW s \in 0 .. 255, NEW h \in 0 .. PINGS, s <= LIMIT + h, ~(s < LIMIT)
    PROVE  s - LIMIT \in 0 .. 255 /\ s - LIMIT <= LIMIT
<1>1. s \in Int /\ 0 <= s /\ s <= 255 /\ h \in Int /\ h <= PINGS
  BY Bounds
<1>2. LIMIT \in Int /\ PINGS \in Int /\ PINGS <= LIMIT /\ 0 <= LIMIT
  BY Bounds
<1> QED BY <1>1, <1>2

LEMMA AgeStep ==
    ASSUME TableOK, AgeTable
    PROVE  TableOK'
<1>0. /\ heard' = 0 /\ heard' \in 0 .. PINGS /\ heard \in 0 .. PINGS
      /\ \A i \in Slot : neighbours[i] \in Neighbour /\ neighbours[i].score <= LIMIT + heard
  BY Bounds DEF TableOK, ScoreBounded, AgeTable
<1>1. CASE neighbours' = [i \in Slot |-> Aged(neighbours[i])]
  <2>1. ASSUME NEW i \in Slot
        PROVE  /\ neighbours'[i] \in Neighbour /\ neighbours'[i].score <= LIMIT
               /\ \/ neighbours'[i].addr = Free /\ neighbours'[i].score = 0
                  \/ neighbours'[i].addr = neighbours[i].addr /\ neighbours[i].score >= LIMIT
                     /\ neighbours'[i].score = neighbours[i].score - LIMIT
    <3>1. CASE neighbours[i].score < LIMIT
      <4>1. neighbours'[i] = [addr |-> Free, score |-> 0]
        BY <1>1, <2>1, <3>1 DEF Aged, NoNeighbour
      <4> QED BY <4>1, Bounds DEF Neighbour, Byte
    <3>2. CASE ~(neighbours[i].score < LIMIT)
      <4>1. neighbours'[i] = [neighbours[i] EXCEPT !.score = @ - LIMIT]
        BY <1>1, <2>1, <3>2 DEF Aged
      <4>2. neighbours[i].score - LIMIT \in 0 .. 255 /\ neighbours[i].score - LIMIT <= LIMIT
        <5>1. neighbours[i].score \in 0 .. 255 /\ neighbours[i].score <= LIMIT + heard
          BY <1>0, <2>1 DEF Neighbour, Byte
        <5> QED BY <1>0, <3>2, <5>1, AgedScore
      <4>3. neighbours'[i] = [addr |-> neighbours[i].addr,
                              score |-> neighbours[i].score - LIMIT]
        BY <1>0, <2>1, <4>1 DEF Neighbour
      <4> QED BY <1>0, <2>1, <3>2, <4>2, <4>3, Bounds DEF Neighbour, Byte
    <3> QED BY <3>1, <3>2
  <2>2. neighbours' \in [Slot -> Neighbour]
    BY <1>1, <2>1
  <2>3. ScoreBounded'
    BY <1>0, <2>1, Bounds DEF ScoreBounded, Neighbour, Byte
  <2>4. ASSUME NEW i \in Slot, neighbours'[i].addr = Free PROVE neighbours'[i].score = 0
    <3>1. CASE neighbours'[i].addr = neighbours[i].addr
      <4>1. neighbours[i].score = 0
        BY <2>4, <3>1 DEF TableOK, OneSlotPerNeighbour
      <4> QED BY <2>1, <2>4, <4>1, Bounds
    <3> QED BY <2>1, <2>4, <3>1
  <2>5. OneSlotPerNeighbour'
    BY <2>1, <2>4 DEF TableOK, OneSlotPerNeighbour
  <2> QED BY <1>0, <2>2, <2>3, <2>5 DEF TableOK
<1>2. CASE neighbours' = neighbours /\ ~\E i \in Slot : neighbours[i].score > LIMIT
  <2>1. ScoreBounded'
    BY <1>0, <1>2, Bounds DEF ScoreBounded, Neighbour, Byte
  <2>2. OneSlotPerNeighbour'
    BY <1>2 DEF TableOK, OneSlotPerNeighbour
  <2> QED BY <1>0, <1>2, <2>1, <2>2 DEF TableOK
<1> QED BY <1>1, <1>2 DEF AgeTable

\* What a try leaves of the table: the chosen slot may have lost a point.
LEMMA TryTable ==
    ASSUME TableOK, NEW k \in Candidates, UNCHANGED heard,
           \/ neighbours' = neighbours
           \/ neighbours' = [neighbours EXCEPT ![k] = Less(@)]
    PROVE  /\ TableOK'
           /\ \A i \in Slot : /\ neighbours'[i].addr = neighbours[i].addr
                              /\ i # k => neighbours'[i] = neighbours[i]
<1>0. /\ k \in Slot /\ neighbours[k].score > 0 /\ heard \in 0 .. PINGS
      /\ \A i \in Slot : neighbours[i] \in Neighbour /\ neighbours[i].score <= LIMIT + heard
      /\ neighbours[k].addr # Free
  BY DEF TableOK, ScoreBounded, Candidates
<1>1. CASE neighbours' = neighbours
  BY <1>1 DEF TableOK, ScoreBounded, OneSlotPerNeighbour
<1>2. CASE neighbours' = [neighbours EXCEPT ![k] = Less(@)]
  <2>1. /\ Less(neighbours[k]) \in Neighbour
        /\ Less(neighbours[k]).addr = neighbours[k].addr
        /\ Less(neighbours[k]).score = neighbours[k].score - 1
    BY <1>0, LessFacts
  <2>2. \A i \in Slot : neighbours'[i] = IF i = k THEN Less(neighbours[k]) ELSE neighbours[i]
    BY <1>2 DEF TableOK
  <2>3. neighbours' \in [Slot -> Neighbour]
    BY <1>2, <2>1 DEF TableOK
  <2>4. ScoreBounded'
    <3> SUFFICES ASSUME NEW i \in Slot PROVE neighbours'[i].score <= LIMIT + heard
      BY DEF ScoreBounded
    <3>1. CASE i = k
      BY <1>0, <2>1, <2>2, <3>1, Bounds DEF Neighbour, Byte
    <3>2. CASE i # k
      BY <1>0, <2>2, <3>2
    <3> QED BY <3>1, <3>2
  <2>5. OneSlotPerNeighbour'
    BY <1>0, <2>1, <2>2 DEF TableOK, OneSlotPerNeighbour
  <2> QED BY <1>0, <2>1, <2>2, <2>3, <2>4, <2>5 DEF TableOK
<1> QED BY <1>1, <1>2

----------------------------------------------------------------------------
(* The rest of the state.                                                   *)

Sending == {"temperature", "sampling", "identifying", "pressing"}

\* What the types say of everything but table and route, and that messages
\* wait in certain phases only.
LoopOK ==
    /\ phase \in {"receive", "sample", "ident", "buttons"} \cup Sending
    /\ todo \in Nat /\ pressed \subseteq Button /\ waited \subseteq Waits
    /\ address \in Address \cup {Blank, SETUP_ADDRESS}
    /\ eeprom \in Address \cup {Blank}
    /\ probe \in [sensors : 0 .. MAX_SENSORS, count : Nat, converting : Nat]
    /\ world \in [moved : BOOLEAN, losses : Nat, restarts : 0 .. RESTARTS]
    /\ todo > 0 \/ route.left > 0 => phase \in Sending
    /\ ReadsWhatConverts

RouteType == [left : 0 .. RETRIES, old : Base \cup {Free},
              tried : SUBSET Base, usable : SUBSET Base]

\* The neighbours that a message could be given to now.
Usable == {neighbours[i].addr : i \in {j \in Slot :
              neighbours[j].score > 0 /\ neighbours[j].addr # Free}}

\* Two were tried, or there was nobody else.
Enough(tried, usable) == (\E x, y \in tried : x # y) \/ usable \subseteq tried

\* Why two are tried: before the first try whoever was usable still is, after
\* it all but the one that was tried, whom the second try leaves out.
RouteOK ==
    /\ route \in RouteType /\ IsFiniteSet(route.tried)
    /\ route.left = RETRIES => route.old = Free /\ route.usable \subseteq Usable
    /\ route.left = RETRIES - 1 =>
          \/ route.usable \subseteq route.tried
          \/ route.old \in route.tried /\ route.usable \ {route.old} \subseteq Usable
    /\ route.left \in 1 .. RETRIES - 2 => Enough(route.tried, route.usable)

StationInv == TableOK /\ LoopOK /\ RouteOK

LEMMA IdleFacts == Idle \in RouteType /\ Idle.left = 0 /\ IsFiniteSet(Idle.tried)
<1>1. IsFiniteSet({})
  BY FS_EmptySet
<1> QED BY <1>1, Bounds DEF Idle, RouteType

\* No route: nothing to show.
LEMMA IdleRoute ==
    ASSUME route' = Idle
    PROVE  RouteOK'
<1>1. 0 # RETRIES /\ 0 # RETRIES - 1 /\ 0 \notin 1 .. RETRIES - 2
  BY NeighbourAssumption
<1> QED BY <1>1, IdleFacts DEF RouteOK

\* While nothing is routed the table may change.
LEMMA NoRoute ==
    ASSUME RouteOK, route.left = 0, UNCHANGED route
    PROVE  RouteOK'
<1>1. 0 # RETRIES /\ 0 # RETRIES - 1 /\ 0 \notin 1 .. RETRIES - 2
  BY NeighbourAssumption
<1> QED BY <1>1 DEF RouteOK

LEMMA SameRoute ==
    ASSUME RouteOK, UNCHANGED <<route, neighbours>>
    PROVE  RouteOK'
  BY DEF RouteOK, Usable

LEMMA StationInit == Init => StationInv
<1> SUFFICES ASSUME Init PROVE StationInv
  OBVIOUS
<1>1. TableOK
  <2>1. neighbours \in [Slot -> Neighbour] /\ heard \in 0 .. PINGS
    BY EmptyTable, Bounds DEF Init
  <2>2. \A i \in Slot : neighbours[i] = [addr |-> Free, score |-> 0]
    BY DEF Init, EmptySlots, NoNeighbour
  <2>3. ScoreBounded
    BY <2>2, Bounds DEF Init, ScoreBounded
  <2>4. OneSlotPerNeighbour
    BY <2>2 DEF OneSlotPerNeighbour
  <2> QED BY <2>1, <2>3, <2>4 DEF TableOK
<1>2. LoopOK
  BY StationAssumption, IdleFacts
     DEF Init, LoopOK, Sending, Probe, ReadsWhatConverts, Waits
<1>3. RouteOK
  <2>1. 0 # RETRIES /\ 0 # RETRIES - 1 /\ 0 \notin 1 .. RETRIES - 2
    BY NeighbourAssumption
  <2> QED BY <2>1, IdleFacts DEF RouteOK, Init
<1> QED BY <1>1, <1>2, <1>3 DEF StationInv

----------------------------------------------------------------------------
(* Routing.                                                                 *)

LEMMA BeginStep ==
    ASSUME TableOK, BeginRoute, UNCHANGED neighbours
    PROVE  RouteOK' /\ route'.left = RETRIES
<1>1. Usable \subseteq Base
  BY DEF Usable, TableOK, Neighbour
<1>2. route' = [left |-> RETRIES, old |-> Free, tried |-> {}, usable |-> Usable]
  BY DEF BeginRoute, Usable
<1>3. Usable' = Usable
  BY DEF Usable
<1>4. RETRIES # RETRIES - 1 /\ RETRIES \notin 1 .. RETRIES - 2
  BY Bounds
<1>5. IsFiniteSet({})
  BY FS_EmptySet
<1> QED BY <1>1, <1>2, <1>3, <1>4, <1>5, Bounds DEF RouteOK, RouteType

\* The route after a try that failed, with tries left.
LEMMA NextTry ==
    ASSUME RouteOK, route.left > 0, route.left # 1,
           NEW tried \in SUBSET Base, NEW addr \in Base \cup {Free},
           IsFiniteSet(tried), route.tried \subseteq tried,
           route' = [route EXCEPT !.left = @ - 1, !.old = addr, !.tried = tried],
           route.left = RETRIES =>
              \/ route.usable \subseteq tried
              \/ addr \in tried /\ route.usable \ {addr} \subseteq Usable',
           route.left = RETRIES - 1 => Enough(tried, route.usable)
    PROVE  RouteOK'
<1>1. /\ route'.left = route.left - 1 /\ route'.old = addr /\ route'.tried = tried
      /\ route'.usable = route.usable /\ route' \in RouteType
      /\ route.left \in Int /\ RETRIES \in Int /\ route.left <= RETRIES
  <2>1. route \in RouteType /\ route.left \in 0 .. RETRIES /\ RETRIES \in Nat
    BY Bounds DEF RouteOK, RouteType
  <2>2. route.left - 1 \in 0 .. RETRIES
    BY <2>1
  <2>3. /\ route'.left = route.left - 1 /\ route'.old = addr /\ route'.tried = tried
        /\ route'.usable = route.usable
    BY <2>1 DEF RouteType
  <2>4. route' \in RouteType
    BY <2>1, <2>2 DEF RouteType
  <2> QED BY <2>1, <2>3, <2>4
<1>2. route'.left # RETRIES
  BY <1>1
<1>3. route'.left = RETRIES - 1 => route.left = RETRIES
  BY <1>1
<1>4. route'.left \in 1 .. RETRIES - 2 => route.left \in 1 .. RETRIES - 2 \/ route.left = RETRIES - 1
  BY <1>1
<1>5. route.left \in 1 .. RETRIES - 2 => Enough(tried, route.usable)
  BY DEF RouteOK, Enough
<1> QED BY <1>1, <1>2, <1>3, <1>4, <1>5 DEF RouteOK

LEMMA TryStep ==
    ASSUME TableOK, RouteOK, NEW acked \in BOOLEAN, Try(acked)
    PROVE  TableOK' /\ RouteOK'
<1>1. PICK k \in Slot :
         /\ Best(k)
         /\ neighbours' = IF acked THEN neighbours ELSE [neighbours EXCEPT ![k] = Less(@)]
         /\ AfterTry(route.tried \cup {neighbours[k].addr}, neighbours[k].addr, acked)
  BY DEF Try
<1> DEFINE addr == neighbours[k].addr
           tried == route.tried \cup {addr}
<1>2. k \in Candidates /\ addr \in Base /\ addr # route.old
  BY <1>1 DEF Best, Candidates, TableOK, Neighbour
<1>3. /\ TableOK'
      /\ \A i \in Slot : /\ neighbours'[i].addr = neighbours[i].addr
                         /\ i # k => neighbours'[i] = neighbours[i]
  BY <1>1, <1>2, TryTable DEF Try
<1>4. CASE acked \/ route.left = 1
  BY <1>1, <1>3, <1>4, IdleRoute DEF AfterTry
<1>5. CASE ~(acked \/ route.left = 1)
  <2>1. route' = [route EXCEPT !.left = @ - 1, !.old = addr, !.tried = tried]
    BY <1>1, <1>5 DEF AfterTry
  <2>2. tried \in SUBSET Base /\ IsFiniteSet(tried) /\ route.tried \subseteq tried
    BY <1>2, FS_AddElement DEF RouteOK, RouteType
  <2>3. route.left = RETRIES => addr \in tried /\ route.usable \ {addr} \subseteq Usable'
    <3> SUFFICES ASSUME route.left = RETRIES, NEW u \in route.usable, u # addr
                 PROVE  u \in Usable'
      OBVIOUS
    <3>1. PICK j \in Slot : /\ neighbours[j].score > 0 /\ neighbours[j].addr # Free
                            /\ u = neighbours[j].addr
      BY DEF RouteOK, Usable
    <3>2. neighbours'[j] = neighbours[j]
      BY <1>3, <3>1
    <3> QED BY <3>1, <3>2 DEF Usable
  <2>4. route.left = RETRIES - 1 => Enough(tried, route.usable)
    BY <1>2 DEF RouteOK, Enough
  <2>5. route.left > 0 /\ route.left # 1 /\ addr \in Base \cup {Free}
    BY <1>2, <1>5 DEF Try
  <2> HIDE DEF addr, tried
  <2> QED BY <1>3, <2>1, <2>2, <2>3, <2>4, <2>5, NextTry
<1> QED BY <1>4, <1>5

LEMMA NobodyStep ==
    ASSUME TableOK, RouteOK, TryNobody
    PROVE  TableOK' /\ RouteOK'
<1>1. TableOK' /\ neighbours' = neighbours
  BY DEF TryNobody, tableVars, TableOK, ScoreBounded, OneSlotPerNeighbour
<1>2. CASE route.left = 1
  BY <1>1, <1>2, IdleRoute DEF TryNobody, AfterTry
<1>3. CASE route.left # 1
  <2>1. /\ route' = [route EXCEPT !.left = @ - 1, !.old = Free, !.tried = route.tried]
        /\ route.left > 0
    BY <1>3 DEF TryNobody, AfterTry
  <2>2. Usable \subseteq {route.old}
    BY DEF TryNobody, Candidates, Usable
  <2>3. route.left = RETRIES => route.usable \subseteq route.tried
    <3>1. Free \notin Usable
      BY DEF Usable
    <3> QED BY <2>2, <3>1 DEF RouteOK
  <2>4. route.left = RETRIES - 1 => Enough(route.tried, route.usable)
    BY <2>2 DEF RouteOK, Enough
  <2>5. route.tried \in SUBSET Base /\ IsFiniteSet(route.tried)
    BY DEF RouteOK, RouteType
  <2> QED BY <1>1, <1>3, <2>1, <2>3, <2>4, <2>5, NextTry
<1> QED BY <1>2, <1>3

----------------------------------------------------------------------------
(* The actions.                                                             *)

\* setup(): the table is empty, the probe begins.
LEMMA SetupFacts ==
    ASSUME NEW n \in 0 .. MAX_SENSORS, NEW held,
           NEW ram \in Address \cup {Blank, SETUP_ADDRESS},
           NEW stored \in Address \cup {Blank}, Setup(n, held, ram, stored)
    PROVE  /\ TableOK' /\ pressed' \subseteq Button /\ waited' \subseteq Waits
           /\ address' \in Address \cup {Blank, SETUP_ADDRESS}
           /\ probe' \in [sensors : 0 .. MAX_SENSORS, count : Nat, converting : Nat]
           /\ ReadsWhatConverts'
<1>1. TableOK'
  BY ClearedTable DEF Setup
<1>2. probe' = [sensors |-> n, count |-> 0, converting |-> 0]
  BY DEF Setup, Probe
<1>3. ReadsWhatConverts'
  BY <1>2 DEF ReadsWhatConverts
<1> QED BY <1>1, <1>2, <1>3 DEF Setup, Waits

\* The next probe is the one that converts, for 1200 ms from now.
LEMMA ProbeStep ==
    ASSUME LoopOK, NextProbe, waited' = {}
    PROVE  /\ probe' \in [sensors : 0 .. MAX_SENSORS, count : Nat, converting : Nat]
           /\ ReadsWhatConverts'
<1> DEFINE next == IF probe.count + 1 >= probe.sensors THEN 0 ELSE probe.count + 1
<1>1. /\ probe \in [sensors : 0 .. MAX_SENSORS, count : Nat, converting : Nat]
      /\ probe.sensors \in Nat /\ probe.count \in Nat
  BY StationAssumption DEF LoopOK
<1>2. next \in Nat /\ (next < probe.sensors \/ next = 0)
  BY <1>1
<1>3. CASE probe.sensors = 0 /\ probe' = probe
  BY <1>3 DEF LoopOK, ReadsWhatConverts
<1>4. CASE probe' = [probe EXCEPT !.count = next, !.converting = next]
  <2>1. probe' = [sensors |-> probe.sensors, count |-> next, converting |-> next]
    BY <1>1, <1>4
  <2> HIDE DEF next
  <2> QED BY <1>1, <1>2, <2>1 DEF ReadsWhatConverts
<1> QED BY <1>3, <1>4 DEF NextProbe

\* The types where table, route, address, probe, waits and world stay.
LEMMA PhaseStep ==
    ASSUME LoopOK, UNCHANGED <<route, address, eeprom, probe, waited, world>>,
           todo' \in Nat, pressed' \subseteq Button,
           phase' \in {"receive", "sample", "ident", "buttons"} \cup Sending,
           todo' > 0 \/ route.left > 0 => phase' \in Sending
    PROVE  LoopOK'
  BY DEF LoopOK, ReadsWhatConverts

LEMMA SameTable ==
    ASSUME TableOK, UNCHANGED tableVars
    PROVE  TableOK'
  BY DEF TableOK, tableVars, ScoreBounded, OneSlotPerNeighbour

LEMMA QuietLoop ==
    ASSUME StationInv,
           \/ Received \/ NoSample \/ NoIdentify \/ Identified \/ Turn
           \/ \E messages \in 0 .. 1 : Sample(messages)
           \/ \E messages \in 1 .. MESSAGES : Identify(messages)
           \/ \E down \in SUBSET Button, long \in SUBSET Button : ScanButtons(down, long)
    PROVE  StationInv'
<1>1. UNCHANGED <<tableVars, route, address, eeprom, probe, waited, world>>
  BY DEF Received, Sample, NoSample, NoIdentify, Identified, Turn, Identify, ScanButtons,
         stationVars
<1>2. route.left = 0 \/ phase \in Sending
  BY DEF StationInv, LoopOK, RouteOK, RouteType
<1>3. LoopOK'
  <2>1. CASE Received \/ NoSample \/ NoIdentify
    BY <1>1, <1>2, <2>1, PhaseStep
       DEF Received, NoSample, NoIdentify, StationInv, LoopOK, Sending, stationVars
  <2>2. CASE Identified \/ Turn
    BY <1>1, <2>2, PhaseStep, IdleFacts
       DEF Identified, Turn, StationInv, LoopOK, stationVars
  <2>3. ASSUME NEW messages \in 1 .. MESSAGES, Identify(messages) PROVE LoopOK'
    BY <1>1, <2>3, PhaseStep, StationAssumption DEF Identify, StationInv, LoopOK, Sending
  <2>4. ASSUME NEW down \in SUBSET Button, NEW long \in SUBSET Button,
               ScanButtons(down, long)
        PROVE  LoopOK'
    <3>1. Cardinality((down \cap long) \ pressed) \in Nat
      <4>1. IsFiniteSet((down \cap long) \ pressed)
        BY StationAssumption, FS_Subset
      <4> QED BY <4>1, FS_CardinalityType
    <3> QED BY <1>1, <2>4, <3>1, PhaseStep DEF ScanButtons, StationInv, LoopOK, Sending
  <2>5. ASSUME NEW messages \in 0 .. 1, Sample(messages) PROVE LoopOK'
    BY <1>1, <2>5, PhaseStep DEF Sample, StationInv, LoopOK, Sending
  <2> QED BY <2>1, <2>2, <2>3, <2>4, <2>5
<1> QED BY <1>1, <1>3, SameTable, SameRoute DEF StationInv, tableVars

LEMMA ConversionStep ==
    ASSUME StationInv, NEW messages \in 1 .. MESSAGES, StartConversion(messages)
    PROVE  StationInv'
<1>1. /\ UNCHANGED <<tableVars, route, address, eeprom, pressed, world>>
      /\ todo' \in Nat /\ phase' = "sampling" /\ waited' = {}
  BY StationAssumption DEF StartConversion
<1>2. LoopOK'
  BY <1>1, ProbeStep DEF StationInv, LoopOK, StartConversion, Sending
<1> QED BY <1>1, <1>2, SameTable, SameRoute DEF StationInv, tableVars

LEMMA AgeingStep ==
    ASSUME StationInv, Age
    PROVE  StationInv'
<1>1. LoopOK'
  BY PhaseStep, IdleFacts DEF Age, StationInv, LoopOK, stationVars
<1> QED BY <1>1, AgeStep, NoRoute, IdleFacts DEF Age, StationInv

LEMMA RouteStep ==
    ASSUME StationInv, Route
    PROVE  StationInv'
<1>1. RouteOK' /\ TableOK'
  BY BeginStep, SameTable DEF Route, StationInv, tableVars
<1>2. todo \in Nat /\ todo > 0 /\ todo' = todo - 1 /\ phase \in Sending
  BY DEF Route, StationInv, LoopOK
<1>3. LoopOK'
  BY <1>2 DEF Route, StationInv, LoopOK, ReadsWhatConverts
<1> QED BY <1>1, <1>3 DEF StationInv

LEMMA RouteTryStep ==
    ASSUME StationInv, (\E acked \in BOOLEAN : RouteTry(acked)) \/ RouteNobody
    PROVE  StationInv'
<1>1. route.left > 0 /\ UNCHANGED <<phase, stationVars>>
  BY DEF RouteTry, Try, RouteNobody, TryNobody
<1>2. TableOK' /\ RouteOK'
  BY TryStep, NobodyStep DEF RouteTry, RouteNobody, StationInv
<1>3. world' \in [moved : BOOLEAN, losses : Nat, restarts : 0 .. RESTARTS]
  BY DEF RouteTry, RouteNobody, StationInv, LoopOK
<1> QED BY <1>1, <1>2, <1>3 DEF StationInv, LoopOK, stationVars, ReadsWhatConverts

LEMMA HearPingStep ==
    ASSUME StationInv, NEW b \in Base, HearPing(b)
    PROVE  StationInv'
<1>1. TableOK'
  BY PingStep DEF HearPing, StationInv
<1>2. route.left = 0
  BY DEF HearPing, StationInv, LoopOK, Sending, RouteOK, RouteType
<1> QED BY <1>1, <1>2, NoRoute
        DEF HearPing, StationInv, LoopOK, stationVars, ReadsWhatConverts

LEMMA SetupRequestStep ==
    ASSUME StationInv, NEW new \in Address, NEW n \in 0 .. MAX_SENSORS, NEW held,
           SetupRequest(new, n, held)
    PROVE  StationInv'
<1>1. address \in Address \cup {Blank, SETUP_ADDRESS} /\ Setup(n, held, address, new)
  BY DEF SetupRequest, StationInv, LoopOK
<1>2. route.left = 0
  BY DEF SetupRequest, StationInv, LoopOK, Sending, RouteOK, RouteType
<1>3. LoopOK'
  BY <1>1, SetupFacts DEF SetupRequest, StationInv, LoopOK
<1> QED BY <1>1, <1>2, <1>3, SetupFacts, NoRoute DEF SetupRequest, StationInv

LEMMA RestartStep ==
    ASSUME StationInv, NEW n \in 0 .. MAX_SENSORS, NEW held, Restart(n, held)
    PROVE  StationInv'
<1>1. eeprom \in Address \cup {Blank} /\ Setup(n, held, SETUP_ADDRESS, eeprom)
  BY DEF Restart, StationInv, LoopOK
<1>2. world' \in [moved : BOOLEAN, losses : Nat, restarts : 0 .. RESTARTS]
  BY StationAssumption DEF Restart, StationInv, LoopOK
<1>3. /\ pressed' \subseteq Button /\ waited' \subseteq Waits
      /\ address' \in Address \cup {Blank, SETUP_ADDRESS}
      /\ probe' \in [sensors : 0 .. MAX_SENSORS, count : Nat, converting : Nat]
      /\ TableOK' /\ ReadsWhatConverts'
  BY <1>1, SetupFacts
<1>4. LoopOK'
  BY <1>1, <1>2, <1>3, IdleFacts DEF Restart, LoopOK, Sending
<1> QED BY <1>3, <1>4, IdleRoute DEF Restart, StationInv

LEMMA WorldStep ==
    ASSUME StationInv, Move \/ Tick
    PROVE  StationInv'
<1>1. CASE Move
  <2>1. world' \in [moved : BOOLEAN, losses : Nat, restarts : 0 .. RESTARTS]
    BY <1>1 DEF Move, StationInv, LoopOK
  <2>2. LoopOK'
    BY <1>1, <2>1 DEF Move, StationInv, LoopOK, stationVars, ReadsWhatConverts
  <2> QED BY <1>1, <2>2, SameTable, SameRoute DEF Move, StationInv, tableVars
<1>2. CASE Tick
  <2>1. waited' \subseteq Waits /\ "conversion" \in waited'
    BY <1>2 DEF Tick, Waits
  <2>2. LoopOK'
    BY <1>2, <2>1 DEF Tick, StationInv, LoopOK, ReadsWhatConverts
  <2> QED BY <1>2, <2>2, SameTable, SameRoute DEF Tick, StationInv, tableVars
<1> QED BY <1>1, <1>2

LEMMA StationStep == StationInv /\ [Next]_vars => StationInv'
<1> SUFFICES ASSUME StationInv, [Next]_vars PROVE StationInv'
  OBVIOUS
<1>1. CASE Loop
  BY <1>1, QuietLoop, ConversionStep, AgeingStep, RouteStep, RouteTryStep DEF Loop
<1>2. CASE \E b \in Base : HearPing(b)
  BY <1>2, HearPingStep
<1>3. CASE \E new \in Address, n \in 0 .. MAX_SENSORS, held \in SUBSET Button :
              SetupRequest(new, n, held)
  BY <1>3, SetupRequestStep
<1>4. CASE \E n \in 0 .. MAX_SENSORS, held \in SUBSET Button : Restart(n, held)
  BY <1>4, RestartStep
<1>5. CASE Tick \/ Move
  BY <1>5, WorldStep
<1>6. CASE UNCHANGED vars
  BY <1>6, SameTable, SameRoute
     DEF vars, tableVars, stationVars, StationInv, LoopOK, ReadsWhatConverts
<1> QED BY <1>1, <1>2, <1>3, <1>4, <1>5, <1>6 DEF Next

LEMMA StationInvariant == Spec => []StationInv
  BY StationInit, StationStep, PTL DEF Spec

----------------------------------------------------------------------------
(* The theorems.                                                            *)

\* Type correctness of the station.
THEOREM StationTypeCorrect == Spec => []StationTypeOK
<1>1. StationInv => StationTypeOK
  BY DEF StationInv, TableOK, LoopOK, RouteOK, RouteType, StationTypeOK, Sending
<1> QED BY <1>1, StationInvariant, PTL

\* No score wraps around its byte.
THEOREM ScoresStayBytes == Spec => []ScoreBounded
<1>1. StationInv => ScoreBounded
  BY DEF StationInv, TableOK
<1> QED BY <1>1, StationInvariant, PTL

\* No neighbour takes two slots, and free slots start from nothing.
THEOREM SlotsAreDistinct == Spec => []OneSlotPerNeighbour
<1>1. StationInv => OneSlotPerNeighbour
  BY DEF StationInv, TableOK
<1> QED BY <1>1, StationInvariant, PTL

\* A message that fails twice was offered to two neighbours, if there were two.
THEOREM TwoAreTried == Spec => []TriesTwo
<1>1. StationInv => TriesTwo
  <2> SUFFICES ASSUME StationInv, route.left \in 1 .. RETRIES - 2,
                      NEW x \in route.tried, NEW y \in route.tried, x # y
               PROVE  Cardinality(route.tried) > 1
    BY DEF StationInv, RouteOK, Enough, TriesTwo
  <2>1. IsFiniteSet(route.tried) /\ {x, y} \subseteq route.tried
    BY DEF StationInv, RouteOK
  <2>2. Cardinality({x, y}) <= Cardinality(route.tried)
    BY <2>1, FS_Subset
  <2>3. Cardinality({x, y}) = 2
    <3>1. IsFiniteSet({x}) /\ Cardinality({x}) = 1 /\ y \notin {x}
      BY FS_Singleton
    <3>2. {x, y} = {x} \cup {y}
      OBVIOUS
    <3> QED BY <3>1, <3>2, FS_AddElement
  <2>4. Cardinality(route.tried) \in Nat
    BY <2>1, FS_CardinalityType
  <2> QED BY <2>2, <2>3, <2>4
<1> QED BY <1>1, StationInvariant, PTL

\* The probe that is read is the one that converts, and has had the time.
THEOREM ReadsTheConverted == Spec => []ReadsWhatConverts
<1>1. StationInv => ReadsWhatConverts
  BY DEF StationInv, LoopOK
<1> QED BY <1>1, StationInvariant, PTL
=============================================================================
