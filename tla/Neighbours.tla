------------------------------ MODULE Neighbours ------------------------------
(* The neighbour table of the version 2 firmware, rf_sensor_v2.ino: who was *)
(* heard, how often, and which neighbours a message is given to.  The       *)
(* operations are composed into the station's loop in StationV2.            *)
EXTENDS Integers, FiniteSets

CONSTANTS
    Base,            \* the addresses of base stations
    Free,            \* 0xff, the address in an unused slot
    MAX_NEIGHBOURS,  \* the slots of the table
    RETRIES,         \* tries of SendRadioMessageRouted
    LIMIT,           \* the score above which the table is aged
    PINGS            \* bound: pings heard between two ageings

ASSUME NeighbourAssumption ==
    /\ Free \notin Base
    /\ MAX_NEIGHBOURS \in Nat /\ RETRIES \in Nat /\ RETRIES > 1
    /\ LIMIT \in Nat /\ PINGS \in 0 .. LIMIT /\ LIMIT + PINGS < 256

Slot == 0 .. MAX_NEIGHBOURS - 1
Byte == 0 .. 255
Neighbour == [addr : Base \cup {Free}, score : Byte]

VARIABLES
    neighbours,   \* the table
    heard,        \* pings since the last ageing
    route         \* SendRadioMessageRouted while it runs

tableVars == <<neighbours, heard>>

NoNeighbour == [addr |-> Free, score |-> 0]
EmptySlots == [i \in Slot |-> NoNeighbour]
Known(b) == \E i \in Slot : neighbours[i].addr = b

\* SendRadioMessageRouted: the tries left, the neighbour of the last try, and,
\* for the properties, who was tried and who could have been.
Idle == [left |-> 0, old |-> Free, tried |-> {}, usable |-> {}]

----------------------------------------------------------------------------
\* A slot's score after one more ping, a byte.
More(n) == [n EXCEPT !.score = (@ + 1) % 256]

\* A slot's score after a message that was not acknowledged.
Less(n) == [n EXCEPT !.score = (@ - 1) % 256]

\* The first free slot.
FirstFree(i) == /\ neighbours[i].addr = Free
                /\ \A j \in Slot : j < i => neighbours[j].addr # Free

\* Mutation of CountPing: the table is not searched for the sender first.
CountPingAgain(b) ==
    IF \E i \in Slot : neighbours[i].addr = Free
    THEN \E i \in Slot : FirstFree(i) /\
            neighbours' = [neighbours EXCEPT ![i] = More([@ EXCEPT !.addr = b])]
    ELSE neighbours' = [i \in Slot |-> IF neighbours[i].addr = b
                                       THEN More(neighbours[i]) ELSE neighbours[i]]

\* A ping: count it for its sender, or put the sender into the first free
\* slot; with no slot free it is forgotten.
CountPing(b) ==
    IF Known(b)
    THEN neighbours' = [i \in Slot |-> IF neighbours[i].addr = b
                                       THEN More(neighbours[i]) ELSE neighbours[i]]
    ELSE IF \E i \in Slot : neighbours[i].addr = Free
    THEN \E i \in Slot : FirstFree(i) /\
            neighbours' = [neighbours EXCEPT ![i] = More([@ EXCEPT !.addr = b])]
    ELSE UNCHANGED neighbours

\* Mutation of Aged: the slots keep their addresses.
AgedKeepsSlots(n) ==
    IF n.score < LIMIT THEN [n EXCEPT !.score = 0] ELSE [n EXCEPT !.score = @ - LIMIT]

\* Mutation of Aged: scores that are above the limit stay.
AgedKeepsHigh(n) == IF n.score < LIMIT THEN NoNeighbour ELSE n

\* A slot after an ageing.
Aged(n) == IF n.score < LIMIT THEN NoNeighbour ELSE [n EXCEPT !.score = @ - LIMIT]

\* Once a neighbour passes the limit all are aged; those below it are forgotten.
AgeTable ==
    /\ heard' = 0
    /\ neighbours' = IF \E i \in Slot : neighbours[i].score > LIMIT
                     THEN [i \in Slot |-> Aged(neighbours[i])]
                     ELSE neighbours

----------------------------------------------------------------------------
\* The slots the next try may choose: all but the neighbour of the last try.
Candidates == {i \in Slot : /\ neighbours[i].score > 0
                            /\ neighbours[i].addr \notin {Free, route.old}}

\* The choice: the first of the highest score.
Best(i) == /\ i \in Candidates
           /\ \A j \in Candidates :
                 \/ neighbours[j].score < neighbours[i].score
                 \/ neighbours[j].score = neighbours[i].score /\ i <= j

BeginRoute ==
    route' = [left |-> RETRIES, old |-> Free, tried |-> {},
              usable |-> {neighbours[i].addr : i \in {j \in Slot :
                             neighbours[j].score > 0 /\ neighbours[j].addr # Free}}]

\* After a try: the loop ends with the message acknowledged or no tries left.
AfterTry(tried, addr, ok) ==
    IF ok \/ route.left = 1
    THEN route' = Idle
    ELSE route' = [route EXCEPT !.left = @ - 1, !.old = addr, !.tried = tried]

\* Mutation of Try: the address is remembered in a variable of the inner block
\* only.
TryForgets(acked) ==
    /\ route.left > 0
    /\ \E i \in Slot :
          /\ Best(i)
          /\ neighbours' = IF acked THEN neighbours ELSE [neighbours EXCEPT ![i] = Less(@)]
          /\ AfterTry(route.tried \cup {neighbours[i].addr}, Free, acked)
    /\ UNCHANGED heard

\* One try: to the best candidate, which loses a point if it does not answer.
Try(acked) ==
    /\ route.left > 0
    /\ \E i \in Slot :
          /\ Best(i)
          /\ neighbours' = IF acked THEN neighbours ELSE [neighbours EXCEPT ![i] = Less(@)]
          /\ AfterTry(route.tried \cup {neighbours[i].addr}, neighbours[i].addr, acked)
    /\ UNCHANGED heard

\* A try without a candidate sends nothing, and the next may choose anyone.
TryNobody ==
    /\ route.left > 0 /\ Candidates = {}
    /\ AfterTry(route.tried, Free, FALSE)
    /\ UNCHANGED tableVars
=============================================================================
