--------------------------- MODULE StationV2Props ---------------------------
(* The properties of the version 2 station.                                 *)
EXTENDS StationV2

\* Type invariant.
StationTypeOK ==
    /\ neighbours \in [Slot -> Neighbour] /\ heard \in 0 .. PINGS
    /\ route \in [left : 0 .. RETRIES, old : Base \cup {Free},
                  tried : SUBSET Base, usable : SUBSET Base]
    /\ phase \in {"receive", "sample", "temperature", "sampling", "ident",
                  "identifying", "buttons", "pressing"}
    /\ todo \in Nat /\ pressed \subseteq Button /\ waited \subseteq Waits
    /\ address \in Address \cup {Blank, SETUP_ADDRESS}
    /\ eeprom \in Address \cup {Blank}
    /\ probe \in [sensors : 0 .. MAX_SENSORS, count : Nat, converting : Nat]
    /\ world \in [moved : BOOLEAN, losses : Nat, restarts : 0 .. RESTARTS]

\* The byte of a score never wraps, neither up, by pings, nor down, by failed
\* sends: ageing takes from the scores what the pings of a period can add.
ScoreBounded == \A i \in Slot : neighbours[i].score <= LIMIT + heard

\* A base has one slot, and a slot that was given back starts at score 0, or
\* its next owner would be preferred for what was heard of another.
OneSlotPerNeighbour ==
    \A i, j \in Slot :
       /\ neighbours[i].addr = neighbours[j].addr /\ i # j => neighbours[i].addr = Free
       /\ neighbours[i].addr = Free => neighbours[i].score = 0

\* rf_sensor_v2.ino:109 "Add code here for now to send the message to at least
\* the two best base stations.", as far as the code does it: a message that is
\* not acknowledged in two tries was offered to two neighbours, if two had a
\* score when it began.
TriesTwo ==
    route.left \in 1 .. RETRIES - 2 =>
       Cardinality(route.tried) > 1 \/ route.usable \subseteq route.tried

\* A temperature is the one of the 1-wire sensor whose number it is sent with:
\* the sensor that is read next is the one that converts.  And it has had
\* 1200 ms for that, as rf_sensor_v2.ino:303 says ("past_millis = millis(); is
\* set when conversion is initiated!"), but for sensor 0 after setup(), which
\* starts a conversion and leaves past_millis alone.
ReadsWhatConverts ==
    /\ probe.sensors > 0 => probe.converting = probe.count
    /\ probe.count < probe.sensors \/ probe.count = 0
    /\ "sample" \in waited /\ "conversion" \notin waited => probe.count = 0

----------------------------------------------------------------------------
\* The loop runs and its clock goes on; bases in reach ping for ever.
StationFairness ==
    /\ WF_vars(Loop)
    /\ WF_vars(Tick)
    /\ \A b \in Base : SF_vars(HearPing(b))

FairStation == Spec /\ StationFairness

\* After a move to other bases a station finds them all, in spite of the
\* neighbours it has left, if its table has a free slot or knows one of them.
\* (A table full of neighbours that were left is never aged.)
FindsNewBases ==
    \A b \in Far :
       world.moved /\ (\E i \in Slot : neighbours[i].addr \in Far \cup {Free})
          ~> Known(b)
=============================================================================
