------------------------------ MODULE StationV2 ------------------------------
(* A sensor station with the version 2 firmware: loop() of rf_sensor_v2.ino *)
(* with its requests, 1-wire sensors, buttons and neighbour table.  One     *)
(* thread: a message that is being routed holds up everything else.         *)
EXTENDS Neighbours

CONSTANTS
    SETUP_ADDRESS,   \* 0xf0, the address of a station that has none
    Address,         \* the addresses that setup requests give
    Blank,           \* 0xff, read from an EEPROM that was never written
    Button,          \* buttons[]; Button 0 is the one setup() looks at
    MAX_SENSORS,     \* 1-wire sensors that can be found
    Near, Far,       \* the bases in reach, before and after the station is moved
    MESSAGES,        \* bound: messages of a sample or an identification
    LOSSES,          \* bound: messages to a base in reach that get lost
    RESTARTS         \* bound: restarts of the station

ASSUME StationAssumption ==
    /\ SETUP_ADDRESS \notin Address \cup {Blank}
    /\ 0 \in Button /\ IsFiniteSet(Button)
    /\ MAX_SENSORS \in Nat /\ Near \subseteq Base /\ Far \subseteq Base
    /\ MESSAGES \in Nat /\ LOSSES \in Nat /\ RESTARTS \in Nat

VARIABLES
    phase,      \* the place in loop()
    todo,       \* messages still to route in this phase
    address,    \* source_addr, in RAM
    eeprom,     \* word 0 of the EEPROM
    probe,      \* sensors, sensor_count, and the sensor that is converting
    pressed,    \* the buttons whose flag pressed is set
    waited,     \* which of the waits of 1200 ms are over
    world       \* reach, losses and restarts so far; not code

stationVars == <<todo, address, eeprom, probe, pressed, waited>>
vars == <<tableVars, route, phase, stationVars, world>>

Reach == IF world.moved THEN Far ELSE Near

\* What the loop finds in setup(): so many 1-wire sensors, and the first one
\* is told to convert.
Probe(n) == [sensors |-> n, count |-> 0, converting |-> 0]

\* 1200 ms since past_millis, and since a 1-wire sensor was told to convert.
Waits == {"sample", "conversion"}

\* setup(): n sensors are found, every button counts as pressed, and the
\* address is loaded from the EEPROM only if button 0 is held.  It takes 3000
\* ms, and past_millis is what it was before; the conversion starts now.
Setup(n, held, ram, stored) ==
    /\ neighbours' = EmptySlots /\ heard' = 0
    /\ probe' = Probe(n)
    /\ pressed' = Button /\ waited' = {"sample"}
    /\ address' = IF 0 \in held THEN stored ELSE ram

Init ==
    /\ neighbours = EmptySlots /\ heard = 0
    /\ route = Idle
    /\ phase = "receive" /\ todo = 0
    /\ address = SETUP_ADDRESS
    /\ eeprom \in Address \cup {Blank}
    /\ probe \in {Probe(n) : n \in 0 .. MAX_SENSORS}
    /\ pressed = Button /\ waited = {"sample"}
    /\ world = [moved |-> FALSE, losses |-> 0, restarts |-> 0]

----------------------------------------------------------------------------
(* Receiving.                                                               *)

HearPing(b) ==
    /\ phase = "receive" /\ b \in Reach
    /\ heard < PINGS
    /\ heard' = heard + 1
    /\ CountPing(b)
    /\ UNCHANGED <<route, phase, stationVars, world>>

\* PAYLOAD_SETUP, by radio or USB, to a station that has no address.  The
\* requests BUTTON and CONFIG set an output and a word nothing reads.
SetupRequest(new, n, held) ==
    /\ phase = "receive" /\ address = SETUP_ADDRESS
    /\ eeprom' = new
    /\ Setup(n, held, address, new)
    /\ UNCHANGED <<route, phase, todo, world>>

\* The radio's queue is empty.
Received == /\ phase = "receive" /\ phase' = "sample"
            /\ UNCHANGED <<tableVars, route, stationVars, world>>

----------------------------------------------------------------------------
(* Sampling and identification.                                             *)

\* Mutation of NextProbe: the conversion is started before the step.
NextProbeEarly ==
    LET next == IF probe.count + 1 >= probe.sensors THEN 0 ELSE probe.count + 1 IN
    probe' = [probe EXCEPT !.count = next, !.converting = probe.count]

\* The next sensor is told to convert, to be read in the next sample.
NextProbe ==
    LET next == IF probe.count + 1 >= probe.sensors THEN 0 ELSE probe.count + 1 IN
    probe' = IF probe.sensors = 0 THEN probe
             ELSE [probe EXCEPT !.count = next, !.converting = next]

\* 1200 ms after the last sample the next 1-wire sensor is read.  One that
\* answers gives a message, also if its CRC is wrong: present = -1 is 255 in a
\* byte.
Sample(messages) ==
    /\ phase = "sample" /\ "sample" \in waited
    /\ messages > 0 => probe.sensors > 0
    /\ todo' = messages /\ phase' = "temperature"
    /\ UNCHANGED <<tableVars, route, address, eeprom, probe, pressed, waited, world>>

NoSample == /\ phase = "sample" /\ "sample" \notin waited
            /\ phase' = "ident"
            /\ UNCHANGED <<tableVars, route, stationVars, world>>

\* After that message the next conversion starts and past_millis is set; light
\* and pressure give theirs.
StartConversion(messages) ==
    /\ phase = "temperature" /\ todo = 0 /\ route = Idle
    /\ NextProbe
    /\ waited' = {}
    /\ todo' = messages /\ phase' = "sampling"
    /\ UNCHANGED <<tableVars, route, address, eeprom, pressed, world>>

\* After the last message of the sample.
Age == /\ phase = "sampling" /\ todo = 0 /\ route = Idle
       /\ AgeTable
       /\ phase' = "ident"
       /\ UNCHANGED <<route, stationVars, world>>

\* Every 5000 ms the descriptions.
Identify(messages) ==
    /\ phase = "ident"
    /\ todo' = messages /\ phase' = "identifying"
    /\ UNCHANGED <<tableVars, route, address, eeprom, probe, pressed, waited, world>>

NoIdentify == /\ phase = "ident" /\ phase' = "buttons"
              /\ UNCHANGED <<tableVars, route, stationVars, world>>

Identified ==
    /\ phase = "identifying" /\ todo = 0 /\ route = Idle
    /\ phase' = "buttons"
    /\ UNCHANGED <<tableVars, route, stationVars, world>>

----------------------------------------------------------------------------
(* Buttons.                                                                 *)

\* A button that is up is not pressed; one that has been down for 50 ms and is
\* not marked yet gives a message.
ScanButtons(down, long) ==
    LET new == (down \cap long) \ pressed IN
    /\ phase = "buttons"
    /\ pressed' = (pressed \cap down) \cup new
    /\ todo' = Cardinality(new)
    /\ phase' = "pressing"
    /\ UNCHANGED <<tableVars, route, address, eeprom, probe, waited, world>>

\* wfi, and the next turn of the loop.
Turn == /\ phase = "pressing" /\ todo = 0 /\ route = Idle
        /\ phase' = "receive"
        /\ UNCHANGED <<tableVars, route, stationVars, world>>

----------------------------------------------------------------------------
(* Messages.                                                                *)

Route == /\ todo > 0 /\ route = Idle
         /\ BeginRoute
         /\ todo' = todo - 1
         /\ UNCHANGED <<tableVars, phase, address, eeprom, probe, pressed, waited, world>>

\* A base in reach acknowledges, but for a bounded number of losses.
RouteTry(acked) ==
    /\ Try(acked)
    /\ LET inReach == \E i \in Slot : Best(i) /\ neighbours[i].addr \in Reach IN
       /\ acked => inReach
       /\ ~acked /\ inReach => world.losses < LOSSES
       /\ world' = [world EXCEPT !.losses = @ + IF ~acked /\ inReach THEN 1 ELSE 0]
    /\ UNCHANGED <<phase, stationVars>>

RouteNobody == /\ TryNobody
               /\ UNCHANGED <<phase, stationVars, world>>

----------------------------------------------------------------------------
(* The world.                                                               *)

\* 1200 ms go by.
Tick == /\ waited # Waits /\ waited' = Waits
        /\ UNCHANGED <<tableVars, route, phase, todo, address, eeprom, probe, pressed, world>>

Move == /\ ~world.moved /\ world' = [world EXCEPT !.moved = TRUE]
        /\ UNCHANGED <<tableVars, route, phase, stationVars>>

\* Power goes and comes back.
Restart(n, held) ==
    /\ world.restarts < RESTARTS
    /\ world' = [world EXCEPT !.restarts = @ + 1]
    /\ Setup(n, held, SETUP_ADDRESS, eeprom)
    /\ phase' = "receive" /\ todo' = 0 /\ route' = Idle
    /\ UNCHANGED eeprom

Loop == \/ Received \/ NoSample \/ Age \/ NoIdentify \/ Identified \/ Turn
        \/ Route \/ RouteNobody
        \/ \E messages \in 0 .. 1 : Sample(messages)
        \/ \E messages \in 1 .. MESSAGES : StartConversion(messages) \/ Identify(messages)
        \/ \E down \in SUBSET Button, long \in SUBSET Button : ScanButtons(down, long)
        \/ \E acked \in BOOLEAN : RouteTry(acked)

Next == \/ Loop
        \/ \E b \in Base : HearPing(b)
        \/ \E new \in Address, n \in 0 .. MAX_SENSORS, held \in SUBSET Button :
              SetupRequest(new, n, held)
        \/ \E n \in 0 .. MAX_SENSORS, held \in SUBSET Button : Restart(n, held)
        \/ Tick \/ Move

Spec == Init /\ [][Next]_vars
=============================================================================
