----------------------------- MODULE SensorDrivers -----------------------------
(* The sensors of a version 3 board in the round of Thread1: the DHT22      *)
(* first, the pressure sensor after it, with the shell's command at any     *)
(* point in between.                                                        *)
EXTENDS PressureSensor, Dht

CONSTANT Frames   \* frames of the DHT22

ASSUME DriversAssumption == \A f \in Frames : f \subseteq Bit /\ Sent(f)

VARIABLE
    misread     \* with how many preemptions a wrong value was sent; a history

driverVars == <<vars, misread>>

Value(frame) == <<Temperature(frame), Humidity(frame)>>

\* Bound: at most two preemptions of a frame.
Late == {p \cup q : p, q \in Preemption}

\* readData and the two Read functions: what can come of a frame.
ReadingsOf(frame, late) ==
    LET preemptions == IF \E p \in Preemption : late \subseteq p THEN 1 ELSE 2 IN
    {[sent |-> Accepted(received, missed),
      right |-> Value(received) = Value(frame),
      preemptions |-> preemptions] : received \in Received(frame, late), missed \in BOOLEAN}

Readings == UNION {ReadingsOf(frame, late) : frame \in Frames, late \in Late}

\* The thread sends a reading unless readData fails.
ReadDht(reading) ==
    /\ firmware = "v3" /\ present # "unset" /\ thread["radio"].todo = <<>>
    /\ misread' = IF reading.sent /\ ~reading.right
                  THEN misread \cup {reading.preemptions} ELSE misread
    /\ UNCHANGED vars

DriversInit == Init /\ misread = {}

DriversNext ==
    \/ Next /\ UNCHANGED misread
    \/ \E reading \in Readings : ReadDht(reading)

DriversSpec ==
    /\ DriversInit /\ [][DriversNext]_driverVars
    /\ WF_driverVars(NextRound /\ UNCHANGED <<firmware, misread>>)
    /\ \A t \in Thread : WF_driverVars(Transact(t) /\ UNCHANGED <<firmware, misread>>)

----------------------------------------------------------------------------
\* A value of the DHT22 that is sent is the one it measured, wherever the
\* pulses lie between the ticks, unless the thread was preempted twice at edges
\* of one frame: what one preemption changes, a bit or the two bits around it,
\* the sum always shows.
OnePreemptionIsFound == 1 \notin misread
=============================================================================
