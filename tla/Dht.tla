---------------------------------- MODULE Dht ----------------------------------
(* The reading of a DHT22, dht.cpp: the length of a pulse is measured in    *)
(* ticks of the kernel's timer and makes a bit, the bits make bytes, and the *)
(* last byte is the sum of the others.  The thread that waits for the       *)
(* pulses can be preempted: it then reads the timer late, at the start of a *)
(* pulse, which makes the pulse look shorter, or at its end, which makes it *)
(* look longer.                                                             *)
EXTENDS Integers

CONSTANT Delays   \* microseconds the thread may be late by

ASSUME DhtAssumption == Delays \subseteq Nat

TICK == 20        \* microseconds: CH_CFG_ST_FREQUENCY is 50000
Zero == 26 .. 28  \* microseconds of the pulse of a 0 and of a 1
One == 70

\* What the timer shows of a time that begins so far after a tick, and the
\* bit it is taken for.
Elapsed(us, phase) == TICK * ((us + phase) \div TICK)
ReadAs(us, phase) == IF Elapsed(us, phase) > 40 THEN 1 ELSE 0

\* From the reading of start_time to that of the timer, for a pulse of us
\* microseconds when the two come so late after its edges.
Measured(us, start, end) == (IF start < us THEN us - start ELSE 0) + end

\* The bits that the pulse of a bit may be taken for, wherever it lies between
\* two ticks, when the thread is late at these of its edges.
Edge == {"start", "end"}
Outcomes ==
    [bit \in {0, 1} |-> [edges \in SUBSET Edge |->
       {ReadAs(Measured(us, start, end), phase) :
          us \in IF bit = 1 THEN {One} ELSE Zero, phase \in 0 .. TICK - 1,
          start \in IF "start" \in edges THEN Delays ELSE {0},
          end \in IF "end" \in edges THEN Delays ELSE {0}}]]

----------------------------------------------------------------------------
\* A frame is the set of its 1s: bit i of byte b, counted from the high end.
Bit == (0 .. 4) \X (0 .. 7)
NextBit(x) == IF x[2] < 7 THEN <<x[1], x[2] + 1>> ELSE <<x[1] + 1, 0>>

\* The edges at which one preemption makes the thread late: between an edge and
\* the reading of the timer, lines 66 to 68 and 72 to 74, or from the end of a
\* pulse into the next one.  One that lasts longer misses a pulse.
Preemption ==
    {{<<edge, x>>} : edge \in Edge, x \in Bit}
      \cup {{<<"end", x>>, <<"start", NextBit(x)>>} : x \in Bit \ {<<4, 7>>}}

BitOf(frame, x) == IF x \in frame THEN 1 ELSE 0

ByteOf(frame, b) ==
    LET bit(i) == BitOf(frame, <<b, i>>) IN
    128 * bit(0) + 64 * bit(1) + 32 * bit(2) + 16 * bit(3)
      + 8 * bit(4) + 4 * bit(5) + 2 * bit(6) + bit(7)

\* A uint8_t.
Sum(frame) ==
    (ByteOf(frame, 0) + ByteOf(frame, 1) + ByteOf(frame, 2) + ByteOf(frame, 3)) % 256

\* What the sensor sends: its sum is right.
Sent(frame) == ByteOf(frame, 4) = Sum(frame)

\* Mutation of Accepted: the sum is not compared.
AcceptedUnchecked(frame, missed) == ~missed

\* readData: what may be received of a frame when the thread is late at these
\* edges, and the check.  A pulse that is missed leaves the thread to wait for
\* one that never comes, until its counter is at 0.
Misread(frame, late) ==
    {x \in Bit : 1 - BitOf(frame, x)
                   \in Outcomes[BitOf(frame, x)][{edge \in Edge : <<edge, x>> \in late}]}
Received(frame, late) ==
    {(frame \ wrong) \cup (wrong \ frame) : wrong \in SUBSET Misread(frame, late)}
Accepted(frame, missed) == ~missed /\ ByteOf(frame, 4) = Sum(frame)

\* ReadHumidity and ReadTemperature of a DHT22: the top bit is the sign.
Humidity(frame) == 100 * (ByteOf(frame, 0) * 256 + ByteOf(frame, 1))
Temperature(frame) ==
    LET size == 100 * ((ByteOf(frame, 2) % 128) * 256 + ByteOf(frame, 3)) IN
    IF <<2, 0>> \in frame THEN -size ELSE size
=============================================================================
