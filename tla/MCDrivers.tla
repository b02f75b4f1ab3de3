------------------------------ MODULE MCDrivers ------------------------------
(* The radio thread's rounds and one use of the shell's command; a DHT22    *)
(* that measures a positive and a negative temperature, 35.1 and -10.1.     *)
EXTENDS SensorDrivers, Sequences

FrameOf(bytes) == {x \in Bit : (bytes[x[1] + 1] \div 2 ^ (7 - x[2])) % 2 = 1}

MCFrames == {FrameOf(<<2, 140, 1, 95, 238>>), FrameOf(<<2, 140, 128, 101, 115>>)}
=============================================================================
