--------------------------- MODULE SequenceFilter ---------------------------
(* The test of sensor_node.py for a reading that was seen before: the       *)
(* sequence numbers of a station count up and wrap around.                  *)
EXTENDS Integers

CONSTANTS
    MODULUS,   \* numbers are 0 .. MODULUS - 1: 256, or 512 from interface.py
    GAP,       \* 200: so much below the last number is a wrap, not a repeat
    AGE        \* 2: seconds after which any number is new

ASSUME FilterAssumption ==
    /\ MODULUS \in Nat \ {0} /\ GAP \in Nat /\ GAP < MODULUS
    /\ AGE \in Nat

\* Mutations of IsNew: an equal number is new; a wrap is not looked for.
IsNewOrEqual(last, no, age) == no >= last \/ age > AGE \/ last - no > GAP
IsNewNoWrap(last, no, age) == no > last \/ age > AGE

\* The reading `no`, `age` seconds after the reading `last`.
IsNew(last, no, age) == no > last \/ age > AGE \/ last - no > GAP

\* The number d readings on.
Later(no, d) == (no + d) % MODULUS
=============================================================================
