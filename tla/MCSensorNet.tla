---------------------------- MODULE MCSensorNet ----------------------------
(* Two sensors, up to three slots (ids 2..4), one device on a sensor.       *)
EXTENDS SensorNetProps, NodeTableProps, TLC

CONSTANTS u1, u2

MCUUID == {u1, u2}
MCStationId == {2, 3, 4, 7}
Same == [n \in MCUUID |-> 2]
Symmetry == Permutations(MCUUID)
Distinct == (u1 :> 2) @@ (u2 :> 3)
One == {u1}
OneUnset == (u1 :> 7)
============================================================================
