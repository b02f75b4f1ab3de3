--------------------------- MODULE MCStationNames ---------------------------
(* Sensors with NODE_IDs of their own; a table one slot longer than needed. *)
EXTENDS StationNames, TLC

CONSTANTS u1, u2

Two == {u1, u2}
One == {u1}
MCStationId == {2, 3, 4, 5, 7}
Distinct == (u1 :> 2) @@ (u2 :> 3)
OneHome == (u1 :> 2)
=============================================================================
