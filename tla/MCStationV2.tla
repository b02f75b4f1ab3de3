---------------------------- MODULE MCStationV2 ----------------------------
(* Two slots and three bases, of which two are in reach before the station  *)
(* is moved and two after it; the limit of 40 becomes 1.                    *)
EXTENDS StationV2Props
MCButton == {0}
=============================================================================
