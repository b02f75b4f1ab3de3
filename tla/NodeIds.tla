------------------------------ MODULE NodeIds ------------------------------
(* What the gateway's id table promises: an id belongs to nobody or to one  *)
(* sensor, it is handed out once, and only the loss of the whole table      *)
(* takes it back.                                                           *)
CONSTANTS UUID, NoUUID, Slot

VARIABLE owner

Init == owner = [i \in Slot |-> NoUUID]

Grant(i, uuid) == /\ owner[i] = NoUUID
                  /\ owner' = [owner EXCEPT ![i] = uuid]

ForgetAll == owner' = [i \in Slot |-> NoUUID]

Next == (\E i \in Slot, uuid \in UUID : Grant(i, uuid)) \/ ForgetAll

Spec == Init /\ [][Next]_owner
============================================================================
