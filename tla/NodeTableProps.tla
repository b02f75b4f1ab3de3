--------------------------- MODULE NodeTableProps ---------------------------
(* The properties of the id table, over every call the gateway thread makes *)
(* to framing.cpp in every order.                                           *)
EXTENDS NodeTable

\* The table is an array of slots with a UUID and a flags byte.
TableTypeOK == nodes \in [Slot -> Node]

\* A slot has a UUID exactly when its ASSIGNED flag is set: no sequence of
\* assign_node, get_flags and set_flag makes the host's UUID query (command
\* 0x2000, guarded by ASSIGNED) answer with a UUID nobody sent, or hides one.
OwnerIffAssigned ==
    \A i \in Slot : ASSIGNED \in nodes[i].flags <=> nodes[i].uuid \in UUID

\* assign_node is idempotent: a sensor whose ACK was lost asks again, and after
\* any step that answers (uuid, station) with an id the search of the retry
\* stops at that very id, at a slot that is not free, so it takes nothing.
RetryGetsSameId ==
    [][\A uuid \in UUID, station \in StationId, i \in Slot :
          AssignNode(uuid, station, i + AUTO_NODE_OFFSET) =>
             FirstFrom(Index(station), uuid, i)' /\ nodes'[i].flags # {}]_nodes

\* The table implements the id service.
Owner == [i \in Slot |-> IF ASSIGNED \in nodes[i].flags THEN nodes[i].uuid
                                                       ELSE NoUUID]
Ids == INSTANCE NodeIds WITH owner <- Owner
IdsGrantedOnce == Ids!Spec
=============================================================================
