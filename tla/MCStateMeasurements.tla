------------------------ MODULE MCStateMeasurements -------------------------
(***************************************************************************)
(* Two processes in the namespace of a task whose query a has two rewrites *)
(* b and c that share the rewrite c, and a session scale of 0 or 1.        *)
(***************************************************************************)
EXTENDS StateMeasurements

CONSTANTS a, b, c, p1, p2

MCEdge  == [p \in Process |-> IF p = p1 THEN {<<a, b>>, <<b, c>>, <<a, c>>} ELSE {<<a, a>>}]
MCCost  == [q \in Key |-> IF q = a THEN 3 ELSE IF q = b THEN 1 ELSE 0]
MCDrift == {0, 1}
MCValue == {MCCost[q] + d : q \in Key, d \in MCDrift} \cup {Failed}
=============================================================================
