------------------------ MODULE MCOverlayForwarder ------------------------
(* A source, a relay and a destination.  Epochs e1, e2 and e4 join them in *)
(* a line; in e3 the source has a direct edge to the destination and the   *)
(* relay none, so that the relayed path of e3 cannot complete.             *)
(* The source changes topology three times, back and forth and past its    *)
(* two retained maps, the others once.                                     *)
EXTENDS OverlayForwarder

CONSTANTS e1, e2, e3, e4    \* the epochs

Line == [n \in {"s", "a", "d"} |-> CASE n = "s" -> {"a"}
                                     [] n = "a" -> {"s", "d"}
                                     [] n = "d" -> {"a"}]
Star == [n \in {"s", "a", "d"} |-> CASE n = "s" -> {"a", "d"}
                                     [] n = "a" -> {"s"}
                                     [] n = "d" -> {"s"}]
MCGraph == [e \in Epochs |-> IF e = e3 THEN Star ELSE Line]
MCMaxUpdates == [s |-> 3, a |-> 1, d |-> 1]

P(e, nodes) == [topology_epoch |-> e, ordered_nodes |-> nodes]
MCPaths == {P(e1, <<"s", "a", "d">>), P(e3, <<"s", "a", "d">>)}

===========================================================================
