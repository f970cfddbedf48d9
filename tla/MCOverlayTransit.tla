------------------------- MODULE MCOverlayTransit -------------------------
(* Two datagrams to one peer over one first relay, under an epoch with a   *)
(* secondary path or under one without; one acknowledgement at a time.     *)
EXTENDS OverlayTransit

MCPaths == {[target |-> "d", topology_epoch |-> 1, next_hop |-> "a",
             primary |-> 3, secondary |-> 3],
            [target |-> "d", topology_epoch |-> 2, next_hop |-> "a",
             primary |-> 3, secondary |-> 0]}

===========================================================================
