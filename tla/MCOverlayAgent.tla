-------------------------- MODULE MCOverlayAgent --------------------------
(***************************************************************************)
(* The two halves of an agent that follow its neighbour map: the forwarder *)
(* of overlay envelopes, between three nodes, and the leases on paths that *)
(* were resolved on demand.  They share no state and each behaviour drives *)
(* one of them.                                                            *)
(***************************************************************************)
EXTENDS MCOverlayForwarder, AgentOverlay

CONSTANTS c1, c2, c3    \* the routes

VARIABLE running

(* Two routes of p compete for one lease with each other, and with the one *)
(* of q.  The second map brings a new topology, the third new routes.      *)
MCOwner == [c \in Cidrs |-> IF c = c3 THEN "q" ELSE "p"]
NeighborMap(generated, topology, routing, neighbors, pinned) ==
    [generated_at |-> generated, topology_epoch |-> topology, routing_epoch |-> routing,
     neighbors |-> neighbors, pinned_peers |-> pinned, on_demand_peer_limit |-> 1]
MCMaps == {NeighborMap(1, 1, 1, {"q"}, {}), NeighborMap(2, 2, 1, {}, {}),
           NeighborMap(3, 2, 2, {}, {"q"})}

(* No path is of e2 or e4 and both name the same graph; c1 and c2 are both *)
(* routes of p.                                                            *)
Interchangeable == Permutations({e2, e4}) \cup Permutations({c1, c2})

MCInit == Init /\ AgentInit /\ running \in {"forwarder", "agent"}

MCNext ==
    \/ running = "forwarder" /\ Next /\ UNCHANGED <<running, agentVars>>
    \/ running = "agent" /\ AgentNext /\ UNCHANGED <<running, vars>>

MCSpec == MCInit /\ [][MCNext]_<<running, vars, agentVars>>

===========================================================================
