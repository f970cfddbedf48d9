--------------------------- MODULE MCRelayTable ---------------------------
(* A small instance of RelayTable: one pair of nodes, two of whose three   *)
(* addresses share an IP; the cfg offers three indices for two places.     *)
EXTENDS RelayTable, TLC

A(i, p) == [ip |-> i, port |-> p]
MCAddrs == {A("x", 1), A("x", 2), A("y", 1)}

(* The initial state and every action treat the nodes alike.               *)
Symmetry == Permutations(Nodes)

===========================================================================
