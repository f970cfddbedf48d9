-------------------------- MODULE MCRelayService --------------------------
(* A small instance of RelayService: two admission calls at a time, and a  *)
(* relay of three sessions of which a node may have two.  Among four nodes *)
(* a third session may be refused for its node with the relay not yet      *)
(* full, and a fourth for the relay with neither of its nodes full.        *)
EXTENDS RelayService, TLC

A(i, p) == [ip |-> i, port |-> p]
MCAddrs == {A("x", 1), A("y", 1)}

(* The initial state and every action treat calls alike, and nodes too.    *)
Symmetry == Permutations(Nodes) \cup Permutations(Calls)

(* Admission counts sessions by their nodes, whatever their addresses, and *)
(* the run of RelayTable explores these: here a session keeps the two it   *)
(* was first admitted with.                                                *)
AddressesFixed ==
    \A id \in SessionId : Live(id) =>
        /\ sessions[id].learned = [side \in Sides |-> FALSE]
        /\ sessions[id].addr["Left"] = A("x", 1)

===========================================================================
