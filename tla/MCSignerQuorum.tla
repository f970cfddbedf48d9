-------------------------- MODULE MCSignerQuorum --------------------------
(* Two claims compete for two signers whose clocks disagree, while the     *)
(* same signers and a new group, with a common member, sign a transition.  *)
EXTENDS SignerQuorum
CONSTANTS a, b, c, r1, r2

M1 == [epoch |-> 1, group |-> "g1"]
M2 == [epoch |-> 2, group |-> "g2"]
C(r, from, to) == [manifest |-> M1, request_id |-> r, target |-> NoTarget,
                   issued_at |-> from, expires_at |-> to]
MCManifests == {M1, M2}
MCRoster == [m \in MCManifests |-> IF m = M1 THEN {a, b} ELSE {b, c}]
MCClaims == {C(r1, 0, 2), C(r2, 2, 3)}
MCTransitions == {[old |-> M1, new |-> M2, request_id |-> r1,
                   issued_at |-> 0, expires_at |-> 1]}
MCAnchor == M1
=============================================================================
