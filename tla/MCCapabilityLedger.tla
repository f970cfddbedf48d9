------------------------ MODULE MCCapabilityLedger ------------------------
(* Replay, revocation and collection under one manifest, with clocks that *)
(* disagree by as much as the grace period tolerates.                     *)
EXTENDS CapabilityLedger, TLC
CONSTANTS h1, h2, r1, r2, r3

M1 == [epoch |-> 1, group |-> "g1"]
C(r, target, from, to) == [manifest |-> M1, request_id |-> r, target |-> target,
                           issued_at |-> from, expires_at |-> to]
MCManifests == {M1}
(* A mutation, a revocation of it, a later mutation whose consumption      *)
(* collects the ledger, and a mutation whose lifetime exceeds the limit,   *)
(* which no signer signs.                                                  *)
MCClaims == {C(r1, NoTarget, 1, 3), C(r2, r1, 0, 2), C(r3, NoTarget, 3, 5),
             C(r1, NoTarget, 0, 12)}
Symmetry == Permutations(Handlers)
=============================================================================
