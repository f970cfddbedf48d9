------------------------ MODULE MCManifestRotation ------------------------
(* Competing and chained rotations, capabilities of both epochs in flight  *)
(* across them, and a control plane that still runs without a verifier.    *)
EXTENDS CapabilityLedger, TLC
CONSTANTS h1, h2, l1, r1, r2, r3

M(epoch, group) == [epoch |-> epoch, group |-> group]
M1 == M(1, "g1")
M2 == M(2, "g2")
Rival == M(2, "g3")
M3 == M(3, "g1")
Relabelled == M(3, "g2")
MCManifests == {M1, M2, Rival, M3, Relabelled}

C(m, from, to) == [manifest |-> m, request_id |-> r1, target |-> NoTarget,
                   issued_at |-> from, expires_at |-> to]
MCClaims == {C(M1, 0, 2), C(M2, 0, 2)}

T(old, new, r, from, to) == [old |-> old, new |-> new, request_id |-> r,
                             issued_at |-> from, expires_at |-> to]
(* The last one relabels a signing group, which validate refuses.          *)
MCTransitions == {T(M1, M2, r1, 0, 2), T(M1, Rival, r2, 0, 2),
                  T(M2, M3, r3, 1, 2), T(M2, Relabelled, r2, 0, 2)}
Symmetry == Permutations(Handlers)
=============================================================================
