--------------------------- MODULE QuorumClaims ---------------------------
(***************************************************************************)
(* The vocabulary of the admin quorum (crates/ipars-quorum/src/lib.rs and  *)
(* rotation.rs): manifests, capability claims, manifest transitions, their *)
(* lifetimes, and time as the processes that check them read it.           *)
(*                                                                         *)
(* Every process reads its own Utc::now().  The model has one real time,   *)
(* now, and lets each read return any value within Skew of it, so clocks   *)
(* of different machines disagree and one machine's clock may step back.   *)
(* Claims are records of the fields the checks look at: the manifest that  *)
(* epoch and digest name, the request id, the lifetime, and target, the    *)
(* request id that the body of a revocation names (NoTarget for any other  *)
(* mutation; method, path and body are bound by the signature).            *)
(***************************************************************************)
EXTENDS Integers

CONSTANTS
    Manifests,       \* manifests, [epoch |-> _, group |-> _]
    RequestIds,
    Claims,          \* the claims for which a signature may be requested
    Transitions,     \* the manifest transitions for which one may be requested
    NoTarget,
    MaxTtl,          \* MAX_CAPABILITY_TTL_SECS
    Skew,            \* how far any process's clock is from real time
    MaxTime          \* bound: last tick of real time

ASSUME ManifestsAssumption ==
    \A m \in Manifests : m.epoch \in Nat \ {0}

ASSUME ClaimsAssumption ==
    \A c \in Claims : /\ c.manifest \in Manifests
                      /\ c.request_id \in RequestIds
                      /\ c.target \in RequestIds \cup {NoTarget}
                      /\ c.issued_at \in Int
                      /\ c.expires_at \in Int

ASSUME TransitionsAssumption ==
    \A tr \in Transitions : /\ tr.old \in Manifests
                            /\ tr.new \in Manifests
                            /\ tr.request_id \in RequestIds
                            /\ tr.issued_at \in Int
                            /\ tr.expires_at \in Int

ASSUME TimeAssumption == MaxTtl \in Nat /\ Skew \in Nat /\ MaxTime \in Nat

VARIABLE now         \* real time

Readings == (now - Skew)..(now + Skew)

(* Mutant: the lifetime is not limited to MAX_CAPABILITY_TTL_SECS.         *)
ValidLifetimeUnbounded(c, t) == c.issued_at <= t /\ t < c.expires_at

(* The time checks of CapabilityClaims::validate and of                    *)
(* ManifestTransition::validate.                                           *)
ValidLifetime(c, t) ==
    /\ c.issued_at <= t
    /\ t < c.expires_at
    /\ c.issued_at < c.expires_at
    /\ c.expires_at - c.issued_at <= MaxTtl

(* ManifestTransition::validate against the old manifest.                  *)
ValidTransition(tr, old, t) ==
    /\ tr.old = old
    /\ tr.new.epoch = old.epoch + 1
    /\ tr.new.group # old.group
    /\ ValidLifetime(tr, t)
=============================================================================
