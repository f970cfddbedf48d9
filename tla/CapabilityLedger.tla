------------------------- MODULE CapabilityLedger -------------------------
(***************************************************************************)
(* How the control planes execute quorum-approved admin mutations:         *)
(* QuorumVerifier, revoke and apply_rotation of                            *)
(* crates/ipars-control-plane-http/src/quorum.rs and quorum/rotation.rs,   *)
(* require_management_auth of the same crate, and the shared ledger of     *)
(* crates/ipars-control-plane/src/lib.rs and crates/ipars-store/src/lib.rs *)
(* (one lock or one serialised transaction per operation in all three      *)
(* stores, hence one action per operation).                                *)
(*                                                                         *)
(* A handler is one request in progress on some control plane.  Between    *)
(* its steps other handlers, of the same or of another control plane, take *)
(* theirs.  Each step reads the handler's own clock.  A handler may vanish *)
(* after any step (crash, failed check, store error, five-second timeout), *)
(* and a timeout may hide the answer of an operation that did commit.      *)
(***************************************************************************)
EXTENDS CapabilityIssuance, FiniteSets

CONSTANTS
    Handlers,        \* requests in progress on planes with a verifier
    LegacyHandlers,  \* requests in progress on planes without one
    Grace,           \* ADMIN_CAPABILITY_LEDGER_GC_GRACE_SECONDS
    MaxRecords,      \* MAX_ADMIN_CAPABILITY_LEDGER_RECORDS
    NoAnchor, NoRequest

(* Two processes' clocks differ by at most 2 * Skew.                       *)
ASSUME GraceAssumption == Grace \in Nat /\ 2 * Skew <= Grace

ASSUME DistinctAssumption ==
    /\ NoAnchor \notin Manifests
    /\ NoRequest \notin Claims \cup Transitions
    /\ Handlers \cap LegacyHandlers = {}
    /\ MaxRecords \in Nat

VARIABLES
    anchor,          \* the shared manifest anchor
    manifests,       \* the public manifests stored beside it
    rotations,       \* the rotation history
    entries,         \* the capability ledger: uses and revocations
    stage,           \* how far each handler is
    request,         \* the claims or transition each handler works on
    loaded,          \* the manifest or anchor each handler has read
    tombstone,       \* the expiry a revoking handler has computed
    consumed,        \* history: claims whose use was committed
    executed,        \* history: how often each claims' mutation was run
    revocations      \* history: committed revocations

storeVars == <<anchor, manifests, rotations, entries>>
handlerVars == <<stage, request, loaded, tombstone>>
historyVars == <<consumed, executed, revocations>>
vars == <<issuanceVars, storeVars, handlerVars, historyVars>>

AllHandlers == Handlers \cup LegacyHandlers

Stages == {"idle", "loaded", "verified", "authorized", "revoking",
           "rotating", "rotation", "probed", "authenticated", "cleared"}

Entry == [manifest : Manifests, request_id : RequestIds,
          expires_at : Int, revoked : BOOLEAN]

NoTombstone == [at |-> 0, expires_at |-> 0]

Init ==
    /\ IssuanceInit
    /\ anchor = NoAnchor
    /\ manifests = {}
    /\ rotations = {}
    /\ entries = {}
    /\ stage = [h \in AllHandlers |-> "idle"]
    /\ request = [h \in AllHandlers |-> NoRequest]
    /\ loaded = [h \in AllHandlers |-> NoAnchor]
    /\ tombstone = [h \in AllHandlers |-> NoTombstone]
    /\ consumed = {}
    /\ executed = [c \in Claims |-> 0]
    /\ revocations = {}

-----------------------------------------------------------------------------
(* The shared ledger.                                                      *)

(* A control plane starts with the local manifest m: it installs the first *)
(* anchor or finds its own manifest there; any other anchor stops it.      *)
InitializeManifest(m) ==
    /\ \/ anchor = m
       \/ anchor = NoAnchor /\ entries = {} /\ manifests = {} /\ rotations = {}
    /\ anchor' = m
    /\ manifests' = manifests \cup {m}
    /\ UNCHANGED <<issuanceVars, rotations, entries, handlerVars, historyVars>>

(* Mutant: tombstones are collected as soon as the claims have expired.    *)
KeptNoGrace(t) == {e \in entries : e.expires_at > t}

(* What the collection at clock reading t leaves of the ledger.            *)
Kept(t) == {e \in entries : e.expires_at > t - Grace}

(* Mutant: the record's manifest is not compared with the anchor.          *)
AdmissibleAnyManifest(m, expires_at, t) == expires_at > t

(* validate_for_ledger and the anchor check: without them the operation    *)
(* answers false before it collects anything.                              *)
Admissible(m, expires_at, t) == expires_at > t /\ anchor = m

Free(m, request_id, t) ==
    /\ \A e \in Kept(t) : e.manifest.epoch # m.epoch \/ e.request_id # request_id
    /\ Cardinality(Kept(t)) < MaxRecords

-----------------------------------------------------------------------------
(* Handlers on planes with a verifier.                                     *)

ToStage(h, s) == stage' = [stage EXCEPT ![h] = s]

(* The request is over; its handler can take another one.                  *)
Done(h) ==
    /\ ToStage(h, "idle")
    /\ request' = [request EXCEPT ![h] = NoRequest]
    /\ loaded' = [loaded EXCEPT ![h] = NoAnchor]
    /\ tombstone' = [tombstone EXCEPT ![h] = NoTombstone]

(* The request ends without an effect of its own: a failed check, a store  *)
(* error, a timeout whose operation did not commit, a crash.               *)
Abandon(h) ==
    /\ stage[h] # "idle"
    /\ Done(h)
    /\ UNCHANGED <<issuanceVars, storeVars, historyVars>>

(* A request arrives and the verifier reads the active manifest.           *)
LoadActive(h, c) ==
    /\ stage[h] = "idle"
    /\ c \in Signed
    /\ anchor \in manifests
    /\ ToStage(h, "loaded")
    /\ request' = [request EXCEPT ![h] = c]
    /\ loaded' = [loaded EXCEPT ![h] = anchor]
    /\ UNCHANGED <<issuanceVars, storeVars, tombstone, historyVars>>

VerifyCapability(h) ==
    /\ stage[h] = "loaded"
    /\ request[h].manifest = loaded[h]
    /\ \E t \in Readings : ValidLifetime(request[h], t)
    /\ ToStage(h, "verified")
    /\ UNCHANGED <<issuanceVars, storeVars, request, loaded, tombstone, historyVars>>

(* consume_admin_capability commits; the handler goes on only if it hears  *)
(* the answer in time.                                                     *)
Consume(h) ==
    LET c == request[h] IN
    /\ stage[h] = "verified"
    /\ \E t \in Readings :
        /\ Admissible(c.manifest, c.expires_at, t)
        /\ Free(c.manifest, c.request_id, t)
        /\ entries' = Kept(t) \cup {[manifest |-> c.manifest,
                                     request_id |-> c.request_id,
                                     expires_at |-> c.expires_at,
                                     revoked |-> FALSE]}
    /\ consumed' = consumed \cup {c}
    /\ \/ ToStage(h, "authorized") /\ UNCHANGED <<request, loaded, tombstone>>
       \/ Done(h)
    /\ UNCHANGED <<issuanceVars, anchor, manifests, rotations, executed, revocations>>

(* The key is taken or the ledger is full: only the collection commits.    *)
Refused(h, m, request_id, expires_at) ==
    /\ \E t \in Readings :
        /\ Admissible(m, expires_at, t)
        /\ ~Free(m, request_id, t)
        /\ entries' = Kept(t)
    /\ Done(h)
    /\ UNCHANGED <<issuanceVars, anchor, manifests, rotations, historyVars>>

ConsumeRefused(h) ==
    /\ stage[h] = "verified"
    /\ Refused(h, request[h].manifest, request[h].request_id, request[h].expires_at)

(* The authorized mutation runs.                                           *)
Dispatch(h) ==
    /\ stage[h] = "authorized"
    /\ request[h].target = NoTarget
    /\ executed' = [executed EXCEPT ![request[h]] = @ + 1]
    /\ Done(h)
    /\ UNCHANGED <<issuanceVars, storeVars, consumed, revocations>>

(* The authorized mutation is a revocation: revoke computes the tombstone. *)
DispatchRevocation(h) ==
    /\ stage[h] = "authorized"
    /\ request[h].target # NoTarget
    /\ executed' = [executed EXCEPT ![request[h]] = @ + 1]
    /\ \E t \in Readings :
        tombstone' = [tombstone EXCEPT ![h] = [at |-> now, expires_at |-> t + MaxTtl]]
    /\ ToStage(h, "revoking")
    /\ UNCHANGED <<issuanceVars, storeVars, request, loaded, consumed, revocations>>

(* revoke_admin_capability commits, whether or not the answer arrives.     *)
Revoke(h) ==
    LET c == request[h]
        expires_at == tombstone[h].expires_at IN
    /\ stage[h] = "revoking"
    /\ \E t \in Readings :
        /\ Admissible(c.manifest, expires_at, t)
        /\ Free(c.manifest, c.target, t)
        /\ entries' = Kept(t) \cup {[manifest |-> c.manifest,
                                     request_id |-> c.target,
                                     expires_at |-> expires_at,
                                     revoked |-> TRUE]}
    /\ revocations' = revocations \cup
                      {[manifest |-> c.manifest, request_id |-> c.target,
                        at |-> tombstone[h].at]}
    /\ Done(h)
    /\ UNCHANGED <<issuanceVars, anchor, manifests, rotations, consumed, executed>>

RevokeRefused(h) ==
    /\ stage[h] = "revoking"
    /\ Refused(h, request[h].manifest, request[h].target, tombstone[h].expires_at)

-----------------------------------------------------------------------------
(* Rotation of the manifest.                                               *)

LoadForRotation(h, tr) ==
    /\ stage[h] = "idle"
    /\ anchor \in manifests
    /\ ToStage(h, "rotating")
    /\ request' = [request EXCEPT ![h] = tr]
    /\ loaded' = [loaded EXCEPT ![h] = anchor]
    /\ UNCHANGED <<issuanceVars, storeVars, tombstone, historyVars>>

VerifyRotation(h) ==
    /\ stage[h] = "rotating"
    /\ \E t \in Readings : ValidTransition(request[h], loaded[h], t)
    /\ ToStage(h, "rotation")
    /\ UNCHANGED <<issuanceVars, storeVars, request, loaded, tombstone, historyVars>>

(* Mutant: the anchor is not compared with the transition's old manifest,  *)
(* nor the history searched for the epoch.                                 *)
RotateUnchecked(h) ==
    LET tr == request[h] IN
    /\ stage[h] = "rotation"
    /\ \E t \in Readings : ValidTransition(tr, loaded[h], t)
    /\ \A r \in rotations : r.request_id # tr.request_id
    /\ manifests' = manifests \cup {tr.old, tr.new}
    /\ rotations' = rotations \cup {tr}
    /\ anchor' = tr.new
    /\ Done(h)
    /\ UNCHANGED <<issuanceVars, entries, historyVars>>

(* rotate_admin_quorum_manifest: compare and swap of the anchor.           *)
Rotate(h) ==
    LET tr == request[h] IN
    /\ stage[h] = "rotation"
    /\ \E t \in Readings : ValidTransition(tr, loaded[h], t)
    /\ anchor = tr.old
    /\ \A r \in rotations : /\ r.new.epoch # tr.new.epoch
                            /\ r.request_id # tr.request_id
    /\ manifests' = manifests \cup {tr.old, tr.new}
    /\ rotations' = rotations \cup {tr}
    /\ anchor' = tr.new
    /\ Done(h)
    /\ UNCHANGED <<issuanceVars, entries, historyVars>>

-----------------------------------------------------------------------------
(* Handlers on planes that run without a verifier (require_management_auth *)
(* with operator or OIDC credentials): the anchor is probed before and     *)
(* after the identity provider is asked.                                   *)

LegacyProbe(h) ==
    /\ stage[h] = "idle"
    /\ anchor = NoAnchor /\ entries = {}
    /\ ToStage(h, "probed")
    /\ UNCHANGED <<issuanceVars, storeVars, request, loaded, tombstone, historyVars>>

(* loaded records the anchor at the moment the identity is established.    *)
LegacyAuthenticate(h) ==
    /\ stage[h] = "probed"
    /\ ToStage(h, "authenticated")
    /\ loaded' = [loaded EXCEPT ![h] = anchor]
    /\ UNCHANGED <<issuanceVars, storeVars, request, tombstone, historyVars>>

(* Mutant: no second probe.                                                *)
LegacyClearUnprobed(h) ==
    /\ stage[h] = "authenticated"
    /\ ToStage(h, "cleared")
    /\ UNCHANGED <<issuanceVars, storeVars, request, loaded, tombstone, historyVars>>

LegacyClear(h) ==
    /\ stage[h] = "authenticated"
    /\ anchor = NoAnchor /\ entries = {}
    /\ ToStage(h, "cleared")
    /\ UNCHANGED <<issuanceVars, storeVars, request, loaded, tombstone, historyVars>>

-----------------------------------------------------------------------------
Environment ==
    /\ IssuanceNext
    /\ UNCHANGED <<storeVars, handlerVars, historyVars>>

VerifierStep(h) ==
    \/ \E c \in Claims : LoadActive(h, c)
    \/ VerifyCapability(h)
    \/ Consume(h)
    \/ ConsumeRefused(h)
    \/ Dispatch(h)
    \/ DispatchRevocation(h)
    \/ Revoke(h)
    \/ RevokeRefused(h)

RotationStep(h) ==
    \/ \E tr \in Transitions : LoadForRotation(h, tr)
    \/ VerifyRotation(h)
    \/ Rotate(h)

LegacyStep(h) == LegacyProbe(h) \/ LegacyAuthenticate(h) \/ LegacyClear(h)

Next ==
    \/ Environment
    \/ \E m \in Manifests : InitializeManifest(m)
    \/ \E h \in AllHandlers : Abandon(h)
    \/ \E h \in Handlers : VerifierStep(h) \/ RotationStep(h)
    \/ \E h \in LegacyHandlers : LegacyStep(h)

Spec == Init /\ [][Next]_vars

-----------------------------------------------------------------------------
(* Every variable has its type; a ledger entry names a manifest and a      *)
(* request id, also the ones of revocations.                               *)
LedgerTypeOK ==
    /\ now \in Nat
    /\ issued \subseteq [claims : Claims, at : Nat]
    /\ anchor \in Manifests \cup {NoAnchor}
    /\ manifests \subseteq Manifests
    /\ rotations \subseteq Transitions
    /\ entries \subseteq Entry
    /\ stage \in [AllHandlers -> Stages]
    /\ request \in [AllHandlers -> Claims \cup Transitions \cup {NoRequest}]
    /\ loaded \in [AllHandlers -> Manifests \cup {NoAnchor}]
    /\ tombstone \in [AllHandlers -> [at : Nat, expires_at : Int]]
    /\ consumed \subseteq Claims
    /\ executed \in [Claims -> Nat]
    /\ revocations \subseteq [manifest : Manifests, request_id : RequestIds, at : Nat]

(* A capability authorizes at most one execution of its mutation, on       *)
(* whichever control planes it is presented, whatever answers are lost and *)
(* whenever the ledger is collected (docs/ADMIN_QUORUM.md: "cannot change  *)
(* it or consume it twice").                                               *)
ExecutedAtMostOnce == \A c \in Claims : executed[c] <= 1

(* A capability signed before a revocation of its request id computed its  *)
(* tombstone is not consumed after that revocation was committed, although *)
(* the tombstone expires and is collected.  Needs 4 * Skew <= Grace.       *)
RevocationEffective ==
    [][\A i \in issued : \A rv \in revocations :
         (/\ i.claims.manifest = rv.manifest
          /\ i.claims.request_id = rv.request_id
          /\ i.at <= rv.at
          /\ i.claims \notin consumed) => i.claims \notin consumed']_vars

(* "Competing or stale transitions fail": the rotation history is one path *)
(* of manifests that ends in the anchor, with one manifest per epoch, and  *)
(* the anchor's manifest can be loaded.                                    *)
OneManifestChain ==
    /\ \A r, s \in rotations :
          r # s => r.old # s.old /\ r.new.epoch # s.new.epoch
    /\ \A r \in rotations : r.new = anchor \/ \E s \in rotations : s.old = r.new
    /\ \A r \in rotations : r.new.epoch = r.old.epoch + 1
    /\ anchor # NoAnchor => anchor \in manifests
    /\ \A r \in rotations : r.old # anchor

(* "Old-epoch capabilities cannot be consumed after the transition", even  *)
(* by a handler that had loaded and verified the old manifest before it.   *)
SupersededNeverConsumed ==
    [][\A c \in consumed' \ consumed : \A r \in rotations : r.old # c.manifest]_vars

(* A plane without a verifier does not dispatch a mutation whose requester *)
(* was authenticated after another plane activated the quorum.             *)
LegacyClosedAfterActivation ==
    \A h \in LegacyHandlers : stage[h] = "cleared" => loaded[h] = NoAnchor
=============================================================================
