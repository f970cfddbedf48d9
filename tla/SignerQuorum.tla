--------------------------- MODULE SignerQuorum ---------------------------
(***************************************************************************)
(* The admin signers (SignerEngine of crates/ipars-quorum/src/lib.rs and   *)
(* rotation.rs, behind the handlers of                                     *)
(* crates/ipars-control-plane-http/src/quorum.rs and quorum/rotation.rs).  *)
(*                                                                         *)
(* An engine is one share in one process: a member of a manifest's roster, *)
(* either for capabilities or for manifest transitions (the two routers of *)
(* signer_router_with_rotation_anchor have an engine each).  Its mutex is  *)
(* taken with try_lock, so every round is one step.  The coordinator is    *)
(* not trusted to combine answers correctly: it may submit any signing     *)
(* package over the commitments it has seen, in any order, to any session, *)
(* and repeat what it has sent.                                            *)
(*                                                                         *)
(* FROST itself is external.  A pair of secret nonces is its identity; a   *)
(* share is tied to the nonces and to the whole package; a group signature *)
(* on a message exists once every participant of one package, at least     *)
(* min_signers of them, has answered it.                                   *)
(***************************************************************************)
EXTENDS QuorumClaims, FiniteSets

CONSTANTS
    Nodes,
    Roster,          \* the members of each manifest
    RotationAnchor,  \* the old manifest in the rotation signers' configuration
    PendingTtl,      \* pending_ttl_secs
    MaxPending,      \* max_pending
    MaxNonces        \* bound: number of nonce pairs generated

ASSUME RosterAssumption ==
    /\ Roster \in [Manifests -> SUBSET Nodes]
    /\ \A m \in Manifests : IsFiniteSet(Roster[m])
    /\ RotationAnchor \in Manifests
    /\ PendingTtl \in Nat \ {0}
    /\ MaxPending \in Nat \ {0}
    /\ MaxNonces \in Nat
    /\ Claims \cap Transitions = {}

VARIABLES
    pending,         \* the sessions of each engine
    nonces,          \* how many nonce pairs have been generated
    shares,          \* history: every signature share an engine returned
    signatures       \* history: group signatures, with the real time of each

signerVars == <<now, pending, nonces, shares, signatures>>

Engines == {[node |-> n, manifest |-> m, kind |-> k] :
              n \in Nodes, m \in Manifests, k \in {"capability", "rotation"}}
LocalEngines == {e \in Engines : e.node \in Roster[e.manifest]}

Messages == Claims \cup Transitions

Session == [nonce : Nat, message : Messages, created_at : Int, expires_at : Int]

(* Mutant: half of the roster is enough.                                   *)
ThresholdHalf(m) == Cardinality(Roster[m]) \div 2

Threshold(m) == Cardinality(Roster[m]) \div 2 + 1

(* Mutant: the claims' lifetime is not checked.                            *)
ApprovesAnyTime(e, message, t) ==
    \/ /\ e.kind = "capability"
       /\ message \in Claims
       /\ message.manifest = e.manifest
    \/ /\ e.kind = "rotation"
       /\ message \in Transitions
       /\ ValidTransition(message, RotationAnchor, t)
       /\ e.manifest \in {message.old, message.new}

(* claims.validate or validate_rotation_group, by the engine's kind.       *)
Approves(e, message, t) ==
    \/ /\ e.kind = "capability"
       /\ message \in Claims
       /\ message.manifest = e.manifest
       /\ ValidLifetime(message, t)
    \/ /\ e.kind = "rotation"
       /\ message \in Transitions
       /\ ValidTransition(message, RotationAnchor, t)
       /\ e.manifest \in {message.old, message.new}

SignerInit ==
    /\ now = 0
    /\ pending = [e \in LocalEngines |-> {}]
    /\ nonces = 0
    /\ shares = {}
    /\ signatures = {}

Open(p, t) == p.created_at <= t /\ t < p.expires_at

Least(a, b) == IF a < b THEN a ELSE b

(* round1 and round1_rotation, with allocate_pending.                      *)
Round1(e, message) ==
    /\ nonces < MaxNonces
    /\ nonces' = nonces + 1
    /\ \E t \in Readings :
        LET live == {p \in pending[e] : Open(p, t)} IN
        /\ Approves(e, message, t)
        /\ Cardinality(live) < MaxPending
        /\ pending' = [pending EXCEPT ![e] = live \cup
                        {[nonce |-> nonces', message |-> message, created_at |-> t,
                          expires_at |-> Least(t + PendingTtl, message.expires_at)]}]
    /\ UNCHANGED <<now, shares, signatures>>

(* A refused first round still drops the closed sessions; the rotation     *)
(* engine does so only after it has approved the transition.               *)
Round1Refused(e, message) ==
    /\ \E t \in Readings :
        LET live == {p \in pending[e] : Open(p, t)} IN
        /\ \/ e.kind = "capability" /\ ~Approves(e, message, t)
           \/ Approves(e, message, t) /\ Cardinality(live) >= MaxPending
        /\ pending' = [pending EXCEPT ![e] = live]
    /\ UNCHANGED <<now, nonces, shares, signatures>>

(* The participants a signing package may have (sign_pending).             *)
SigningSet(e, participants) ==
    /\ participants \subseteq Roster[e.manifest]
    /\ Cardinality(participants) >= Threshold(e.manifest)
    /\ e.node \in participants

Share(e, p, package) ==
    [node |-> e.node, manifest |-> e.manifest, nonce |-> p.nonce, package |-> package]

(* External: every participant of the package has answered it.             *)
Complete(m, package, answered) ==
    \A n \in DOMAIN package.commitments :
        \E s \in answered : s.node = n /\ s.manifest = m /\ s.package = package

(* The coordinator aggregates as soon as it can: the first signature of a  *)
(* group on a message is recorded.                                         *)
Aggregate(m, package) ==
    signatures' =
        IF /\ Complete(m, package, shares')
           /\ \A g \in signatures : g.manifest # m \/ g.message # package.message
        THEN signatures \cup {[manifest |-> m, message |-> package.message, at |-> now]}
        ELSE signatures

(* Mutant: a session that has answered stays open for a retry.             *)
Round2Retained(e, p, message, participants) ==
    /\ \E t \in Readings : Open(p, t) /\ Approves(e, message, t)
    /\ p.message = message
    /\ SigningSet(e, participants)
    /\ \E commitments \in [participants -> 1..nonces] :
        LET package == [message |-> message, commitments |-> commitments] IN
        /\ commitments[e.node] = p.nonce
        /\ shares' = shares \cup {Share(e, p, package)}
        /\ Aggregate(e.manifest, package)
    /\ UNCHANGED <<now, pending, nonces>>

(* round2 and round2_rotation when they return a share for a package, the  *)
(* message and one commitment per participant.                             *)
Round2(e, p, message, participants) ==
    /\ pending' = [pending EXCEPT ![e] = @ \ {p}]
    /\ \E t \in Readings : Open(p, t) /\ Approves(e, message, t)
    /\ p.message = message
    /\ SigningSet(e, participants)
    /\ \E commitments \in [participants -> 1..nonces] :
        LET package == [message |-> message, commitments |-> commitments] IN
        /\ commitments[e.node] = p.nonce
        /\ shares' = shares \cup {Share(e, p, package)}
        /\ Aggregate(e.manifest, package)
    /\ UNCHANGED <<now, nonces>>

(* Any other second round: the session is consumed all the same.           *)
Round2Refused(e, p) ==
    /\ pending' = [pending EXCEPT ![e] = @ \ {p}]
    /\ UNCHANGED <<now, nonces, shares, signatures>>

(* The signer process restarts: nothing of a pending round is persisted.   *)
Restart(e) ==
    /\ pending' = [pending EXCEPT ![e] = {}]
    /\ UNCHANGED <<now, nonces, shares, signatures>>

Advance ==
    /\ now < MaxTime
    /\ now' = now + 1
    /\ UNCHANGED <<pending, nonces, shares, signatures>>

EngineStep(e) ==
    \/ \E message \in Messages : Round1(e, message) \/ Round1Refused(e, message)
    \/ \E p \in pending[e], message \in Messages, participants \in SUBSET Nodes :
           Round2(e, p, message, participants)
    \/ \E p \in pending[e] : Round2Refused(e, p)
    \/ Restart(e)

SignerNext == Advance \/ \E e \in LocalEngines : EngineStep(e)

SignerSpec == SignerInit /\ [][SignerNext]_signerVars

-----------------------------------------------------------------------------
(* A pair of nonces never yields two shares (which would disclose the      *)
(* signing share), whatever packages the coordinator submits and repeats:  *)
(* "FROST round-two nonces are consumed before signing and never persisted *)
(* for reuse".                                                             *)
NonceSignsOnce == \A s, u \in shares : s.nonce = u.nonce => s = u

(* Every group signature rests on more than half of the frozen roster,     *)
(* offline members included, each of which approved exactly that message.  *)
MajorityApproved ==
    \A g \in signatures :
        LET signers == {n \in Roster[g.manifest] : \E s \in shares :
                           /\ s.node = n
                           /\ s.manifest = g.manifest
                           /\ s.package.message = g.message} IN
        2 * Cardinality(signers) > Cardinality(Roster[g.manifest])

(* What the control planes rely on: claims become a capability only while  *)
(* they are valid by some signer's clock (CapabilityIssuance).             *)
Issuance == INSTANCE CapabilityIssuance WITH
    issued <- {[claims |-> g.message, at |-> g.at] :
                 g \in {s \in signatures : s.message \in Claims}}
ImplementsIssuance == Issuance!IssuanceSpec
=============================================================================
