------------------------ MODULE SignerQuorum_proofs ------------------------
(***************************************************************************)
(* Proofs about the admin signers, for any manifests, rosters, claims,     *)
(* transitions, clocks and limits: a pair of nonces signs at most once,    *)
(* a group signature rests on a majority of its roster, and the engines    *)
(* implement CapabilityIssuance.                                           *)
(***************************************************************************)
EXTENDS SignerQuorum, FiniteSetTheorems, TLAPS

(* A nonce pair is in at most one session, of one engine, and in none any  *)
(* more once it has a share.                                               *)
NonceInv ==
    /\ nonces \in Nat
    /\ DOMAIN pending = LocalEngines
    /\ \A e \in LocalEngines : \A p \in pending[e] : p.nonce \in 1..nonces
    /\ \A e, f \in LocalEngines : \A p \in pending[e], q \in pending[f] :
          p.nonce = q.nonce => e = f /\ p = q
    /\ \A s \in shares : s.nonce \in 1..nonces
    /\ \A s \in shares, e \in LocalEngines : \A p \in pending[e] : s.nonce # p.nonce
    /\ NonceSignsOnce

(* Sessions that are dropped take their nonces with them.                  *)
LEMMA SessionsDropped ==
    ASSUME NonceInv, NEW e \in LocalEngines, NEW left, left \subseteq pending[e],
           pending' = [pending EXCEPT ![e] = left], UNCHANGED <<nonces, shares>>
    PROVE  NonceInv'
  BY DEF NonceInv, NonceSignsOnce

LEMMA NonceStep == NonceInv /\ [SignerNext]_signerVars => NonceInv'
<1> SUFFICES ASSUME NonceInv, [SignerNext]_signerVars PROVE NonceInv'
  OBVIOUS
<1>1. ASSUME NEW e \in LocalEngines, NEW message, Round1(e, message) PROVE NonceInv'
  <2>1. PICK live, p : /\ live \subseteq pending[e] /\ p.nonce = nonces'
                       /\ pending' = [pending EXCEPT ![e] = live \cup {p}]
    BY <1>1 DEF Round1
  <2>2. nonces' = nonces + 1 /\ nonces \in Nat /\ UNCHANGED shares
    BY <1>1 DEF Round1, NonceInv
  <2>3. \A f \in LocalEngines : \A q \in pending'[f] :
           (f = e /\ q = p) \/ (q \in pending[f] /\ q.nonce \in 1..nonces)
    BY <2>1 DEF NonceInv
  <2>4. nonces' \notin 1..nonces /\ nonces' \in 1..nonces' /\ \A n \in 1..nonces : n \in 1..nonces'
    BY <2>2
  <2>5. /\ \A f \in LocalEngines : \A q \in pending'[f] : q.nonce \in 1..nonces'
        /\ \A f, g \in LocalEngines : \A q \in pending'[f], u \in pending'[g] :
              q.nonce = u.nonce => f = g /\ q = u
    BY <2>1, <2>3, <2>4 DEF NonceInv
  <2>6. \A s \in shares', f \in LocalEngines : \A q \in pending'[f] : s.nonce # q.nonce
    BY <2>1, <2>2, <2>3, <2>4 DEF NonceInv
  <2> QED
    BY <2>1, <2>2, <2>4, <2>5, <2>6 DEF NonceInv, NonceSignsOnce
<1>2. ASSUME NEW e \in LocalEngines, NEW message, Round1Refused(e, message) PROVE NonceInv'
  <2>1. PICK live : live \subseteq pending[e] /\ pending' = [pending EXCEPT ![e] = live]
    BY <1>2 DEF Round1Refused
  <2> QED
    BY <1>2, <2>1, SessionsDropped DEF Round1Refused
<1>3. ASSUME NEW e \in LocalEngines, NEW p \in pending[e], NEW message, NEW participants,
             Round2(e, p, message, participants)
      PROVE  NonceInv'
  <2>1. PICK s : s.nonce = p.nonce /\ shares' = shares \cup {s}
    BY <1>3 DEF Round2, Share
  <2>2. pending' = [pending EXCEPT ![e] = pending[e] \ {p}] /\ UNCHANGED nonces
    BY <1>3 DEF Round2
  <2> QED
    BY <1>3, <2>1, <2>2 DEF NonceInv, NonceSignsOnce
<1>4. ASSUME NEW e \in LocalEngines, NEW p \in pending[e], Round2Refused(e, p)
      PROVE  NonceInv'
  BY <1>4, SessionsDropped DEF Round2Refused
<1>5. ASSUME NEW e \in LocalEngines, Restart(e) PROVE NonceInv'
  BY <1>5 DEF Restart, NonceInv, NonceSignsOnce
<1>6. CASE Advance
  BY <1>6 DEF Advance, NonceInv, NonceSignsOnce
<1>7. CASE UNCHANGED signerVars
  BY <1>7 DEF signerVars, NonceInv, NonceSignsOnce
<1> QED
  BY <1>1, <1>2, <1>3, <1>4, <1>5, <1>6, <1>7 DEF SignerNext, EngineStep

(* Whatever packages the coordinator submits and repeats, and wherever a   *)
(* signer restarts, a pair of nonces never yields two shares.              *)
THEOREM NoncesSignOnce == SignerSpec => []NonceSignsOnce
<1>1. SignerInit => NonceInv
  BY DEF SignerInit, NonceInv, NonceSignsOnce
<1>2. NonceInv => NonceSignsOnce
  BY DEF NonceInv
<1> QED
  BY <1>1, <1>2, NonceStep, PTL DEF SignerSpec

---------------------------------------------------------------------------
(* Majorities.                                                             *)

(* Who has signed a message in the name of a manifest's group.             *)
Signers(m, message, answered) ==
    {n \in Roster[m] : \E s \in answered :
        s.node = n /\ s.manifest = m /\ s.package.message = message}

Backed(g, answered) ==
    2 * Cardinality(Signers(g.manifest, g.message, answered)) > Cardinality(Roster[g.manifest])

MajorityInv ==
    \A g \in signatures : g.manifest \in Manifests /\ Backed(g, shares)

(* A majority stays one as more signers answer.                            *)
LEMMA BackedGrows ==
    ASSUME NEW m \in Manifests, NEW A, NEW B, NEW message, A \subseteq Signers(m, message, B)
    PROVE  /\ Cardinality(A) \in Nat /\ Cardinality(Signers(m, message, B)) \in Nat
           /\ Cardinality(A) <= Cardinality(Signers(m, message, B))
<1>1. IsFiniteSet(Signers(m, message, B))
  <2>1. IsFiniteSet(Roster[m]) /\ Signers(m, message, B) \subseteq Roster[m]
    BY RosterAssumption DEF Signers
  <2> QED
    BY <2>1, FS_Subset, Zenon
<1> HIDE DEF Signers
<1>2. IsFiniteSet(A) /\ Cardinality(A) <= Cardinality(Signers(m, message, B))
  BY <1>1, FS_Subset
<1> QED
  BY <1>1, <1>2, FS_CardinalityType

(* The threshold is more than half of the roster.                          *)
LEMMA ThresholdIsMajority ==
    ASSUME NEW m \in Manifests
    PROVE  Threshold(m) \in Nat /\ 2 * Threshold(m) > Cardinality(Roster[m])
<1>1. Cardinality(Roster[m]) \in Nat
  BY RosterAssumption, FS_CardinalityType
<1>2. \A n \in Nat : n \div 2 + 1 \in Nat /\ 2 * (n \div 2 + 1) > n
  OBVIOUS
<1> QED
  BY <1>1, <1>2 DEF Threshold

LEMMA EngineFields ==
    \A e \in LocalEngines : e.manifest \in Manifests /\ e.node \in Nodes
                            /\ e.kind \in {"capability", "rotation"}
  BY DEF LocalEngines, Engines

LEMMA MajorityStep == MajorityInv /\ [SignerNext]_signerVars => MajorityInv'
<1> SUFFICES ASSUME MajorityInv, [SignerNext]_signerVars PROVE MajorityInv'
  OBVIOUS
<1>1. ASSUME NEW e \in LocalEngines, NEW p \in pending[e], NEW message, NEW participants,
             Round2(e, p, message, participants)
      PROVE  MajorityInv'
  <2>1. shares \subseteq shares'
    BY <1>1 DEF Round2
  <2>2. ASSUME NEW g \in signatures PROVE g.manifest \in Manifests /\ Backed(g, shares')
    <3>0. g.manifest \in Manifests /\ Backed(g, shares)
      BY DEF MajorityInv
    <3>1. Signers(g.manifest, g.message, shares) \subseteq Signers(g.manifest, g.message, shares')
      BY <2>1 DEF Signers
    <3>2. IsFiniteSet(Roster[g.manifest])
      BY <3>0, RosterAssumption
    <3> QED
      BY <3>0, <3>1, <3>2, BackedGrows, FS_CardinalityType DEF Backed
  <2>3. PICK package : /\ DOMAIN package.commitments = participants
                       /\ package.message = message
                       /\ Aggregate(e.manifest, package)
    BY <1>1 DEF Round2
  <2>4. ASSUME Complete(e.manifest, package, shares')
        PROVE  Backed([manifest |-> e.manifest, message |-> message, at |-> now], shares')
    <3>1. participants \subseteq Roster[e.manifest]
          /\ Cardinality(participants) >= Threshold(e.manifest)
      BY <1>1 DEF Round2, SigningSet
    <3>2. participants \subseteq Signers(e.manifest, message, shares')
      BY <2>3, <2>4, <3>1 DEF Complete, Signers
    <3>3. e.manifest \in Manifests
      BY EngineFields
    <3>4. Cardinality(Roster[e.manifest]) \in Nat
      BY <3>3, RosterAssumption, FS_CardinalityType
    <3> QED
      BY <3>1, <3>2, <3>3, <3>4, BackedGrows, ThresholdIsMajority DEF Backed
  <2> QED
    BY <2>2, <2>3, <2>4, EngineFields DEF MajorityInv, Aggregate
<1>2. CASE UNCHANGED <<shares, signatures>>
  BY <1>2 DEF MajorityInv, Backed, Signers
<1> QED
  BY <1>1, <1>2 DEF SignerNext, EngineStep, signerVars, Advance, Round1, Round1Refused,
     Round2Refused, Restart

(* A group signature rests on more than half of the frozen roster, each of *)
(* which answered for exactly that message.                                *)
THEOREM SignaturesHaveMajority == SignerSpec => []MajorityApproved
<1>1. SignerInit => MajorityInv
  BY DEF SignerInit, MajorityInv
<1>2. MajorityInv => MajorityApproved
  BY DEF MajorityInv, MajorityApproved, Backed, Signers
<1> QED
  BY <1>1, <1>2, MajorityStep, PTL DEF SignerSpec

---------------------------------------------------------------------------
(* The engines implement CapabilityIssuance.                               *)

(* A capability's group is the one its claims name.                        *)
GroupInv ==
    \A g \in signatures : g.message \in Claims => g.manifest = g.message.manifest

(* What an engine approves: for claims, their group and their lifetime.    *)
LEMMA ApprovedClaims ==
    ASSUME NEW e, NEW message \in Claims, NEW t, Approves(e, message, t)
    PROVE  message.manifest = e.manifest /\ ValidLifetime(message, t)
  BY RosterAssumption DEF Approves

(* The one signature a second round may add, and what vouches for it.      *)
LEMMA Round2Signs ==
    ASSUME NEW e, NEW p, NEW message, NEW participants,
           Round2(e, p, message, participants), UNCHANGED signatures => FALSE
    PROVE  /\ signatures' = signatures \cup {[manifest |-> e.manifest, message |-> message,
                                              at |-> now]}
           /\ \A g \in signatures : g.manifest # e.manifest \/ g.message # message
           /\ \E t \in Readings : Approves(e, message, t)
           /\ UNCHANGED now
<1>1. PICK package : package.message = message /\ Aggregate(e.manifest, package)
  BY DEF Round2
<1> QED
  BY <1>1 DEF Aggregate, Round2

LEMMA GroupStep == GroupInv /\ [SignerNext]_signerVars => GroupInv'
<1> SUFFICES ASSUME GroupInv, [SignerNext]_signerVars PROVE GroupInv'
  OBVIOUS
<1>1. ASSUME NEW e, NEW p, NEW message, NEW participants,
             Round2(e, p, message, participants)
      PROVE  GroupInv'
  <2>1. CASE UNCHANGED signatures
    BY <2>1 DEF GroupInv
  <2>2. CASE ~UNCHANGED signatures
    BY <1>1, <2>2, Round2Signs, ApprovedClaims DEF GroupInv
  <2> QED
    BY <2>1, <2>2
<1>2. CASE UNCHANGED signatures
  BY <1>2 DEF GroupInv
<1> QED
  BY <1>1, <1>2 DEF SignerNext, EngineStep, signerVars, Advance, Round1, Round1Refused,
     Round2Refused, Restart

(* The abstract issue, as the concrete state shows it.                     *)
issuedOf(sigs) == {[claims |-> g.message, at |-> g.at] : g \in {s \in sigs : s.message \in Claims}}

LEMMA IssuedGrows ==
    ASSUME NEW sigs, NEW g
    PROVE  /\ g.message \in Claims => issuedOf(sigs \cup {g})
                = issuedOf(sigs) \cup {[claims |-> g.message, at |-> g.at]}
           /\ g.message \notin Claims => issuedOf(sigs \cup {g}) = issuedOf(sigs)
<1>1. ASSUME g.message \notin Claims PROVE issuedOf(sigs \cup {g}) = issuedOf(sigs)
  <2>1. {s \in sigs \cup {g} : s.message \in Claims} = {s \in sigs : s.message \in Claims}
    BY <1>1
  <2> QED
    BY <2>1 DEF issuedOf
<1>2. ASSUME g.message \in Claims
      PROVE  issuedOf(sigs \cup {g}) = issuedOf(sigs) \cup {[claims |-> g.message, at |-> g.at]}
  <2>1. {s \in sigs \cup {g} : s.message \in Claims} = {s \in sigs : s.message \in Claims} \cup {g}
    BY <1>2
  <2> QED
    BY <2>1 DEF issuedOf
<1> QED
  BY <1>1, <1>2

(* Claims are signed at most once, while they are valid by the clock of    *)
(* one of the signers, and nothing else issues them.                       *)
THEOREM SignersImplementIssuance == SignerSpec => ImplementsIssuance
<1>1. SignerInit => Issuance!IssuanceInit
  BY DEF SignerInit, Issuance!IssuanceInit
<1>2. GroupInv /\ [SignerNext]_signerVars => [Issuance!IssuanceNext]_(Issuance!issuanceVars)
  <2> SUFFICES ASSUME GroupInv, [SignerNext]_signerVars
               PROVE  [Issuance!IssuanceNext]_(Issuance!issuanceVars)
    OBVIOUS
  <2> USE DEF Issuance!IssuanceNext, Issuance!issuanceVars
  <2>1. ASSUME NEW e, NEW p, NEW message \in Messages, NEW participants,
               Round2(e, p, message, participants)
        PROVE  [Issuance!IssuanceNext]_(Issuance!issuanceVars)
    <3>1. CASE UNCHANGED signatures
      BY <2>1, <3>1 DEF Round2
    <3>2. CASE ~UNCHANGED signatures
      <4>0. /\ issuedOf(signatures) = {[claims |-> g.message, at |-> g.at] :
                                         g \in {s \in signatures : s.message \in Claims}}
            /\ issuedOf(signatures') = {[claims |-> g.message, at |-> g.at] :
                                         g \in {s \in signatures' : s.message \in Claims}}
        BY Zenon DEF issuedOf
      <4>1. PICK new :
               /\ signatures' = signatures \cup {new}
               /\ new.message = message /\ new.at = now
               /\ \A g \in signatures : g.manifest # e.manifest \/ g.message # message
               /\ \E t \in Readings : Approves(e, message, t)
               /\ UNCHANGED now
        BY <2>1, <3>2, Round2Signs
      <4>2. CASE message \notin Claims
        <5>1. issuedOf(signatures') = issuedOf(signatures)
          BY <4>1, <4>2, IssuedGrows
        <5> QED
          BY <4>0, <4>1, <5>1
      <4>3. CASE message \in Claims
        <5>1. issuedOf(signatures') = issuedOf(signatures) \cup {[claims |-> message, at |-> now]}
          BY <4>1, <4>3, IssuedGrows
        <5>2. \E t \in Issuance!Readings : Issuance!ValidLifetime(message, t)
          BY <4>1, <4>3, ApprovedClaims
             DEF Issuance!Readings, Issuance!ValidLifetime, Readings, ValidLifetime
        <5>3. message \notin Issuance!Signed
          BY <4>1, <4>3, ApprovedClaims DEF Issuance!Signed, GroupInv
        <5>4. Issuance!Issue(message)
          BY <4>0, <4>1, <5>1, <5>2, <5>3 DEF Issuance!Issue
        <5> QED
          BY <4>3, <5>4
      <4> QED
        BY <4>2, <4>3
    <3> QED
      BY <3>1, <3>2
  <2>2. CASE Advance
    <3>1. Issuance!Tick
      BY <2>2 DEF Advance, Issuance!Tick
    <3> QED
      BY <3>1
  <2>3. CASE UNCHANGED <<now, signatures>>
    BY <2>3
  <2> QED
    BY <2>1, <2>2, <2>3 DEF SignerNext, EngineStep, signerVars, Round1, Round1Refused,
       Round2Refused, Restart
<1>3. SignerInit => GroupInv
  BY DEF SignerInit, GroupInv
<1> QED
  BY <1>1, <1>2, <1>3, GroupStep, PTL DEF SignerSpec, ImplementsIssuance, Issuance!IssuanceSpec

============================================================================
