---------------------- MODULE CapabilityLedger_proofs ----------------------
(***************************************************************************)
(* Proofs about CapabilityLedger.  Each invariant is strengthened to an    *)
(* inductive one; the first, TypeInv, also fixes what a handler carries at *)
(* each stage.                                                             *)
(***************************************************************************)
EXTENDS CapabilityLedger, TLAPS

(* A verifying handler carries claims, a rotating one a transition.        *)
CarriesOK ==
    \A h \in AllHandlers :
        /\ stage[h] \in {"loaded", "verified", "authorized", "revoking"}
              => request[h] \in Claims
        /\ stage[h] = "revoking" => request[h].target \in RequestIds
        /\ stage[h] \in {"rotating", "rotation"} => request[h] \in Transitions

TypeInv == LedgerTypeOK /\ CarriesOK

(* The steps of the system, one disjunct per action.                       *)
LEMMA NextCases ==
    ASSUME [Next]_vars
    PROVE  \/ UNCHANGED vars
           \/ Tick /\ UNCHANGED <<storeVars, handlerVars, historyVars>>
           \/ \E c \in Claims : Issue(c) /\ UNCHANGED <<storeVars, handlerVars, historyVars>>
           \/ \E m \in Manifests : InitializeManifest(m)
           \/ \E h \in AllHandlers : Abandon(h)
           \/ \E h \in Handlers, c \in Claims : LoadActive(h, c)
           \/ \E h \in Handlers : VerifyCapability(h)
           \/ \E h \in Handlers : Consume(h)
           \/ \E h \in Handlers : ConsumeRefused(h)
           \/ \E h \in Handlers : Dispatch(h)
           \/ \E h \in Handlers : DispatchRevocation(h)
           \/ \E h \in Handlers : Revoke(h)
           \/ \E h \in Handlers : RevokeRefused(h)
           \/ \E h \in Handlers, tr \in Transitions : LoadForRotation(h, tr)
           \/ \E h \in Handlers : VerifyRotation(h)
           \/ \E h \in Handlers : Rotate(h)
           \/ \E h \in LegacyHandlers : LegacyProbe(h)
           \/ \E h \in LegacyHandlers : LegacyAuthenticate(h)
           \/ \E h \in LegacyHandlers : LegacyClear(h)
  BY Zenon DEF Next, Environment, IssuanceNext, VerifierStep, RotationStep, LegacyStep

-----------------------------------------------------------------------------
(* Only collection and the two insertions change the ledger.               *)
LEMMA KeptIsSubset == \A t : Kept(t) \subseteq entries
  BY DEF Kept

(* The two records the code inserts are ledger entries.                    *)
LEMMA EntryMade ==
    ASSUME NEW m \in Manifests, NEW r \in RequestIds, NEW x \in Int, NEW b \in BOOLEAN
    PROVE  [manifest |-> m, request_id |-> r, expires_at |-> x, revoked |-> b] \in Entry
  BY Zenon DEF Entry

(* A clock reading is an integer within Skew of real time.                 *)
LEMMA ReadingsNearNow ==
    ASSUME now \in Nat
    PROVE  \A t \in Readings : t \in Int /\ now - Skew <= t /\ t <= now + Skew
  BY TimeAssumption DEF Readings

(* The type invariant, and what handlers carry, holds initially ...         *)
LEMMA TypeInit == ASSUME Init PROVE TypeInv
  BY DistinctAssumption DEF Init, IssuanceInit, TypeInv, LedgerTypeOK,
         CarriesOK, Stages, NoTombstone, AllHandlers

(* ... and is preserved by every step.                                     *)
LEMMA TypeStep == ASSUME TypeInv, [Next]_vars PROVE TypeInv'
<1> USE DEF TypeInv, LedgerTypeOK, CarriesOK
<1> USE DEF issuanceVars, storeVars, handlerVars, historyVars
<1> Handlers \subseteq AllHandlers /\ LegacyHandlers \subseteq AllHandlers
  BY DEF AllHandlers
<1>1. CASE UNCHANGED vars
  BY <1>1 DEF vars
<1>2. CASE Tick /\ UNCHANGED <<storeVars, handlerVars, historyVars>>
  BY <1>2 DEF Tick
<1>3. ASSUME NEW c \in Claims, Issue(c), UNCHANGED <<storeVars, handlerVars, historyVars>>
      PROVE  TypeInv'
  BY <1>3 DEF Issue
<1>4. ASSUME NEW m \in Manifests, InitializeManifest(m) PROVE TypeInv'
  BY <1>4 DEF InitializeManifest
<1>5. ASSUME NEW h \in AllHandlers, Abandon(h) PROVE TypeInv'
  BY <1>5 DEF Abandon, Done, ToStage, Stages, NoTombstone
<1>6. ASSUME NEW h \in Handlers, NEW c \in Claims, LoadActive(h, c) PROVE TypeInv'
  BY <1>6 DEF LoadActive, ToStage, Stages
<1>7. ASSUME NEW h \in Handlers, VerifyCapability(h) PROVE TypeInv'
  BY <1>7 DEF VerifyCapability, ToStage, Stages
<1>8. ASSUME NEW h \in Handlers, Consume(h) PROVE TypeInv'
  <2>1. entries' \subseteq Entry /\ consumed' \subseteq Claims
    <3>1. request[h] \in Claims
      BY <1>8 DEF Consume
    <3>2. PICK t \in Readings :
            entries' = Kept(t) \cup {[manifest |-> request[h].manifest,
                                      request_id |-> request[h].request_id,
                                      expires_at |-> request[h].expires_at,
                                      revoked |-> FALSE]}
      BY <1>8 DEF Consume
    <3>3. [manifest |-> request[h].manifest, request_id |-> request[h].request_id,
           expires_at |-> request[h].expires_at, revoked |-> FALSE] \in Entry
      <4>1. /\ request[h].manifest \in Manifests
            /\ request[h].request_id \in RequestIds
            /\ request[h].expires_at \in Int
        BY <3>1, ClaimsAssumption
      <4>2. FALSE \in BOOLEAN
        OBVIOUS
      <4>3. QED
        BY <4>1, <4>2, EntryMade, Zenon
    <3>4. QED
      BY <1>8, <3>1, <3>2, <3>3, KeptIsSubset DEF Consume
  <2>2. CASE ToStage(h, "authorized") /\ UNCHANGED <<request, loaded, tombstone>>
    BY <1>8, <2>1, <2>2 DEF Consume, ToStage, Stages
  <2>3. CASE Done(h)
    BY <1>8, <2>1, <2>3 DEF Consume, Done, ToStage, Stages, NoTombstone
  <2>4. QED
    BY <1>8, <2>2, <2>3 DEF Consume
<1>9. ASSUME NEW h \in Handlers, ConsumeRefused(h) PROVE TypeInv'
  BY <1>9, KeptIsSubset DEF ConsumeRefused, Refused, Done, ToStage, Stages, NoTombstone
<1>10. ASSUME NEW h \in Handlers, Dispatch(h) PROVE TypeInv'
  BY <1>10 DEF Dispatch, Done, ToStage, Stages, NoTombstone
<1>11. ASSUME NEW h \in Handlers, DispatchRevocation(h) PROVE TypeInv'
  <2>1. PICK t \in Readings :
          tombstone' = [tombstone EXCEPT ![h] = [at |-> now, expires_at |-> t + MaxTtl]]
    BY <1>11 DEF DispatchRevocation
  <2>2. [at |-> now, expires_at |-> t + MaxTtl] \in [at : Nat, expires_at : Int]
    BY ReadingsNearNow, TimeAssumption
  <2>3. tombstone' \in [AllHandlers -> [at : Nat, expires_at : Int]]
    BY <2>1, <2>2
  <2>4. request[h] \in Claims /\ request[h].target \in RequestIds
    BY <1>11, ClaimsAssumption DEF DispatchRevocation
  <2>5. QED
    BY <1>11, <2>3, <2>4 DEF DispatchRevocation, ToStage, Stages
<1>12. ASSUME NEW h \in Handlers, Revoke(h) PROVE TypeInv'
  <2>1. /\ request[h] \in Claims
        /\ request[h].target \in RequestIds
        /\ request[h].manifest \in Manifests
        /\ tombstone[h] \in [at : Nat, expires_at : Int]
    BY <1>12, ClaimsAssumption DEF Revoke
  <2>2. entries' \subseteq Entry
    <3>1. PICK t \in Readings :
            entries' = Kept(t) \cup {[manifest |-> request[h].manifest,
                                      request_id |-> request[h].target,
                                      expires_at |-> tombstone[h].expires_at,
                                      revoked |-> TRUE]}
      BY <1>12 DEF Revoke
    <3>2. [manifest |-> request[h].manifest, request_id |-> request[h].target,
           expires_at |-> tombstone[h].expires_at, revoked |-> TRUE] \in Entry
      <4>1. tombstone[h].expires_at \in Int
        BY <2>1
      <4>2. TRUE \in BOOLEAN
        OBVIOUS
      <4>3. QED
        BY <2>1, <4>1, <4>2, EntryMade, Zenon
    <3>3. QED
      BY <3>1, <3>2, KeptIsSubset
  <2>3. revocations' \subseteq [manifest : Manifests, request_id : RequestIds, at : Nat]
    BY <1>12, <2>1 DEF Revoke
  <2>4. QED
    BY <1>12, <2>2, <2>3 DEF Revoke, Done, ToStage, Stages, NoTombstone
<1>13. ASSUME NEW h \in Handlers, RevokeRefused(h) PROVE TypeInv'
  BY <1>13, KeptIsSubset DEF RevokeRefused, Refused, Done, ToStage, Stages, NoTombstone
<1>14. ASSUME NEW h \in Handlers, NEW tr \in Transitions, LoadForRotation(h, tr)
       PROVE  TypeInv'
  BY <1>14 DEF LoadForRotation, ToStage, Stages
<1>15. ASSUME NEW h \in Handlers, VerifyRotation(h) PROVE TypeInv'
  BY <1>15 DEF VerifyRotation, ToStage, Stages
<1>16. ASSUME NEW h \in Handlers, Rotate(h) PROVE TypeInv'
  <2>1. request[h] \in Transitions /\ request[h].old \in Manifests /\ request[h].new \in Manifests
    BY <1>16, TransitionsAssumption DEF Rotate
  <2>2. QED
    BY <1>16, <2>1 DEF Rotate, Done, ToStage, Stages, NoTombstone
<1>17. ASSUME NEW h \in LegacyHandlers, LegacyProbe(h) PROVE TypeInv'
  BY <1>17 DEF LegacyProbe, ToStage, Stages
<1>18. ASSUME NEW h \in LegacyHandlers, LegacyAuthenticate(h) PROVE TypeInv'
  BY <1>18 DEF LegacyAuthenticate, ToStage, Stages
<1>19. ASSUME NEW h \in LegacyHandlers, LegacyClear(h) PROVE TypeInv'
  BY <1>19 DEF LegacyClear, ToStage, Stages
<1> HIDE DEF TypeInv
<1> QED
  BY NextCases, <1>1, <1>2, <1>3, <1>4, <1>5, <1>6, <1>7, <1>8, <1>9, <1>10,
     <1>11, <1>12, <1>13, <1>14, <1>15, <1>16, <1>17, <1>18, <1>19

(* The specification keeps its type invariant.                             *)
THEOREM LedgerTypeCorrect == Spec => []LedgerTypeOK
<1>1. Init => TypeInv
  BY TypeInit
<1>2. TypeInv /\ [Next]_vars => TypeInv'
  BY TypeStep
<1>3. TypeInv => LedgerTypeOK
  BY DEF TypeInv
<1>4. QED
  BY <1>1, <1>2, <1>3, PTL DEF Spec

-----------------------------------------------------------------------------
(* Coverage: an entry for a key that lives at least until x.               *)
Covers(m, r, x) ==
    \E e \in entries : /\ e.manifest.epoch = m.epoch
                       /\ e.request_id = r
                       /\ e.expires_at >= x

(* A step removes nothing but what one collection removes.                 *)
LEMMA EntriesStep ==
    ASSUME TypeInv, [Next]_vars
    PROVE  \E t \in Readings : Kept(t) \subseteq entries'
<1> USE DEF issuanceVars, storeVars, handlerVars, historyVars
<1>1. now \in Readings
  BY TimeAssumption DEF Readings, TypeInv, LedgerTypeOK
<1>2. CASE UNCHANGED entries
  BY <1>1, <1>2, KeptIsSubset
<1>3. ASSUME NEW h \in Handlers, Consume(h)
      PROVE  \E t \in Readings : Kept(t) \subseteq entries'
  BY <1>3 DEF Consume
<1>4. ASSUME NEW h \in Handlers, ConsumeRefused(h) \/ RevokeRefused(h)
      PROVE  \E t \in Readings : Kept(t) \subseteq entries'
  BY <1>4 DEF ConsumeRefused, RevokeRefused, Refused
<1>5. ASSUME NEW h \in Handlers, Revoke(h)
      PROVE  \E t \in Readings : Kept(t) \subseteq entries'
  BY <1>5 DEF Revoke
<1>6. QED
  BY NextCases, <1>2, <1>3, <1>4, <1>5, Zenon DEF vars, Tick, Issue, InitializeManifest, Abandon,
     LoadActive, VerifyCapability, Dispatch, DispatchRevocation, LoadForRotation,
     VerifyRotation, Rotate, LegacyProbe, LegacyAuthenticate, LegacyClear

(* A key stays covered until every clock is past the grace period.         *)
LEMMA CoverageStep ==
    ASSUME TypeInv, [Next]_vars, NEW m \in Manifests, NEW r, NEW x \in Int, Covers(m, r, x)
    PROVE  Covers(m, r, x)' \/ x <= now + Skew - Grace
<1>1. PICK t \in Readings : Kept(t) \subseteq entries'
  BY EntriesStep
<1>2. PICK e \in entries : e.manifest.epoch = m.epoch /\ e.request_id = r /\ e.expires_at >= x
  BY DEF Covers
<1>3. t \in Int /\ t <= now + Skew /\ now \in Nat /\ e.expires_at \in Int
  BY ReadingsNearNow DEF TypeInv, LedgerTypeOK, Entry
<1>4. CASE e \in Kept(t)
  BY <1>1, <1>2, <1>4 DEF Covers
<1>5. CASE e \notin Kept(t)
  BY <1>2, <1>3, <1>5, TimeAssumption, GraceAssumption DEF Kept
<1>6. QED
  BY <1>4, <1>5

(* No insertion under a covered key at a clock reading before x + Grace.   *)
LEMMA CoveredNotFree ==
    ASSUME TypeInv, NEW m \in Manifests, NEW r, NEW x \in Int, Covers(m, r, x),
           NEW t \in Int, t - Grace < x
    PROVE  ~Free(m, r, t)
<1>1. PICK e \in entries : e.manifest.epoch = m.epoch /\ e.request_id = r /\ e.expires_at >= x
  BY DEF Covers
<1>2. e \in Kept(t)
  BY <1>1, GraceAssumption DEF Kept, TypeInv, LedgerTypeOK, Entry
<1>3. QED
  BY <1>1, <1>2 DEF Free

-----------------------------------------------------------------------------
(* At most one execution.  Consumed claims stay covered until they have    *)
(* expired by every clock, so they are consumed once; an authorized        *)
(* handler holds claims that are consumed, not executed and nobody else's. *)
ConsumedInv ==
    \A c \in consumed : \/ Covers(c.manifest, c.request_id, c.expires_at)
                        \/ c.expires_at <= now - Skew

AuthorizedInv ==
    /\ \A h \in AllHandlers : stage[h] = "authorized" =>
          request[h] \in consumed /\ executed[request[h]] = 0
    /\ \A h, k \in AllHandlers :
          stage[h] = "authorized" /\ stage[k] = "authorized" /\ request[h] = request[k] => h = k
    /\ \A c \in Claims : executed[c] = 0 \/ (executed[c] = 1 /\ c \in consumed)

(* Only claims that were not consumed before are consumed.                 *)
LEMMA ConsumeFresh ==
    ASSUME TypeInv, ConsumedInv, NEW h \in Handlers, Consume(h)
    PROVE  request[h] \in Claims /\ request[h] \notin consumed
<1> DEFINE c == request[h]
<1>1. c \in Claims
  BY DEF Consume, TypeInv, CarriesOK, AllHandlers
<1>2. PICK t \in Readings : c.expires_at > t /\ Free(c.manifest, c.request_id, t)
  BY DEF Consume, Admissible
<1>3. /\ t \in Int /\ now - Skew <= t /\ now \in Nat
      /\ c.manifest \in Manifests /\ c.expires_at \in Int
  BY <1>1, ReadingsNearNow, ClaimsAssumption DEF TypeInv, LedgerTypeOK
<1>4. ~(c.expires_at <= now - Skew)
  BY <1>2, <1>3, TimeAssumption
<1>5. ~Covers(c.manifest, c.request_id, c.expires_at)
  <2>1. t - Grace < c.expires_at
    BY <1>2, <1>3, GraceAssumption
  <2>2. QED
    BY <1>2, <1>3, <2>1, CoveredNotFree
<1>6. QED
  BY <1>1, <1>4, <1>5 DEF ConsumedInv

(* Time does not run backwards.                                            *)
LEMMA TimeStep == ASSUME TypeInv, [Next]_vars PROVE now' \in Nat /\ now <= now'
<1> USE DEF issuanceVars, storeVars, handlerVars, historyVars
<1>1. now \in Nat
  BY DEF TypeInv, LedgerTypeOK
<1>2. UNCHANGED now \/ now' = now + 1
  BY NextCases, Zenon DEF vars, Tick, Issue, InitializeManifest, Abandon, LoadActive,
     VerifyCapability, Consume, ConsumeRefused, Refused, Dispatch, DispatchRevocation,
     Revoke, RevokeRefused, LoadForRotation, VerifyRotation, Rotate, LegacyProbe,
     LegacyAuthenticate, LegacyClear
<1>3. QED
  BY <1>1, <1>2

(* Consumption is the only step that changes consumed.                     *)
LEMMA ConsumedChange ==
    ASSUME [Next]_vars
    PROVE  consumed' = consumed \/ \E h \in Handlers : Consume(h)
<1> USE DEF issuanceVars, storeVars, handlerVars, historyVars
<1> QED
  BY NextCases, Zenon DEF vars, Tick, Issue, InitializeManifest, Abandon, LoadActive,
     VerifyCapability, ConsumeRefused, Refused, Dispatch, DispatchRevocation,
     Revoke, RevokeRefused, LoadForRotation, VerifyRotation, Rotate, LegacyProbe,
     LegacyAuthenticate, LegacyClear

(* Consumed claims stay covered.                                           *)
LEMMA ConsumedStep ==
    ASSUME TypeInv, ConsumedInv, [Next]_vars PROVE ConsumedInv'
<1>1. SUFFICES ASSUME NEW c \in consumed'
               PROVE  \/ Covers(c.manifest, c.request_id, c.expires_at)'
                      \/ c.expires_at <= now' - Skew
  BY DEF ConsumedInv, Covers
<1>2. /\ now \in Nat /\ now' \in Nat /\ now <= now'
      /\ c \in Claims
      /\ c.manifest \in Manifests /\ c.expires_at \in Int
  BY TypeStep, TimeStep, ClaimsAssumption DEF TypeInv, LedgerTypeOK
<1>3. CASE c \in consumed
  <2>1. CASE c.expires_at <= now - Skew
    BY <1>2, <2>1, TimeAssumption
  <2>2. CASE Covers(c.manifest, c.request_id, c.expires_at)
    <3>1. Covers(c.manifest, c.request_id, c.expires_at)' \/ c.expires_at <= now + Skew - Grace
      BY <1>2, <2>2, CoverageStep
    <3>2. QED
      BY <1>2, <3>1, TimeAssumption, GraceAssumption
  <2>3. QED
    BY <1>3, <2>1, <2>2 DEF ConsumedInv
<1>4. CASE c \notin consumed
  <2>1. PICK h \in Handlers : Consume(h)
    BY <1>4, ConsumedChange
  <2>2. c = request[h]
    BY <1>4, <2>1 DEF Consume
  <2>3. [manifest |-> c.manifest, request_id |-> c.request_id,
         expires_at |-> c.expires_at, revoked |-> FALSE] \in entries'
    BY <2>1, <2>2 DEF Consume
  <2>4. QED
    BY <1>2, <2>3 DEF Covers
<1>5. QED
  BY <1>3, <1>4

(* Authorized handlers hold distinct, consumed, unexecuted claims.         *)
LEMMA AuthorizedStep ==
    ASSUME TypeInv, ConsumedInv, AuthorizedInv, [Next]_vars PROVE AuthorizedInv'
<1> USE DEF issuanceVars, storeVars, handlerVars, historyVars
<1> Handlers \subseteq AllHandlers /\ LegacyHandlers \subseteq AllHandlers
  BY DEF AllHandlers
<1> /\ stage \in [AllHandlers -> Stages]
    /\ request \in [AllHandlers -> Claims \cup Transitions \cup {NoRequest}]
    /\ executed \in [Claims -> Nat]
  BY DEF TypeInv, LedgerTypeOK
<1>1. ASSUME NEW h \in AllHandlers, NEW s \in Stages, s # "authorized",
             ToStage(h, s), UNCHANGED <<consumed, executed>>,
             \A k \in AllHandlers : k # h => request'[k] = request[k]
      PROVE  AuthorizedInv'
  BY <1>1 DEF AuthorizedInv, ToStage
<1>2. ASSUME NEW h \in AllHandlers, Done(h), UNCHANGED <<consumed, executed>>
      PROVE  AuthorizedInv'
  BY <1>1, <1>2 DEF Done, Stages, ToStage
<1>3. CASE UNCHANGED <<stage, request, consumed, executed>>
  BY <1>3 DEF AuthorizedInv
<1>4. ASSUME NEW h \in Handlers, Consume(h) PROVE AuthorizedInv'
  <2>1. request[h] \in Claims /\ request[h] \notin consumed
    BY <1>4, ConsumeFresh
  <2>2. consumed' = consumed \cup {request[h]} /\ executed' = executed /\ executed[request[h]] = 0
    BY <1>4, <2>1 DEF Consume, AuthorizedInv
  <2>3. CASE ToStage(h, "authorized") /\ UNCHANGED <<request, loaded, tombstone>>
    BY <2>1, <2>2, <2>3 DEF AuthorizedInv, ToStage
  <2>4. CASE Done(h)
    BY <2>1, <2>2, <2>4 DEF AuthorizedInv, Done, ToStage
  <2>5. QED
    BY <1>4, <2>3, <2>4 DEF Consume
<1>5. ASSUME NEW h \in Handlers, Dispatch(h) PROVE AuthorizedInv'
  <2>1. request[h] \in Claims /\ request[h] \in consumed /\ executed[request[h]] = 0
    BY <1>5 DEF Dispatch, AuthorizedInv, TypeInv, CarriesOK
  <2>2. QED
    BY <1>5, <2>1 DEF Dispatch, AuthorizedInv, Done, ToStage
<1>6. ASSUME NEW h \in Handlers, DispatchRevocation(h) PROVE AuthorizedInv'
  <2>1. request[h] \in Claims /\ request[h] \in consumed /\ executed[request[h]] = 0
    BY <1>6 DEF DispatchRevocation, AuthorizedInv, TypeInv, CarriesOK
  <2>2. QED
    BY <1>6, <2>1 DEF DispatchRevocation, AuthorizedInv, ToStage
<1>7. ASSUME NEW h \in AllHandlers, Abandon(h) PROVE AuthorizedInv'
  BY <1>2, <1>7 DEF Abandon
<1>8. ASSUME NEW h \in Handlers, NEW c \in Claims, LoadActive(h, c) PROVE AuthorizedInv'
  BY <1>1, <1>8 DEF LoadActive, Stages
<1>9. ASSUME NEW h \in Handlers, VerifyCapability(h) PROVE AuthorizedInv'
  BY <1>1, <1>9 DEF VerifyCapability, Stages
<1>10. ASSUME NEW h \in Handlers, ConsumeRefused(h) \/ RevokeRefused(h) PROVE AuthorizedInv'
  BY <1>2, <1>10 DEF ConsumeRefused, RevokeRefused, Refused
<1>11. ASSUME NEW h \in Handlers, Revoke(h) PROVE AuthorizedInv'
  BY <1>2, <1>11 DEF Revoke
<1>12. ASSUME NEW h \in Handlers, NEW tr \in Transitions, LoadForRotation(h, tr)
       PROVE  AuthorizedInv'
  BY <1>1, <1>12 DEF LoadForRotation, Stages
<1>13. ASSUME NEW h \in Handlers, VerifyRotation(h) PROVE AuthorizedInv'
  BY <1>1, <1>13 DEF VerifyRotation, Stages
<1>14. ASSUME NEW h \in Handlers, Rotate(h) PROVE AuthorizedInv'
  BY <1>2, <1>14 DEF Rotate
<1>15. ASSUME NEW h \in LegacyHandlers, LegacyProbe(h) PROVE AuthorizedInv'
  BY <1>1, <1>15 DEF LegacyProbe, Stages
<1>16. ASSUME NEW h \in LegacyHandlers, LegacyAuthenticate(h) PROVE AuthorizedInv'
  BY <1>1, <1>16 DEF LegacyAuthenticate, Stages
<1>17. ASSUME NEW h \in LegacyHandlers, LegacyClear(h) PROVE AuthorizedInv'
  BY <1>1, <1>17 DEF LegacyClear, Stages
<1>18. CASE UNCHANGED vars
  BY <1>3, <1>18 DEF vars
<1>19. CASE Tick /\ UNCHANGED <<storeVars, handlerVars, historyVars>>
  BY <1>3, <1>19
<1>20. ASSUME NEW c \in Claims, Issue(c), UNCHANGED <<storeVars, handlerVars, historyVars>>
       PROVE  AuthorizedInv'
  BY <1>3, <1>20
<1>21. ASSUME NEW m \in Manifests, InitializeManifest(m) PROVE AuthorizedInv'
  BY <1>3, <1>21 DEF InitializeManifest
<1> QED
  BY NextCases, <1>4, <1>5, <1>6, <1>7, <1>8, <1>9, <1>10, <1>11, <1>12, <1>13,
     <1>14, <1>15, <1>16, <1>17, <1>18, <1>19, <1>20, <1>21

(* A capability is executed at most once, for any number of control planes *)
(* and requests in progress, as long as the grace period covers the        *)
(* disagreement of two clocks (GraceAssumption).                           *)
THEOREM CapabilityExecutedAtMostOnce == Spec => []ExecutedAtMostOnce
<1> DEFINE OnceInv == TypeInv /\ ConsumedInv /\ AuthorizedInv
<1>1. Init => OnceInv
  <2> SUFFICES ASSUME Init PROVE OnceInv
    OBVIOUS
  <2>1. TypeInv
    BY TypeInit
  <2>2. ConsumedInv /\ AuthorizedInv
    BY DEF Init, ConsumedInv, AuthorizedInv
  <2>3. QED
    BY <2>1, <2>2
<1>2. OnceInv /\ [Next]_vars => OnceInv'
  BY TypeStep, ConsumedStep, AuthorizedStep
<1>3. OnceInv => ExecutedAtMostOnce
  BY DEF AuthorizedInv, ExecutedAtMostOnce
<1>4. QED
  BY <1>1, <1>2, <1>3, PTL DEF Spec

-----------------------------------------------------------------------------
(* Revocation.  A capability expires at most Skew + MaxTtl after the real  *)
(* time of its signature, a tombstone at least MaxTtl - Skew after the     *)
(* revocation read its clock; the tombstone stays until every clock is     *)
(* past the first of these if four times the skew fits the grace period.   *)
IssuedInv ==
    \A i \in issued : i.at <= now /\ i.claims.expires_at <= i.at + Skew + MaxTtl

TombstoneInv ==
    \A h \in AllHandlers : stage[h] = "revoking" =>
        tombstone[h].at - Skew + MaxTtl <= tombstone[h].expires_at

RevokedInv ==
    \A rv \in revocations :
        \/ Covers(rv.manifest, rv.request_id, rv.at - Skew + MaxTtl)
        \/ rv.at + Skew + MaxTtl <= now - Skew

(* Issuing and ticking are the only steps that change issued or now.       *)
LEMMA IssuedStep == ASSUME TypeInv, IssuedInv, [Next]_vars PROVE IssuedInv'
<1> USE DEF issuanceVars, storeVars, handlerVars, historyVars
<1>1. SUFFICES ASSUME NEW i \in issued'
               PROVE  i.at <= now' /\ i.claims.expires_at <= i.at + Skew + MaxTtl
  BY DEF IssuedInv
<1>2. /\ now \in Nat /\ now' \in Nat /\ now <= now'
      /\ i \in [claims : Claims, at : Nat]
      /\ i.claims.expires_at \in Int /\ i.claims.issued_at \in Int
  BY TypeStep, TimeStep, ClaimsAssumption DEF TypeInv, LedgerTypeOK
<1>3. CASE i \in issued
  BY <1>2, <1>3 DEF IssuedInv
<1>4. CASE i \notin issued
  <2>1. PICK c \in Claims : Issue(c)
    BY <1>4, NextCases, Zenon DEF vars, Tick, InitializeManifest, Abandon, LoadActive,
       VerifyCapability, Consume, ConsumeRefused, Refused, Dispatch, DispatchRevocation,
       Revoke, RevokeRefused, LoadForRotation, VerifyRotation, Rotate, LegacyProbe,
       LegacyAuthenticate, LegacyClear
  <2>2. i = [claims |-> c, at |-> now] /\ now' = now
    BY <1>4, <2>1 DEF Issue
  <2>3. PICK t \in Readings : ValidLifetime(c, t)
    BY <2>1 DEF Issue
  <2>4. t \in Int /\ t <= now + Skew
    BY <1>2, ReadingsNearNow
  <2>5. QED
    BY <1>2, <2>2, <2>3, <2>4, TimeAssumption DEF ValidLifetime
<1>5. QED
  BY <1>3, <1>4

(* A revoking handler's tombstone covers the longest lifetime but a skew.  *)
LEMMA TombstoneStep == ASSUME TypeInv, TombstoneInv, [Next]_vars PROVE TombstoneInv'
<1> USE DEF issuanceVars, storeVars, handlerVars, historyVars
<1> Handlers \subseteq AllHandlers /\ LegacyHandlers \subseteq AllHandlers
  BY DEF AllHandlers
<1> /\ stage \in [AllHandlers -> Stages]
    /\ tombstone \in [AllHandlers -> [at : Nat, expires_at : Int]]
    /\ now \in Nat
  BY DEF TypeInv, LedgerTypeOK
<1>1. ASSUME NEW h \in AllHandlers, NEW s \in Stages, s # "revoking", ToStage(h, s),
             \A k \in AllHandlers : k # h => tombstone'[k] = tombstone[k]
      PROVE  TombstoneInv'
  BY <1>1 DEF TombstoneInv, ToStage
<1>2. ASSUME NEW h \in AllHandlers, Done(h) PROVE TombstoneInv'
  BY <1>1, <1>2 DEF Done, Stages, ToStage
<1>3. CASE UNCHANGED <<stage, tombstone>>
  BY <1>3 DEF TombstoneInv
<1>4. ASSUME NEW h \in Handlers, DispatchRevocation(h) PROVE TombstoneInv'
  <2>1. PICK t \in Readings :
          tombstone' = [tombstone EXCEPT ![h] = [at |-> now, expires_at |-> t + MaxTtl]]
    BY <1>4 DEF DispatchRevocation
  <2>2. t \in Int /\ now - Skew <= t
    BY ReadingsNearNow
  <2>3. now - Skew + MaxTtl <= t + MaxTtl
    BY <2>2, TimeAssumption
  <2>4. QED
    BY <1>4, <2>1, <2>3 DEF TombstoneInv, DispatchRevocation, ToStage
<1>5. ASSUME NEW h \in Handlers, Consume(h) PROVE TombstoneInv'
  BY <1>1, <1>2, <1>5 DEF Consume, Stages
<1>6. ASSUME NEW h \in Handlers,
             \/ VerifyCapability(h) \/ VerifyRotation(h)
             \/ \E c \in Claims : LoadActive(h, c)
             \/ \E tr \in Transitions : LoadForRotation(h, tr)
      PROVE  TombstoneInv'
  BY <1>1, <1>6 DEF VerifyCapability, VerifyRotation, LoadActive, LoadForRotation, Stages
<1>7. ASSUME NEW h \in Handlers,
             ConsumeRefused(h) \/ RevokeRefused(h) \/ Dispatch(h) \/ Revoke(h) \/ Rotate(h)
      PROVE  TombstoneInv'
  BY <1>2, <1>7 DEF ConsumeRefused, RevokeRefused, Refused, Dispatch, Revoke, Rotate
<1>8. ASSUME NEW h \in LegacyHandlers, LegacyProbe(h) \/ LegacyAuthenticate(h) \/ LegacyClear(h)
      PROVE  TombstoneInv'
  BY <1>1, <1>8 DEF LegacyProbe, LegacyAuthenticate, LegacyClear, Stages
<1>9. ASSUME NEW h \in AllHandlers, Abandon(h) PROVE TombstoneInv'
  BY <1>2, <1>9 DEF Abandon
<1>10. CASE UNCHANGED handlerVars
  BY <1>3, <1>10
<1> QED
  BY NextCases, <1>4, <1>5, <1>6, <1>7, <1>8, <1>9, <1>10, Zenon DEF vars, InitializeManifest

(* Committed revocations stay covered.                                     *)
LEMMA RevokedStep ==
    ASSUME TypeInv, TombstoneInv, RevokedInv, [Next]_vars, 4 * Skew <= Grace
    PROVE  RevokedInv'
<1> USE DEF issuanceVars, storeVars, handlerVars, historyVars
<1>1. SUFFICES ASSUME NEW rv \in revocations'
               PROVE  \/ Covers(rv.manifest, rv.request_id, rv.at - Skew + MaxTtl)'
                      \/ rv.at + Skew + MaxTtl <= now' - Skew
  BY DEF RevokedInv, Covers
<1>2. /\ now \in Nat /\ now' \in Nat /\ now <= now'
      /\ rv.manifest \in Manifests /\ rv.at \in Nat
  BY TypeStep, TimeStep DEF TypeInv, LedgerTypeOK
<1>3. rv.at - Skew + MaxTtl \in Int
  BY <1>2, TimeAssumption
<1>4. CASE rv \in revocations
  <2>1. CASE rv.at + Skew + MaxTtl <= now - Skew
    BY <1>2, <2>1, TimeAssumption
  <2>2. CASE Covers(rv.manifest, rv.request_id, rv.at - Skew + MaxTtl)
    <3> DEFINE x == rv.at - Skew + MaxTtl
    <3>1. Covers(rv.manifest, rv.request_id, x)' \/ x <= now + Skew - Grace
      <4> HIDE DEF x
      <4>1. x \in Int /\ Covers(rv.manifest, rv.request_id, x)
        BY <1>3, <2>2 DEF x
      <4>2. QED
        BY <1>2, <4>1, CoverageStep
    <3>2. QED
      BY <1>2, <3>1, TimeAssumption, GraceAssumption
  <2>3. QED
    BY <1>4, <2>1, <2>2 DEF RevokedInv
<1>5. CASE rv \notin revocations
  <2>1. PICK h \in Handlers : Revoke(h)
    BY <1>5, NextCases, Zenon DEF vars, Tick, Issue, InitializeManifest, Abandon, LoadActive,
       VerifyCapability, Consume, ConsumeRefused, Refused, Dispatch, DispatchRevocation,
       RevokeRefused, LoadForRotation, VerifyRotation, Rotate, LegacyProbe,
       LegacyAuthenticate, LegacyClear
  <2>2. /\ rv.manifest = request[h].manifest
        /\ rv.request_id = request[h].target
        /\ rv.at = tombstone[h].at
    BY <1>5, <2>1 DEF Revoke
  <2>3. [manifest |-> request[h].manifest, request_id |-> request[h].target,
         expires_at |-> tombstone[h].expires_at, revoked |-> TRUE] \in entries'
    BY <2>1 DEF Revoke
  <2>4. rv.at - Skew + MaxTtl <= tombstone[h].expires_at
    BY <2>1, <2>2 DEF TombstoneInv, Revoke, AllHandlers
  <2>5. QED
    BY <2>2, <2>3, <2>4 DEF Covers
<1>6. QED
  BY <1>4, <1>5

(* No step consumes claims that were signed before a revocation of their   *)
(* request id read its clock.                                              *)
LEMMA RevokedNotConsumed ==
    ASSUME TypeInv, IssuedInv, RevokedInv, 4 * Skew <= Grace, NEW h \in Handlers, Consume(h),
           NEW i \in issued, NEW rv \in revocations, i.claims = request[h],
           i.claims.manifest = rv.manifest, i.claims.request_id = rv.request_id, i.at <= rv.at
    PROVE  FALSE
<1> DEFINE c == request[h]
<1>1. PICK t \in Readings : c.expires_at > t /\ Free(c.manifest, c.request_id, t)
  BY DEF Consume, Admissible
<1>2. /\ t \in Int /\ now - Skew <= t /\ now \in Nat
      /\ i.at \in Nat /\ rv.at \in Nat /\ i.claims \in Claims
  BY ReadingsNearNow DEF TypeInv, LedgerTypeOK
<1>3. c.expires_at \in Int /\ c.manifest \in Manifests
  BY <1>2, ClaimsAssumption
<1>4. c.expires_at <= rv.at + Skew + MaxTtl
  BY <1>2, <1>3, TimeAssumption DEF IssuedInv
<1>5. ~(rv.at + Skew + MaxTtl <= now - Skew)
  BY <1>1, <1>2, <1>3, <1>4, TimeAssumption
<1>6. Covers(c.manifest, c.request_id, rv.at - Skew + MaxTtl)
  BY <1>5 DEF RevokedInv
<1>7. rv.at - Skew + MaxTtl \in Int /\ t - Grace < rv.at - Skew + MaxTtl
  BY <1>1, <1>2, <1>3, <1>4, TimeAssumption, GraceAssumption
<1>8. QED
  BY <1>1, <1>2, <1>3, <1>6, <1>7, CoveredNotFree

(* A revocation stays effective for every capability signed before it,     *)
(* although its tombstone is collected in the end, if the grace period is  *)
(* at least four times the largest clock error.                            *)
THEOREM RevocationStaysEffective ==
    ASSUME 4 * Skew <= Grace
    PROVE  Spec => RevocationEffective
<1> DEFINE Inv == TypeInv /\ IssuedInv /\ TombstoneInv /\ RevokedInv
<1> DEFINE Kept1 == \A i \in issued : \A rv \in revocations :
                       (/\ i.claims.manifest = rv.manifest
                        /\ i.claims.request_id = rv.request_id
                        /\ i.at <= rv.at
                        /\ i.claims \notin consumed) => i.claims \notin consumed'
<1>1. Init => Inv
  <2> SUFFICES ASSUME Init PROVE Inv
    OBVIOUS
  <2>1. TypeInv
    BY TypeInit
  <2>2. IssuedInv /\ TombstoneInv /\ RevokedInv
    BY DEF Init, IssuanceInit, IssuedInv, TombstoneInv, RevokedInv
  <2>3. QED
    BY <2>1, <2>2
<1>2. Inv /\ [Next]_vars => Inv'
  BY TypeStep, IssuedStep, TombstoneStep, RevokedStep
<1>3. Inv /\ [Next]_vars => [Kept1]_vars
  <2> SUFFICES ASSUME Inv, [Next]_vars, NEW i \in issued, NEW rv \in revocations,
                      i.claims.manifest = rv.manifest, i.claims.request_id = rv.request_id,
                      i.at <= rv.at, i.claims \notin consumed, i.claims \in consumed'
               PROVE  FALSE
    OBVIOUS
  <2>1. PICK h \in Handlers : Consume(h)
    BY ConsumedChange
  <2>2. i.claims = request[h]
    BY <2>1 DEF Consume
  <2>3. QED
    BY <2>1, <2>2, RevokedNotConsumed
<1>4. QED
  BY <1>1, <1>2, <1>3, PTL DEF Spec, RevocationEffective

-----------------------------------------------------------------------------
(* Rotation.  Every superseded manifest has an earlier epoch than the      *)
(* anchor, which is why a stale transition cannot branch the history.      *)
ChainInv ==
    /\ OneManifestChain
    /\ anchor = NoAnchor => rotations = {}
    /\ \A r \in rotations : r.old.epoch < anchor.epoch

(* Starting planes and rotations are the only steps that touch the chain.  *)
LEMMA ChainStep == ASSUME TypeInv, ChainInv, [Next]_vars PROVE ChainInv'
<1> USE DEF issuanceVars, storeVars, handlerVars, historyVars
<1>1. CASE UNCHANGED <<anchor, manifests, rotations>>
  BY <1>1 DEF ChainInv, OneManifestChain
<1>2. ASSUME NEW m \in Manifests, InitializeManifest(m) PROVE ChainInv'
  <2>1. rotations' = rotations /\ anchor' = m /\ m \in manifests'
    BY <1>2 DEF InitializeManifest
  <2>2. CASE anchor = m
    BY <2>1, <2>2 DEF ChainInv, OneManifestChain
  <2>3. CASE rotations = {}
    BY <2>1, <2>3, DistinctAssumption DEF ChainInv, OneManifestChain
  <2>4. QED
    BY <1>2, <2>2, <2>3 DEF InitializeManifest
<1>3. ASSUME NEW h \in Handlers, Rotate(h) PROVE ChainInv'
  <2> DEFINE tr == request[h]
  <2>1. /\ tr \in Transitions
        /\ tr.old \in Manifests /\ tr.new \in Manifests
        /\ tr.old.epoch \in Nat /\ tr.new.epoch \in Nat
        /\ \A r \in rotations : /\ r.old \in Manifests /\ r.new \in Manifests
                                /\ r.old.epoch \in Nat /\ r.new.epoch \in Nat
    BY <1>3, TransitionsAssumption, ManifestsAssumption
       DEF Rotate, TypeInv, LedgerTypeOK, CarriesOK, AllHandlers
  <2>2. /\ anchor = tr.old
        /\ tr.new.epoch = tr.old.epoch + 1
        /\ \A r \in rotations : r.new.epoch # tr.new.epoch
        /\ manifests' = manifests \cup {tr.old, tr.new}
        /\ rotations' = rotations \cup {tr}
        /\ anchor' = tr.new
    BY <1>3 DEF Rotate, ValidTransition
  <2>3. \A r \in rotations : r.old # tr.old /\ r.old.epoch < tr.old.epoch
    BY <2>2 DEF ChainInv, OneManifestChain
  <2>4. \A r, s \in rotations' : r # s => r.old # s.old /\ r.new.epoch # s.new.epoch
    BY <2>2, <2>3 DEF ChainInv, OneManifestChain
  <2>5. \A r \in rotations' : r.new = anchor' \/ \E s \in rotations' : s.old = r.new
    BY <2>2 DEF ChainInv, OneManifestChain
  <2>6. \A r \in rotations' : r.new.epoch = r.old.epoch + 1
    BY <2>2 DEF ChainInv, OneManifestChain
  <2>7. \A r \in rotations' : r.old.epoch < anchor'.epoch
    BY <2>1, <2>2, <2>3
  <2>8. \A r \in rotations' : r.old # anchor'
    BY <2>1, <2>2, <2>7
  <2>9. anchor' # NoAnchor /\ anchor' \in manifests'
    BY <2>1, <2>2, DistinctAssumption
  <2>10. QED
    BY <2>4, <2>5, <2>6, <2>7, <2>8, <2>9 DEF ChainInv, OneManifestChain
<1>4. QED
  BY NextCases, <1>1, <1>2, <1>3, Zenon DEF vars, Tick, Issue, Abandon, LoadActive,
     VerifyCapability, Consume, ConsumeRefused, Refused, Dispatch, DispatchRevocation,
     Revoke, RevokeRefused, LoadForRotation, VerifyRotation, LegacyProbe,
     LegacyAuthenticate, LegacyClear

(* No manifest chain has been started initially.                           *)
LEMMA ChainInit == Init => TypeInv /\ ChainInv
<1> SUFFICES ASSUME Init PROVE TypeInv /\ ChainInv
  OBVIOUS
<1>1. TypeInv
  BY TypeInit
<1>2. ChainInv
  BY DEF Init, ChainInv, OneManifestChain
<1>3. QED
  BY <1>1, <1>2

(* Concurrent, competing and repeated rotations leave one chain.           *)
THEOREM RotationsFormOneChain == Spec => []OneManifestChain
<1>1. Init => TypeInv /\ ChainInv
  BY ChainInit
<1>2. (TypeInv /\ ChainInv) /\ [Next]_vars => (TypeInv /\ ChainInv)'
  BY TypeStep, ChainStep
<1>3. ChainInv => OneManifestChain
  BY DEF ChainInv
<1>4. QED
  BY <1>1, <1>2, <1>3, PTL DEF Spec

(* Once a rotation is installed no capability of the old manifest is       *)
(* consumed, not even by a handler that had verified it already.           *)
THEOREM SupersededCapabilitiesDie == Spec => SupersededNeverConsumed
<1> DEFINE Live == \A c \in consumed' \ consumed : \A r \in rotations : r.old # c.manifest
<1>1. Init => TypeInv /\ ChainInv
  BY ChainInit
<1>2. (TypeInv /\ ChainInv) /\ [Next]_vars => (TypeInv /\ ChainInv)'
  BY TypeStep, ChainStep
<1>3. TypeInv /\ ChainInv /\ [Next]_vars => [Live]_vars
  <2> SUFFICES ASSUME TypeInv, ChainInv, [Next]_vars, NEW c \in consumed' \ consumed,
                      NEW r \in rotations
               PROVE  r.old # c.manifest
    OBVIOUS
  <2>1. PICK h \in Handlers : Consume(h)
    BY ConsumedChange
  <2>2. c = request[h] /\ anchor = c.manifest
    BY <2>1 DEF Consume, Admissible
  <2>3. QED
    BY <2>2 DEF ChainInv, OneManifestChain
<1>4. QED
  BY <1>1, <1>2, <1>3, PTL DEF Spec, SupersededNeverConsumed

-----------------------------------------------------------------------------
(* Planes without a verifier.  The anchor, once set, stays set, so the     *)
(* second probe sees any activation that precedes the authentication.      *)
LegacyInv ==
    \A h \in LegacyHandlers :
        /\ stage[h] = "authenticated" /\ anchor = NoAnchor => loaded[h] = NoAnchor
        /\ stage[h] = "cleared" => loaded[h] = NoAnchor

(* The anchor is never removed.                                            *)
LEMMA AnchorStays ==
    ASSUME TypeInv, [Next]_vars
    PROVE  anchor' = NoAnchor => anchor = NoAnchor
<1> USE DEF issuanceVars, storeVars, handlerVars, historyVars
<1>1. ASSUME NEW m \in Manifests, InitializeManifest(m) PROVE anchor' # NoAnchor
  BY <1>1, DistinctAssumption DEF InitializeManifest
<1>2. ASSUME NEW h \in Handlers, Rotate(h) PROVE anchor' # NoAnchor
  BY <1>2, DistinctAssumption, TransitionsAssumption
     DEF Rotate, TypeInv, CarriesOK, AllHandlers
<1>3. QED
  BY NextCases, <1>1, <1>2, Zenon DEF vars, Tick, Issue, Abandon, LoadActive,
     VerifyCapability, Consume, ConsumeRefused, Refused, Dispatch, DispatchRevocation,
     Revoke, RevokeRefused, LoadForRotation, VerifyRotation, LegacyProbe,
     LegacyAuthenticate, LegacyClear

(* Handlers of other planes do not touch a legacy handler.                 *)
LEMMA LegacyStep1 == ASSUME TypeInv, LegacyInv, [Next]_vars PROVE LegacyInv'
<1> USE DEF issuanceVars, storeVars, handlerVars, historyVars
<1>0. SUFFICES ASSUME NEW k \in LegacyHandlers
               PROVE  /\ stage'[k] = "authenticated" /\ anchor' = NoAnchor => loaded'[k] = NoAnchor
                      /\ stage'[k] = "cleared" => loaded'[k] = NoAnchor
  BY DEF LegacyInv
<1> DEFINE Goal == /\ stage'[k] = "authenticated" /\ anchor' = NoAnchor => loaded'[k] = NoAnchor
                   /\ stage'[k] = "cleared" => loaded'[k] = NoAnchor
<1> /\ stage \in [AllHandlers -> Stages]
    /\ loaded \in [AllHandlers -> Manifests \cup {NoAnchor}]
    /\ k \in AllHandlers
    /\ \A h \in Handlers : h # k /\ h \in AllHandlers
    /\ LegacyHandlers \subseteq AllHandlers
  BY DistinctAssumption DEF TypeInv, LedgerTypeOK, AllHandlers
<1>1. CASE stage'[k] = stage[k] /\ loaded'[k] = loaded[k]
  BY <1>1, AnchorStays DEF LegacyInv
<1>2. ASSUME NEW h \in AllHandlers, Abandon(h) PROVE Goal
  BY <1>1, <1>2 DEF Abandon, Done, ToStage
<1>3. ASSUME NEW h \in LegacyHandlers, LegacyProbe(h) PROVE Goal
  BY <1>1, <1>3 DEF LegacyProbe, ToStage
<1>4. ASSUME NEW h \in LegacyHandlers, LegacyAuthenticate(h) PROVE Goal
  BY <1>1, <1>4 DEF LegacyAuthenticate, ToStage
<1>5. ASSUME NEW h \in LegacyHandlers, LegacyClear(h) PROVE Goal
  BY <1>1, <1>5 DEF LegacyClear, ToStage, LegacyInv
<1>6. ASSUME NEW h \in Handlers,
             \/ VerifyCapability(h) \/ Consume(h) \/ ConsumeRefused(h) \/ Dispatch(h)
             \/ DispatchRevocation(h) \/ Revoke(h) \/ RevokeRefused(h)
             \/ VerifyRotation(h) \/ Rotate(h)
             \/ \E c \in Claims : LoadActive(h, c)
             \/ \E tr \in Transitions : LoadForRotation(h, tr)
      PROVE  Goal
  <2>1. stage'[k] = stage[k] /\ loaded'[k] = loaded[k]
    BY <1>6 DEF VerifyCapability, Consume, ConsumeRefused, Dispatch, DispatchRevocation,
       Revoke, RevokeRefused, Refused, VerifyRotation, Rotate, LoadActive, LoadForRotation,
       Done, ToStage
  <2>2. QED
    BY <1>1, <2>1
<1>7. ASSUME stage' = stage, loaded' = loaded PROVE Goal
  BY <1>1, <1>7
<1>8. ASSUME \/ UNCHANGED vars
             \/ UNCHANGED <<storeVars, handlerVars, historyVars>>
             \/ \E m \in Manifests : InitializeManifest(m)
      PROVE  Goal
  <2>1. stage' = stage /\ loaded' = loaded
    BY <1>8, Zenon DEF vars, InitializeManifest
  <2>2. QED
    BY <1>7, <2>1
<1> HIDE DEF Goal
<1>9. Goal
  BY NextCases, <1>2, <1>3, <1>4, <1>5, <1>6, <1>7, <1>8, Zenon
<1> QED
  BY <1>9 DEF Goal

(* A mutation authenticated after the activation of the quorum is refused  *)
(* by planes that run without a verifier.                                  *)
THEOREM LegacyPlanesCloseAfterActivation == Spec => []LegacyClosedAfterActivation
<1>1. Init => TypeInv /\ LegacyInv
  <2> SUFFICES ASSUME Init PROVE TypeInv /\ LegacyInv
    OBVIOUS
  <2>1. TypeInv
    BY TypeInit
  <2>2. LegacyInv
    BY DEF Init, LegacyInv, AllHandlers
  <2>3. QED
    BY <2>1, <2>2
<1>2. (TypeInv /\ LegacyInv) /\ [Next]_vars => (TypeInv /\ LegacyInv)'
  BY TypeStep, LegacyStep1
<1>3. LegacyInv => LegacyClosedAfterActivation
  BY DEF LegacyInv, LegacyClosedAfterActivation
<1>4. QED
  BY <1>1, <1>2, <1>3, PTL DEF Spec
=============================================================================
