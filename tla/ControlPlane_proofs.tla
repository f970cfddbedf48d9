------------------------ MODULE ControlPlane_proofs ------------------------
(***************************************************************************)
(* Proofs about ControlPlane, for any requests, planes, workloads, limits  *)
(* and policies.  Every property rests on what a handler remembers of the  *)
(* store while other handlers run (Held, which speaks of one handler       *)
(* alone) and on the few writes that can change the store (StoreCases).    *)
(***************************************************************************)
EXTENDS ControlPlane, TLAPS

(* A handler's local variables and a node record are functions of their    *)
(* fields.                                                                 *)
CallFields == {"at", "tries", "policy", "catalog", "epoch", "seen", "reserved", "vpn_ip",
               "attempts"}
NodeFields == {"vpn_ip", "key", "http", "routes", "token_policy", "registered_at"}

Shape ==
    /\ DOMAIN call = Requests
    /\ \A r \in Requests : DOMAIN call[r] = CallFields
    /\ \A n \in DOMAIN nodes : DOMAIN nodes[n] = NodeFields

---------------------------------------------------------------------------
(* The writes of the store.                                                *)

Inserts(r) ==
    /\ At(r, "join", "insert") /\ StillExpected(r)
    /\ r.node \notin DOMAIN nodes /\ AddressFree(call[r].vpn_ip)
    /\ nodes' = Put(nodes, r.node, Record(r))
    /\ granted' = Put(granted, r.node, r.token.allowed)
    /\ AdvanceIf(TRUE)
    /\ UNCHANGED <<signatures, policy>>

Rejoins(r) ==
    /\ At(r, "join", "rejoin") /\ StillExpected(r)
    /\ r.node \in DOMAIN nodes
    /\ nodes' = [nodes EXCEPT ![r.node].routes = r.routes]
    /\ granted' = [granted EXCEPT ![r.node] = @ \cup r.token.allowed]
    /\ AdvanceIf(nodes[r.node].routes # r.routes)
    /\ UNCHANGED <<signatures, policy>>

Applies(r) ==
    /\ At(r, "heartbeat", "apply") /\ StillExpected(r)
    /\ SameGeneration(r) /\ Newer(r)
    /\ WriteHeartbeat(r)

Removes(r) ==
    /\ r.node \in DOMAIN nodes
    /\ nodes' = Without(nodes, r.node)
    /\ signatures' = Without(signatures, r.node)
    /\ granted' = Without(granted, r.node)
    /\ AdvanceIf(TRUE)
    /\ UNCHANGED policy

Rotates(r) ==
    /\ r.node \in DOMAIN nodes /\ nodes[r.node].key = r.previous
    /\ nodes' = [nodes EXCEPT ![r.node].key = r.next]
    /\ AdvanceIf(r.next # r.previous)
    /\ UNCHANGED <<signatures, policy, granted>>

SetsPolicy(r) ==
    /\ At(r, "policy", "write")
    /\ call[r].catalog = {Catalog}
    /\ policy' = r.policy
    /\ AdvanceIf(r.policy # policy)
    /\ UnchangedNodes

(* Every step is one of these, initialises the policy or leaves the store  *)
(* of nodes and policy alone.                                              *)
LEMMA StoreCases ==
    ASSUME NEW r \in Requests, Step(r)
    PROVE  \/ Inserts(r) \/ Rejoins(r) \/ Applies(r) \/ Removes(r) \/ Rotates(r)
           \/ SetsPolicy(r)
           \/ UnchangedNodes /\ ReadPolicy
           \/ UnchangedNodes /\ UnchangedPolicy
<1> USE DEF UnchangedStore
<1>1. CASE IssueToken(r)
  BY <1>1 DEF IssueToken
<1>2. CASE RevokeToken(r)
  BY <1>2 DEF RevokeToken
<1>3. CASE AdmitToken(r)
  BY <1>3 DEF AdmitToken
<1>4. CASE JoinPolicy(r)
  BY <1>4 DEF JoinPolicy
<1>5. CASE ValidateCatalog(r)
  BY <1>5 DEF ValidateCatalog
<1>6. CASE SparseAddress(r)
  BY <1>6 DEF SparseAddress
<1>7. CASE ListLeases(r)
  BY <1>7 DEF ListLeases
<1>8. CASE Allocate(r)
  BY <1>8 DEF Allocate
<1>9. CASE InsertNode(r)
  BY <1>9 DEF InsertNode, Inserts
<1>10. CASE ReadExisting(r)
  BY <1>10 DEF ReadExisting
<1>11. CASE RejoinNode(r)
  BY <1>11 DEF RejoinNode, Rejoins
<1>12. CASE HeartbeatNode(r)
  BY <1>12 DEF HeartbeatNode
<1>13. CASE HeartbeatPolicy(r)
  BY <1>13 DEF HeartbeatPolicy
<1>14. CASE ApplyHeartbeat(r)
  BY <1>14 DEF ApplyHeartbeat, Applies
<1>15. CASE ReadNode(r)
  BY <1>15 DEF ReadNode
<1>16. CASE RemoveNode(r)
  BY <1>16 DEF RemoveNode, Removes, AdvanceIf, UnchangedNodes, UnchangedPolicy
<1>17. CASE ResetAllocator(r)
  BY <1>17 DEF ResetAllocator
<1>18. CASE RotateKey(r)
  BY <1>18 DEF RotateKey, Rotates, AdvanceIf, UnchangedNodes, UnchangedPolicy
<1>19. CASE CheckPolicy(r)
  BY <1>19 DEF CheckPolicy
<1>20. CASE WritePolicy(r)
  BY <1>20 DEF WritePolicy, SetsPolicy
<1>21. CASE QueryEpoch(r)
  BY <1>21 DEF QueryEpoch
<1>22. CASE QueryPolicy(r)
  BY <1>22 DEF QueryPolicy
<1>23. CASE QueryEpochAgain(r)
  BY <1>23 DEF QueryEpochAgain
<1>24. CASE FindSnapshot(r)
  BY <1>24 DEF FindSnapshot
<1>25. CASE CheckSnapshot(r)
  BY <1>25 DEF CheckSnapshot
<1> QED
  BY <1>1, <1>2, <1>3, <1>4, <1>5, <1>6, <1>7, <1>8, <1>9, <1>10, <1>11, <1>12, <1>13, <1>14, <1>15, <1>16, <1>17, <1>18, <1>19, <1>20, <1>21, <1>22, <1>23, <1>24, <1>25
     DEF Step

LEMMA FreshShape ==
    /\ DOMAIN Fresh = CallFields
    /\ \A o : DOMAIN Ended(o) = CallFields /\ Ended(o).at = o
  BY DEF CallFields, Fresh, Ended

LEMMA PutFacts ==
    ASSUME NEW f, NEW k, NEW v
    PROVE  /\ DOMAIN Put(f, k, v) = DOMAIN f \cup {k}
           /\ Put(f, k, v)[k] = v
           /\ \A x \in DOMAIN f \ {k} : Put(f, k, v)[x] = f[x]
  BY DEF Put

(* A step moves one handler.                                               *)
LEMMA StepCall ==
    ASSUME Shape, NEW r \in Requests, Step(r)
    PROVE  \E c : call' = [call EXCEPT ![r] = c] /\ DOMAIN c = CallFields
<1> USE FreshShape DEF Shape, Go, End
<1>1. CASE IssueToken(r)
  BY <1>1 DEF IssueToken
<1>2. CASE RevokeToken(r)
  BY <1>2 DEF RevokeToken
<1>3. CASE AdmitToken(r)
  BY <1>3 DEF AdmitToken
<1>4. CASE JoinPolicy(r)
  BY <1>4 DEF JoinPolicy
<1>5. CASE ValidateCatalog(r)
  BY <1>5 DEF ValidateCatalog
<1>6. CASE SparseAddress(r)
  BY <1>6 DEF SparseAddress
<1>7. CASE ListLeases(r)
  BY <1>7 DEF ListLeases
<1>8. CASE Allocate(r)
  BY <1>8 DEF Allocate
<1>9. CASE InsertNode(r)
  BY <1>9 DEF InsertNode, Retry
<1>10. CASE ReadExisting(r)
  BY <1>10 DEF ReadExisting
<1>11. CASE RejoinNode(r)
  <2>1. CASE Retry(r)
    BY <2>1 DEF Retry
  <2>2. CASE ~Retry(r)
    BY <1>11, <2>2 DEF RejoinNode
  <2> QED
    BY <2>1, <2>2
<1>12. CASE HeartbeatNode(r)
  BY <1>12 DEF HeartbeatNode
<1>13. CASE HeartbeatPolicy(r)
  BY <1>13 DEF HeartbeatPolicy
<1>14. CASE ApplyHeartbeat(r)
  BY <1>14 DEF ApplyHeartbeat, WriteHeartbeat
<1>15. CASE ReadNode(r)
  BY <1>15 DEF ReadNode
<1>16. CASE RemoveNode(r)
  BY <1>16 DEF RemoveNode
<1>17. CASE ResetAllocator(r)
  BY <1>17 DEF ResetAllocator
<1>18. CASE RotateKey(r)
  BY <1>18 DEF RotateKey
<1>19. CASE CheckPolicy(r)
  BY <1>19 DEF CheckPolicy
<1>20. CASE WritePolicy(r)
  BY <1>20 DEF WritePolicy
<1>21. CASE QueryEpoch(r)
  BY <1>21 DEF QueryEpoch
<1>22. CASE QueryPolicy(r)
  BY <1>22 DEF QueryPolicy
<1>23. CASE QueryEpochAgain(r)
  BY <1>23 DEF QueryEpochAgain
<1>24. CASE FindSnapshot(r)
  BY <1>24 DEF FindSnapshot
<1>25. CASE CheckSnapshot(r)
  BY <1>25 DEF CheckSnapshot, NewRound
<1> QED
  BY <1>1, <1>2, <1>3, <1>4, <1>5, <1>6, <1>7, <1>8, <1>9, <1>10, <1>11, <1>12, <1>13, <1>14, <1>15, <1>16, <1>17, <1>18, <1>19, <1>20, <1>21, <1>22, <1>23, <1>24, <1>25
     DEF Step

LEMMA StepShape ==
    ASSUME Shape, NEW r \in Requests, Step(r)
    PROVE  Shape'
<1>1. DOMAIN call' = Requests /\ \A q \in Requests : DOMAIN call'[q] = CallFields
  BY StepCall DEF Shape
<1>2. \A n \in DOMAIN nodes' : DOMAIN nodes'[n] = NodeFields
  <2> USE DEF Shape
  <2>1. CASE Inserts(r)
    <3>1. DOMAIN Record(r) = NodeFields
      BY DEF Record, NodeFields
    <3> QED
      BY <2>1, <3>1 DEF Inserts, Put
  <2>2. CASE Rejoins(r)
    BY <2>2 DEF Rejoins
  <2>3. CASE Applies(r)
    BY <2>3 DEF Applies, WriteHeartbeat
  <2>4. CASE Removes(r)
    BY <2>4 DEF Removes, Without
  <2>5. CASE Rotates(r)
    BY <2>5 DEF Rotates
  <2>6. CASE UnchangedNodes
    BY <2>6 DEF UnchangedNodes
  <2> QED
    BY <2>1, <2>2, <2>3, <2>4, <2>5, <2>6, StoreCases DEF SetsPolicy
<1> QED
  BY <1>1, <1>2 DEF Shape

---------------------------------------------------------------------------
(* What a handler holds.                                                   *)

JoinStages == {"catalog", "address", "allocate", "insert", "existing", "rejoin"}

RoutesOf(C) == UNION {C[n].routes : n \in DOMAIN C}

(* The catalog that was read has room for the request's routes.            *)
Fits(r, c) ==
    \E C : /\ c.catalog = {C}
           /\ Cardinality((UNION {C[n].routes : n \in DOMAIN C \ {r.node}}) \cup r.routes)
                 <= MaxScopes

(* The record is one a join request made, with the policy of its token.    *)
Genuine(record) ==
    \E q \in Requests : /\ q.kind = "join" /\ record.registered_at = q.id
                        /\ record.token_policy = q.token.allowed

HeldByJoin(r, c) ==
    /\ c.policy # NoPolicy
    /\ WithinScopes(r.routes, c.policy)
    /\ c.at # "catalog" /\ r.routes # {} /\ c.policy.scopes = {} => Fits(r, c)

HeldByHeartbeat(r, c) ==
    /\ c.policy # NoPolicy
    /\ r.routes # NoRoutes => /\ WithinScopes(r.routes, c.policy)
                              /\ r.routes \subseteq c.seen.token_policy
    /\ (c.at = "apply" /\ UpdatesRoutes(r, c.seen) /\ r.routes # {} /\ c.policy.scopes = {})
          => Fits(r, c)

Held(r, c) ==
    /\ c.at = "catalog" => r.kind \in {"join", "heartbeat"}
    /\ r.kind = "join" /\ c.at \in JoinStages => HeldByJoin(r, c)
    /\ r.kind = "heartbeat" /\ c.at \in {"policy", "catalog", "apply"} => Genuine(c.seen)
    /\ r.kind = "heartbeat" /\ c.at \in {"catalog", "apply"} => HeldByHeartbeat(r, c)
    /\ r.kind = "policy" /\ c.at = "write" =>
          \A C \in c.catalog : WithinScopes(RoutesOf(C), r.policy)

(* Every record was made by a join request; without a policy there is none. *)
Origin ==
    /\ \A n \in DOMAIN nodes : Genuine(nodes[n])
    /\ policy = NoPolicy => DOMAIN nodes = {}

HeldInv == Shape /\ Origin /\ \A r \in Requests : Held(r, call[r])

(* Stages at which nothing has been checked yet, or any more.              *)
LEMMA HeldPlain ==
    ASSUME NEW r, NEW c, c.at # "catalog",
           r.kind = "join" => c.at \notin JoinStages,
           r.kind = "heartbeat" => c.at \notin {"policy", "apply"},
           r.kind = "policy" => c.at # "write"
    PROVE  Held(r, c)
  BY DEF Held

LEMMA EndHeld == \A r, o : o \in {"ok", "refused", "conflict", "exhausted"} => Held(r, Ended(o))
  BY FreshShape DEF Held, JoinStages

(* Between its checks and its write a join only changes its address.       *)
LEMMA HeldJoinMoves ==
    ASSUME NEW r, NEW c, NEW d, r.kind = "join", Held(r, c),
           c.at \in JoinStages \ {"catalog"}, d.at \in JoinStages \ {"catalog"},
           d.policy = c.policy, d.catalog = c.catalog
    PROVE  Held(r, d)
  BY DEF Held, HeldByJoin, Fits

LEMMA RetryHeld ==
    ASSUME Shape, NEW r \in Requests, r.kind = "join", Retry(r)
    PROVE  Held(r, call'[r])
<1> DEFINE e == [Fresh EXCEPT !.at = "policy", !.tries = call[r].tries + 1]
<1>1. e.at = "policy"
  BY FreshShape DEF CallFields
<1>2. Held(r, e)
  BY <1>1, HeldPlain DEF JoinStages
<1> QED
  BY <1>2, EndHeld DEF Retry, Go, Shape

(* A handler's next stage follows from its last one.                       *)
LEMMA StepHeld ==
    ASSUME HeldInv, NEW r \in Requests, Step(r)
    PROVE  Held(r, call'[r])
<1> DEFINE c == call[r]
           d == call'[r]
<1>a. Held(r, c) /\ Shape /\ Origin /\ DOMAIN c = CallFields
  BY DEF HeldInv, Shape
<1> USE EndHeld, <1>a DEF Shape, Go, End, At
<1>1. CASE IssueToken(r)
  BY <1>1 DEF IssueToken
<1>2. CASE RevokeToken(r)
  BY <1>2 DEF RevokeToken
<1>3. CASE AdmitToken(r)
  <2>1. Held(r, [Fresh EXCEPT !.at = "policy"])
    BY <1>3, HeldPlain, FreshShape DEF AdmitToken, JoinStages, CallFields
  <2> QED
    BY <1>3, <2>1 DEF AdmitToken
<1>4. CASE JoinPolicy(r)
  <2>1. ASSUME WithinScopes(r.routes, CurrentPolicy)
        PROVE  Held(r, [c EXCEPT !.at = NextAfterPolicy(r.routes, "address"),
                                 !.policy = CurrentPolicy])
    BY <1>4, <2>1, RequestsAssumption
       DEF JoinPolicy, NextAfterPolicy, Held, HeldByJoin, CurrentPolicy, CallFields
  <2> QED
    BY <1>4, <2>1 DEF JoinPolicy
<1>5. CASE ValidateCatalog(r)
  <2> DEFINE e == [c EXCEPT !.at = IF r.kind = "join" THEN "address" ELSE "apply",
                            !.catalog = {Catalog}]
  <2>1. ASSUME AggregateCount(r.node, r.routes) <= MaxScopes
        PROVE  Held(r, e)
    <3>1. /\ e.at = IF r.kind = "join" THEN "address" ELSE "apply"
          /\ e.catalog = {Catalog} /\ e.policy = c.policy /\ e.seen = c.seen
      BY DEF CallFields
    <3>2. {Catalog[n].routes : n \in DOMAIN Catalog \ {r.node}}
             = {nodes[n].routes : n \in DOMAIN nodes \ {r.node}}
      BY DEF Catalog
    <3>3. Cardinality((UNION {Catalog[n].routes : n \in DOMAIN Catalog \ {r.node}})
                         \cup r.routes) <= MaxScopes
      BY <2>1, <3>2, Zenon DEF AggregateCount, Advertised
    <3>5. Fits(r, e)
      <4> SUFFICES \E C : /\ e.catalog = {C}
                          /\ Cardinality((UNION {C[n].routes : n \in DOMAIN C \ {r.node}})
                                         \cup r.routes) <= MaxScopes
        BY Zenon DEF Fits
      <4> WITNESS Catalog
      <4> QED
        BY <3>1, <3>3
    <3>4. c.at = "catalog" /\ r.kind \in {"join", "heartbeat"}
      BY <1>5 DEF ValidateCatalog, Held
    <3> QED
      BY <3>1, <3>4, <3>5 DEF Held, HeldByJoin, HeldByHeartbeat, JoinStages
  <2> QED
    BY <1>5, <2>1 DEF ValidateCatalog
<1>6. CASE SparseAddress(r)
  <2>1. PICK ip : call' = [call EXCEPT ![r] =
                     [c EXCEPT !.at = "insert", !.vpn_ip = ip, !.attempts = @ + 1]]
    BY <1>6 DEF SparseAddress
  <2>2. d.at = "insert" /\ d.policy = c.policy /\ d.catalog = c.catalog
    BY <2>1 DEF CallFields
  <2> QED
    BY <1>6, <2>2, HeldJoinMoves DEF SparseAddress, JoinStages
<1>7. CASE ListLeases(r)
  <2>1. d.at = "allocate" /\ d.policy = c.policy /\ d.catalog = c.catalog
    BY <1>7 DEF ListLeases, CallFields
  <2> QED
    BY <1>7, <2>1, HeldJoinMoves DEF ListLeases, JoinStages
<1>8. CASE Allocate(r)
  <2> DEFINE free == {ip \in offset[r.plane]..Hosts : ip \notin c.reserved}
  <2>1. CASE free = {}
    BY <1>8, <2>1 DEF Allocate
  <2>2. CASE free # {}
    <3>1. call' = [call EXCEPT ![r] = [c EXCEPT !.at = "insert", !.reserved = {},
                                                !.vpn_ip = Min(free)]]
      BY <1>8, <2>2 DEF Allocate
    <3>2. d.at = "insert" /\ d.policy = c.policy /\ d.catalog = c.catalog
      BY <3>1 DEF CallFields
    <3> QED
      BY <1>8, <3>2, HeldJoinMoves DEF Allocate, JoinStages
  <2> QED
    BY <2>1, <2>2
<1>9. CASE InsertNode(r)
  <2>1. CASE Retry(r)
    BY <1>9, <2>1, RetryHeld DEF InsertNode
  <2>2. CASE End(r, "ok")
    BY <2>2
  <2>3. ASSUME NEW x \in {"existing", "address"},
               Go(r, [c EXCEPT !.at = x, !.vpn_ip = 0])
        PROVE  Held(r, d)
    <3>1. d.at = x /\ d.policy = c.policy /\ d.catalog = c.catalog
      BY <2>3 DEF CallFields
    <3> QED
      BY <1>9, <3>1, HeldJoinMoves DEF InsertNode, JoinStages
  <2> QED
    BY <1>9, <2>1, <2>2, <2>3 DEF InsertNode
<1>10. CASE ReadExisting(r)
  <2>1. CASE End(r, "refused")
    BY <2>1
  <2>2. CASE Go(r, [c EXCEPT !.at = "rejoin", !.seen = nodes[r.node]])
    <3>1. d.at = "rejoin" /\ d.policy = c.policy /\ d.catalog = c.catalog
      BY <2>2 DEF CallFields
    <3> QED
      BY <1>10, <3>1, HeldJoinMoves DEF ReadExisting, JoinStages
  <2> QED
    BY <1>10, <2>1, <2>2 DEF ReadExisting
<1>11. CASE RejoinNode(r)
  <2>1. CASE Retry(r)
    BY <1>11, <2>1, RetryHeld DEF RejoinNode
  <2>2. CASE End(r, "refused") \/ End(r, "ok")
    BY <2>2
  <2> QED
    BY <1>11, <2>1, <2>2 DEF RejoinNode
<1>12. CASE HeartbeatNode(r)
  <2>1. CASE End(r, "refused")
    BY <2>1
  <2>2. CASE /\ r.node \in DOMAIN nodes
             /\ Go(r, [Fresh EXCEPT !.at = "policy", !.seen = nodes[r.node]])
    <3>1. d.at = "policy" /\ d.seen = nodes[r.node]
      BY <2>2, FreshShape DEF CallFields
    <3>2. Genuine(nodes[r.node])
      BY <2>2 DEF Origin
    <3> QED
      BY <1>12, <3>1, <3>2 DEF HeartbeatNode, Held
  <2> QED
    BY <1>12, <2>1, <2>2 DEF HeartbeatNode
<1>13. CASE HeartbeatPolicy(r)
  <2> DEFINE next == IF UpdatesRoutes(r, c.seen)
                     THEN NextAfterPolicy(r.routes, "apply") ELSE "apply"
  <2>1. ASSUME r.routes # NoRoutes => /\ WithinScopes(r.routes, CurrentPolicy)
                                      /\ r.routes \subseteq c.seen.token_policy
        PROVE  Held(r, [c EXCEPT !.policy = CurrentPolicy, !.at = next])
    <3> DEFINE e == [c EXCEPT !.policy = CurrentPolicy, !.at = next]
    <3>1. e.policy = CurrentPolicy /\ e.at = next /\ e.seen = c.seen
      BY DEF CallFields
    <3>2. r.kind = "heartbeat" /\ Genuine(c.seen)
      BY <1>13 DEF HeartbeatPolicy, Held
    <3>3. next \in {"catalog", "apply"} /\ CurrentPolicy # NoPolicy
      BY RequestsAssumption DEF NextAfterPolicy, CurrentPolicy
    <3>4. UpdatesRoutes(r, c.seen) /\ r.routes # {} /\ CurrentPolicy.scopes = {}
             => next # "apply"
      BY DEF NextAfterPolicy
    <3>5. HeldByHeartbeat(r, e)
      BY <2>1, <3>1, <3>3, <3>4 DEF HeldByHeartbeat
    <3> QED
      BY <3>1, <3>2, <3>3, <3>5 DEF Held
  <2> QED
    BY <1>13, <2>1 DEF HeartbeatPolicy
<1>14. CASE ApplyHeartbeat(r)
  <2>1. End(r, "ok") \/ End(r, "refused")
    BY <1>14 DEF ApplyHeartbeat, WriteHeartbeat
  <2> QED
    BY <2>1
<1>15. CASE ReadNode(r)
  <2>1. Held(r, [Fresh EXCEPT !.at = "write"])
    BY <1>15, HeldPlain, FreshShape DEF ReadNode, CallFields
  <2> QED
    BY <1>15, <2>1 DEF ReadNode
<1>16. CASE RemoveNode(r)
  <2>1. Held(r, [Fresh EXCEPT !.at = "reset"])
    BY <1>16, HeldPlain, FreshShape DEF RemoveNode, CallFields
  <2>2. \/ Go(r, [Fresh EXCEPT !.at = "reset"])
        \/ End(r, "refused")
    BY <1>16 DEF RemoveNode
  <2> QED
    BY <2>1, <2>2
<1>17. CASE ResetAllocator(r)
  BY <1>17 DEF ResetAllocator
<1>18. CASE RotateKey(r)
  <2>1. End(r, "ok") \/ End(r, "refused")
    BY <1>18 DEF RotateKey
  <2> QED
    BY <2>1
<1>19. CASE CheckPolicy(r)
  <2>1. CASE End(r, "refused")
    BY <2>1
  <2>2. CASE /\ WithinScopes(Advertised(DOMAIN nodes), r.policy)
             /\ Go(r, [c EXCEPT !.at = "write", !.catalog = {Catalog}])
    <3>1. d.at = "write" /\ d.catalog = {Catalog}
      BY <2>2 DEF CallFields
    <3>2. RoutesOf(Catalog) = Advertised(DOMAIN nodes)
      BY DEF RoutesOf, Advertised, Catalog
    <3> QED
      BY <1>19, <2>2, <3>1, <3>2 DEF CheckPolicy, Held
  <2> QED
    BY <1>19, <2>1, <2>2 DEF CheckPolicy
<1>20. CASE WritePolicy(r)
  <2>1. Held(r, [Fresh EXCEPT !.tries = c.tries + 1])
    BY <1>20, HeldPlain, FreshShape DEF WritePolicy, CallFields, Fresh
  <2>2. \/ End(r, "ok") \/ Go(r, [Fresh EXCEPT !.tries = c.tries + 1])
        \/ Go(r, Ended("conflict"))
    BY <1>20 DEF WritePolicy
  <2> QED
    BY <2>1, <2>2
<1>21. CASE r.kind = "query" /\ d.at # "catalog"
  BY <1>21, HeldPlain
<1> USE FreshShape DEF CallFields
<1>22. CASE QueryEpoch(r)
  BY <1>21, <1>22 DEF QueryEpoch
<1>23. CASE QueryPolicy(r)
  BY <1>21, <1>23 DEF QueryPolicy
<1>24. CASE QueryEpochAgain(r)
  BY <1>21, <1>24 DEF QueryEpochAgain, Fresh, Ended
<1>25. CASE FindSnapshot(r)
  BY <1>21, <1>25 DEF FindSnapshot
<1>26. CASE CheckSnapshot(r)
  BY <1>21, <1>26 DEF CheckSnapshot, NewRound, Fresh, Ended
<1> QED
  BY <1>1, <1>2, <1>3, <1>4, <1>5, <1>6, <1>7, <1>8, <1>9, <1>10, <1>11, <1>12, <1>13,
     <1>14, <1>15, <1>16, <1>17, <1>18, <1>19, <1>20, <1>22, <1>23, <1>24, <1>25, <1>26
     DEF Step

(* Origin is kept, and so HeldInv is inductive.                            *)
LEMMA StepOrigin ==
    ASSUME HeldInv, NEW r \in Requests, Step(r)
    PROVE  Origin'
<1> USE DEF HeldInv, Origin, Genuine
<1>1. CASE Inserts(r)
  <2>1. Genuine(Record(r))
    BY <1>1 DEF Inserts, At, Record
  <2>2. Held(r, call[r]) /\ policy' = call[r].policy
    BY <1>1 DEF Inserts, StillExpected
  <2>3. policy' # NoPolicy
    BY <1>1, <2>2 DEF Inserts, At, Held, HeldByJoin, JoinStages
  <2> QED
    BY <1>1, <2>1, <2>3 DEF Inserts, Put
<1>2. CASE Rejoins(r)
  BY <1>2 DEF Rejoins, Shape, NodeFields
<1>3. CASE Applies(r)
  BY <1>3 DEF Applies, WriteHeartbeat, Shape, NodeFields
<1>4. CASE Removes(r)
  BY <1>4 DEF Removes, Without
<1>5. CASE Rotates(r)
  BY <1>5 DEF Rotates, Shape, NodeFields
<1>6. CASE SetsPolicy(r)
  BY <1>6, RequestsAssumption DEF SetsPolicy, At, UnchangedNodes
<1>7. CASE UnchangedNodes /\ ReadPolicy
  BY <1>7, RequestsAssumption DEF UnchangedNodes, ReadPolicy, CurrentPolicy
<1>8. CASE UnchangedNodes /\ UnchangedPolicy
  BY <1>8 DEF UnchangedNodes, UnchangedPolicy
<1> QED
  BY <1>1, <1>2, <1>3, <1>4, <1>5, <1>6, <1>7, <1>8, StoreCases

LEMMA HeldInit == Init => HeldInv
<1> SUFFICES ASSUME Init PROVE HeldInv
  OBVIOUS
<1>1. \A r \in Requests : call[r] \in {Fresh, Ended("ok")}
  BY DEF Init
<1>2. Shape /\ Origin
  BY <1>1, FreshShape DEF Init, Shape, Origin
<1>3. \A r : Held(r, Fresh) /\ Held(r, Ended("ok"))
  BY EndHeld, HeldPlain DEF Fresh, JoinStages
<1> QED
  BY <1>1, <1>2, <1>3 DEF HeldInv

LEMMA HeldStep == HeldInv /\ [Next]_vars => HeldInv'
<1> SUFFICES ASSUME HeldInv, [Next]_vars PROVE HeldInv'
  OBVIOUS
<1>1. ASSUME NEW r \in Requests, Step(r) PROVE HeldInv'
  <2>1. PICK c : call' = [call EXCEPT ![r] = c]
    BY <1>1, StepCall DEF HeldInv
  <2>2. \A q \in Requests : Held(q, call'[q])
    BY <1>1, <2>1, StepHeld DEF HeldInv, Shape
  <2> QED
    BY <1>1, <2>2, StepOrigin, StepShape DEF HeldInv
<1>2. ASSUME NEW p \in Planes, DropSnapshot(p) PROVE HeldInv'
  BY <1>2 DEF DropSnapshot, UnchangedStore, UnchangedNodes, UnchangedPolicy, HeldInv, Shape,
              Origin
<1>3. CASE UNCHANGED vars
  BY <1>3 DEF vars, HeldInv, Shape, Origin
<1> QED
  BY <1>1, <1>2, <1>3 DEF Next

LEMMA HeldAlways == Spec => []HeldInv
  BY HeldInit, HeldStep, PTL DEF Spec

---------------------------------------------------------------------------
(* A step that moves no handler leaves the store alone.                    *)
LEMMA NextCases ==
    ASSUME [Next]_vars
    PROVE  (\E r \in Requests : Step(r)) \/ (UnchangedStore /\ UNCHANGED call)
<1>1. ASSUME NEW p \in Planes, DropSnapshot(p) PROVE UnchangedStore /\ UNCHANGED call
  BY <1>1 DEF DropSnapshot
<1>2. CASE UNCHANGED vars
  BY <1>2 DEF vars, UnchangedStore, UnchangedNodes, UnchangedPolicy, UnchangedTokens
<1> QED
  BY <1>1, <1>2 DEF Next

(* Addresses.  With the unique index of the SQL stores, however planes     *)
(* allocate, remove and reset, no two nodes hold the same address.         *)
THEOREM NodesHoldDistinctAddresses ==
    ASSUME UniqueIndex
    PROVE  Spec => []LeasesDistinct
<1>1. Init => LeasesDistinct
  BY DEF Init, LeasesDistinct
<1>2. HeldInv /\ LeasesDistinct /\ [Next]_vars => LeasesDistinct'
  <2> SUFFICES ASSUME HeldInv, LeasesDistinct, [Next]_vars PROVE LeasesDistinct'
    OBVIOUS
  <2>1. ASSUME NEW r \in Requests, Step(r) PROVE LeasesDistinct'
    <3> USE DEF LeasesDistinct, HeldInv, Shape
    <3>1. CASE Inserts(r)
      <4>1. Record(r).vpn_ip = call[r].vpn_ip
        BY DEF Record
      <4> QED
        BY <3>1, <4>1 DEF Inserts, Put, AddressFree, Leased
    <3>2. CASE Rejoins(r)
      BY <3>2 DEF Rejoins, NodeFields
    <3>3. CASE Applies(r)
      BY <3>3 DEF Applies, WriteHeartbeat, NodeFields
    <3>4. CASE Removes(r)
      BY <3>4 DEF Removes, Without
    <3>5. CASE Rotates(r)
      BY <3>5 DEF Rotates, NodeFields
    <3>6. CASE UnchangedNodes
      BY <3>6 DEF UnchangedNodes
    <3> QED
      BY <2>1, <3>1, <3>2, <3>3, <3>4, <3>5, <3>6, StoreCases DEF SetsPolicy
  <2>2. CASE UnchangedStore
    BY <2>2 DEF UnchangedStore, UnchangedNodes, LeasesDistinct
  <2> QED
    BY <2>1, <2>2, NextCases
<1> QED
  BY <1>1, <1>2, HeldAlways, PTL DEF Spec

---------------------------------------------------------------------------
(* Scopes.                                                                 *)

(* The scopes admit a set of routes when they admit each node's.           *)
LEMMA ScopesByNode ==
    \A p, ns : WithinScopes(Advertised(ns), p)
                 <=> (p.scopes = {} \/ \A n \in ns : nodes[n].routes \subseteq p.scopes)
  BY DEF WithinScopes, Advertised

LEMMA ScopesByNodeNext ==
    RoutesWithinScopes' <=> (policy' # NoPolicy =>
                 (policy'.scopes = {} \/ \A n \in DOMAIN nodes' : nodes'[n].routes \subseteq policy'.scopes))
  BY DEF RoutesWithinScopes, WithinScopes, Advertised

(* A policy and routes that were each checked against an older version of  *)
(* the other: the published routes lie within the policy in force.         *)
THEOREM RoutesStayWithinScopes == Spec => []RoutesWithinScopes
<1>1. Init => RoutesWithinScopes
  BY DEF Init, RoutesWithinScopes
<1>2. HeldInv /\ RoutesWithinScopes /\ [Next]_vars => RoutesWithinScopes'
  <2> SUFFICES ASSUME HeldInv, RoutesWithinScopes, [Next]_vars PROVE RoutesWithinScopes'
    OBVIOUS
  <2>0. policy # NoPolicy =>
           (policy.scopes = {} \/ \A n \in DOMAIN nodes : nodes[n].routes \subseteq policy.scopes)
    BY ScopesByNode DEF RoutesWithinScopes
  <2>1. ASSUME NEW r \in Requests, Step(r) PROVE RoutesWithinScopes'
    <3>0. Shape /\ Origin /\ Held(r, call[r])
      BY DEF HeldInv
    <3>1. CASE Inserts(r)
      <4>1. WithinScopes(r.routes, policy) /\ policy' = policy
        BY <3>0, <3>1 DEF Inserts, At, Held, HeldByJoin, JoinStages, StillExpected
      <4>2. Record(r).routes = r.routes
        BY DEF Record
      <4> QED
        BY <2>0, <3>1, <4>1, <4>2, ScopesByNodeNext DEF Inserts, Put, WithinScopes
    <3>2. CASE Rejoins(r)
      <4>1. WithinScopes(r.routes, policy) /\ policy' = policy
        BY <3>0, <3>2 DEF Rejoins, At, Held, HeldByJoin, JoinStages, StillExpected
      <4> QED
        BY <2>0, <3>0, <3>2, <4>1, ScopesByNodeNext
           DEF Rejoins, WithinScopes, Shape, NodeFields
    <3>3. CASE Applies(r)
      <4>1. policy' = policy
        BY <3>3 DEF Applies, WriteHeartbeat
      <4>2. r.routes # NoRoutes => WithinScopes(r.routes, policy)
        BY <3>0, <3>3 DEF Applies, At, Held, HeldByHeartbeat, StillExpected
      <4>3. nodes' = nodes \/ (r.routes # NoRoutes /\ nodes' = [nodes EXCEPT ![r.node].routes = r.routes])
        BY <3>3 DEF Applies, WriteHeartbeat, UpdatesRoutes
      <4> QED
        BY <2>0, <3>0, <4>1, <4>2, <4>3, ScopesByNodeNext DEF WithinScopes, Shape, NodeFields
    <3>4. CASE Removes(r)
      BY <2>0, <3>4, ScopesByNodeNext DEF Removes, Without
    <3>5. CASE Rotates(r)
      BY <2>0, <3>0, <3>5, ScopesByNodeNext DEF Rotates, Shape, NodeFields
    <3>6. CASE SetsPolicy(r)
      <4>1. WithinScopes(RoutesOf(Catalog), r.policy)
        BY <3>0, <3>6 DEF SetsPolicy, At, Held
      <4>2. RoutesOf(Catalog) = Advertised(DOMAIN nodes)
        BY DEF RoutesOf, Advertised, Catalog
      <4> QED
        BY <3>6, <4>1, <4>2, ScopesByNode, ScopesByNodeNext DEF SetsPolicy, UnchangedNodes
    <3>7. CASE UnchangedNodes /\ ReadPolicy
      BY <2>0, <3>0, <3>7, ScopesByNodeNext
         DEF UnchangedNodes, ReadPolicy, CurrentPolicy, Origin
    <3>8. CASE UnchangedNodes /\ UnchangedPolicy
      BY <2>0, <3>8, ScopesByNodeNext DEF UnchangedNodes, UnchangedPolicy
    <3> QED
      BY <2>1, <3>1, <3>2, <3>3, <3>4, <3>5, <3>6, <3>7, <3>8, StoreCases
  <2>2. CASE UnchangedStore
    BY <2>0, <2>2, ScopesByNodeNext DEF UnchangedStore, UnchangedNodes, UnchangedPolicy
  <2> QED
    BY <2>1, <2>2, NextCases
<1> QED
  BY <1>1, <1>2, HeldAlways, PTL DEF Spec

---------------------------------------------------------------------------
(* Room for capture scopes.                                                *)

(* The routes the cluster advertises once a node advertises these.         *)
LEMMA AdvertisedWith ==
    ASSUME NEW n, DOMAIN nodes' = DOMAIN nodes \cup {n},
           NEW routes, nodes'[n].routes = routes,
           \A m \in DOMAIN nodes \ {n} : nodes'[m].routes = nodes[m].routes
    PROVE  UNION {nodes'[m].routes : m \in DOMAIN nodes'}
              = (UNION {Catalog[m].routes : m \in DOMAIN Catalog \ {n}}) \cup routes
<1>1. DOMAIN Catalog = DOMAIN nodes /\ \A m \in DOMAIN nodes : Catalog[m].routes = nodes[m].routes
  BY DEF Catalog
<1> QED
  BY <1>1

LEMMA RoomKept ==
    ASSUME NEW r, NEW c, Fits(r, c), c.catalog \subseteq {Catalog},
           DOMAIN nodes' = DOMAIN nodes \cup {r.node}, nodes'[r.node].routes = r.routes,
           \A m \in DOMAIN nodes \ {r.node} : nodes'[m].routes = nodes[m].routes
    PROVE  Cardinality(UNION {nodes'[m].routes : m \in DOMAIN nodes'}) <= MaxScopes
<1> DEFINE room(C) ==
      Cardinality((UNION {C[n].routes : n \in DOMAIN C \ {r.node}}) \cup r.routes) <= MaxScopes
<1>1. \E C : c.catalog = {C} /\ room(C)
  BY Zenon DEF Fits
<1>2. room(Catalog)
  <2> HIDE DEF room
  <2> QED
    BY <1>1
<1> DEFINE others == UNION {Catalog[m].routes : m \in DOMAIN Catalog \ {r.node}}
           all    == UNION {nodes'[m].routes : m \in DOMAIN nodes'}
<1>3. Cardinality(others \cup r.routes) <= MaxScopes
  BY <1>2, Zenon
<1>4. all = others \cup r.routes
  BY AdvertisedWith, Zenon
<1> HIDE DEF others, all
<1>5. Cardinality(all) <= MaxScopes
  BY <1>3, <1>4
<1> QED
  BY <1>5 DEF all


(* Advertisers that each saw room for their own routes do not together     *)
(* take a cluster without scopes over the limit.                           *)
THEOREM AdvertisersStayWithinLimit == Spec => CatalogWithinLimit
<1> DEFINE A == \A n \in DOMAIN nodes' :
          /\ n \in DOMAIN nodes => nodes'[n].routes # nodes[n].routes
          /\ nodes'[n].routes # {} /\ policy'.scopes = {}
          => Cardinality(UNION {nodes'[m].routes : m \in DOMAIN nodes'}) <= MaxScopes
<1>1. HeldInv /\ [Next]_vars => [A]_vars
  <2> SUFFICES ASSUME HeldInv, [Next]_vars,
                      NEW n \in DOMAIN nodes',
                      n \in DOMAIN nodes => nodes'[n].routes # nodes[n].routes,
                      nodes'[n].routes # {}, policy'.scopes = {}
               PROVE  Cardinality(UNION {nodes'[m].routes : m \in DOMAIN nodes'}) <= MaxScopes
    BY Zenon
  <2>1. ASSUME NEW r \in Requests, Step(r)
        PROVE  Cardinality(UNION {nodes'[m].routes : m \in DOMAIN nodes'}) <= MaxScopes
    <3>0. Shape /\ Held(r, call[r])
      BY DEF HeldInv
    <3>1. CASE Inserts(r)
      <4>1. Record(r).routes = r.routes
        BY DEF Record
      <4>2. /\ DOMAIN nodes' = DOMAIN nodes \cup {r.node} /\ nodes'[r.node].routes = r.routes
            /\ \A m \in DOMAIN nodes \ {r.node} : nodes'[m].routes = nodes[m].routes
        BY <3>1, <4>1 DEF Inserts, Put
      <4>3. n = r.node /\ call[r].policy = policy' /\ call[r].catalog \subseteq {Catalog}
        BY <3>1, <4>2 DEF Inserts, StillExpected
      <4>4. Fits(r, call[r])
        BY <3>0, <3>1, <4>2, <4>3 DEF Inserts, At, Held, HeldByJoin, JoinStages
      <4> QED
        BY <4>2, <4>3, <4>4, RoomKept, Zenon
    <3>2. CASE Rejoins(r)
      <4>2. /\ DOMAIN nodes' = DOMAIN nodes \cup {r.node} /\ nodes'[r.node].routes = r.routes
            /\ \A m \in DOMAIN nodes \ {r.node} : nodes'[m].routes = nodes[m].routes
        BY <3>0, <3>2 DEF Rejoins, Shape, NodeFields
      <4>3. n = r.node /\ call[r].policy = policy' /\ call[r].catalog \subseteq {Catalog}
        BY <3>2, <4>2 DEF Rejoins, StillExpected
      <4>4. Fits(r, call[r])
        BY <3>0, <3>2, <4>2, <4>3 DEF Rejoins, At, Held, HeldByJoin, JoinStages
      <4> QED
        BY <4>2, <4>3, <4>4, RoomKept, Zenon
    <3>3. CASE Applies(r)
      <4>1. nodes' # nodes
        OBVIOUS
      <4>2. /\ UpdatesRoutes(r, call[r].seen) /\ r.node \in DOMAIN nodes
            /\ nodes' = [nodes EXCEPT ![r.node].routes = r.routes]
        BY <3>3, <4>1 DEF Applies, WriteHeartbeat, SameGeneration
      <4>3. /\ DOMAIN nodes' = DOMAIN nodes \cup {r.node} /\ nodes'[r.node].routes = r.routes
            /\ \A m \in DOMAIN nodes \ {r.node} : nodes'[m].routes = nodes[m].routes
        BY <3>0, <4>2 DEF Shape, NodeFields
      <4>4. n = r.node /\ call[r].policy = policy' /\ call[r].catalog \subseteq {Catalog}
        BY <3>3, <4>3 DEF Applies, WriteHeartbeat, StillExpected
      <4>5. Fits(r, call[r])
        BY <3>0, <3>3, <4>2, <4>3, <4>4 DEF Applies, At, Held, HeldByHeartbeat
      <4> QED
        BY <4>3, <4>4, <4>5, RoomKept, Zenon
    <3>4. CASE Removes(r)
      BY <3>4 DEF Removes, Without
    <3>5. CASE Rotates(r)
      BY <3>0, <3>5 DEF Rotates, Shape, NodeFields
    <3>6. CASE UnchangedNodes
      BY <3>6 DEF UnchangedNodes
    <3> QED
      BY <2>1, <3>1, <3>2, <3>3, <3>4, <3>5, <3>6, StoreCases DEF SetsPolicy
  <2>2. CASE UnchangedStore
    BY <2>2 DEF UnchangedStore, UnchangedNodes
  <2> QED
    BY <2>1, <2>2, NextCases
<1> QED
  BY <1>1, HeldAlways, PTL DEF Spec, CatalogWithinLimit

---------------------------------------------------------------------------
(* Authority over routes.                                                  *)

(* What tokens granted covers the policy of the record's token too.        *)
GrantInv ==
    /\ DOMAIN granted = DOMAIN nodes
    /\ \A n \in DOMAIN nodes : nodes[n].token_policy \subseteq granted[n]
    /\ RoutesAuthorised

(* A heartbeat that was checked against an earlier registration publishes  *)
(* nothing in a new one's name: a node's routes are ones its tokens allow. *)
THEOREM RoutesStayAuthorised == Spec => []RoutesAuthorised
<1>1. Init => GrantInv
  BY DEF Init, GrantInv, RoutesAuthorised
<1>2. HeldInv /\ GrantInv /\ [Next]_vars => GrantInv'
  <2> SUFFICES ASSUME HeldInv, GrantInv, [Next]_vars PROVE GrantInv'
    OBVIOUS
  <2> USE DEF GrantInv, RoutesAuthorised
  <2>1. ASSUME NEW r \in Requests, Step(r) PROVE GrantInv'
    <3>0. Shape /\ Origin /\ Held(r, call[r])
      BY DEF HeldInv
    <3>1. CASE Inserts(r)
      <4>1. Record(r).routes = r.routes /\ Record(r).token_policy = r.token.allowed
        BY DEF Record
      <4>2. r.routes \subseteq r.token.allowed
        BY <3>1, RequestsAssumption DEF Inserts, At
      <4> QED
        BY <3>1, <4>1, <4>2 DEF Inserts, Put
    <3>2. CASE Rejoins(r)
      <4>1. r.routes \subseteq r.token.allowed
        BY <3>2, RequestsAssumption DEF Rejoins, At
      <4> QED
        BY <3>0, <3>2, <4>1 DEF Rejoins, Shape, NodeFields
    <3>3. CASE Applies(r)
      <4>1. CASE r.routes = NoRoutes
        BY <3>3, <4>1 DEF Applies, WriteHeartbeat, UpdatesRoutes
      <4>2. CASE r.routes # NoRoutes
        <5>1. r.routes \subseteq call[r].seen.token_policy /\ Genuine(call[r].seen)
          BY <3>0, <3>3, <4>2 DEF Applies, At, Held, HeldByHeartbeat
        <5>2. /\ r.node \in DOMAIN nodes /\ Genuine(nodes[r.node])
              /\ nodes[r.node].registered_at = call[r].seen.registered_at
          BY <3>0, <3>3 DEF Applies, SameGeneration, Origin
        <5>3. nodes[r.node].token_policy = call[r].seen.token_policy
          BY <5>1, <5>2, RequestsAssumption DEF Genuine
        <5> QED
          BY <3>0, <3>3, <5>1, <5>2, <5>3 DEF Applies, WriteHeartbeat, Shape, NodeFields
      <4> QED
        BY <4>1, <4>2
    <3>4. CASE Removes(r)
      BY <3>4 DEF Removes, Without
    <3>5. CASE Rotates(r)
      BY <3>0, <3>5 DEF Rotates, Shape, NodeFields
    <3>6. CASE UnchangedNodes
      BY <3>6 DEF UnchangedNodes
    <3> QED
      BY <2>1, <3>1, <3>2, <3>3, <3>4, <3>5, <3>6, StoreCases DEF SetsPolicy
  <2>2. CASE UnchangedStore
    BY <2>2 DEF UnchangedStore, UnchangedNodes
  <2> QED
    BY <2>1, <2>2, NextCases
<1>3. GrantInv => RoutesAuthorised
  BY DEF GrantInv
<1> QED
  BY <1>1, <1>2, <1>3, HeldAlways, PTL DEF Spec

---------------------------------------------------------------------------
(* The order of heartbeats.                                                *)

SignatureInv == \A n \in DOMAIN signatures : signatures[n] \in Int

LEMMA SignatureInductive == Spec => []SignatureInv
<1>1. Init => SignatureInv
  BY DEF Init, SignatureInv
<1>2. SignatureInv /\ [Next]_vars => SignatureInv'
  <2> SUFFICES ASSUME SignatureInv, [Next]_vars PROVE SignatureInv'
    OBVIOUS
  <2> USE DEF SignatureInv
  <2>1. ASSUME NEW r \in Requests, Step(r) PROVE SignatureInv'
    <3>1. CASE Applies(r)
      <4>1. r.signed_at \in Int
        BY <3>1, RequestsAssumption DEF Applies, At
      <4> QED
        BY <3>1, <4>1 DEF Applies, WriteHeartbeat, Put
    <3>2. CASE Removes(r)
      BY <3>2 DEF Removes, Without
    <3>3. CASE UNCHANGED signatures
      BY <3>3
    <3> QED
      BY <2>1, <3>1, <3>2, <3>3, StoreCases
         DEF Inserts, Rejoins, Rotates, SetsPolicy, UnchangedNodes
  <2>2. CASE UnchangedStore
    BY <2>2 DEF UnchangedStore, UnchangedNodes
  <2> QED
    BY <2>1, <2>2, NextCases
<1> QED
  BY <1>1, <1>2, PTL DEF Spec

(* A heartbeat succeeds only by being applied.                             *)
LEMMA HeartbeatSucceeds ==
    ASSUME Shape, NEW r \in Requests, Step(r), NEW q \in Requests,
           At(q, "heartbeat", "apply"), call'[q].at = "ok"
    PROVE  q = r /\ Applies(r)
<1>1. q = r
  BY StepCall DEF Shape, At
<1>2. ApplyHeartbeat(r)
  BY <1>1 DEF Step, At, IssueToken, RevokeToken, AdmitToken, JoinPolicy, ValidateCatalog,
     SparseAddress, ListLeases, Allocate, InsertNode, ReadExisting, RejoinNode, HeartbeatNode,
     HeartbeatPolicy, ReadNode, RemoveNode, ResetAllocator, RotateKey, CheckPolicy, WritePolicy,
     QueryEpoch, QueryPolicy, QueryEpochAgain, FindSnapshot, CheckSnapshot
<1>3. ~End(r, "refused")
  BY <1>1, FreshShape DEF End, Go, Shape
<1> QED
  BY <1>1, <1>2, <1>3 DEF ApplyHeartbeat, Applies

(* Heartbeats that overtake one another are applied in the order they were *)
(* signed, as long as the node stays registered.                           *)
THEOREM HeartbeatsApplyInOrder == Spec => SignaturesAdvance
<1> DEFINE A == \A n \in DOMAIN signatures \cap DOMAIN nodes' :
          /\ n \in DOMAIN signatures'
          /\ signatures'[n] >= signatures[n]
          /\ \A r \in Requests : (At(r, "heartbeat", "apply") /\ r.node = n
                                  /\ call'[r].at = "ok") => signatures'[n] > signatures[n]
<1>1. HeldInv /\ SignatureInv /\ [Next]_vars => [A]_vars
  <2> SUFFICES ASSUME HeldInv, SignatureInv, [Next]_vars,
                      NEW n \in DOMAIN signatures \cap DOMAIN nodes'
               PROVE  /\ n \in DOMAIN signatures'
                      /\ signatures'[n] >= signatures[n]
                      /\ \A r \in Requests : (At(r, "heartbeat", "apply") /\ r.node = n
                                  /\ call'[r].at = "ok") => signatures'[n] > signatures[n]
    BY Zenon
  <2>0. Shape /\ signatures[n] \in Int
    BY DEF HeldInv, SignatureInv
  <2>1. ASSUME NEW r \in Requests, Step(r)
        PROVE  /\ n \in DOMAIN signatures'
               /\ signatures'[n] >= signatures[n]
               /\ \A q \in Requests : (At(q, "heartbeat", "apply") /\ q.node = n
                                  /\ call'[q].at = "ok") => signatures'[n] > signatures[n]
    <3>1. ASSUME Applies(r)
          PROVE  /\ n \in DOMAIN signatures'
                 /\ signatures'[n] >= signatures[n]
                 /\ r.node = n => signatures'[n] > signatures[n]
      <4>1. r.signed_at \in Int
        BY <3>1, RequestsAssumption DEF Applies, At
      <4>2. signatures' = Put(signatures, r.node, r.signed_at)
        BY <3>1 DEF Applies, WriteHeartbeat
      <4> QED
        BY <2>0, <3>1, <4>1, <4>2 DEF Applies, Newer, Put
    <3>2. CASE Removes(r)
      <4>1. n # r.node /\ n \in DOMAIN signatures' /\ signatures'[n] = signatures[n]
        BY <3>2 DEF Removes, Without
      <4>2. CASE Applies(r)
        BY <2>0, <2>1, <3>1, <4>2, HeartbeatSucceeds
      <4>3. CASE ~Applies(r)
        BY <2>0, <2>1, <4>1, <4>3, HeartbeatSucceeds
      <4> QED
        BY <4>2, <4>3
    <3>3. CASE UNCHANGED signatures /\ ~Applies(r)
      BY <2>0, <2>1, <3>3, HeartbeatSucceeds
    <3>4. CASE Applies(r)
      BY <2>0, <2>1, <3>1, <3>4, HeartbeatSucceeds
    <3> QED
      BY <2>1, <3>2, <3>3, <3>4, StoreCases
         DEF Inserts, Rejoins, Rotates, SetsPolicy, UnchangedNodes
  <2>2. CASE UnchangedStore /\ UNCHANGED call
    BY <2>0, <2>2 DEF UnchangedStore, UnchangedNodes, At
  <2> QED
    BY <2>1, <2>2, NextCases
<1> QED
  BY <1>1, HeldAlways, SignatureInductive, PTL DEF Spec, SignaturesAdvance

---------------------------------------------------------------------------
(* Tokens.                                                                 *)

TokenShape == \A t \in DOMAIN tokens : DOMAIN tokens[t] = {"uses", "revoked"}

(* What a step may do to a token's record and to the tombstones.           *)
LEMMA TokenCases ==
    ASSUME NEW r \in Requests, Step(r)
    PROVE  IssueToken(r) \/ RevokeToken(r) \/ AdmitToken(r) \/ UnchangedTokens
  BY DEF Step, UnchangedStore, JoinPolicy, ValidateCatalog,
     SparseAddress, ListLeases, Allocate, InsertNode, ReadExisting, RejoinNode, HeartbeatNode,
     HeartbeatPolicy, ReadNode, RemoveNode, ResetAllocator, RotateKey, CheckPolicy, WritePolicy,
     QueryEpoch, QueryPolicy, QueryEpochAgain, FindSnapshot, CheckSnapshot, ApplyHeartbeat,
     WriteHeartbeat

LEMMA StoredTokenFacts ==
    ASSUME TokenShape, NEW t
    PROVE  /\ DOMAIN StoredToken(t) = {"uses", "revoked"}
           /\ StoredToken(t).uses = IF t \in DOMAIN tokens THEN tokens[t].uses ELSE 0
           /\ t \in tombstones => StoredToken(t).revoked
<1> DEFINE stored == IF t \in DOMAIN tokens THEN tokens[t] ELSE NewToken(t)
<1>1. /\ DOMAIN stored = {"uses", "revoked"}
      /\ stored.uses = IF t \in DOMAIN tokens THEN tokens[t].uses ELSE 0
  BY DEF TokenShape, NewToken
<1>2. StoredToken(t) = [stored EXCEPT !.revoked = stored.revoked \/ t \in tombstones]
  BY DEF StoredToken
<1> HIDE DEF stored
<1> QED
  BY <1>1, <1>2

LEMMA TokenShapeInductive == Spec => []TokenShape
<1>1. Init => TokenShape
  BY DEF Init, TokenShape
<1>2. TokenShape /\ [Next]_vars => TokenShape'
  <2> SUFFICES ASSUME TokenShape, [Next]_vars PROVE TokenShape'
    OBVIOUS
  <2>1. ASSUME NEW r \in Requests, Step(r) PROVE TokenShape'
    <3>1. CASE IssueToken(r)
      BY <3>1, StoredTokenFacts DEF IssueToken, TokenShape, Put
    <3>2. CASE RevokeToken(r)
      BY <3>2 DEF RevokeToken, TokenShape
    <3>3. CASE AdmitToken(r)
      <4>1. PICK v : /\ DOMAIN v = {"uses", "revoked"}
                     /\ tokens' = Put(tokens, r.token.nonce, v)
        BY <3>3, StoredTokenFacts DEF AdmitToken
      <4> QED
        BY <4>1 DEF TokenShape, Put
    <3>4. CASE UnchangedTokens
      BY <3>4 DEF UnchangedTokens, TokenShape
    <3> QED
      BY <2>1, <3>1, <3>2, <3>3, <3>4, TokenCases
  <2>2. CASE UnchangedStore
    BY <2>2 DEF UnchangedStore, UnchangedTokens, TokenShape
  <2> QED
    BY <2>1, <2>2, NextCases
<1> QED
  BY <1>1, <1>2, PTL DEF Spec

(* After a token's tombstone, which may come before the token is first     *)
(* seen, no join spends a use of it.                                       *)
THEOREM RevocationsAreFinal == Spec => RevocationFinal
<1> DEFINE A == \A t \in tombstones : t \in DOMAIN tokens' =>
          tokens'[t].uses = IF t \in DOMAIN tokens THEN tokens[t].uses ELSE 0
<1>1. TokenShape /\ [Next]_vars => [A]_vars
  <2> SUFFICES ASSUME TokenShape, [Next]_vars, NEW t \in tombstones, t \in DOMAIN tokens'
               PROVE  tokens'[t].uses = IF t \in DOMAIN tokens THEN tokens[t].uses ELSE 0
    BY Zenon
  <2>1. ASSUME NEW r \in Requests, Step(r)
        PROVE  tokens'[t].uses = IF t \in DOMAIN tokens THEN tokens[t].uses ELSE 0
    <3>1. CASE IssueToken(r)
      BY <3>1, StoredTokenFacts DEF IssueToken, Put
    <3>2. CASE RevokeToken(r)
      BY <3>2 DEF RevokeToken, TokenShape
    <3>3. CASE AdmitToken(r)
      <4>1. PICK v : /\ tokens' = Put(tokens, r.token.nonce, v)
                     /\ StoredToken(r.token.nonce).revoked => v = StoredToken(r.token.nonce)
        BY <3>3 DEF AdmitToken
      <4> QED
        BY <4>1, StoredTokenFacts DEF Put
    <3>4. CASE UnchangedTokens
      BY <3>4 DEF UnchangedTokens
    <3> QED
      BY <2>1, <3>1, <3>2, <3>3, <3>4, TokenCases
  <2>2. CASE UnchangedStore
    BY <2>2 DEF UnchangedStore, UnchangedTokens
  <2> QED
    BY <2>1, <2>2, NextCases
<1> QED
  BY <1>1, TokenShapeInductive, PTL DEF Spec, RevocationFinal

---------------------------------------------------------------------------
(* Answers.                                                                *)

(* A change of the policy or of the catalog advances the routing epoch.    *)
LEMMA EpochAdvances ==
    ASSUME Shape, routing_epoch \in Int, [Next]_vars
    PROVE  /\ routing_epoch' \in Int /\ routing_epoch' >= routing_epoch
           /\ routing_epoch' = routing_epoch => policy' = policy /\ Catalog' = Catalog
<1> USE DEF AdvanceIf
<1>1. ASSUME NEW r \in Requests, Step(r)
      PROVE  /\ routing_epoch' \in Int /\ routing_epoch' >= routing_epoch
             /\ routing_epoch' = routing_epoch => policy' = policy /\ Catalog' = Catalog
  <2>1. CASE Inserts(r)
    BY <2>1 DEF Inserts
  <2>2. CASE Rejoins(r)
    <3>1. CASE nodes[r.node].routes # r.routes
      BY <2>2, <3>1 DEF Rejoins
    <3>2. CASE nodes[r.node].routes = r.routes
      <4>1. /\ DOMAIN nodes' = DOMAIN nodes
            /\ \A n \in DOMAIN nodes : /\ nodes'[n].vpn_ip = nodes[n].vpn_ip
                                       /\ nodes'[n].key = nodes[n].key
                                       /\ nodes'[n].routes = nodes[n].routes
        BY <2>2, <3>2 DEF Rejoins, Shape, NodeFields
      <4> QED
        BY <2>2, <3>2, <4>1 DEF Rejoins, Catalog
    <3> QED
      BY <3>1, <3>2
  <2>3. CASE Applies(r)
    <3>1. CASE nodes' = nodes
      BY <2>3, <3>1 DEF Applies, WriteHeartbeat, Catalog
    <3>2. CASE nodes' # nodes
      BY <2>3, <3>2 DEF Applies, WriteHeartbeat
    <3> QED
      BY <3>1, <3>2
  <2>4. CASE Removes(r)
    BY <2>4 DEF Removes
  <2>5. CASE Rotates(r)
    <3>1. CASE r.next # r.previous
      BY <2>5, <3>1 DEF Rotates
    <3>2. CASE r.next = r.previous
      <4>1. /\ DOMAIN nodes' = DOMAIN nodes
            /\ \A n \in DOMAIN nodes : /\ nodes'[n].vpn_ip = nodes[n].vpn_ip
                                       /\ nodes'[n].key = nodes[n].key
                                       /\ nodes'[n].routes = nodes[n].routes
        BY <2>5, <3>2 DEF Rotates, Shape, NodeFields
      <4> QED
        BY <2>5, <3>2, <4>1 DEF Rotates, Catalog
    <3> QED
      BY <3>1, <3>2
  <2>6. CASE SetsPolicy(r)
    BY <2>6 DEF SetsPolicy, UnchangedNodes, Catalog
  <2>7. CASE UnchangedNodes /\ ReadPolicy
    BY <2>7 DEF UnchangedNodes, ReadPolicy, CurrentPolicy, Catalog
  <2>8. CASE UnchangedNodes /\ UnchangedPolicy
    BY <2>8 DEF UnchangedNodes, UnchangedPolicy, Catalog
  <2> QED
    BY <1>1, <2>1, <2>2, <2>3, <2>4, <2>5, <2>6, <2>7, <2>8, StoreCases
<1>2. CASE UnchangedStore
  BY <1>2 DEF UnchangedStore, UnchangedNodes, UnchangedPolicy, Catalog
<1> QED
  BY <1>1, <1>2, NextCases

(* What was read at an epoch that is still the present one (now) is still  *)
(* the present policy p or catalog C.                                      *)
Current(epoch, catalog, now, C) ==
    epoch \in Int /\ epoch <= now /\ (epoch = now => catalog = {C})

AfterEpoch  == {"policy", "same", "snapshot", "found", "loaded"}
AfterPolicy == {"same", "snapshot", "found", "loaded"}

Read(c, now, p, C) ==
    /\ c.at \in AfterEpoch => c.epoch \in Int /\ c.epoch <= now
    /\ c.at \in AfterPolicy /\ c.epoch = now => c.policy = p
    /\ c.at \in {"found", "loaded"} => Current(c.epoch, c.catalog, now, C)

QueryInv ==
    /\ routing_epoch \in Int
    /\ \A r \in Requests : r.kind = "query" => Read(call[r], routing_epoch, policy, Catalog)
    /\ DOMAIN snapshot = Planes
    /\ \A p \in Planes : snapshot[p] # NoSnapshot
          => Current(snapshot[p].epoch, snapshot[p].catalog, routing_epoch, Catalog)

(* While other handlers run, the epoch only leaves what was read behind.   *)
LEMMA ReadKept ==
    ASSUME Shape, routing_epoch \in Int, [Next]_vars
    PROVE  /\ routing_epoch' \in Int
           /\ \A e, k : Current(e, k, routing_epoch, Catalog)
                           => Current(e, k, routing_epoch', Catalog')
           /\ \A c : Read(c, routing_epoch, policy, Catalog)
                           => Read(c, routing_epoch', policy', Catalog')
<1>1. /\ routing_epoch' \in Int /\ routing_epoch' >= routing_epoch
      /\ routing_epoch' = routing_epoch => policy' = policy /\ Catalog' = Catalog
  BY EpochAdvances
<1>2. ASSUME NEW e, NEW k, Current(e, k, routing_epoch, Catalog)
      PROVE  Current(e, k, routing_epoch', Catalog')
  BY <1>1, <1>2 DEF Current
<1>3. ASSUME NEW c, Read(c, routing_epoch, policy, Catalog)
      PROVE  Read(c, routing_epoch', policy', Catalog')
  BY <1>1, <1>2, <1>3 DEF Read, AfterEpoch, AfterPolicy
<1> QED
  BY <1>1, <1>2, <1>3

(* A query's own steps.                                                    *)
LEMMA QueryReads ==
    ASSUME HeldInv, QueryInv, NEW r \in Requests, r.kind = "query", Step(r)
    PROVE  Read(call'[r], routing_epoch', policy', Catalog')
<1> DEFINE c == call[r]
           d == call'[r]
<1>a. /\ Shape /\ DOMAIN c = CallFields /\ c.at # "catalog"
      /\ Read(c, routing_epoch, policy, Catalog) /\ routing_epoch \in Int
  BY DEF HeldInv, QueryInv, Shape, Held
<1>b. ASSUME d.at \notin AfterEpoch PROVE Read(d, routing_epoch', policy', Catalog')
  BY <1>b DEF Read, AfterEpoch, AfterPolicy
<1> USE <1>a DEF Shape, Go, End, At
<1>1. CASE QueryEpoch(r)
  <2>1. d.at = "policy" /\ d.epoch = routing_epoch /\ UNCHANGED routing_epoch
    BY <1>1 DEF QueryEpoch, UnchangedStore, UnchangedPolicy, CallFields
  <2> QED
    BY <2>1 DEF Read, AfterEpoch, AfterPolicy
<1>2. CASE QueryPolicy(r)
  <2>1. d.at = "same" /\ d.epoch = c.epoch /\ d.policy = policy'
    BY <1>2 DEF QueryPolicy, ReadPolicy, CallFields
  <2>2. c.epoch \in Int /\ c.epoch <= routing_epoch
    BY <1>2 DEF QueryPolicy, Read, AfterEpoch
  <2>3. routing_epoch' >= routing_epoch /\ routing_epoch' \in Int
    BY <1>2 DEF QueryPolicy, ReadPolicy, AdvanceIf
  <2> QED
    BY <2>1, <2>2, <2>3 DEF Read, AfterEpoch, AfterPolicy
<1>3. CASE QueryEpochAgain(r)
  <2>1. UNCHANGED <<routing_epoch, policy>>
    BY <1>3 DEF QueryEpochAgain, UnchangedStore, UnchangedPolicy
  <2>2. CASE Go(r, [c EXCEPT !.at = "snapshot"])
    <3>1. d.at = "snapshot" /\ d.epoch = c.epoch /\ d.policy = c.policy
      BY <2>2 DEF CallFields
    <3> QED
      BY <1>3, <2>1, <3>1 DEF QueryEpochAgain, Read, AfterEpoch, AfterPolicy
  <2>3. CASE \/ Go(r, [Fresh EXCEPT !.tries = c.tries + 1, !.attempts = c.attempts])
             \/ Go(r, Ended("conflict"))
    <3>1. d.at \in {"start", "conflict"}
      BY <2>3, FreshShape DEF Fresh
    <3> QED
      BY <1>b, <3>1 DEF AfterEpoch
  <2> QED
    BY <1>3, <2>2, <2>3 DEF QueryEpochAgain
<1>4. CASE FindSnapshot(r)
  <2>1. UNCHANGED <<routing_epoch, policy, nodes>>
    BY <1>4 DEF FindSnapshot, UnchangedStore, UnchangedPolicy, UnchangedNodes
  <2> DEFINE cached == snapshot[r.plane]
             hit == cached # NoSnapshot /\ cached.epoch = c.epoch
  <2>2. /\ d.at \in {"found", "loaded"} /\ d.epoch = c.epoch /\ d.policy = c.policy
        /\ d.catalog = IF hit THEN cached.catalog ELSE {Catalog}
    BY <1>4 DEF FindSnapshot, CallFields
  <2>3. r.plane \in Planes
    BY RequestsAssumption
  <2>4. /\ c.epoch \in Int /\ c.epoch <= routing_epoch
        /\ c.epoch = routing_epoch => c.policy = policy
    BY <1>4 DEF FindSnapshot, Read, AfterEpoch, AfterPolicy
  <2>5. Current(d.epoch, d.catalog, routing_epoch, Catalog)
    BY <2>2, <2>3, <2>4 DEF Current, QueryInv
  <2>6. Catalog' = Catalog
    BY <2>1 DEF Catalog
  <2> QED
    BY <2>1, <2>2, <2>4, <2>5, <2>6 DEF Read, AfterEpoch, AfterPolicy
<1>5. CASE CheckSnapshot(r)
  <2>1. d.at \in {"start", "conflict", "ok"}
    BY <1>5, FreshShape DEF CheckSnapshot, NewRound, Fresh
  <2> QED
    BY <1>b, <2>1 DEF AfterEpoch
<1> QED
  BY <1>1, <1>2, <1>3, <1>4, <1>5 DEF Step, IssueToken, RevokeToken, AdmitToken, JoinPolicy,
     ValidateCatalog, SparseAddress, ListLeases, Allocate, InsertNode, ReadExisting, RejoinNode,
     HeartbeatNode, HeartbeatPolicy, ApplyHeartbeat, ReadNode, RemoveNode, ResetAllocator,
     RotateKey, CheckPolicy, WritePolicy

(* Only a query's last check remembers a snapshot.                         *)
LEMMA SnapshotCases ==
    ASSUME NEW r \in Requests, Step(r)
    PROVE  CheckSnapshot(r) \/ UNCHANGED snapshot
  BY DEF Step, UnchangedPlane, IssueToken, RevokeToken, AdmitToken, JoinPolicy,
     ValidateCatalog, SparseAddress, ListLeases, Allocate, InsertNode, ReadExisting, RejoinNode,
     HeartbeatNode, HeartbeatPolicy, ApplyHeartbeat, ReadNode, RemoveNode, ResetAllocator,
     RotateKey, CheckPolicy, WritePolicy, QueryEpoch, QueryPolicy, QueryEpochAgain, FindSnapshot

LEMMA QueryStep == HeldInv /\ QueryInv /\ [Next]_vars => QueryInv'
<1> SUFFICES ASSUME HeldInv, QueryInv, [Next]_vars PROVE QueryInv'
  OBVIOUS
<1>0. /\ Shape /\ routing_epoch' \in Int
      /\ \A e, k : Current(e, k, routing_epoch, Catalog)
                     => Current(e, k, routing_epoch', Catalog')
      /\ \A c : Read(c, routing_epoch, policy, Catalog)
                     => Read(c, routing_epoch', policy', Catalog')
  BY ReadKept DEF HeldInv, QueryInv
<1>1. ASSUME NEW r \in Requests, Step(r) PROVE QueryInv'
  <2>1. \A q \in Requests : q.kind = "query"
           => Read(call'[q], routing_epoch', policy', Catalog')
    <3>1. PICK c : call' = [call EXCEPT ![r] = c]
      BY <1>0, <1>1, StepCall
    <3> QED
      BY <1>0, <1>1, <3>1, QueryReads DEF QueryInv, Shape
  <2>2. /\ DOMAIN snapshot' = Planes
        /\ \A p \in Planes : snapshot'[p] # NoSnapshot
              => Current(snapshot'[p].epoch, snapshot'[p].catalog, routing_epoch', Catalog')
    <3>1. CASE UNCHANGED snapshot
      BY <1>0, <3>1 DEF QueryInv
    <3>2. CASE CheckSnapshot(r) /\ snapshot' # snapshot
      <4>1. /\ snapshot' = [snapshot EXCEPT ![r.plane] = [epoch |-> call[r].epoch,
                                                          catalog |-> call[r].catalog]]
            /\ call[r].at \in {"found", "loaded"} /\ r.kind = "query"
        BY <3>2 DEF CheckSnapshot
      <4>2. Current(call[r].epoch, call[r].catalog, routing_epoch, Catalog)
        BY <4>1 DEF QueryInv, Read
      <4> QED
        BY <1>0, <4>1, <4>2 DEF QueryInv
    <3> QED
      BY <1>1, <3>1, <3>2, SnapshotCases
  <2> QED
    BY <1>0, <2>1, <2>2 DEF QueryInv
<1>2. ASSUME NEW p \in Planes, DropSnapshot(p) PROVE QueryInv'
  <2>1. UNCHANGED call /\ snapshot' = [snapshot EXCEPT ![p] = NoSnapshot]
    BY <1>2 DEF DropSnapshot
  <2> QED
    BY <1>0, <2>1 DEF QueryInv
<1>3. CASE UNCHANGED vars
  BY <1>0, <1>3 DEF vars, QueryInv
<1> QED
  BY <1>1, <1>2, <1>3 DEF Next

LEMMA QueryAlways == Spec => []QueryInv
<1>1. Init => QueryInv
  <2> SUFFICES ASSUME Init PROVE QueryInv
    OBVIOUS
  <2>1. \A r \in Requests : call[r] \in {Fresh, Ended("ok")}
    BY DEF Init
  <2>2. \A r \in Requests : call[r].at \in {"start", "ok"}
    BY <2>1, FreshShape DEF Fresh
  <2> QED
    BY <2>2 DEF Init, QueryInv, Read, AfterEpoch, AfterPolicy
<1> QED
  BY <1>1, QueryStep, HeldAlways, PTL DEF Spec

(* A neighbour map's policy and nodes, read at different times or by an    *)
(* earlier query, are those of one moment, that of the answer.             *)
THEOREM AnswersAreConsistent == Spec => AnswersConsistent
<1> DEFINE A == \A r \in Requests :
          (r.kind = "query" /\ call[r].at \in {"found", "loaded"} /\ call'[r].at = "ok")
          => call[r].policy = policy /\ call[r].catalog = {Catalog}
<1>1. HeldInv /\ QueryInv /\ [Next]_vars => [A]_vars
  <2> SUFFICES ASSUME HeldInv, QueryInv, [Next]_vars,
                      NEW q \in Requests, q.kind = "query",
                      call[q].at \in {"found", "loaded"}, call'[q].at = "ok"
               PROVE  call[q].policy = policy /\ call[q].catalog = {Catalog}
    BY Zenon
  <2>1. ASSUME NEW r \in Requests, Step(r)
        PROVE  call[q].policy = policy /\ call[q].catalog = {Catalog}
    <3>1. q = r
      BY <2>1, StepCall DEF HeldInv, Shape
    <3>2. CheckSnapshot(r)
      BY <2>1, <3>1 DEF Step, At, IssueToken, RevokeToken, AdmitToken, JoinPolicy,
         ValidateCatalog, SparseAddress, ListLeases, Allocate, InsertNode, ReadExisting,
         RejoinNode, HeartbeatNode, HeartbeatPolicy, ApplyHeartbeat, ReadNode, RemoveNode,
         ResetAllocator, RotateKey, CheckPolicy, WritePolicy, QueryEpoch, QueryPolicy,
         QueryEpochAgain, FindSnapshot
    <3>3. call[r].epoch = routing_epoch
      <4>1. ~Go(r, NewRound(r))
        BY <3>1, FreshShape DEF Go, NewRound, HeldInv, Shape, Fresh
      <4> QED
        BY <3>2, <4>1 DEF CheckSnapshot
    <3> QED
      BY <3>1, <3>3 DEF QueryInv, Read, Current, AfterPolicy
  <2>2. CASE UNCHANGED call
    BY <2>2
  <2> QED
    BY <2>1, <2>2, NextCases
<1> QED
  BY <1>1, HeldAlways, QueryAlways, PTL DEF Spec, AnswersConsistent

============================================================================
