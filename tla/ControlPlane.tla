--------------------------- MODULE ControlPlane ---------------------------
(***************************************************************************)
(* Control planes that share one store: joins, heartbeats, node removal,   *)
(* WireGuard key rotation, cluster policy and join tokens                  *)
(* (crates/ipars-control-plane/src/lib.rs, crates/ipars-store/src/lib.rs). *)
(*                                                                         *)
(* A request is handled by a task that awaits the store between its reads  *)
(* and its final write.  Every store operation is one action: the          *)
(* in-memory store holds its locks, SQLite one writer transaction and      *)
(* PostgreSQL the cluster's advisory lock across it.  Between two actions  *)
(* of a task any other task, of this or of another plane, may run.         *)
(*                                                                         *)
(* Requests are the ones that pass the checks on the request alone (shape, *)
(* signatures, token expiry).  An overlay route is its CIDR, no two of     *)
(* which aggregate; the digest of the route catalog stands for the catalog *)
(* it digests; health, paths, candidates and NAT data are left out.        *)
(***************************************************************************)
EXTENDS Integers, FiniteSetsExt, TLC

CONSTANTS
    Requests,       \* requests, told apart by their field id
    Workloads,      \* the sets of requests that may arrive together
    Planes,         \* control-plane processes
    Hosts,          \* usable host addresses of vpn_pool: 1..Hosts
    UniqueIndex,    \* does the store index vpn_ip (SQL) or not (in memory)
    DefaultPolicy,  \* config.cluster_policy
    MaxScopes,      \* MAX_OVERLAY_ROUTE_SCOPES
    JoinTries,      \* MAX_ROUTE_CATALOG_UPDATE_RETRIES
    PolicyTries,    \* the three rounds of set_cluster_policy
    SparseAttempts, \* random addresses an HTTP-only node tries first
    NoPolicy, NoSnapshot, NoRoutes, NoNode

ASSUME ControlPlaneAssumption ==
    /\ {Hosts, MaxScopes, JoinTries, PolicyTries} \subseteq Nat \ {0}
    /\ SparseAttempts \in Nat
    /\ UniqueIndex \in BOOLEAN
    /\ \A w \in Workloads : w \subseteq Requests

(* The checks on a request alone: a join's routes are among those its      *)
(* token allows, times of signature are numbers; a query is some plane's.  *)
ASSUME RequestsAssumption ==
    /\ DefaultPolicy # NoPolicy
    /\ \A q, r \in Requests : q.id = r.id => q = r
    /\ \A r \in Requests :
          /\ r.kind = "join" => r.routes \subseteq r.token.allowed
          /\ r.kind = "heartbeat" => r.signed_at \in Int
          /\ r.kind = "policy" => r.policy # NoPolicy
          /\ r.kind = "query" => r.plane \in Planes

VARIABLES
    nodes,       \* node records by id
    signatures,  \* heartbeat_signature_timestamps by id
    policy,      \* the persisted cluster policy
    routing_epoch, \* counts the changes of policy and catalog
    tokens,      \* token ledger records by nonce
    tombstones,  \* nonces with a revocation record
    offset,      \* next_host_offset of each plane's allocator
    snapshot,    \* overlay_node_snapshot_cache of each plane
    call,        \* how far the handler of each request has come
    granted      \* routes the tokens presented for a record allowed (history)

vars == <<nodes, signatures, policy, routing_epoch, tokens, tombstones, offset, snapshot,
          call, granted>>

(* A handler's local variables.  The catalog is an option, a set of at     *)
(* most one.                                                               *)
Fresh == [at |-> "start", tries |-> 0, policy |-> NoPolicy, catalog |-> {},
          epoch |-> 0, seen |-> NoNode, reserved |-> {}, vpn_ip |-> 0, attempts |-> 0]
Ended(outcome) == [Fresh EXCEPT !.at = outcome]

Init ==
    /\ nodes = <<>> /\ signatures = <<>> /\ granted = <<>>
    /\ policy = NoPolicy /\ routing_epoch = 0
    /\ tokens = <<>> /\ tombstones = {}
    /\ offset = [p \in Planes |-> 1]
    /\ snapshot = [p \in Planes |-> NoSnapshot]
    /\ \E w \in Workloads :
          call = [r \in Requests |-> IF r \in w THEN Fresh ELSE Ended("ok")]

At(r, kind, stage) == r.kind = kind /\ call[r].at = stage
Go(r, state) == call' = [call EXCEPT ![r] = state]
End(r, outcome) == Go(r, Ended(outcome))

UnchangedPolicy == UNCHANGED <<policy, routing_epoch>>
UnchangedNodes == UNCHANGED <<nodes, signatures, granted>>
UnchangedTokens == UNCHANGED <<tokens, tombstones>>
UnchangedStore == UnchangedNodes /\ UnchangedPolicy /\ UnchangedTokens
UnchangedPlane == UNCHANGED <<offset, snapshot>>

(* advance_overlay_routing_epoch, part of every write of a different       *)
(* policy or catalog.                                                      *)
AdvanceIf(changed) == routing_epoch' = IF changed THEN routing_epoch + 1 ELSE routing_epoch

Put(f, k, v) == [x \in DOMAIN f \cup {k} |-> IF x = k THEN v ELSE f[x]]
Without(f, k) == [x \in DOMAIN f \ {k} |-> f[x]]

---------------------------------------------------------------------------
(* What handlers read.                                                     *)

(* get_cluster_policy, or initialize_cluster_policy_if_absent.             *)
CurrentPolicy == IF policy = NoPolicy THEN DefaultPolicy ELSE policy
ReadPolicy == policy' = CurrentPolicy /\ AdvanceIf(policy = NoPolicy)

(* validate_routes_within_overlay_scopes: no scopes, no limit.             *)
WithinScopes(routes, p) == p.scopes = {} \/ routes \subseteq p.scopes

(* What overlay_route_catalog_epoch digests.  It also digests the role and *)
(* tags of a node, which do not change while the node is registered.       *)
Catalog == [n \in DOMAIN nodes |->
               [vpn_ip |-> nodes[n].vpn_ip, key |-> nodes[n].key, routes |-> nodes[n].routes]]

Advertised(ns) == UNION {nodes[n].routes : n \in ns}

(* The capture scopes the cluster would need with these routes of n.       *)
AggregateCount(n, routes) == Cardinality(Advertised(DOMAIN nodes \ {n}) \cup routes)

Leased == {nodes[n].vpn_ip : n \in DOMAIN nodes}

(* Mutant: only the policy is compared again.                              *)
PolicyStillExpected(r) == policy = call[r].policy

(* The compare-and-set every conditional write starts with.                *)
StillExpected(r) ==
    /\ policy = call[r].policy
    /\ call[r].catalog \subseteq {Catalog}

---------------------------------------------------------------------------
(* Join tokens.                                                            *)

NewToken(t) == [uses |-> 0, revoked |-> FALSE]

(* Mutant: the tombstone is only looked for when it is written.            *)
TokenIgnoringTombstone(t) == IF t \in DOMAIN tokens THEN tokens[t] ELSE NewToken(t)

(* The record, made at its first sight, with what the tombstone says.      *)
StoredToken(t) ==
    LET stored == IF t \in DOMAIN tokens THEN tokens[t] ELSE NewToken(t)
    IN  [stored EXCEPT !.revoked = @ \/ t \in tombstones]

(* insert_token_if_absent.                                                 *)
IssueToken(r) ==
    /\ At(r, "issue", "start")
    /\ tokens' = Put(tokens, r.token.nonce, StoredToken(r.token.nonce))
    /\ End(r, "ok")
    /\ UnchangedNodes /\ UnchangedPolicy /\ UnchangedPlane /\ UNCHANGED tombstones

RevokeToken(r) ==
    LET t == r.token.nonce IN
    /\ At(r, "revoke", "start")
    /\ tombstones' = tombstones \cup {t}
    /\ tokens' = IF t \in DOMAIN tokens
                 THEN [tokens EXCEPT ![t].revoked = TRUE] ELSE tokens
    /\ End(r, "ok")
    /\ UnchangedNodes /\ UnchangedPolicy /\ UnchangedPlane

(* admit_token: a refused token leaves its record behind, an active one    *)
(* spends a use, whatever becomes of the registration.                     *)
AdmitToken(r) ==
    LET t      == r.token.nonce
        stored == StoredToken(t)
        active == ~stored.revoked /\ stored.uses < r.token.max_uses
    IN  /\ At(r, "join", "start")
        /\ tokens' = Put(tokens, t, IF active THEN [stored EXCEPT !.uses = @ + 1] ELSE stored)
        /\ Go(r, IF active THEN [Fresh EXCEPT !.at = "policy"] ELSE Ended("refused"))
        /\ UnchangedNodes /\ UnchangedPolicy /\ UnchangedPlane /\ UNCHANGED tombstones

---------------------------------------------------------------------------
(* Registration: register_participant_record_with_claims.                  *)

(* A conflict starts the next round, if one is left.                       *)
Retry(r) ==
    Go(r, IF call[r].tries + 1 < JoinTries
          THEN [Fresh EXCEPT !.at = "policy", !.tries = call[r].tries + 1]
          ELSE Ended("conflict"))

(* Reading the policy: what a route update must still be checked for.      *)
NextAfterPolicy(routes, ready) ==
    IF routes # {} /\ CurrentPolicy.scopes = {} THEN "catalog" ELSE ready

JoinPolicy(r) ==
    /\ At(r, "join", "policy")
    /\ ReadPolicy
    /\ Go(r, IF WithinScopes(r.routes, CurrentPolicy)
             THEN [call[r] EXCEPT !.at = NextAfterPolicy(r.routes, "address"),
                                  !.policy = CurrentPolicy]
             ELSE Ended("refused"))
    /\ UnchangedNodes /\ UnchangedTokens /\ UnchangedPlane

(* overlay_route_catalog_update_validation, for joins and heartbeats.      *)
ValidateCatalog(r) ==
    /\ call[r].at = "catalog"
    /\ Go(r, IF AggregateCount(r.node, r.routes) <= MaxScopes
             THEN [call[r] EXCEPT !.at = IF r.kind = "join" THEN "address" ELSE "apply",
                                  !.catalog = {Catalog}]
             ELSE Ended("refused"))
    /\ UnchangedStore /\ UnchangedPlane

(* An HTTP-only node first tries addresses at random.                      *)
SparseAddress(r) ==
    /\ At(r, "join", "address")
    /\ r.http /\ call[r].attempts < SparseAttempts
    /\ \E ip \in 1..Hosts :
          Go(r, [call[r] EXCEPT !.at = "insert", !.vpn_ip = ip, !.attempts = @ + 1])
    /\ UnchangedStore /\ UnchangedPlane

ListLeases(r) ==
    /\ At(r, "join", "address")
    /\ ~r.http \/ call[r].attempts >= SparseAttempts
    /\ Go(r, [call[r] EXCEPT !.at = "allocate", !.reserved = Leased])
    /\ UnchangedStore /\ UnchangedPlane

(* allocate_next: the scan never turns back.                               *)
Allocate(r) ==
    LET free == {ip \in offset[r.plane]..Hosts : ip \notin call[r].reserved}
    IN  /\ At(r, "join", "allocate")
        /\ IF free = {}
           THEN /\ offset' = [offset EXCEPT ![r.plane] = Max({@, Hosts + 1})]
                /\ End(r, "exhausted")
           ELSE /\ offset' = [offset EXCEPT ![r.plane] = Min(free) + 1]
                /\ Go(r, [call[r] EXCEPT !.at = "insert", !.reserved = {},
                                         !.vpn_ip = Min(free)])
        /\ UnchangedStore /\ UNCHANGED snapshot

Record(r) == [vpn_ip |-> call[r].vpn_ip, key |-> r.key, http |-> r.http, routes |-> r.routes,
              token_policy |-> r.token.allowed, registered_at |-> r.id]

(* Mutant: the index on vpn_ip is missing.                                 *)
AddressFreeUnchecked(ip) == TRUE

(* nodes_vpn_ip_unique.                                                    *)
AddressFree(ip) == UniqueIndex => ip \notin Leased

(* insert_node_if_cluster_policy.                                          *)
InsertNode(r) ==
    /\ At(r, "join", "insert")
    /\ IF ~StillExpected(r) THEN Retry(r) /\ UnchangedStore
       ELSE IF r.node \in DOMAIN nodes
       THEN Go(r, [call[r] EXCEPT !.at = "existing", !.vpn_ip = 0]) /\ UnchangedStore
       ELSE IF ~AddressFree(call[r].vpn_ip)
       THEN Go(r, [call[r] EXCEPT !.at = "address", !.vpn_ip = 0]) /\ UnchangedStore
       ELSE /\ nodes' = Put(nodes, r.node, Record(r))
            /\ granted' = Put(granted, r.node, r.token.allowed)
            /\ AdvanceIf(TRUE)
            /\ End(r, "ok")
            /\ UnchangedTokens /\ UNCHANGED <<signatures, policy>>
    /\ UnchangedPlane

(* rejoin_existing_node.                                                   *)
ReadExisting(r) ==
    /\ At(r, "join", "existing")
    /\ IF /\ r.node \in DOMAIN nodes
          /\ nodes[r.node].key = r.key /\ nodes[r.node].http = r.http
       THEN Go(r, [call[r] EXCEPT !.at = "rejoin", !.seen = nodes[r.node]])
       ELSE End(r, "refused")
    /\ UnchangedStore /\ UnchangedPlane

(* rejoin_node_if_cluster_policy: address, registration time and token     *)
(* policy stay those of the first registration.                            *)
RejoinNode(r) ==
    /\ At(r, "join", "rejoin")
    /\ IF ~StillExpected(r) THEN Retry(r) /\ UnchangedStore
       ELSE IF r.node \notin DOMAIN nodes THEN End(r, "refused") /\ UnchangedStore
       ELSE IF nodes[r.node] # call[r].seen THEN Retry(r) /\ UnchangedStore
       ELSE /\ nodes' = [nodes EXCEPT ![r.node].routes = r.routes]
            /\ granted' = [granted EXCEPT ![r.node] = @ \cup r.token.allowed]
            /\ AdvanceIf(nodes[r.node].routes # r.routes)
            /\ End(r, "ok")
            /\ UnchangedTokens /\ UNCHANGED <<signatures, policy>>
    /\ UnchangedPlane

---------------------------------------------------------------------------
(* Heartbeats: heartbeat and apply_heartbeat, of nodes that sign them.     *)

Newer(r) == r.node \in DOMAIN signatures => r.signed_at > signatures[r.node]

(* Routes that are not given, or that the record read already had, are not *)
(* written.                                                                *)
UpdatesRoutes(r, seen) == r.routes # NoRoutes /\ r.routes # seen.routes

HeartbeatNode(r) ==
    /\ At(r, "heartbeat", "start")
    /\ IF r.node \in DOMAIN nodes
       THEN Go(r, [Fresh EXCEPT !.at = "policy", !.seen = nodes[r.node]])
       ELSE End(r, "refused")
    /\ UnchangedStore /\ UnchangedPlane

(* The signature read after the policy only refuses early what             *)
(* apply_heartbeat refuses again, so both reads are one action.            *)
HeartbeatPolicy(r) ==
    LET seen == call[r].seen
        valid == /\ Newer(r)
                 /\ r.routes # NoRoutes => /\ WithinScopes(r.routes, CurrentPolicy)
                                           /\ r.routes \subseteq seen.token_policy
    IN  /\ At(r, "heartbeat", "policy")
        /\ ReadPolicy
        /\ Go(r, IF valid
                 THEN [call[r] EXCEPT
                          !.policy = CurrentPolicy,
                          !.at = IF UpdatesRoutes(r, seen)
                                 THEN NextAfterPolicy(r.routes, "apply") ELSE "apply"]
                 ELSE Ended("refused"))
        /\ UnchangedNodes /\ UnchangedTokens /\ UnchangedPlane

(* Mutant: only the node id is compared.                                   *)
AnyGeneration(r) == r.node \in DOMAIN nodes

(* ensure_matches_node_generation.                                         *)
SameGeneration(r) ==
    /\ r.node \in DOMAIN nodes
    /\ nodes[r.node].registered_at = call[r].seen.registered_at

WriteHeartbeat(r) ==
    LET changed == UpdatesRoutes(r, call[r].seen) /\ r.routes # nodes[r.node].routes
    IN  /\ nodes' = IF changed THEN [nodes EXCEPT ![r.node].routes = r.routes] ELSE nodes
        /\ AdvanceIf(changed)
        /\ signatures' = Put(signatures, r.node, r.signed_at)
        /\ End(r, "ok")
        /\ UnchangedTokens /\ UNCHANGED <<policy, granted>>

(* Mutant: the order was checked when the heartbeat was validated.         *)
ApplyWithoutOrder(r) ==
    /\ At(r, "heartbeat", "apply")
    /\ IF StillExpected(r) /\ SameGeneration(r)
       THEN WriteHeartbeat(r) ELSE End(r, "refused") /\ UnchangedStore
    /\ UnchangedPlane

ApplyHeartbeat(r) ==
    /\ At(r, "heartbeat", "apply")
    /\ IF StillExpected(r) /\ SameGeneration(r) /\ Newer(r)
       THEN WriteHeartbeat(r) ELSE End(r, "refused") /\ UnchangedStore
    /\ UnchangedPlane

---------------------------------------------------------------------------
(* Removal, key rotation, policy.                                          *)

(* The signature is checked against the record read first.                 *)
ReadNode(r) ==
    /\ r.kind \in {"remove", "rotate"} /\ call[r].at = "start"
    /\ IF r.node \in DOMAIN nodes THEN Go(r, [Fresh EXCEPT !.at = "write"])
       ELSE End(r, "refused")
    /\ UnchangedStore /\ UnchangedPlane

RemoveNode(r) ==
    /\ At(r, "remove", "write")
    /\ IF r.node \in DOMAIN nodes
       THEN /\ nodes' = Without(nodes, r.node)
            /\ signatures' = Without(signatures, r.node)
            /\ granted' = Without(granted, r.node)
            /\ AdvanceIf(TRUE)
            /\ Go(r, [Fresh EXCEPT !.at = "reset"])
       ELSE End(r, "refused") /\ UnchangedNodes /\ AdvanceIf(FALSE)
    /\ UnchangedTokens /\ UnchangedPlane /\ UNCHANGED policy

(* Only the plane that handled the removal scans from the start again.     *)
ResetAllocator(r) ==
    /\ At(r, "remove", "reset")
    /\ offset' = [offset EXCEPT ![r.plane] = 1]
    /\ End(r, "ok")
    /\ UnchangedStore /\ UNCHANGED snapshot

(* Mutant: the new key does not count as a change of the catalog.          *)
RotateQuietly(r) ==
    /\ At(r, "rotate", "write")
    /\ IF r.node \in DOMAIN nodes /\ nodes[r.node].key = r.previous
       THEN nodes' = [nodes EXCEPT ![r.node].key = r.next] /\ End(r, "ok")
       ELSE End(r, "refused") /\ UNCHANGED nodes
    /\ UnchangedPolicy /\ UnchangedTokens /\ UnchangedPlane /\ UNCHANGED <<signatures, granted>>

RotateKey(r) ==
    /\ At(r, "rotate", "write")
    /\ IF r.node \in DOMAIN nodes /\ nodes[r.node].key = r.previous
       THEN /\ nodes' = [nodes EXCEPT ![r.node].key = r.next]
            /\ AdvanceIf(r.next # r.previous)
            /\ End(r, "ok")
       ELSE End(r, "refused") /\ AdvanceIf(FALSE) /\ UNCHANGED nodes
    /\ UnchangedTokens /\ UnchangedPlane /\ UNCHANGED <<signatures, policy, granted>>

(* set_cluster_policy, one round: the catalog is read and checked ...      *)
CheckPolicy(r) ==
    /\ At(r, "policy", "start")
    /\ IF WithinScopes(Advertised(DOMAIN nodes), r.policy)
       THEN Go(r, [call[r] EXCEPT !.at = "write", !.catalog = {Catalog}])
       ELSE End(r, "refused")
    /\ UnchangedStore /\ UnchangedPlane

(* Mutant: the policy is written whatever was advertised meanwhile.        *)
WritePolicyAnyway(r) ==
    /\ At(r, "policy", "write")
    /\ policy' = r.policy
    /\ AdvanceIf(r.policy # policy)
    /\ End(r, "ok")
    /\ UnchangedNodes /\ UnchangedTokens /\ UnchangedPlane

(* ... and the policy is written if it is still that catalog.              *)
WritePolicy(r) ==
    /\ At(r, "policy", "write")
    /\ IF call[r].catalog = {Catalog}
       THEN policy' = r.policy /\ AdvanceIf(r.policy # policy) /\ End(r, "ok")
       ELSE /\ Go(r, IF call[r].tries + 1 < PolicyTries
                     THEN [Fresh EXCEPT !.tries = call[r].tries + 1]
                     ELSE Ended("conflict"))
            /\ UnchangedPolicy
    /\ UnchangedNodes /\ UnchangedTokens /\ UnchangedPlane

---------------------------------------------------------------------------
(* Queries for a neighbour map: current_overlay_snapshot.  The plane       *)
(* answers from a policy, and from the nodes it loads or still holds.      *)

NewRound(r) ==
    IF call[r].attempts + 1 < JoinTries
    THEN [Fresh EXCEPT !.attempts = call[r].attempts + 1] ELSE Ended("conflict")

(* current_cluster_routing_state reads the epoch, the policy, the epoch.   *)
QueryEpoch(r) ==
    /\ At(r, "query", "start")
    /\ Go(r, [call[r] EXCEPT !.at = "policy", !.epoch = routing_epoch])
    /\ UnchangedStore /\ UnchangedPlane

QueryPolicy(r) ==
    /\ At(r, "query", "policy")
    /\ ReadPolicy
    /\ Go(r, [call[r] EXCEPT !.at = "same", !.policy = CurrentPolicy])
    /\ UnchangedNodes /\ UnchangedTokens /\ UnchangedPlane

QueryEpochAgain(r) ==
    /\ At(r, "query", "same")
    /\ Go(r, IF call[r].epoch = routing_epoch THEN [call[r] EXCEPT !.at = "snapshot"]
             ELSE IF call[r].tries + 1 < JoinTries
             THEN [Fresh EXCEPT !.tries = call[r].tries + 1, !.attempts = call[r].attempts]
             ELSE Ended("conflict"))
    /\ UnchangedStore /\ UnchangedPlane

(* The cache's lock is held from the load to the check after it.           *)
CacheUnlocked(p) == \A q \in Requests : ~(At(q, "query", "loaded") /\ q.plane = p)

(* overlay_node_snapshot: from the cache, or from the store.               *)
FindSnapshot(r) ==
    LET cached == snapshot[r.plane]
        hit    == cached # NoSnapshot /\ cached.epoch = call[r].epoch
    IN  /\ At(r, "query", "snapshot")
        /\ CacheUnlocked(r.plane)
        /\ Go(r, [call[r] EXCEPT !.at = IF hit THEN "found" ELSE "loaded",
                                 !.catalog = IF hit THEN cached.catalog ELSE {Catalog}])
        /\ UnchangedStore /\ UnchangedPlane

(* The epoch is read once more before the answer is given.                 *)
CheckSnapshot(r) ==
    /\ r.kind = "query" /\ call[r].at \in {"found", "loaded"}
    /\ IF call[r].epoch # routing_epoch THEN Go(r, NewRound(r)) /\ UNCHANGED snapshot
       ELSE /\ End(r, "ok")
            /\ snapshot' = IF call[r].at = "found" THEN snapshot
                           ELSE [snapshot EXCEPT ![r.plane] = [epoch |-> call[r].epoch,
                                                               catalog |-> call[r].catalog]]
    /\ UnchangedStore /\ UNCHANGED offset

(* A second has passed, or a handler of this plane that changed the        *)
(* catalog came to its invalidate_overlay_node_snapshot.                   *)
DropSnapshot(p) ==
    /\ CacheUnlocked(p)
    /\ snapshot[p] # NoSnapshot
    /\ snapshot' = [snapshot EXCEPT ![p] = NoSnapshot]
    /\ UnchangedStore /\ UNCHANGED <<offset, call>>

Step(r) ==
    \/ IssueToken(r) \/ RevokeToken(r) \/ AdmitToken(r)
    \/ JoinPolicy(r) \/ ValidateCatalog(r) \/ SparseAddress(r) \/ ListLeases(r)
    \/ Allocate(r) \/ InsertNode(r) \/ ReadExisting(r) \/ RejoinNode(r)
    \/ HeartbeatNode(r) \/ HeartbeatPolicy(r) \/ ApplyHeartbeat(r)
    \/ ReadNode(r) \/ RemoveNode(r) \/ ResetAllocator(r) \/ RotateKey(r)
    \/ CheckPolicy(r) \/ WritePolicy(r)
    \/ QueryEpoch(r) \/ QueryPolicy(r) \/ QueryEpochAgain(r) \/ FindSnapshot(r)
    \/ CheckSnapshot(r)

Next == (\E r \in Requests : Step(r)) \/ (\E p \in Planes : DropSnapshot(p))

Spec == Init /\ [][Next]_vars

---------------------------------------------------------------------------
(* Properties.                                                             *)

(* Whatever joins, removals and allocator resets run at once on planes     *)
(* that do not know of each other's allocations, no two registered nodes   *)
(* hold the same VPN address.                                              *)
LeasesDistinct ==
    \A m, n \in DOMAIN nodes : nodes[m].vpn_ip = nodes[n].vpn_ip => m = n

(* A policy change is checked against the routes of its moment and a route *)
(* update against the policy of its moment; whichever commits second, the  *)
(* published routes lie within the scopes of the policy in force.          *)
RoutesWithinScopes ==
    policy # NoPolicy => WithinScopes(Advertised(DOMAIN nodes), policy)

(* Advertisers that each saw room for their routes cannot together exceed  *)
(* the capture scopes a neighbour map can carry: a node's new routes never *)
(* take a cluster without scopes over the limit.                           *)
CatalogWithinLimit ==
    [][\A n \in DOMAIN nodes' :
          /\ n \in DOMAIN nodes => nodes'[n].routes # nodes[n].routes
          /\ nodes'[n].routes # {} /\ policy'.scopes = {}
          => Cardinality(UNION {nodes'[m].routes : m \in DOMAIN nodes'}) <= MaxScopes]_vars

(* Heartbeats that overtake one another, on one plane or on two, are       *)
(* applied in the order they were signed, as long as the node stays        *)
(* registered.                                                             *)
SignaturesAdvance ==
    [][\A n \in DOMAIN signatures \cap DOMAIN nodes' :
          /\ n \in DOMAIN signatures'
          /\ signatures'[n] >= signatures[n]
          /\ \A r \in Requests : (At(r, "heartbeat", "apply") /\ r.node = n
                                  /\ call'[r].at = "ok") => signatures'[n] > signatures[n]]_vars

(* A heartbeat that was checked against a registration which has since     *)
(* been removed and replaced publishes nothing in the new one's name: the  *)
(* routes of a node are ones that the tokens presented for its current     *)
(* registration allow.                                                     *)
RoutesAuthorised == \A n \in DOMAIN nodes : nodes[n].routes \subseteq granted[n]

(* A revocation is final even when it comes before the token's first use:  *)
(* after its tombstone no join spends a use of the token.                  *)
RevocationFinal ==
    [][\A t \in tombstones : t \in DOMAIN tokens' =>
          tokens'[t].uses = IF t \in DOMAIN tokens THEN tokens[t].uses ELSE 0]_vars

(* A neighbour map is computed from a policy and from nodes that were read *)
(* at different times, or by an earlier query: they are nevertheless the   *)
(* policy and the catalog of one moment, that of the answer.               *)
AnswersConsistent ==
    [][\A r \in Requests :
          (r.kind = "query" /\ call[r].at \in {"found", "loaded"} /\ call'[r].at = "ok")
          => call[r].policy = policy /\ call[r].catalog = {Catalog}]_vars

(* A join is refused for want of an address only when every address is     *)
(* leased, was when the join looked, or is on its way into the store: it   *)
(* "skips already assigned VPN IPs before allocating the next address".    *)
ExhaustedOnlyWhenFull ==
    [][\A r \in Requests : (At(r, "join", "allocate") /\ call'[r].at = "exhausted")
          => 1..Hosts \subseteq Leased \cup call[r].reserved
                                 \cup {call[q].vpn_ip : q \in Requests}]_vars

===========================================================================
