--------------------------- MODULE AgentOverlay ---------------------------
(***************************************************************************)
(* The overlay state of one agent (AgentRuntime and LazyConnectManager of  *)
(* crates/ipars-agent/src/lib.rs): the neighbour map in force, the earlier *)
(* ones in their grace, the paths resolved on demand with their leases on  *)
(* exact routes, the activity that keeps them, and the cached set of peers *)
(* that are reached through the overlay.                                   *)
(*                                                                         *)
(* Each is behind a lock of its own and every task of the agent (peer-map  *)
(* synchronisation, path resolution, packet-flow detection, signalling,    *)
(* quality probes) takes them one after the other, so a critical section   *)
(* is one action.  neighbor_map_update serialises map updates, resolved    *)
(* paths and route expiry, but not the other tasks.                        *)
(*                                                                         *)
(* A destination is a peer's VPN address, written as the peer, or an       *)
(* address in an advertised CIDR, written as the CIDR.  The queue of       *)
(* destinations that wait for a path is left out: an answer may come at    *)
(* any time for any destination.  Which peer a packet matches is left      *)
(* open too, and so are pins by role, tag or owned route and the loopback  *)
(* endpoints of the proxies.  Times of use are ages, counted up to the     *)
(* idle timeout.  The generation of the shortcut snapshot is compared for  *)
(* equality only: a bump makes every copy of it outdated, and it is odd    *)
(* while a map is being replaced.                                          *)
(***************************************************************************)
EXTENDS Integers, FiniteSetsExt, SequencesExt

CONSTANTS
    Peers,              \* remote nodes
    Pinnable,           \* those an operator or a probe pins
    Cidrs,              \* advertised routes
    RouteOwner,         \* the peer that advertises each
    Maps,               \* neighbour maps the control plane may hand out
    NoMap,
    MigrationGrace,     \* OVERLAY_TOPOLOGY_MIGRATION_GRACE, in ticks
    MaxTopologies,      \* MAX_RETAINED_OVERLAY_TOPOLOGIES
    IdleTimeout,        \* idle_timeout_seconds, in ticks
    MaxRoutes,          \* MAX_RESOLVED_OVERLAY_PATHS
    MaxNodeRoutes       \* MAX_OVERLAY_NODE_ROUTES

ASSUME AgentAssumption ==
    /\ RouteOwner \in [Cidrs -> Peers]
    /\ NoMap \notin Maps
    /\ \A m \in Maps : /\ m.neighbors \subseteq Peers /\ m.pinned_peers \subseteq Peers
                       /\ m.on_demand_peer_limit \in Nat
                       /\ m.generated_at \in Nat /\ m.routing_epoch \in Nat
    /\ {MigrationGrace, MaxTopologies, IdleTimeout} \subseteq Nat \ {0}
    /\ {MaxRoutes, MaxNodeRoutes} \subseteq Nat \ {0}

Destinations == Peers \cup Cidrs
TargetOf(d) == IF d \in Cidrs THEN RouteOwner[d] ELSE d

VARIABLES
    latest_map,     \* latest_neighbor_map
    retained_maps,  \* retained_neighbor_maps, oldest first
    paths,          \* resolved_overlay_paths.paths
    route_lru,      \* resolved_overlay_paths.exact_route_lru
    last_used,      \* lazy_connect: peers with activity
    pins,           \* lazy_connect: peers pinned by an operator or a probe
    topology_pins,  \* lazy_connect: peers pinned by the topology
    update,         \* the task that holds neighbor_map_update
    closing,        \* a call of take_idle_peers_to_close under way
    unannounced,    \* is there a change whose bump is still to come
    reader,         \* a call of overlay_shortcut_snapshot under way
    shortcuts       \* overlay_shortcut_snapshot, and is its generation current

mapVars   == <<latest_map, retained_maps>>
leaseVars == <<paths, route_lru, last_used>>
pinVars   == <<pins, topology_pins>>
taskVars  == <<update, closing>>
cacheVars == <<unannounced, reader, shortcuts>>
agentVars == <<mapVars, leaseVars, pinVars, taskVars, cacheVars>>

Free == [stage |-> "free"]
Finished == [stage |-> "finished"]      \* all but the bump is done

AgentInit ==
    /\ latest_map = NoMap /\ retained_maps = <<>>
    /\ paths = <<>> /\ route_lru = {} /\ last_used = <<>>
    /\ pins = {} /\ topology_pins = {}
    /\ update = Free /\ closing = Free
    /\ unannounced = FALSE /\ reader = Free
    /\ shortcuts = [current |-> FALSE, peers |-> {}]

---------------------------------------------------------------------------
(* The shortcut generation.                                                *)

(* Mutant: a reader does not compare the generation again.                 *)
BumpCache ==
    /\ shortcuts' = [shortcuts EXCEPT !.current = FALSE]
    /\ UNCHANGED reader

(* The cache is outdated, and so is what a reader has read: it compares    *)
(* the generation again before it keeps or returns anything, and starts    *)
(* over.                                                                   *)
Bump ==
    /\ shortcuts' = [shortcuts EXCEPT !.current = FALSE]
    /\ reader' = Free

(* OverlayShortcutGenerationUpdate lives from the acceptance of a map to   *)
(* its publication.                                                        *)
GenerationOdd == update.stage \notin {"free", "finished"}

(* invalidate_overlay_shortcut_snapshot, as the last step of the tasks     *)
(* that change something without neighbor_map_update; one bump covers all  *)
(* changes that came before it.                                            *)
Announce ==
    /\ unannounced
    /\ unannounced' = FALSE
    /\ Bump
    /\ UNCHANGED <<mapVars, leaseVars, pinVars, taskVars>>

(* The same at the end of a task that holds neighbor_map_update.           *)
ReleaseUpdate ==
    /\ update = Finished
    /\ update' = Free
    /\ closing' = IF closing.stage = "expiring" THEN [closing EXCEPT !.stage = "expired"]
                  ELSE closing
    /\ Bump
    /\ UNCHANGED <<mapVars, leaseVars, pinVars, unannounced>>

---------------------------------------------------------------------------
(* Leases, as operators on [paths, lru, used].                             *)

LeaseState == [paths |-> paths, lru |-> route_lru, used |-> last_used]

StoreLeases(s) ==
    /\ paths' = s.paths /\ route_lru' = s.lru /\ last_used' = s.used

Omit(f, ks) == Restrict(f, DOMAIN f \ ks)
Put(f, k, v) == [x \in DOMAIN f \cup {k} |-> IF x = k THEN v ELSE f[x]]

RemovePeers(s, ps) ==
    [s EXCEPT !.paths = Omit(@, ps), !.lru = {e \in @ : e.peer \notin ps}]

RemoveActivity(s, ps) == [s EXCEPT !.used = Omit(@, ps)]

Dismissed(s, ps) == RemoveActivity(RemovePeers(s, ps), ps)

(* ResolvedOverlayPathState::remove_exact_route: without a route and       *)
(* without a use of the VPN address the lease ends.                        *)
RemoveRoutes(s, entries) ==
    LET left(p) == Omit(s.paths[p].routes, {e.cidr : e \in {x \in entries : x.peer = p}})
        over    == {p \in {e.peer : e \in entries} : ~s.paths[p].vpn /\ left(p) = <<>>}
    IN  [s EXCEPT !.paths = [p \in DOMAIN @ \ over |-> [@[p] EXCEPT !.routes = left(p)]],
                  !.lru = @ \ entries]

(* Mutant: a route keeps the place it had in the order of use.             *)
UpsertTwice(s, p, d, epochs) ==
    LET old == IF p \in DOMAIN s.paths THEN s.paths[p] ELSE [vpn |-> FALSE, routes |-> <<>>]
    IN  IF d \in Cidrs
        THEN [s EXCEPT !.paths = Put(@, p, [epochs |-> epochs, vpn |-> old.vpn,
                                            routes |-> Put(old.routes, d, 0)]),
                       !.lru = @ \cup {[age |-> 0, peer |-> p, cidr |-> d]}]
        ELSE [s EXCEPT !.paths = Put(@, p, [epochs |-> epochs, vpn |-> TRUE,
                                            routes |-> old.routes])]

(* upsert_path: a new lease, or the old one merged with the answer.        *)
UpsertPath(s, p, d, epochs) ==
    LET old == IF p \in DOMAIN s.paths THEN s.paths[p] ELSE [vpn |-> FALSE, routes |-> <<>>]
    IN  IF d \in Cidrs
        THEN [s EXCEPT !.paths = Put(@, p, [epochs |-> epochs, vpn |-> old.vpn,
                                            routes |-> Put(old.routes, d, 0)]),
                       !.lru = {e \in @ : e.peer # p \/ e.cidr # d}
                               \cup {[age |-> 0, peer |-> p, cidr |-> d]}]
        ELSE [s EXCEPT !.paths = Put(@, p, [epochs |-> epochs, vpn |-> TRUE,
                                            routes |-> old.routes])]

LeastRecent(entries) == {e \in entries : \A o \in entries : o.age <= e.age}

DurablyPinned(p) == p \in pins \cup topology_pins

(* The order in which trim_on_demand_overlay_paths sorts its candidates;   *)
(* every lease has activity, so that resolved_at is never consulted.       *)
EvictedBefore(s, p, q) ==
    \/ ~DurablyPinned(p) /\ DurablyPinned(q)
    \/ (DurablyPinned(p) <=> DurablyPinned(q)) /\ s.used[p] >= s.used[q]

(* The sets of peers the trim may evict to respect the limit.              *)
Trims(s, backbone, limit, protected) ==
    LET onDemand   == DOMAIN s.paths \ backbone
        candidates == onDemand \ protected
        excess     == Max({Cardinality(onDemand) - limit, 0})
    IN  {ps \in kSubset(Min({excess, Cardinality(candidates)}), candidates) :
            \A p \in ps, q \in candidates \ ps : EvictedBefore(s, p, q)}

---------------------------------------------------------------------------
(* record_neighbor_map_snapshot.                                           *)

EpochsOf(m) == [topology |-> m.topology_epoch, routing |-> m.routing_epoch]
Changed(m, epoch) == latest_map # NoMap /\ EpochsOf(latest_map)[epoch] # EpochsOf(m)[epoch]
InGrace(retained) == SelectSeq(retained, LAMBDA r : r.left > 0)
TopologyPins(m, retained) ==
    m.neighbors \cup m.pinned_peers \cup UNION {r.neighbors : r \in ToSet(retained)}

Acceptable(m) ==
    latest_map # NoMap =>
        /\ m.routing_epoch >= latest_map.routing_epoch
        /\ m.generated_at >= latest_map.generated_at
        /\ m.generated_at = latest_map.generated_at => EpochsOf(m) = EpochsOf(latest_map)

Holding(stage, m, active, more) ==
    [stage |-> stage, map |-> m, active |-> active, peers |-> more]

BeginUpdate(m) ==
    /\ update = Free
    /\ Acceptable(m)
    /\ update' = Holding("retain", m, {}, {})
    /\ Bump
    /\ UNCHANGED <<mapVars, leaseVars, pinVars, closing, unannounced>>

RetainPrevious ==
    /\ update.stage = "retain"
    /\ LET m        == update.map
           previous == [topology_epoch |-> latest_map.topology_epoch,
                        neighbors |-> latest_map.neighbors, left |-> MigrationGrace]
           others   == SelectSeq(InGrace(retained_maps),
                                 LAMBDA r : r.topology_epoch # latest_map.topology_epoch)
           longest  == Append(others, previous)
           retained == IF Changed(m, "topology")
                       THEN SubSeq(longest, Max({1, Len(longest) - MaxTopologies + 1}),
                                   Len(longest))
                       ELSE InGrace(retained_maps)
       IN  /\ retained_maps' = retained
           /\ update' = Holding("pin", m,
                            {m.topology_epoch} \cup {r.topology_epoch : r \in ToSet(retained)},
                            TopologyPins(m, retained))
    /\ UNCHANGED <<latest_map, leaseVars, pinVars, closing, cacheVars>>

ReplacePins ==
    /\ update.stage = "pin"
    /\ topology_pins' = update.peers
    /\ update' = Holding("revoke", update.map, update.active, {})
    /\ UNCHANGED <<mapVars, leaseVars, pins, closing, cacheVars>>

(* A new routing epoch revokes every path, a new topology the paths of     *)
(* topologies whose grace is over.                                         *)
RevokePaths ==
    /\ update.stage = "revoke"
    /\ LET revoked == {p \in DOMAIN paths :
                          \/ Changed(update.map, "routing")
                          \/ paths[p].epochs.topology \notin update.active}
       IN  /\ StoreLeases(RemovePeers(LeaseState, revoked))
           /\ update' = Holding("forget", update.map, {}, revoked)
    /\ UNCHANGED <<mapVars, pinVars, closing, cacheVars>>

ForgetRevoked ==
    /\ update.stage = "forget"
    /\ StoreLeases(RemoveActivity(LeaseState, update.peers))
    /\ update' = Holding("trim", update.map, {}, {})
    /\ UNCHANGED <<mapVars, pinVars, closing, cacheVars>>

TrimPaths ==
    /\ update.stage = "trim"
    /\ LET m == update.map
       IN  \E ps \in Trims(LeaseState, m.neighbors, m.on_demand_peer_limit, {}) :
              StoreLeases(Dismissed(LeaseState, ps))
    /\ update' = Holding("publish", update.map, {}, {})
    /\ UNCHANGED <<mapVars, pinVars, closing, cacheVars>>

PublishMap ==
    /\ update.stage = "publish"
    /\ latest_map' = update.map
    /\ update' = Free
    /\ Bump
    /\ UNCHANGED <<retained_maps, leaseVars, pinVars, closing, unannounced>>

---------------------------------------------------------------------------
(* retained_overlay_neighbors replaces the pins without neighbor_map_update *)
(* and without a bump.  It reads the map first, so that the set may be the *)
(* one of an earlier map.                                                  *)
Repin ==
    /\ latest_map # NoMap
    /\ retained_maps' = InGrace(retained_maps)
    /\ \E m \in Maps : /\ m.generated_at <= latest_map.generated_at
                       /\ topology_pins' = TopologyPins(m, InGrace(retained_maps))
    /\ UNCHANGED <<latest_map, leaseVars, pins, taskVars, cacheVars>>

---------------------------------------------------------------------------
(* record_resolved_overlay_path.                                           *)

(* Mutant: an answer is compared with the topology epoch only.             *)
SameTopology(m) == latest_map # NoMap /\ m.topology_epoch = latest_map.topology_epoch

(* The answer is of the topology and of the routes of the map in force.    *)
AnswerCurrent(m) == latest_map # NoMap /\ EpochsOf(m) = EpochsOf(latest_map)

(* What room for a new route may cost: first routes of the same owner,     *)
(* then routes of anyone, those least recently used first.  One of each    *)
(* is enough, since neither budget is ever exceeded.                       *)
MadeRoom(s, p, d) ==
    LET new     == d \in Cidrs /\ ~(p \in DOMAIN s.paths /\ d \in DOMAIN s.paths[p].routes)
        own     == {e \in s.lru : e.peer = p}
        first   == IF new /\ Cardinality(own) >= MaxNodeRoutes
                   THEN {RemoveRoutes(s, {e}) : e \in LeastRecent(own)} ELSE {s}
        full(t) == new /\ Cardinality(t.lru) >= MaxRoutes
        Evict(t, e) == LET u == RemoveRoutes(t, {e})
                       IN  IF e.peer = p \/ e.peer \in DOMAIN u.paths THEN u
                           ELSE RemoveActivity(u, {e.peer})
    IN  UNION {IF full(t) THEN {Evict(t, e) : e \in LeastRecent(t.lru)} ELSE {t} :
                  t \in first}

(* A lease of other epochs gives way, and a new peer of the budget costs   *)
(* others their paths.                                                     *)
WithinBudget(s, p, m) ==
    LET t       == IF p \in DOMAIN s.paths /\ s.paths[p].epochs # EpochsOf(m)
                   THEN RemovePeers(s, {p}) ELSE s
        exists  == p \in DOMAIN t.paths
        keep    == IF exists THEN m.on_demand_peer_limit ELSE m.on_demand_peer_limit - 1
        safe    == IF exists THEN {p} ELSE {}
    IN  IF p \in m.neighbors THEN {t}
        ELSE {Dismissed(t, ps) : ps \in Trims(t, m.neighbors, keep, safe)}

RecordPath(d, m) ==
    LET p      == TargetOf(d)
        direct == p \in latest_map.neighbors
        Used(s) == [s EXCEPT !.used = Put(@, p, 0)]
    IN  /\ update = Free
        /\ AnswerCurrent(m)
        /\ direct \/ latest_map.on_demand_peer_limit > 0
        /\ IF direct /\ d \notin Cidrs
           THEN StoreLeases(Used(LeaseState))
           ELSE \E t \in WithinBudget(LeaseState, p, latest_map) :
                   \E u \in MadeRoom(t, p, d) :
                      StoreLeases(Used(UpsertPath(u, p, d, EpochsOf(m))))
        /\ update' = Finished
        /\ UNCHANGED <<mapVars, pinVars, closing, cacheVars>>

---------------------------------------------------------------------------
(* expire_idle_overlay_route_leases, alone or as the first half of         *)
(* take_idle_peers_to_close.                                               *)

ExpireRoutes(idleClose) ==
    LET expired  == {e \in route_lru : e.age >= IdleTimeout}
        s        == RemoveRoutes(LeaseState, expired)
        ended    == {e.peer : e \in expired} \ DOMAIN s.paths
        backbone == IF latest_map = NoMap THEN {} ELSE latest_map.neighbors
        removed  == ended \ backbone
    IN  /\ update = Free
        /\ idleClose => closing = Free
        /\ idleClose \/ expired # {}
        /\ StoreLeases(RemoveActivity(s, removed))
        /\ update' = IF expired = {} THEN Free ELSE Finished
        /\ closing' = IF idleClose
                      THEN [stage |-> IF expired = {} THEN "expired" ELSE "expiring",
                            peers |-> removed]
                      ELSE closing
        /\ UNCHANGED <<mapVars, pinVars, cacheVars>>

(* The second half, without neighbor_map_update: it closes what is idle    *)
(* now and what had expired then, resolved again or not.                   *)
TakeIdle ==
    /\ closing.stage = "expired"
    /\ LET unused == {p \in DOMAIN last_used :
                         last_used[p] >= IdleTimeout /\ ~DurablyPinned(p)}
           idle   == unused \cup closing.peers
       IN  /\ StoreLeases(Dismissed(LeaseState, idle))
           /\ unannounced' = (unannounced \/ idle # {})
    /\ closing' = Free
    /\ UNCHANGED <<mapVars, pinVars, update, reader, shortcuts>>

(* record_peer_activity, record_remote_peer_activity,                      *)
(* wake_passive_peer_from_probe, record_packet_flow_observation for a      *)
(* packet that matches d, and a pinned path record.                        *)
Activity(d, pin) ==
    LET p       == TargetOf(d)
        touched == p \in DOMAIN paths /\ d \in DOMAIN paths[p].routes
    IN  /\ last_used' = Put(last_used, p, 0)
        /\ paths' = IF touched THEN [paths EXCEPT ![p].routes[d] = 0] ELSE paths
        /\ route_lru' = IF touched
                        THEN {e \in route_lru : e.peer # p \/ e.cidr # d}
                             \cup {[age |-> 0, peer |-> p, cidr |-> d]}
                        ELSE route_lru
        /\ pin => p \in Pinnable
        /\ pins' = IF pin THEN pins \cup {p} ELSE pins
        /\ unannounced' = TRUE
        /\ UNCHANGED <<mapVars, topology_pins, taskVars, reader, shortcuts>>

---------------------------------------------------------------------------
(* overlay_shortcut_snapshot.  A map is replaced only while the generation *)
(* is odd, so the reads of the maps and pins count as one step and the     *)
(* read of the paths as another.  Before the first map there is nothing to *)
(* read.                                                                   *)

ReadMaps ==
    /\ reader = Free /\ ~GenerationOdd /\ ~shortcuts.current
    /\ latest_map # NoMap
    /\ retained_maps' = InGrace(retained_maps)
    /\ reader' = [stage |-> "maps", routing |-> latest_map.routing_epoch,
                  active |-> {latest_map.topology_epoch}
                             \cup {r.topology_epoch : r \in ToSet(InGrace(retained_maps))},
                  peers |-> TopologyPins(latest_map, InGrace(retained_maps))
                            \cup pins \cup topology_pins]
    /\ UNCHANGED <<latest_map, leaseVars, pinVars, taskVars, unannounced, shortcuts>>

ReadPaths ==
    /\ reader.stage = "maps"
    /\ reader' = [stage |-> "paths",
                  peers |-> {p \in DOMAIN paths \ reader.peers :
                                /\ paths[p].epochs.topology \in reader.active
                                /\ paths[p].epochs.routing = reader.routing}]
    /\ UNCHANGED <<mapVars, leaseVars, pinVars, taskVars, unannounced, shortcuts>>

KeepSnapshot ==
    /\ reader.stage = "paths"
    /\ shortcuts' = [current |-> TRUE, peers |-> reader.peers]
    /\ reader' = Free
    /\ UNCHANGED <<mapVars, leaseVars, pinVars, taskVars, unannounced>>

---------------------------------------------------------------------------
Older(age) == Min({age + 1, IdleTimeout})

AgentTick ==
    /\ last_used' = [p \in DOMAIN last_used |-> Older(last_used[p])]
    /\ paths' = [p \in DOMAIN paths |->
                    [paths[p] EXCEPT !.routes = [c \in DOMAIN @ |-> Older(@[c])]]]
    /\ route_lru' = {[e EXCEPT !.age = Older(@)] : e \in route_lru}
    /\ retained_maps' = [i \in DOMAIN retained_maps |->
                            [retained_maps[i] EXCEPT !.left = Max({@ - 1, 0})]]
    /\ UNCHANGED <<latest_map, pinVars, taskVars, cacheVars>>

AgentNext ==
    \/ Announce \/ ReleaseUpdate
    \/ \E m \in Maps : BeginUpdate(m)
    \/ RetainPrevious \/ ReplacePins \/ RevokePaths \/ ForgetRevoked \/ TrimPaths
    \/ PublishMap
    \/ Repin
    \/ \E d \in Destinations, m \in Maps : RecordPath(d, m)
    \/ \E idleClose \in BOOLEAN : ExpireRoutes(idleClose)
    \/ TakeIdle
    \/ \E d \in Destinations, pin \in BOOLEAN : Activity(d, pin)
    \/ ReadMaps \/ ReadPaths \/ KeepSnapshot
    \/ AgentTick

AgentSpec == AgentInit /\ [][AgentNext]_agentVars

---------------------------------------------------------------------------
(* Between map updates the leases are within every budget: at most         *)
(* on_demand_peer_limit peers that are no neighbours, at most              *)
(* MaxNodeRoutes routes of an owner and MaxRoutes in all.  What the        *)
(* evictions go by agrees with the leases at any time: the order of use    *)
(* holds each leased route once, at the age of the lease, and every lease  *)
(* has activity, without which it would never be found idle.  Packets,     *)
(* idle closing and the updates' stages interleave.                        *)
LeasesBounded ==
    /\ update \in {Free, Finished} /\ latest_map # NoMap =>
          Cardinality(DOMAIN paths \ latest_map.neighbors) <= latest_map.on_demand_peer_limit
    /\ \A p \in DOMAIN paths : Cardinality(DOMAIN paths[p].routes) <= MaxNodeRoutes
    /\ Cardinality(route_lru) <= MaxRoutes
    /\ route_lru = UNION {{[age |-> paths[p].routes[c], peer |-> p, cidr |-> c] :
                              c \in DOMAIN paths[p].routes} : p \in DOMAIN paths}
    /\ DOMAIN paths \subseteq DOMAIN last_used

(* A lease never outlives the routes it was resolved with: between map     *)
(* updates every lease is of the routing epoch of the map in force,        *)
(* however late the answer to a resolution came.                           *)
LeasesOfCurrentRouting ==
    update \in {Free, Finished} =>
        \A p \in DOMAIN paths : paths[p].epochs.routing = latest_map.routing_epoch

(* Once every change is announced, a cached snapshot that counts as        *)
(* current sends no traffic through the overlay to a neighbour, to a       *)
(* pinned peer or to a peer whose lease is gone: what was read before a    *)
(* change cannot be kept after it.                                         *)
SnapshotCoherent ==
    shortcuts.current /\ ~unannounced /\ update = Free =>
        shortcuts.peers \subseteq
            DOMAIN paths \ (latest_map.neighbors \cup latest_map.pinned_peers \cup pins)

===========================================================================
