------------------------- MODULE OverlayForwarder -------------------------
(***************************************************************************)
(* The bounded-overlay forwarding engines of all nodes                     *)
(* (crates/ipars-agent/src/overlay_forwarder.rs) and the envelopes between *)
(* them (crates/ipars-relay/src/multihop.rs).  Each engine is behind a     *)
(* mutex, so one call is one action; the nodes learn of a new topology at  *)
(* different times, and the transport between neighbours may lose,         *)
(* duplicate and reorder envelopes: network keeps every envelope sent.     *)
(*                                                                         *)
(* A topology epoch is a hash of the graph it names, so Graph gives the    *)
(* neighbours of a node under an epoch and a neighbour map is its epoch.   *)
(* hop_limit is the length of the path whenever validate_envelope_hop_limit*)
(* passes, so the envelope does not carry it.  Payloads are opaque.        *)
(***************************************************************************)
EXTENDS ReplayWindow, SequencesExt

CONSTANTS
    Nodes,
    Epochs,          \* topology epochs, opaque and unordered
    Graph,           \* Graph[e][n]: neighbours of n under e
    Paths,           \* validated overlay paths, primary and secondary alike
    PathIds,         \* path session ids
    MaxRelayHops,    \* max_relay_hops
    Grace,           \* PREVIOUS_TOPOLOGY_EPOCH_GRACE
    MaxRetained,     \* MAX_RETAINED_TOPOLOGY_EPOCHS
    FirstEpoch,      \* the epoch every engine is created with
    MaxSequence,     \* bound: highest sequence number
    MaxTime,         \* bound: last tick of the clock
    MaxUpdates       \* bound: topology changes of each node

(* OverlayPath::validate: from its source to its target, no node twice.    *)
ASSUME OverlayAssumption ==
    /\ Graph \in [Epochs -> [Nodes -> SUBSET Nodes]]
    /\ FirstEpoch \in Epochs
    /\ \A p \in Paths :
          /\ p.topology_epoch \in Epochs
          /\ p.ordered_nodes \in Seq(Nodes)
          /\ Len(p.ordered_nodes) >= 2
          /\ IsInjective(p.ordered_nodes)
    /\ MaxRelayHops \in Nat
    /\ Grace \in Nat \ {0}
    /\ MaxRetained \in Nat \ {0}
    /\ MaxSequence \in Nat /\ MaxTime \in Nat /\ MaxUpdates \in [Nodes -> Nat]

VARIABLES
    now,             \* Instant::now()
    epoch,           \* neighbor_map of each engine
    retained,        \* retained_neighbor_maps
    replay,          \* replay_window
    network,         \* envelopes handed to the transport
    delivered,       \* history: envelopes given to their destination
    endorsed,        \* history: edges a node checked, [e, at, from, to]
    trail,           \* history: epochs each node left, and when
    log              \* history: what each replay window accepted

vars == <<now, epoch, retained, replay, network, delivered, endorsed, trail, log>>

Init ==
    /\ now = 0
    /\ epoch = [n \in Nodes |-> FirstEpoch]
    /\ retained = [n \in Nodes |-> <<>>]
    /\ replay = [n \in Nodes |-> EmptyCache]
    /\ network = {}
    /\ delivered = {}
    /\ endorsed = {}
    /\ trail = [n \in Nodes |-> <<>>]
    /\ log = [n \in Nodes |-> {}]

---------------------------------------------------------------------------
(* Topology epochs.                                                        *)

RetainedEpochs(queue) == {queue[i].epoch : i \in DOMAIN queue}

(* expire_retained_neighbor_maps, run first by every call.                 *)
Unexpired(n) ==
    Pick(retained[n], {i \in DOMAIN retained[n] : now < retained[n][i].expires_at})

(* The epochs validate_topology_epoch accepts, after the expiry.           *)
KnownEpochs(n) == {epoch[n]} \cup RetainedEpochs(Unexpired(n))

(* Mutant: the replay state of an expired epoch stays.                     *)
ReplayUntouched(n) == replay[n]

(* retain_replay_epochs, run only when a retained map was dropped.         *)
ReplayAfterExpiry(n) ==
    IF Unexpired(n) = retained[n] THEN replay[n]
    ELSE RetainEpochs(replay[n], KnownEpochs(n))

(* The history of a window follows what the window still remembers.        *)
LogAfter(n, cache, entries) == {x \in log[n] \cup entries : x.key \in Keys(cache)}

(* A call that is refused, or that repeats the current map, still expires. *)
Expire(n) ==
    /\ Unexpired(n) # retained[n]
    /\ retained' = [retained EXCEPT ![n] = Unexpired(n)]
    /\ replay' = [replay EXCEPT ![n] = ReplayAfterExpiry(n)]
    /\ log' = [log EXCEPT ![n] = LogAfter(n, replay'[n], {})]
    /\ UNCHANGED <<now, epoch, network, delivered, endorsed, trail>>

Without(queue, es) ==
    Pick(queue, {i \in DOMAIN queue : queue[i].epoch \notin es})

(* Mutant: a full queue drops the newest map instead of the oldest.        *)
RetainedOldest(n, e) ==
    LET queue == Append(Without(Unexpired(n), {e, epoch[n]}),
                        [epoch |-> epoch[n], expires_at |-> now + Grace])
    IN  IF Len(queue) > MaxRetained THEN Front(queue) ELSE queue

(* The replaced map joins the queue, which holds no epoch twice and at     *)
(* most MaxRetained maps.                                                  *)
RetainedAfter(n, e) ==
    LET queue == Append(Without(Unexpired(n), {e, epoch[n]}),
                        [epoch |-> epoch[n], expires_at |-> now + Grace])
    IN  IF Len(queue) > MaxRetained THEN Tail(queue) ELSE queue

(* update_neighbor_map with another topology.                              *)
UpdateNeighborMap(n, e) ==
    /\ Len(trail[n]) < MaxUpdates[n]
    /\ e # epoch[n]
    /\ retained' = [retained EXCEPT ![n] = RetainedAfter(n, e)]
    /\ epoch' = [epoch EXCEPT ![n] = e]
    /\ replay' = [replay EXCEPT ![n] =
           RetainEpochs(ReplayAfterExpiry(n), {e} \cup RetainedEpochs(RetainedAfter(n, e)))]
    /\ trail' = [trail EXCEPT ![n] = Append(@, [epoch |-> epoch[n], at |-> now])]
    /\ log' = [log EXCEPT ![n] = LogAfter(n, replay'[n], {})]
    /\ UNCHANGED <<now, network, delivered, endorsed>>

---------------------------------------------------------------------------
(* Envelopes.                                                              *)

ReplayKey(env) == [topology_epoch |-> env.topology_epoch, source |-> env.source,
                   path_id |-> env.path_id]

(* Everyone an envelope passes, in order.                                  *)
Route(env) == <<env.source>> \o env.path \o <<env.destination>>

IsRouteComplete(env) == env.hop_index = Len(env.path)

(* Mutant: peers are looked up in the current map.                         *)
CurrentNeighbors(n, e) == Graph[epoch[n]][n]

(* neighbor_ids_for_epoch: peers are looked up in the map of the           *)
(* envelope's own epoch, current or retained.                              *)
NeighborIds(n, e) == Graph[e][n]

RequireNextNeighbor(n, e, next) == next \in NeighborIds(n, e)

ValidatePreviousHop(n, e, actual, expected) ==
    actual = expected /\ expected \in NeighborIds(n, e)

(* What a node really knows of an edge, for the history.                   *)
Endorse(n, e, peers) == {[topology_epoch |-> e, at |-> n, peer |-> p] : p \in peers \cap Graph[e][n]}

(* observe at node n, then the rest of the engine's state.                 *)
Observed(n, env) ==
    /\ Accepts(ReplayAfterExpiry(n), ReplayKey(env), env.sequence)
    /\ retained' = [retained EXCEPT ![n] = Unexpired(n)]
    /\ replay' = [replay EXCEPT ![n] =
                     Observe(ReplayAfterExpiry(n), ReplayKey(env), env.sequence)]
    /\ log' = [log EXCEPT ![n] =
                  LogAfter(n, replay'[n], {[key |-> ReplayKey(env), sequence |-> env.sequence]})]

Send(from, to, env) == network' = network \cup {[from |-> from, to |-> to, envelope |-> env]}

(* encapsulate_selected: a path of two nodes is used directly and leaves   *)
(* only its mark in the window.                                            *)
Encapsulate(p, id, sequence) ==
    LET nodes  == p.ordered_nodes
        n      == Head(nodes)
        relays == SubSeq(nodes, 2, Len(nodes) - 1)
        env    == [topology_epoch |-> p.topology_epoch, path_id |-> id, sequence |-> sequence,
                   hop_index |-> 0, source |-> n, destination |-> Last(nodes), path |-> relays]
    IN  /\ p.topology_epoch \in KnownEpochs(n)
        /\ Len(relays) <= MaxRelayHops
        /\ RequireNextNeighbor(n, p.topology_epoch, nodes[2])
        /\ Observed(n, env)
        /\ IF relays = <<>> THEN UNCHANGED network ELSE Send(n, nodes[2], env)
        /\ endorsed' = endorsed \cup Endorse(n, p.topology_epoch, {nodes[2]})
        /\ UNCHANGED <<now, epoch, delivered, trail>>

(* receive, for a relay: advance_hop and pass on.                          *)
Relay(h) ==
    LET env  == h.envelope
        n    == h.to
        e    == env.topology_epoch
        next == Route(env)[env.hop_index + 3]
    IN  /\ e \in KnownEpochs(n)
        /\ Len(env.path) <= MaxRelayHops
        /\ ~IsRouteComplete(env)
        /\ env.path[env.hop_index + 1] = n
        /\ ValidatePreviousHop(n, e, h.from, Route(env)[env.hop_index + 1])
        /\ RequireNextNeighbor(n, e, next)
        /\ Observed(n, env)
        /\ Send(n, next, [env EXCEPT !.hop_index = @ + 1])
        /\ endorsed' = endorsed \cup Endorse(n, e, {h.from, next})
        /\ UNCHANGED <<now, epoch, delivered, trail>>

(* deliver, for the destination.                                           *)
Deliver(h) ==
    LET env == h.envelope
        n   == h.to
        e   == env.topology_epoch
    IN  /\ e \in KnownEpochs(n)
        /\ Len(env.path) <= MaxRelayHops
        /\ IsRouteComplete(env)
        /\ env.destination = n
        /\ ValidatePreviousHop(n, e, h.from, Last(env.path))
        /\ Observed(n, env)
        /\ delivered' = delivered \cup {env}
        /\ endorsed' = endorsed \cup Endorse(n, e, {h.from})
        /\ UNCHANGED <<now, epoch, network, trail>>

Tick ==
    /\ now < MaxTime
    /\ now' = now + 1
    /\ UNCHANGED <<epoch, retained, replay, network, delivered, endorsed, trail, log>>

Next ==
    \/ Tick
    \/ \E n \in Nodes : Expire(n)
    \/ \E n \in Nodes, e \in Epochs : UpdateNeighborMap(n, e)
    \/ \E p \in Paths, id \in PathIds, s \in 0..MaxSequence : Encapsulate(p, id, s)
    \/ \E h \in network : Relay(h) \/ Deliver(h)

Spec == Init /\ [][Next]_vars

---------------------------------------------------------------------------
(* Properties.                                                             *)

(* "Each engine validates only the two edges adjacent to its local node.   *)
(* Taken together, those checks validate every edge of a multi-hop path"   *)
(* (overlay_forwarder.rs, module comment): when an envelope is delivered,  *)
(* both ends of every edge it crossed had the other as a neighbour under   *)
(* the envelope's epoch, although every node changes topology on its own.  *)
EveryEdgeValidated ==
    \A env \in delivered : \A i \in 1..(Len(Route(env)) - 1) :
        LET u == Route(env)[i]
            v == Route(env)[i + 1]
        IN  /\ [topology_epoch |-> env.topology_epoch, at |-> u, peer |-> v] \in endorsed
            /\ [topology_epoch |-> env.topology_epoch, at |-> v, peer |-> u] \in endorsed

(* Replay state is isolated by epoch and dropped with it, through any      *)
(* sequence of changes back and forth: a window never keeps a key of an    *)
(* epoch whose map is gone, and the queue of retained maps, bounded, never *)
(* holds the current epoch or an epoch twice.                              *)
ReplayStateBounded ==
    \A n \in Nodes :
        /\ \A k \in Keys(replay[n]) :
              k.topology_epoch \in {epoch[n]} \cup RetainedEpochs(retained[n])
        /\ Cardinality(Keys(replay[n])) <= Capacity
        /\ Len(retained[n]) <= MaxRetained
        /\ IsInjective(<<epoch[n]>> \o [i \in DOMAIN retained[n] |-> retained[n][i].epoch])

(* An epoch a node left stays usable for the whole grace, unless at least  *)
(* MaxRetained other epochs were left after it: in-flight envelopes and    *)
(* make-before-break paths can finish whatever order the changes came in.  *)
GraceHonoured ==
    \A n \in Nodes : \A i \in DOMAIN trail[n] :
        LET t     == trail[n][i]
            later == {trail[n][j].epoch : j \in (i + 1)..Len(trail[n])} \ {t.epoch}
        IN  now < t.at + Grace /\ Cardinality(later) < MaxRetained
               => t.epoch \in KnownEpochs(n)

(* However envelopes are duplicated and reordered, a node emits a datagram *)
(* once for as long as its window remembers the key: whatever a window     *)
(* still covers and has accepted, it does not accept again.                *)
NothingAcceptedTwice ==
    \A n \in Nodes : \A x \in log[n] : ~Accepts(replay[n], x.key, x.sequence)

(* "The current graph and one previous graph overlap for a 120-second      *)
(* inbound grace" (docs/ARCHITECTURE.md:259).                              *)
OnePreviousGraph == \A n \in Nodes : Len(retained[n]) <= 1

(* "outbound traffic always uses the current graph"                        *)
(* (docs/ARCHITECTURE.md:261).                                             *)
OutboundUsesCurrentGraph ==
    [][\A h \in network' \ network :
          h.envelope.hop_index = 0 => h.envelope.topology_epoch = epoch[h.from]]_vars

===========================================================================
