------------------------ MODULE OverlayAgent_proofs ------------------------
(***************************************************************************)
(* Proofs about the two halves of an agent that follow its neighbour map:  *)
(* the overlay forwarding engines, for any nodes, graphs, paths, limits    *)
(* and clocks, and the leases on paths resolved on demand, for any peers,  *)
(* routes and maps.                                                        *)
(***************************************************************************)
EXTENDS OverlayForwarder, AgentOverlay, ReplayWindow_proofs

---------------------------------------------------------------------------
(* The edges of a route.                                                   *)

Envelopes == [topology_epoch : Epochs, path_id : PathIds, sequence : Nat, hop_index : Nat,
              source : Nodes, destination : Nodes, path : Seq(Nodes)]

Edge(e, u, v) == [topology_epoch |-> e, at |-> u, peer |-> v]

(* Both ends of the route's i-th edge checked it.                          *)
Checked(env, i, edges) ==
    /\ Edge(env.topology_epoch, Route(env)[i], Route(env)[i + 1]) \in edges
    /\ Edge(env.topology_epoch, Route(env)[i + 1], Route(env)[i]) \in edges

(* An envelope under way is where its hop index says; the edges behind it  *)
(* were checked at both ends, and the one it is on at its near end.        *)
UnderWay(h, edges) ==
    LET env == h.envelope
        i   == env.hop_index
    IN  /\ env \in Envelopes /\ env.path # <<>> /\ i <= Len(env.path)
        /\ h.from = Route(env)[i + 1] /\ h.to = Route(env)[i + 2]
        /\ \A j \in 1..i : Checked(env, j, edges)
        /\ Edge(env.topology_epoch, Route(env)[i + 1], Route(env)[i + 2]) \in edges

Arrived(env, edges) ==
    env \in Envelopes /\ \A j \in 1..(Len(env.path) + 1) : Checked(env, j, edges)

EdgeInv ==
    /\ \A h \in network : UnderWay(h, endorsed)
    /\ \A env \in delivered : Arrived(env, endorsed)

LEMMA RouteFacts ==
    ASSUME NEW env \in Envelopes
    PROVE  /\ Len(env.path) \in Nat /\ Route(env) \in Seq(Nodes)
           /\ Len(Route(env)) = Len(env.path) + 2
           /\ Route(env)[1] = env.source
           /\ \A i \in 1..Len(env.path) : Route(env)[i + 1] = env.path[i]
           /\ Route(env)[Len(env.path) + 2] = env.destination
<1>1. env.source \in Nodes /\ env.destination \in Nodes /\ env.path \in Seq(Nodes)
  BY DEF Envelopes
<1> DEFINE p == env.path
           r == <<env.source>> \o p
<1>2. r \in Seq(Nodes) /\ Len(r) = Len(p) + 1 /\ Len(p) \in Nat
      /\ r[1] = env.source /\ \A i \in 1..Len(p) : r[i + 1] = p[i]
  BY <1>1
<1>3. Route(env) = r \o <<env.destination>>
  BY DEF Route
<1> HIDE DEF r
<1> QED
  BY <1>1, <1>2, <1>3

(* What was checked stays so.                                              *)
LEMMA EdgesGrow ==
    ASSUME EdgeInv, endorsed \subseteq endorsed'
    PROVE  /\ \A h \in network : UnderWay(h, endorsed')
           /\ \A env \in delivered : Arrived(env, endorsed')
  BY DEF EdgeInv, UnderWay, Arrived, Checked

LEMMA EncapsulateKeepsEdges ==
    ASSUME EdgeInv, NEW p \in Paths, NEW id \in PathIds, NEW s \in 0..MaxSequence,
           Encapsulate(p, id, s)
    PROVE  EdgeInv'
<1> DEFINE nodes  == p.ordered_nodes
           n      == Head(nodes)
           relays == SubSeq(nodes, 2, Len(nodes) - 1)
           env    == [topology_epoch |-> p.topology_epoch, path_id |-> id, sequence |-> s,
                      hop_index |-> 0, source |-> n, destination |-> Last(nodes), path |-> relays]
           h      == [from |-> n, to |-> nodes[2], envelope |-> env]
<1>1. /\ nodes \in Seq(Nodes) /\ Len(nodes) \in Nat /\ Len(nodes) >= 2 /\ p.topology_epoch \in Epochs
      /\ MaxSequence \in Nat
  BY OverlayAssumption
<1>2. /\ nodes[2] \in Graph[p.topology_epoch][n]
      /\ endorsed' = endorsed \cup Endorse(n, p.topology_epoch, {nodes[2]})
      /\ UNCHANGED delivered
      /\ network' = network \/ (relays # <<>> /\ network' = network \cup {h})
  BY DEF Encapsulate, Send, RequireNextNeighbor, NeighborIds
<1>3. Edge(p.topology_epoch, n, nodes[2]) \in endorsed'
  BY <1>2 DEF Endorse, Edge
<1>4. /\ relays \in Seq(Nodes) /\ Len(relays) = Len(nodes) - 2
      /\ \A i \in 1..Len(relays) : relays[i] = nodes[i + 1]
      /\ n \in Nodes /\ Last(nodes) \in Nodes
  BY <1>1 DEF Last
<1>5. env \in Envelopes
  BY <1>1, <1>4 DEF Envelopes
<1>6. ASSUME relays # <<>> PROVE UnderWay(h, endorsed')
  <2>1. /\ h.envelope = env /\ env.hop_index = 0 /\ env.path = relays /\ env.source = n
        /\ env.topology_epoch = p.topology_epoch /\ h.from = n /\ h.to = nodes[2]
    OBVIOUS
  <2> HIDE DEF env, h, relays, n
  <2>2. Len(relays) \in Nat /\ Len(relays) >= 1 /\ relays[1] = nodes[2]
    BY <1>1, <1>4, <1>6
  <2>3. Route(env)[1] = n /\ Route(env)[2] = nodes[2]
    BY <1>5, <2>1, <2>2, RouteFacts
  <2> QED
    BY <1>3, <1>5, <1>6, <2>1, <2>2, <2>3 DEF UnderWay
<1> HIDE DEF h
<1> QED
  BY <1>2, <1>6, EdgesGrow DEF EdgeInv

LEMMA RelayKeepsEdges ==
    ASSUME EdgeInv, NEW h \in network, Relay(h)
    PROVE  EdgeInv'
<1> DEFINE env  == h.envelope
           n    == h.to
           e    == env.topology_epoch
           i    == env.hop_index
           next == Route(env)[i + 3]
           env2 == [env EXCEPT !.hop_index = i + 1]
           g    == [from |-> n, to |-> next, envelope |-> env2]
<1>1. /\ UnderWay(h, endorsed) /\ UnderWay(h, endorsed')
      /\ env \in Envelopes /\ i \in Nat /\ Len(env.path) \in Nat /\ i < Len(env.path)
  <2>1. UnderWay(h, endorsed) /\ UnderWay(h, endorsed')
    BY EdgesGrow DEF EdgeInv, Relay
  <2>2. env \in Envelopes /\ i <= Len(env.path)
    BY <2>1 DEF UnderWay
  <2>3. i \in Nat /\ Len(env.path) \in Nat
    BY <2>2 DEF Envelopes
  <2> QED
    BY <2>1, <2>2, <2>3 DEF Relay, IsRouteComplete
<1>2. /\ h.from \in Graph[e][n] /\ next \in Graph[e][n]
      /\ endorsed' = endorsed \cup Endorse(n, e, {h.from, next})
      /\ UNCHANGED delivered /\ network' = network \cup {g}
  BY DEF Relay, Send, RequireNextNeighbor, ValidatePreviousHop, NeighborIds
<1>3. Edge(e, n, h.from) \in endorsed' /\ Edge(e, n, next) \in endorsed'
  BY <1>2 DEF Endorse, Edge
<1>4. /\ env2 \in Envelopes /\ env2.path = env.path /\ env2.hop_index = i + 1
      /\ env2.topology_epoch = e /\ env2.source = env.source /\ env2.destination = env.destination
      /\ g.envelope = env2 /\ g.from = n /\ g.to = next
  BY <1>1 DEF Envelopes
<1> HIDE DEF env2, g
<1>5. Route(env2) = Route(env)
  BY <1>4 DEF Route
<1>6. /\ h.from = Route(env)[i + 1] /\ n = Route(env)[i + 2]
      /\ \A j \in 1..i : Checked(env, j, endorsed')
      /\ Edge(e, Route(env)[i + 1], n) \in endorsed' /\ env.path # <<>>
  BY <1>1 DEF UnderWay
<1>7. Checked(env, i + 1, endorsed')
  BY <1>1, <1>3, <1>6 DEF Checked
<1>8. \A j \in 1..(i + 1) : Checked(env2, j, endorsed')
  BY <1>1, <1>4, <1>5, <1>6, <1>7 DEF Checked
<1>9. UnderWay(g, endorsed')
  BY <1>1, <1>3, <1>4, <1>5, <1>6, <1>8 DEF UnderWay
<1> QED
  BY <1>2, <1>9, EdgesGrow DEF EdgeInv

LEMMA DeliverKeepsEdges ==
    ASSUME EdgeInv, NEW h \in network, Deliver(h)
    PROVE  EdgeInv'
<1> DEFINE env == h.envelope
           n   == h.to
           e   == env.topology_epoch
           i   == env.hop_index
<1>1. UnderWay(h, endorsed) /\ UnderWay(h, endorsed') /\ env \in Envelopes /\ i = Len(env.path)
      /\ i \in Nat /\ env.path # <<>>
  BY EdgesGrow DEF EdgeInv, Deliver, UnderWay, Envelopes, IsRouteComplete
<1>2. /\ h.from \in Graph[e][n] /\ endorsed' = endorsed \cup Endorse(n, e, {h.from})
      /\ UNCHANGED network /\ delivered' = delivered \cup {env}
  BY DEF Deliver, ValidatePreviousHop, NeighborIds
<1>3. Edge(e, n, h.from) \in endorsed'
  BY <1>2 DEF Endorse, Edge
<1>4. /\ h.from = Route(env)[i + 1] /\ n = Route(env)[i + 2]
      /\ \A j \in 1..i : Checked(env, j, endorsed')
      /\ Edge(e, Route(env)[i + 1], n) \in endorsed'
  BY <1>1 DEF UnderWay
<1>5. Checked(env, i + 1, endorsed')
  BY <1>1, <1>3, <1>4 DEF Checked
<1>6. Arrived(env, endorsed')
  BY <1>1, <1>4, <1>5 DEF Arrived
<1> QED
  BY <1>2, <1>6, EdgesGrow DEF EdgeInv

LEMMA EdgesStep ==
    ASSUME EdgeInv, [Next]_vars
    PROVE  EdgeInv'
<1>1. CASE UNCHANGED <<network, delivered, endorsed>>
  BY <1>1 DEF EdgeInv
<1> QED
  BY <1>1, EncapsulateKeepsEdges, RelayKeepsEdges, DeliverKeepsEdges
     DEF Next, vars, Tick, Expire, UpdateNeighborMap

(* The engines' local checks add up: when an envelope is delivered, both   *)
(* ends of every edge of its route had each other as neighbours under the  *)
(* envelope's epoch.                                                       *)
THEOREM EdgesAreValidated == Spec => []EveryEdgeValidated
<1>1. Init => EdgeInv
  BY DEF Init, EdgeInv
<1>2. EdgeInv /\ [Next]_vars => EdgeInv'
  BY EdgesStep
<1>3. EdgeInv => EveryEdgeValidated
  BY RouteFacts DEF EdgeInv, Arrived, Checked, EveryEdgeValidated, Edge
<1> QED
  BY <1>1, <1>2, <1>3, PTL DEF Spec

---------------------------------------------------------------------------
(* The replay windows.                                                     *)

SequencesOf(entries, k) == {x.sequence : x \in {y \in entries : y.key = k}}

(* The log of a node is of the keys its cache remembers, and the window of *)
(* a key is exact for what the log holds of it.                            *)
Logged(c, entries) ==
    /\ IsCache(c)
    /\ \A x \in entries : x.key \in Keys(c)
    /\ \A k \in Keys(c) : Exact(c.sequences[k], SequencesOf(entries, k))

ReplayInv ==
    /\ DOMAIN replay = Nodes /\ DOMAIN log = Nodes
    /\ \A n \in Nodes : Logged(replay[n], log[n])

LEMMA RetainKeepsLog ==
    ASSUME NEW c, NEW entries, Logged(c, entries), NEW es
    PROVE  LET d == RetainEpochs(c, es)
           IN  Logged(d, {x \in entries : x.key \in Keys(d)})
<1> DEFINE d == RetainEpochs(c, es)
           rest == {x \in entries : x.key \in Keys(d)}
<1>1. /\ IsCache(d) /\ Keys(d) \subseteq Keys(c)
      /\ \A k \in Keys(d) : d.sequences[k] = c.sequences[k]
  BY RetainWindows DEF Logged
<1> HIDE DEF d
<1>2. \A k \in Keys(d) : SequencesOf(rest, k) = SequencesOf(entries, k)
  BY DEF SequencesOf
<1> QED
  BY <1>1, <1>2 DEF Logged, d

(* The expiry of an epoch leaves the windows of the known epochs alone.    *)
LEMMA ExpiryKeepsLog ==
    ASSUME ReplayInv, NEW n \in Nodes
    PROVE  /\ Logged(ReplayAfterExpiry(n), LogAfter(n, ReplayAfterExpiry(n), {}))
           /\ \A k \in Keys(replay[n]) : k.topology_epoch \in KnownEpochs(n)
                                            => k \in Keys(ReplayAfterExpiry(n))
           /\ Keys(ReplayAfterExpiry(n)) \subseteq Keys(replay[n])
<1>1. Logged(replay[n], log[n])
  BY DEF ReplayInv
<1>2. \A c : LogAfter(n, c, {}) = {x \in log[n] : x.key \in Keys(c)}
  BY DEF LogAfter
<1>3. CASE ReplayAfterExpiry(n) = replay[n]
  <2>1. {x \in log[n] : x.key \in Keys(replay[n])} = log[n]
    BY <1>1 DEF Logged
  <2> QED
    BY <1>1, <1>2, <1>3, <2>1
<1>4. CASE ReplayAfterExpiry(n) = RetainEpochs(replay[n], KnownEpochs(n))
  <2>1. Keys(RetainEpochs(replay[n], KnownEpochs(n)))
           = {k \in Keys(replay[n]) : k.topology_epoch \in KnownEpochs(n)}
    BY <1>1, RetainWindows DEF Logged
  <2> QED
    BY <1>1, <1>2, <1>4, <2>1, RetainKeepsLog
<1> QED
  BY <1>3, <1>4 DEF ReplayAfterExpiry

LEMMA ObservedKeepsLog ==
    ASSUME ReplayInv, NEW n \in Nodes, NEW env, env.sequence \in Nat,
           env.topology_epoch \in KnownEpochs(n), Observed(n, env)
    PROVE  ReplayInv'
<1> DEFINE c == ReplayAfterExpiry(n)
           key == ReplayKey(env)
           s == env.sequence
           d == Observe(c, key, s)
           old == LogAfter(n, c, {})
           new == LogAfter(n, d, {[key |-> key, sequence |-> s]})
<1>1. /\ Accepts(c, key, s)
      /\ replay' = [replay EXCEPT ![n] = d]
      /\ log' = [log EXCEPT ![n] = LogAfter(n, replay'[n], {[key |-> key, sequence |-> s]})]
  BY DEF Observed
<1>2. /\ Logged(c, old) /\ Keys(c) \subseteq Keys(replay[n])
      /\ key \in Keys(replay[n]) => key \in Keys(c)
  <2>1. key.topology_epoch = env.topology_epoch
    BY DEF ReplayKey
  <2> QED
    BY <2>1, ExpiryKeepsLog
<1> HIDE DEF c, key, s
<1>3. /\ IsCache(d) /\ Keys(d) \subseteq Keys(c) \cup {key}
      /\ \A k \in Keys(d) : d.sequences[k] =
            IF k = key THEN NextWindow(c, key, s) ELSE c.sequences[k]
  BY <1>2, ObserveWindows DEF Logged
<1> HIDE DEF d
<1>4. \A x \in log[n] : x.key \in Keys(replay[n])
  BY DEF ReplayInv, Logged
<1>5. ASSUME NEW k \in Keys(c) PROVE SequencesOf(old, k) = SequencesOf(log[n], k)
  BY <1>5 DEF SequencesOf, LogAfter
<1>6. key \notin Keys(c) => SequencesOf(log[n], key) = {}
  BY <1>2, <1>4 DEF SequencesOf
<1>7. Exact(NextWindow(c, key, s), SequencesOf(log[n], key) \cup {s})
  <2>1. key \in Keys(c) => Exact(c.sequences[key], SequencesOf(log[n], key))
    BY <1>2, <1>5 DEF Logged
  <2>2. s \in Nat
    BY DEF s
  <2> QED
    BY <1>1, <1>6, <2>1, <2>2, NextWindowExact
<1>8. ASSUME NEW k \in Keys(d)
      PROVE  Exact(d.sequences[k], SequencesOf(new, k))
  <2>1. CASE k = key
    <3>1. SequencesOf(new, k) = SequencesOf(log[n], key) \cup {s}
      <4> DEFINE entry == [key |-> key, sequence |-> s]
      <4>1. entry.key = key /\ entry.sequence = s
        OBVIOUS
      <4> HIDE DEF entry
      <4>2. \A x : x \in new /\ x.key = key <=> (x \in log[n] /\ x.key = key) \/ x = entry
        BY <1>8, <2>1, <4>1 DEF LogAfter, entry
      <4> HIDE DEF new
      <4> QED
        BY <2>1, <4>1, <4>2 DEF SequencesOf
    <3> QED
      BY <1>3, <1>7, <2>1, <3>1
  <2>2. CASE k # key
    <3>1. SequencesOf(new, k) = SequencesOf(log[n], k)
      BY <2>2, <1>8 DEF SequencesOf, LogAfter
    <3>2. k \in Keys(c) /\ d.sequences[k] = c.sequences[k]
      BY <1>3, <2>2
    <3> QED
      BY <1>2, <1>5, <3>1, <3>2 DEF Logged
  <2> QED
    BY <2>1, <2>2
<1>9. Logged(d, new)
  BY <1>3, <1>8 DEF Logged, LogAfter
<1>10. /\ DOMAIN replay' = Nodes /\ DOMAIN log' = Nodes
       /\ replay'[n] = d /\ log'[n] = new
       /\ \A m \in Nodes \ {n} : replay'[m] = replay[m] /\ log'[m] = log[m]
  BY <1>1 DEF ReplayInv
<1> HIDE DEF new
<1> QED
  BY <1>9, <1>10 DEF ReplayInv

(* An envelope under way is at a node.                                     *)
LEMMA AtNode ==
    ASSUME EdgeInv, NEW h \in network
    PROVE  h.envelope \in Envelopes /\ h.to \in Nodes
<1>1. UnderWay(h, endorsed)
  BY DEF EdgeInv
<1>2. /\ h.envelope \in Envelopes /\ h.envelope.hop_index \in Nat
      /\ h.envelope.hop_index <= Len(h.envelope.path)
      /\ h.to = Route(h.envelope)[h.envelope.hop_index + 2]
  BY <1>1 DEF UnderWay, Envelopes
<1>3. /\ Route(h.envelope) \in Seq(Nodes) /\ Len(h.envelope.path) \in Nat
      /\ Len(Route(h.envelope)) = Len(h.envelope.path) + 2
  BY <1>2, RouteFacts
<1> QED
  BY <1>2, <1>3

LEMMA ReplayStep ==
    ASSUME EdgeInv, ReplayInv, [Next]_vars
    PROVE  ReplayInv'
<1>1. ASSUME NEW n \in Nodes, Expire(n) PROVE ReplayInv'
  <2> DEFINE c == ReplayAfterExpiry(n)
             rest == LogAfter(n, c, {})
  <2>1. replay' = [replay EXCEPT ![n] = c] /\ log' = [log EXCEPT ![n] = LogAfter(n, replay'[n], {})]
    BY <1>1 DEF Expire
  <2>2. Logged(c, rest)
    BY ExpiryKeepsLog
  <2> HIDE DEF c
  <2>3. /\ DOMAIN replay' = Nodes /\ DOMAIN log' = Nodes
        /\ replay'[n] = c /\ log'[n] = rest
        /\ \A m \in Nodes \ {n} : replay'[m] = replay[m] /\ log'[m] = log[m]
    BY <2>1 DEF ReplayInv
  <2> HIDE DEF rest
  <2> QED
    BY <2>2, <2>3 DEF ReplayInv
<1>2. ASSUME NEW n \in Nodes, NEW e \in Epochs, UpdateNeighborMap(n, e) PROVE ReplayInv'
  <2> DEFINE c == ReplayAfterExpiry(n)
             d == RetainEpochs(c, {e} \cup RetainedEpochs(RetainedAfter(n, e)))
             rest == LogAfter(n, d, {})
  <2>1. replay' = [replay EXCEPT ![n] = d] /\ log' = [log EXCEPT ![n] = LogAfter(n, replay'[n], {})]
    BY <1>2 DEF UpdateNeighborMap
  <2>2. Logged(c, LogAfter(n, c, {}))
    BY ExpiryKeepsLog
  <2>3. Keys(d) \subseteq Keys(c)
    BY <2>2, RetainWindows DEF Logged
  <2>4. Logged(d, {x \in LogAfter(n, c, {}) : x.key \in Keys(d)})
    BY <2>2, RetainKeepsLog
  <2> HIDE DEF c, d
  <2>5. {x \in LogAfter(n, c, {}) : x.key \in Keys(d)} = rest
    BY <2>3 DEF LogAfter
  <2>6. /\ DOMAIN replay' = Nodes /\ DOMAIN log' = Nodes
        /\ replay'[n] = d /\ log'[n] = rest
        /\ \A m \in Nodes \ {n} : replay'[m] = replay[m] /\ log'[m] = log[m]
    BY <2>1 DEF ReplayInv
  <2> HIDE DEF rest
  <2> QED
    BY <2>4, <2>5, <2>6 DEF ReplayInv
<1>3. ASSUME NEW p \in Paths, NEW id \in PathIds, NEW s \in 0..MaxSequence, Encapsulate(p, id, s)
      PROVE  ReplayInv'
  <2> DEFINE nodes == p.ordered_nodes
             env   == [topology_epoch |-> p.topology_epoch, path_id |-> id, sequence |-> s,
                       hop_index |-> 0, source |-> Head(nodes), destination |-> Last(nodes),
                       path |-> SubSeq(nodes, 2, Len(nodes) - 1)]
  <2>1. Head(nodes) \in Nodes /\ s \in Nat
    BY OverlayAssumption
  <2>2. Observed(Head(nodes), env) /\ p.topology_epoch \in KnownEpochs(Head(nodes))
    BY <1>3 DEF Encapsulate
  <2>3. env.sequence = s /\ env.topology_epoch = p.topology_epoch
    OBVIOUS
  <2> HIDE DEF env, nodes
  <2> QED
    BY <2>1, <2>2, <2>3, ObservedKeepsLog
<1>4. ASSUME NEW h \in network, Relay(h) \/ Deliver(h) PROVE ReplayInv'
  <2>1. h.envelope \in Envelopes /\ h.to \in Nodes
    BY AtNode
  <2>2. h.envelope.sequence \in Nat
    BY <2>1 DEF Envelopes
  <2>3. Observed(h.to, h.envelope) /\ h.envelope.topology_epoch \in KnownEpochs(h.to)
    BY <1>4 DEF Relay, Deliver
  <2> QED
    BY <2>1, <2>2, <2>3, ObservedKeepsLog
<1>5. CASE UNCHANGED <<replay, log>>
  BY <1>5 DEF ReplayInv
<1> QED
  BY <1>1, <1>2, <1>3, <1>4, <1>5 DEF Next, vars, Tick

(* ReplayWindow::observe at every node, through expiry, eviction, topology *)
(* changes back and forth, duplication and reordering: what a node has     *)
(* accepted under a key it remembers, it refuses.                          *)
THEOREM WindowsAcceptOnce == Spec => []NothingAcceptedTwice
<1>1. Init => EdgeInv /\ ReplayInv
  <2>1. Init => EdgeInv
    BY DEF Init, EdgeInv
  <2>2. Logged(EmptyCache, {})
    BY DEF Logged, EmptyCache, IsCache, Keys
  <2> HIDE DEF EmptyCache
  <2> QED
    BY <2>1, <2>2 DEF Init, ReplayInv
<1>2. EdgeInv /\ ReplayInv /\ [Next]_vars => EdgeInv' /\ ReplayInv'
  BY EdgesStep, ReplayStep
<1>3. ReplayInv => NothingAcceptedTwice
  <2> SUFFICES ASSUME ReplayInv, NEW n \in Nodes, NEW x \in log[n]
               PROVE  ~Accepts(replay[n], x.key, x.sequence)
    BY DEF NothingAcceptedTwice
  <2>1. x.key \in Keys(replay[n])
        /\ Exact(replay[n].sequences[x.key], SequencesOf(log[n], x.key))
    BY DEF ReplayInv, Logged
  <2>2. x.sequence \in SequencesOf(log[n], x.key)
    BY DEF SequencesOf
  <2> QED
    BY <2>1, <2>2, ExactRefuses
<1> QED
  BY <1>1, <1>2, <1>3, PTL DEF Spec

LEMMA MinMaxOfTwo ==
    ASSUME NEW a \in Int, NEW b \in Int
    PROVE  /\ Min({a, b}) = IF a <= b THEN a ELSE b
           /\ Max({a, b}) = IF a <= b THEN b ELSE a
<1>1. \E x \in {a, b} : \A y \in {a, b} : x <= y
  OBVIOUS
<1>2. \E x \in {a, b} : \A y \in {a, b} : x >= y
  OBVIOUS
<1>3. /\ Min({a, b}) \in {a, b} /\ \A y \in {a, b} : Min({a, b}) <= y
  BY <1>1, Zenon DEF Min
<1>4. /\ Max({a, b}) \in {a, b} /\ \A y \in {a, b} : Max({a, b}) >= y
  BY <1>2, Zenon DEF Max
<1> QED
  BY <1>3, <1>4

---------------------------------------------------------------------------
(* The retained maps.                                                      *)

Retentions == [epoch : Epochs, expires_at : Nat]
Departures == [epoch : Epochs, at : Nat]

(* The node left e for the last time with its i-th change.                 *)
LastLeft(tr, e, i) ==
    i \in DOMAIN tr /\ tr[i].epoch = e /\ \A j \in DOMAIN tr : j > i => tr[j].epoch # e

(* The other epochs left after the i-th change.                            *)
LeftAfter(tr, i) == {tr[j].epoch : j \in (i + 1)..Len(tr)} \ {tr[i].epoch}

Timely(tr, t) ==
    /\ tr \in Seq(Departures)
    /\ \A i \in DOMAIN tr : tr[i].at <= t
    /\ \A i, j \in DOMAIN tr : i <= j => tr[i].at <= tr[j].at

(* A queue holds maps in the order in which they were last left, each to   *)
(* the end of the grace that began then.                                   *)
Backed(q, tr) ==
    \A a \in DOMAIN q : \E i \in DOMAIN tr :
        LastLeft(tr, q[a].epoch, i) /\ q[a].expires_at = tr[i].at + Grace

InOrder(q, tr) ==
    \A a, b \in DOMAIN q : \A i, j \in DOMAIN tr :
        a < b /\ LastLeft(tr, q[a].epoch, i) /\ LastLeft(tr, q[b].epoch, j) => i < j

WellQueued(q, tr) == q \in Seq(Retentions) /\ Backed(q, tr) /\ InOrder(q, tr)

Holds(q, e) == \E a \in DOMAIN q : q[a].epoch = e

(* It still holds what was left within the grace and not crowded out.      *)
Keeps(q, tr, cur, t) ==
    \A i \in DOMAIN tr :
        /\ LastLeft(tr, tr[i].epoch, i)
        /\ tr[i].epoch # cur
        /\ t < tr[i].at + Grace
        /\ Cardinality(LeftAfter(tr, i)) < MaxRetained
        => Holds(q, tr[i].epoch)

Retains(q, tr, cur, t) ==
    /\ cur \in Epochs /\ t \in Nat
    /\ Timely(tr, t) /\ WellQueued(q, tr) /\ ~Holds(q, cur)
    /\ Len(q) <= MaxRetained
    /\ Keeps(q, tr, cur, t)

RetainInv ==
    /\ DOMAIN epoch = Nodes /\ DOMAIN retained = Nodes /\ DOMAIN trail = Nodes
    /\ \A n \in Nodes : Retains(retained[n], trail[n], epoch[n], now)

LEMMA LastLeftUnique ==
    ASSUME NEW tr, DOMAIN tr \subseteq Nat, NEW e, NEW i, NEW j, LastLeft(tr, e, i), LastLeft(tr, e, j)
    PROVE  i = j
<1>1. i \in Nat /\ j \in Nat /\ ~(j > i) /\ ~(i > j)
  BY DEF LastLeft
<1> QED
  BY <1>1

(* An epoch that was left was left for a last time.                        *)
LEMMA LastLeftExists ==
    ASSUME NEW tr \in Seq(Departures), NEW i \in DOMAIN tr
    PROVE  \E j \in DOMAIN tr : i <= j /\ LastLeft(tr, tr[i].epoch, j)
<1> DEFINE S == {k \in DOMAIN tr : tr[k].epoch = tr[i].epoch}
           n == Cardinality(S)
           m == Nth(S, n)
<1>1. DOMAIN tr = 1..Len(tr) /\ Len(tr) \in Nat
  OBVIOUS
<1>2. S \in SUBSET Nat /\ IsFiniteSet(S) /\ i \in S
  <2>1. S \in SUBSET (1..Len(tr)) /\ i \in S
    BY <1>1
  <2>2. IsFiniteSet(1..Len(tr))
    BY <1>1, FS_Interval
  <2> HIDE DEF S
  <2> QED
    BY <2>1, <2>2, FS_Subset
<1>3. \A k \in S : k \in DOMAIN tr /\ tr[k].epoch = tr[i].epoch
  OBVIOUS
<1>4. \A k \in DOMAIN tr : tr[k].epoch = tr[i].epoch => k \in S
  OBVIOUS
<1> HIDE DEF S
<1>5. n \in Nat /\ \A k \in S : Rank(S, k) \in 1..n
  BY <1>2, RankFacts
<1>6. n \in 1..n
  BY <1>2, <1>5
<1> HIDE DEF n
<1>7. m \in S /\ Rank(S, m) = n
  BY <1>2, <1>6, NthFacts DEF n
<1> HIDE DEF m
<1>8. ASSUME NEW k \in S, m < k
      PROVE  FALSE
  <2>1. Rank(S, m) < Rank(S, k)
    BY <1>2, <1>7, <1>8, RankFacts
  <2> QED
    BY <1>5, <1>7, <2>1
<1>9. m \in Nat /\ i \in Nat /\ \A k \in S : k \in Nat
  BY <1>2, <1>7
<1>10. i <= m
  BY <1>2, <1>8, <1>9
<1>11. LastLeft(tr, tr[i].epoch, m)
  BY <1>1, <1>3, <1>4, <1>7, <1>8, <1>9 DEF LastLeft
<1> QED
  BY <1>3, <1>7, <1>10, <1>11

(* The maps that stay in a queue keep their order.                         *)
LEMMA PickWellQueued ==
    ASSUME NEW q, NEW tr, WellQueued(q, tr), NEW I \in SUBSET DOMAIN q
    PROVE  /\ WellQueued(Pick(q, I), tr) /\ Len(Pick(q, I)) <= Len(q)
           /\ Len(Pick(q, I)) \in Nat /\ Len(q) \in Nat
           /\ \A e : Holds(Pick(q, I), e) <=> \E a \in I : q[a].epoch = e
<1> DEFINE p == Pick(q, I)
           n == Cardinality(I)
<1>1. /\ p \in Seq(Retentions) /\ Len(p) = n /\ n \in Nat /\ n <= Len(q)
      /\ \A j \in 1..n : p[j] = q[Nth(I, j)] /\ Nth(I, j) \in I
      /\ \A j, k \in 1..n : j < k <=> Nth(I, j) < Nth(I, k)
      /\ \A i \in I : \E j \in 1..n : p[j] = q[i]
  BY PickFacts DEF WellQueued
<1>2. DOMAIN p = 1..n
  BY <1>1
<1> HIDE DEF p, n
<1>3. Backed(p, tr)
  <2> SUFFICES ASSUME NEW a \in 1..n
               PROVE  \E i \in DOMAIN tr :
                         LastLeft(tr, p[a].epoch, i) /\ p[a].expires_at = tr[i].at + Grace
    BY <1>2 DEF Backed
  <2>1. p[a] = q[Nth(I, a)] /\ Nth(I, a) \in DOMAIN q
    BY <1>1
  <2> QED
    BY <2>1 DEF WellQueued, Backed
<1>4. InOrder(p, tr)
  <2> SUFFICES ASSUME NEW a \in 1..n, NEW b \in 1..n, NEW i \in DOMAIN tr, NEW j \in DOMAIN tr,
                      a < b, LastLeft(tr, p[a].epoch, i), LastLeft(tr, p[b].epoch, j)
               PROVE  i < j
    BY <1>2 DEF InOrder
  <2>1. Nth(I, a) \in DOMAIN q /\ Nth(I, b) \in DOMAIN q /\ Nth(I, a) < Nth(I, b)
        /\ p[a] = q[Nth(I, a)] /\ p[b] = q[Nth(I, b)]
    BY <1>1
  <2> QED
    BY <2>1 DEF WellQueued, InOrder
<1>5. \A e : Holds(p, e) <=> \E a \in I : q[a].epoch = e
  <2> TAKE e
  <2>1. ASSUME Holds(p, e) PROVE \E a \in I : q[a].epoch = e
    <3>1. PICK j \in 1..n : p[j].epoch = e
      BY <1>2, <2>1 DEF Holds
    <3> QED
      BY <1>1, <3>1
  <2>2. ASSUME NEW a \in I, q[a].epoch = e PROVE Holds(p, e)
    <3>1. PICK j \in 1..n : p[j] = q[a]
      BY <1>1
    <3> QED
      BY <1>2, <2>2, <3>1 DEF Holds
  <2> QED
    BY <2>1, <2>2
<1>6. Len(q) \in Nat
  BY DEF WellQueued
<1> QED
  BY <1>1, <1>3, <1>4, <1>5, <1>6 DEF WellQueued, p

(* Epochs of a queue are distinct.                                         *)
LEMMA QueuedOnce ==
    ASSUME NEW q, NEW tr, tr \in Seq(Departures), WellQueued(q, tr),
           NEW a \in DOMAIN q, NEW b \in DOMAIN q, a # b
    PROVE  q[a].epoch # q[b].epoch
<1>1. DOMAIN q \subseteq Nat /\ DOMAIN tr \subseteq Nat
  BY DEF WellQueued
<1>2. SUFFICES ASSUME q[a].epoch = q[b].epoch PROVE FALSE
  OBVIOUS
<1>3. PICK i \in DOMAIN tr : LastLeft(tr, q[a].epoch, i)
  BY DEF WellQueued, Backed
<1>4. a < b \/ b < a
  BY <1>1
<1>5. i < i
  BY <1>2, <1>3, <1>4 DEF WellQueued, InOrder
<1> QED
  BY <1>1, <1>5

UnexpiredAt(q, t) == Pick(q, {i \in DOMAIN q : t < q[i].expires_at})

(* expire_retained_neighbor_maps drops only what the grace no longer       *)
(* protects.                                                               *)
LEMMA ExpiryRetains ==
    ASSUME NEW q, NEW tr, NEW cur, NEW t, Retains(q, tr, cur, t)
    PROVE  /\ Retains(UnexpiredAt(q, t), tr, cur, t)
           /\ \A e : Holds(UnexpiredAt(q, t), e) => Holds(q, e)
<1> DEFINE I == {i \in DOMAIN q : t < q[i].expires_at}
           p == Pick(q, I)
<1>1. I \in SUBSET DOMAIN q /\ WellQueued(q, tr) /\ \A i \in DOMAIN q : i \in I <=> t < q[i].expires_at
  BY DEF Retains
<1> HIDE DEF I
<1>2. /\ WellQueued(p, tr) /\ Len(p) <= Len(q) /\ Len(p) \in Nat /\ Len(q) \in Nat
      /\ \A e : Holds(p, e) <=> \E a \in I : q[a].epoch = e
  BY <1>1, PickWellQueued
<1> HIDE DEF p
<1>3. \A e : Holds(p, e) => Holds(q, e)
  BY <1>1, <1>2 DEF Holds
<1>4. Len(p) <= MaxRetained
  BY <1>2, OverlayAssumption DEF Retains
<1>5. Keeps(p, tr, cur, t)
  <2> SUFFICES ASSUME NEW i \in DOMAIN tr, LastLeft(tr, tr[i].epoch, i), tr[i].epoch # cur,
                      t < tr[i].at + Grace, Cardinality(LeftAfter(tr, i)) < MaxRetained
               PROVE  Holds(p, tr[i].epoch)
    BY DEF Keeps
  <2>1. PICK a \in DOMAIN q : q[a].epoch = tr[i].epoch
    BY DEF Retains, Keeps, Holds
  <2>2. PICK j \in DOMAIN tr : LastLeft(tr, q[a].epoch, j) /\ q[a].expires_at = tr[j].at + Grace
    BY <1>1 DEF WellQueued, Backed
  <2>3. DOMAIN tr \subseteq Nat
    BY DEF Retains, Timely
  <2>4. i = j
    BY <2>1, <2>2, <2>3, LastLeftUnique
  <2> QED
    BY <1>1, <1>2, <2>1, <2>2, <2>4
<1>6. UnexpiredAt(q, t) = p
  BY DEF UnexpiredAt, p, I
<1> QED
  BY <1>2, <1>3, <1>4, <1>5, <1>6 DEF Retains

(* The epochs left later are finitely many.                                *)
LEMMA LeftAfterFinite ==
    ASSUME NEW tr \in Seq(Departures), NEW i \in DOMAIN tr
    PROVE  IsFiniteSet(LeftAfter(tr, i)) /\ Cardinality(LeftAfter(tr, i)) \in Nat
<1> DEFINE J == (i + 1)..Len(tr)
           A == {tr[j].epoch : j \in J}
<1>1. IsFiniteSet(J)
  BY FS_Interval
<1> HIDE DEF J
<1>2. IsFiniteSet(A)
  <2> DEFINE f == [j \in J |-> tr[j].epoch]
  <2>1. f \in Surjection(J, A)
    BY DEF Surjection
  <2> HIDE DEF f, A
  <2> QED
    BY <1>1, <2>1, FS_Surjection
<1>3. LeftAfter(tr, i) \in SUBSET A
  BY DEF LeftAfter, J
<1> HIDE DEF A
<1> QED
  BY <1>2, <1>3, FS_Subset, FS_CardinalityType

(* One more change: only the epoch left with it is left anew.              *)
LEMMA DepartureFacts ==
    ASSUME NEW tr, NEW t \in Nat, Timely(tr, t), NEW cur \in Epochs
    PROVE  LET tr2 == Append(tr, [epoch |-> cur, at |-> t])
               N   == Len(tr) + 1
           IN  /\ Timely(tr2, t)
               /\ N \in DOMAIN tr2 /\ tr2[N].at = t /\ DOMAIN tr2 = DOMAIN tr \cup {N}
               /\ \A i \in DOMAIN tr : i < N /\ tr2[i] = tr[i]
               /\ \A i : LastLeft(tr2, cur, i) <=> i = N
               /\ \A e, i : e # cur => (LastLeft(tr2, e, i) <=> LastLeft(tr, e, i))
               /\ \A i \in DOMAIN tr : LeftAfter(tr, i) \subseteq LeftAfter(tr2, i)
               /\ Len(tr2) = N /\ DOMAIN tr2 \subseteq Nat
<1> DEFINE r   == [epoch |-> cur, at |-> t]
           tr2 == Append(tr, r)
           N   == Len(tr) + 1
<1>1. /\ tr \in Seq(Departures) /\ DOMAIN tr = 1..Len(tr) /\ Len(tr) \in Nat
      /\ \A i \in DOMAIN tr : tr[i] \in Departures /\ tr[i].at \in Nat /\ tr[i].at <= t
      /\ \A i, j \in DOMAIN tr : i <= j => tr[i].at <= tr[j].at
  <2>1. tr \in Seq(Departures) /\ DOMAIN tr = 1..Len(tr) /\ Len(tr) \in Nat
    BY DEF Timely
  <2>2. \A i \in DOMAIN tr : tr[i] \in Departures
    BY <2>1
  <2>3. \A d \in Departures : d.at \in Nat
    BY DEF Departures
  <2> QED
    BY <2>1, <2>2, <2>3 DEF Timely
<1>2. r \in Departures /\ r.epoch = cur /\ r.at = t
  BY DEF Departures
<1> HIDE DEF r
<1>3. /\ tr2 \in Seq(Departures) /\ Len(tr2) = N /\ DOMAIN tr2 = 1..N /\ tr2[N] = r
      /\ \A i \in 1..Len(tr) : tr2[i] = tr[i]
  BY <1>1, <1>2
<1>4. N \in Nat /\ 1..N = 1..Len(tr) \cup {N} /\ \A i \in 1..Len(tr) : i < N /\ i \in Nat
  BY <1>1
<1> HIDE DEF tr2
<1>5. Timely(tr2, t)
  <2>1. \A i \in DOMAIN tr2 : tr2[i].at <= t /\ tr2[i].at \in Nat
    BY <1>1, <1>2, <1>3, <1>4
  <2>2. ASSUME NEW i \in DOMAIN tr2, NEW j \in DOMAIN tr2, i <= j
        PROVE  tr2[i].at <= tr2[j].at
    <3>1. CASE j = N
      BY <1>2, <1>3, <2>1, <3>1
    <3>2. CASE j # N
      <4>1. i \in DOMAIN tr /\ j \in DOMAIN tr
        BY <1>1, <1>3, <1>4, <2>2, <3>2
      <4> QED
        BY <1>1, <1>3, <2>2, <4>1
    <3> QED
      BY <3>1, <3>2
  <2> QED
    BY <1>3, <2>1, <2>2 DEF Timely
<1>6. \A i : LastLeft(tr2, cur, i) <=> i = N
  BY <1>1, <1>2, <1>3, <1>4 DEF LastLeft
<1>7. ASSUME NEW e, NEW i, e # cur
      PROVE  LastLeft(tr2, e, i) <=> LastLeft(tr, e, i)
  BY <1>1, <1>2, <1>3, <1>4, <1>7 DEF LastLeft
<1>8. ASSUME NEW i \in DOMAIN tr
      PROVE  LeftAfter(tr, i) \subseteq LeftAfter(tr2, i)
  <2> SUFFICES ASSUME NEW j \in (i + 1)..Len(tr), tr[j].epoch # tr[i].epoch
               PROVE  tr[j].epoch \in LeftAfter(tr2, i)
    BY DEF LeftAfter
  <2>1. j \in (i + 1)..N /\ j \in 1..Len(tr)
    BY <1>1
  <2>2. tr2[j] = tr[j] /\ tr2[i] = tr[i]
    BY <1>1, <1>3, <2>1
  <2> QED
    BY <1>3, <2>1, <2>2 DEF LeftAfter
<1> QED
  BY <1>1, <1>2, <1>3, <1>4, <1>5, <1>6, <1>7, <1>8 DEF tr2, r

(* The map that is replaced joins the queue as the one left last.          *)
LEMMA AppendWellQueued ==
    ASSUME NEW w, NEW tr, NEW t \in Nat, Timely(tr, t), WellQueued(w, tr),
           NEW cur \in Epochs, ~Holds(w, cur)
    PROVE  LET p == Append(w, [epoch |-> cur, expires_at |-> t + Grace])
           IN  /\ WellQueued(p, Append(tr, [epoch |-> cur, at |-> t]))
               /\ Len(p) = Len(w) + 1 /\ Len(w) \in Nat
               /\ p[Len(w) + 1].epoch = cur
               /\ \A x : Holds(p, x) <=> Holds(w, x) \/ x = cur
<1> DEFINE r   == [epoch |-> cur, expires_at |-> t + Grace]
           p   == Append(w, r)
           tr2 == Append(tr, [epoch |-> cur, at |-> t])
           N   == Len(tr) + 1
           M   == Len(w) + 1
<1>1. /\ w \in Seq(Retentions) /\ DOMAIN w = 1..Len(w) /\ Len(w) \in Nat
      /\ DOMAIN tr \subseteq Nat
  BY DEF WellQueued, Timely
<1>2. r \in Retentions /\ r.epoch = cur /\ r.expires_at = t + Grace
  BY OverlayAssumption DEF Retentions
<1>3. /\ N \in DOMAIN tr2 /\ tr2[N].at = t /\ DOMAIN tr2 = DOMAIN tr \cup {N}
      /\ \A i \in DOMAIN tr : i < N /\ tr2[i] = tr[i]
      /\ \A i : LastLeft(tr2, cur, i) <=> i = N
      /\ \A e, i : e # cur => (LastLeft(tr2, e, i) <=> LastLeft(tr, e, i))
  BY DepartureFacts
<1> HIDE DEF r, tr2, N
<1>4. /\ p \in Seq(Retentions) /\ Len(p) = M /\ DOMAIN p = 1..M /\ p[M] = r
      /\ \A a \in 1..Len(w) : p[a] = w[a]
  BY <1>1, <1>2
<1>5. M \in Nat /\ 1..M = 1..Len(w) \cup {M} /\ M \in 1..M /\ \A a \in 1..Len(w) : a < M /\ a \in Nat
  BY <1>1
<1> HIDE DEF p, M
<1>6. \A a \in 1..Len(w) : w[a].epoch # cur
  BY <1>1 DEF Holds
<1>7. Backed(p, tr2)
  <2> SUFFICES ASSUME NEW a \in 1..M
               PROVE  \E i \in DOMAIN tr2 :
                         LastLeft(tr2, p[a].epoch, i) /\ p[a].expires_at = tr2[i].at + Grace
    BY <1>4 DEF Backed
  <2>1. CASE a = M
    BY <1>2, <1>3, <1>4, <2>1
  <2>2. CASE a # M
    <3>1. a \in 1..Len(w) /\ p[a] = w[a] /\ w[a].epoch # cur
      BY <1>4, <1>5, <1>6, <2>2
    <3>2. PICK i \in DOMAIN tr : LastLeft(tr, w[a].epoch, i) /\ w[a].expires_at = tr[i].at + Grace
      BY <1>1, <3>1 DEF WellQueued, Backed
    <3> QED
      BY <1>3, <3>1, <3>2
  <2> QED
    BY <2>1, <2>2
<1>8. InOrder(p, tr2)
  <2> SUFFICES ASSUME NEW a \in 1..M, NEW b \in 1..M, NEW i \in DOMAIN tr2, NEW j \in DOMAIN tr2,
                      a < b, LastLeft(tr2, p[a].epoch, i), LastLeft(tr2, p[b].epoch, j)
               PROVE  i < j
    BY <1>4 DEF InOrder
  <2>1. a \in 1..Len(w)
    BY <1>1, <1>5
  <2>2. p[a] = w[a] /\ LastLeft(tr, w[a].epoch, i)
    BY <1>3, <1>4, <1>6, <2>1
  <2>3. i \in DOMAIN tr
    BY <2>2 DEF LastLeft
  <2>4. CASE b = M
    <3>1. j = N
      BY <1>2, <1>3, <1>4, <2>4
    <3> QED
      BY <1>3, <2>3, <3>1
  <2>5. CASE b # M
    <3>1. b \in 1..Len(w)
      BY <1>5, <2>5
    <3>2. p[b] = w[b] /\ LastLeft(tr, w[b].epoch, j)
      BY <1>3, <1>4, <1>6, <3>1
    <3>3. j \in DOMAIN tr
      BY <3>2 DEF LastLeft
    <3> QED
      BY <1>1, <2>1, <2>2, <2>3, <3>1, <3>2, <3>3 DEF WellQueued, InOrder
  <2> QED
    BY <2>4, <2>5
<1>9. \A x : Holds(p, x) <=> Holds(w, x) \/ x = cur
  <2>1. \A x : Holds(p, x) <=> \E a \in 1..M : p[a].epoch = x
    BY <1>4 DEF Holds
  <2>2. \A x : Holds(w, x) <=> \E a \in 1..Len(w) : w[a].epoch = x
    BY <1>1 DEF Holds
  <2> QED
    BY <1>2, <1>4, <1>5, <2>1, <2>2
<1> QED
  BY <1>1, <1>2, <1>4, <1>7, <1>8, <1>9 DEF WellQueued, p, tr2, r, M

(* A full queue loses its head.                                            *)
LEMMA TailWellQueued ==
    ASSUME NEW q, NEW tr, WellQueued(q, tr), q # <<>>
    PROVE  /\ WellQueued(Tail(q), tr) /\ Len(Tail(q)) = Len(q) - 1 /\ Len(q) \in Nat /\ Len(q) # 0
           /\ \A a \in DOMAIN q : a # 1 => Holds(Tail(q), q[a].epoch)
           /\ \A x : Holds(Tail(q), x) => Holds(q, x)
<1> DEFINE p == Tail(q)
           m == Len(q) - 1
<1>1. q \in Seq(Retentions) /\ Len(q) \in Nat /\ Len(q) # 0 /\ DOMAIN q = 1..Len(q)
  BY DEF WellQueued
<1>2. p \in Seq(Retentions) /\ Len(p) = m /\ \A a \in 1..m : p[a] = q[a + 1]
  BY <1>1
<1>3. m \in Nat /\ DOMAIN p = 1..m /\ \A a \in 1..m : a + 1 \in DOMAIN q /\ a \in Nat
  BY <1>1, <1>2
<1>4. \A a \in DOMAIN q : a # 1 => a - 1 \in 1..m /\ (a - 1) + 1 = a
  BY <1>1
<1> HIDE DEF p, m
<1>5. Backed(p, tr)
  <2> SUFFICES ASSUME NEW a \in 1..m
               PROVE  \E i \in DOMAIN tr :
                         LastLeft(tr, p[a].epoch, i) /\ p[a].expires_at = tr[i].at + Grace
    BY <1>3 DEF Backed
  <2>1. p[a] = q[a + 1] /\ a + 1 \in DOMAIN q
    BY <1>2, <1>3
  <2> QED
    BY <2>1 DEF WellQueued, Backed
<1>6. InOrder(p, tr)
  <2> SUFFICES ASSUME NEW a \in 1..m, NEW b \in 1..m, NEW i \in DOMAIN tr, NEW j \in DOMAIN tr,
                      a < b, LastLeft(tr, p[a].epoch, i), LastLeft(tr, p[b].epoch, j)
               PROVE  i < j
    BY <1>3 DEF InOrder
  <2>1. a + 1 \in DOMAIN q /\ b + 1 \in DOMAIN q /\ p[a] = q[a + 1] /\ p[b] = q[b + 1] /\ a + 1 < b + 1
    BY <1>2, <1>3
  <2> QED
    BY <2>1 DEF WellQueued, InOrder
<1>7. \A a \in DOMAIN q : a # 1 => Holds(p, q[a].epoch)
  BY <1>2, <1>3, <1>4 DEF Holds
<1>8. \A x : Holds(p, x) => Holds(q, x)
  BY <1>2, <1>3 DEF Holds
<1> QED
  BY <1>1, <1>2, <1>5, <1>6, <1>7, <1>8 DEF WellQueued, p, m

(* Every other map of a queue was left after its head was.                 *)
LEMMA HeadIsOldest ==
    ASSUME NEW q, NEW tr \in Seq(Departures), WellQueued(q, tr), q # <<>>,
           NEW i \in DOMAIN tr, LastLeft(tr, q[1].epoch, i)
    PROVE  Len(q) - 1 <= Cardinality(LeftAfter(tr, i))
<1> DEFINE J == 2..Len(q)
           f == [a \in J |-> q[a].epoch]
           L == LeftAfter(tr, i)
<1>1. /\ Len(q) \in Nat /\ Len(q) >= 1 /\ DOMAIN q = 1..Len(q) /\ 1 \in DOMAIN q
      /\ DOMAIN tr = 1..Len(tr) /\ Len(tr) \in Nat
  BY DEF WellQueued
<1>2. IsFiniteSet(J) /\ Cardinality(J) = Len(q) - 1
  <2>1. 2 \in Int /\ Len(q) \in Int
    BY <1>1
  <2>2. IsFiniteSet(2..Len(q)) /\ Cardinality(2..Len(q)) = IF 2 > Len(q) THEN 0 ELSE Len(q) - 2 + 1
    BY <2>1, FS_Interval
  <2> QED
    BY <1>1, <2>2
<1>3. \A a \in J : a \in DOMAIN q /\ 1 < a
  BY <1>1
<1>4. ASSUME NEW a \in J PROVE q[a].epoch \in L
  <2>1. PICK j \in DOMAIN tr : LastLeft(tr, q[a].epoch, j)
    BY <1>3 DEF WellQueued, Backed
  <2>2. i < j
    BY <1>1, <1>3, <2>1 DEF WellQueued, InOrder
  <2>3. j \in (i + 1)..Len(tr) /\ tr[j].epoch = q[a].epoch
    BY <1>1, <2>1, <2>2 DEF LastLeft
  <2>4. q[a].epoch # tr[i].epoch
    <3>1. tr[i].epoch = q[1].epoch
      BY DEF LastLeft
    <3> QED
      BY <1>1, <1>3, <3>1, QueuedOnce
  <2> QED
    BY <2>3, <2>4 DEF LeftAfter
<1>5. \A a, b \in J : q[a].epoch = q[b].epoch => a = b
  BY <1>3, QueuedOnce
<1>6. IsFiniteSet(L)
  BY LeftAfterFinite
<1> HIDE DEF L, J
<1>7. f \in Injection(J, L)
  <2>1. f \in [J -> L] /\ DOMAIN f = J /\ \A a, b \in J : f[a] = f[b] => a = b
    BY <1>4, <1>5
  <2> HIDE DEF f
  <2> QED
    BY <2>1 DEF Injection, IsInjective
<1>8. Cardinality(J) <= Cardinality(L)
  BY <1>6, <1>7, FS_Injection
<1> QED
  BY <1>2, <1>8 DEF L

(* update_neighbor_map keeps every epoch whose grace runs, unless it must  *)
(* make room for MaxRetained others left later.                            *)
LEMMA LeaveRetains ==
    ASSUME NEW q, NEW tr, NEW cur, NEW t, Retains(q, tr, cur, t), NEW e \in Epochs, e # cur
    PROVE  LET p == Append(Without(UnexpiredAt(q, t), {e, cur}),
                           [epoch |-> cur, expires_at |-> t + Grace])
           IN  Retains(IF Len(p) > MaxRetained THEN Tail(p) ELSE p,
                       Append(tr, [epoch |-> cur, at |-> t]), e, t)
<1> DEFINE u   == UnexpiredAt(q, t)
           I   == {a \in DOMAIN u : u[a].epoch \notin {e, cur}}
           w   == Pick(u, I)
           p   == Append(w, [epoch |-> cur, expires_at |-> t + Grace])
           p2  == IF Len(p) > MaxRetained THEN Tail(p) ELSE p
           tr2 == Append(tr, [epoch |-> cur, at |-> t])
           N   == Len(tr) + 1
<1>1. /\ cur \in Epochs /\ t \in Nat /\ MaxRetained \in Nat /\ MaxRetained >= 1
      /\ Timely(tr, t) /\ WellQueued(u, tr) /\ Len(u) <= MaxRetained /\ Keeps(u, tr, cur, t)
      /\ tr \in Seq(Departures)
  <2>1. Retains(u, tr, cur, t)
    BY ExpiryRetains
  <2> HIDE DEF u
  <2> QED
    BY <2>1, OverlayAssumption DEF Retains, Timely
<1> HIDE DEF u
<1>2. I \in SUBSET DOMAIN u /\ \A a \in DOMAIN u : a \in I <=> u[a].epoch \notin {e, cur}
  OBVIOUS
<1>3. w = Without(u, {e, cur})
  BY DEF Without
<1> HIDE DEF I
<1>4. /\ WellQueued(w, tr) /\ Len(w) <= Len(u) /\ Len(w) \in Nat /\ Len(u) \in Nat
      /\ \A x : Holds(w, x) <=> \E a \in I : u[a].epoch = x
  BY <1>1, <1>2, PickWellQueued
<1> HIDE DEF w
<1>5. \A x : Holds(w, x) <=> Holds(u, x) /\ x \notin {e, cur}
  BY <1>2, <1>4 DEF Holds
<1>6. /\ WellQueued(p, tr2) /\ Len(p) = Len(w) + 1 /\ p[Len(w) + 1].epoch = cur
      /\ \A x : Holds(p, x) <=> Holds(w, x) \/ x = cur
  BY <1>1, <1>4, <1>5, AppendWellQueued
<1>7. /\ Timely(tr2, t) /\ tr2 \in Seq(Departures)
      /\ N \in DOMAIN tr2 /\ tr2[N].at = t /\ DOMAIN tr2 = DOMAIN tr \cup {N}
      /\ \A i \in DOMAIN tr : i < N /\ tr2[i] = tr[i]
      /\ \A i : LastLeft(tr2, cur, i) <=> i = N
      /\ \A x, i : x # cur => (LastLeft(tr2, x, i) <=> LastLeft(tr, x, i))
      /\ \A i \in DOMAIN tr : LeftAfter(tr, i) \subseteq LeftAfter(tr2, i)
  BY <1>1, DepartureFacts DEF Timely
<1> HIDE DEF p, tr2, N
<1>8. Len(p) \in Nat /\ Len(p) >= 1 /\ Len(p) <= MaxRetained + 1 /\ p # <<>>
      /\ DOMAIN p = 1..Len(p) /\ Len(p) = Len(w) + 1
  <2>1. Len(p) \in Nat /\ Len(p) >= 1 /\ Len(p) <= MaxRetained + 1
    BY <1>1, <1>4, <1>6
  <2>2. p \in Seq(Retentions)
    BY <1>6 DEF WellQueued
  <2> QED
    BY <1>6, <2>1, <2>2
<1>9. /\ WellQueued(Tail(p), tr2) /\ Len(Tail(p)) = Len(p) - 1
      /\ \A a \in DOMAIN p : a # 1 => Holds(Tail(p), p[a].epoch)
      /\ \A x : Holds(Tail(p), x) => Holds(p, x)
  BY <1>6, <1>8, TailWellQueued
<1>10. WellQueued(p2, tr2) /\ Len(p2) <= MaxRetained
  BY <1>1, <1>6, <1>8, <1>9
<1>11. ~Holds(p2, e)
  <2>1. ~Holds(p, e)
    BY <1>5, <1>6
  <2> QED
    BY <1>9, <2>1
<1>12. ASSUME NEW x, Holds(p, x), ~Holds(p2, x)
       PROVE  x # cur /\ x = p[1].epoch /\ Len(p) > MaxRetained
  <2>1. Len(p) > MaxRetained /\ ~Holds(Tail(p), x)
    BY <1>12
  <2>2. PICK a \in DOMAIN p : p[a].epoch = x
    BY <1>12 DEF Holds
  <2>3. a = 1
    BY <1>9, <2>1, <2>2
  <2>4. Len(p) # 1 /\ Len(p) \in DOMAIN p
    BY <1>1, <1>8, <2>1
  <2>5. Holds(Tail(p), cur)
    BY <1>6, <1>8, <1>9, <2>4
  <2> QED
    BY <2>1, <2>2, <2>3, <2>5
<1> HIDE DEF p2
<1>13. Keeps(p2, tr2, e, t)
  <2> SUFFICES ASSUME NEW i \in DOMAIN tr2, LastLeft(tr2, tr2[i].epoch, i), tr2[i].epoch # e,
                      t < tr2[i].at + Grace, Cardinality(LeftAfter(tr2, i)) < MaxRetained
               PROVE  Holds(p2, tr2[i].epoch)
    BY DEF Keeps
  <2> DEFINE x == tr2[i].epoch
  <2>1. Cardinality(LeftAfter(tr2, i)) \in Nat /\ IsFiniteSet(LeftAfter(tr2, i))
    BY <1>7, LeftAfterFinite
  <2>2. Holds(p, x)
    <3>1. CASE x = cur
      BY <1>6, <3>1
    <3>2. CASE x # cur
      <4>1. LastLeft(tr, x, i)
        BY <1>7, <3>2
      <4>2. i \in DOMAIN tr /\ tr[i] = tr2[i]
        BY <1>7, <4>1 DEF LastLeft
      <4>3. Cardinality(LeftAfter(tr, i)) < MaxRetained
        <5> DEFINE A == LeftAfter(tr, i)
                   B == LeftAfter(tr2, i)
        <5>1. A \in SUBSET B
          BY <1>7, <4>2
        <5>2. IsFiniteSet(B) /\ Cardinality(B) \in Nat /\ Cardinality(B) < MaxRetained
          BY <2>1
        <5>3. Cardinality(A) \in Nat
          BY <1>1, <4>2, LeftAfterFinite
        <5> HIDE DEF A, B
        <5>4. Cardinality(A) <= Cardinality(B)
          BY <5>1, <5>2, FS_Subset
        <5>5. Cardinality(A) < MaxRetained
          BY <1>1, <5>2, <5>3, <5>4
        <5> QED
          BY <5>5 DEF A
      <4>4. Holds(u, x)
        BY <1>1, <3>2, <4>1, <4>2, <4>3 DEF Keeps
      <4> QED
        BY <1>5, <1>6, <3>2, <4>4
    <3> QED
      BY <3>1, <3>2
  <2>3. ASSUME ~Holds(p2, x)
        PROVE  FALSE
    <3>1. x = p[1].epoch /\ Len(p) > MaxRetained
      BY <1>12, <2>2, <2>3
    <3>2. Len(p) - 1 <= Cardinality(LeftAfter(tr2, i))
      BY <1>6, <1>7, <1>8, <3>1, HeadIsOldest
    <3> QED
      BY <1>1, <1>8, <2>1, <3>1, <3>2
  <2> QED
    BY <2>3
<1>14. Retains(p2, tr2, e, t)
  BY <1>1, <1>7, <1>10, <1>11, <1>13 DEF Retains
<1> QED
  BY <1>3, <1>14 DEF p, p2, tr2, u

LEMMA UnexpiredIs == ASSUME NEW n PROVE Unexpired(n) = UnexpiredAt(retained[n], now)
  BY DEF Unexpired, UnexpiredAt

(* A call that only expires maps.                                          *)
LEMMA ExpiringKeepsRetained ==
    ASSUME RetainInv, NEW n \in Nodes, retained' = [retained EXCEPT ![n] = Unexpired(n)],
           UNCHANGED <<now, epoch, trail>>
    PROVE  RetainInv'
<1>1. Retains(Unexpired(n), trail[n], epoch[n], now)
  BY ExpiryRetains, UnexpiredIs DEF RetainInv
<1>2. /\ DOMAIN retained' = Nodes /\ retained'[n] = Unexpired(n)
      /\ \A m \in Nodes \ {n} : retained'[m] = retained[m]
  BY DEF RetainInv
<1> QED
  BY <1>1, <1>2 DEF RetainInv

LEMMA UpdateKeepsRetained ==
    ASSUME RetainInv, NEW n \in Nodes, NEW e \in Epochs, UpdateNeighborMap(n, e)
    PROVE  RetainInv'
<1> DEFINE tr2 == Append(trail[n], [epoch |-> epoch[n], at |-> now])
<1>1. /\ e # epoch[n] /\ now' = now
      /\ retained' = [retained EXCEPT ![n] = RetainedAfter(n, e)]
      /\ epoch' = [epoch EXCEPT ![n] = e]
      /\ trail' = [trail EXCEPT ![n] = tr2]
  BY DEF UpdateNeighborMap
<1>2. Retains(RetainedAfter(n, e), tr2, e, now)
  <2>1. Retains(retained[n], trail[n], epoch[n], now)
    BY DEF RetainInv
  <2> QED
    BY <1>1, <2>1, LeaveRetains, UnexpiredIs DEF RetainedAfter
<1> HIDE DEF tr2
<1>3. /\ DOMAIN retained' = Nodes /\ DOMAIN epoch' = Nodes /\ DOMAIN trail' = Nodes
      /\ retained'[n] = RetainedAfter(n, e) /\ epoch'[n] = e /\ trail'[n] = tr2
      /\ \A m \in Nodes \ {n} :
            retained'[m] = retained[m] /\ epoch'[m] = epoch[m] /\ trail'[m] = trail[m]
  BY <1>1 DEF RetainInv
<1> QED
  BY <1>1, <1>2, <1>3 DEF RetainInv

(* Time only takes from what must be kept.                                 *)
LEMMA TickKeepsRetained ==
    ASSUME RetainInv, Tick
    PROVE  RetainInv'
<1>1. now' = now + 1 /\ UNCHANGED <<epoch, retained, trail>>
  BY DEF Tick
<1> SUFFICES ASSUME NEW n \in Nodes
             PROVE  Retains(retained[n], trail[n], epoch[n], now + 1)
  BY <1>1 DEF RetainInv
<1> DEFINE q == retained[n]
           tr == trail[n]
           cur == epoch[n]
<1>2. Retains(q, tr, cur, now)
  BY DEF RetainInv
<1> HIDE DEF q, tr, cur
<1>3. now \in Nat /\ Grace \in Nat /\ \A i \in DOMAIN tr : tr[i].at \in Nat
  <2>1. tr \in Seq(Departures) /\ now \in Nat /\ Grace \in Nat
    BY <1>2, OverlayAssumption DEF Retains, Timely
  <2>2. \A i \in DOMAIN tr : tr[i] \in Departures
    BY <2>1
  <2> QED
    BY <2>1, <2>2 DEF Departures
<1>4. Timely(tr, now + 1)
  BY <1>2, <1>3 DEF Retains, Timely
<1>5. Keeps(q, tr, cur, now + 1)
  <2>1. \A i \in DOMAIN tr : now + 1 < tr[i].at + Grace => now < tr[i].at + Grace
    BY <1>3
  <2> QED
    BY <1>2, <2>1 DEF Retains, Keeps
<1> QED
  BY <1>2, <1>3, <1>4, <1>5 DEF Retains, q, tr, cur

LEMMA RetainStep == EdgeInv /\ RetainInv /\ [Next]_vars => RetainInv'
<1> SUFFICES ASSUME EdgeInv, RetainInv, [Next]_vars PROVE RetainInv'
  OBVIOUS
<1>1. ASSUME NEW n \in Nodes, Expire(n) PROVE RetainInv'
  BY <1>1, ExpiringKeepsRetained DEF Expire
<1>2. ASSUME NEW p \in Paths, NEW id \in PathIds, NEW s \in 0..MaxSequence, Encapsulate(p, id, s)
      PROVE  RetainInv'
  <2>1. Head(p.ordered_nodes) \in Nodes
    BY OverlayAssumption
  <2>2. /\ retained' = [retained EXCEPT ![Head(p.ordered_nodes)] = Unexpired(Head(p.ordered_nodes))]
        /\ UNCHANGED <<now, epoch, trail>>
    BY <1>2 DEF Encapsulate, Observed
  <2> QED
    BY <2>1, <2>2, ExpiringKeepsRetained
<1>3. ASSUME NEW h \in network, Relay(h) \/ Deliver(h) PROVE RetainInv'
  <2>1. h.to \in Nodes
    BY AtNode
  <2>2. retained' = [retained EXCEPT ![h.to] = Unexpired(h.to)] /\ UNCHANGED <<now, epoch, trail>>
    BY <1>3 DEF Relay, Deliver, Observed
  <2> QED
    BY <2>1, <2>2, ExpiringKeepsRetained
<1>4. CASE UNCHANGED <<now, epoch, retained, trail>>
  BY <1>4 DEF RetainInv
<1> QED
  BY <1>1, <1>2, <1>3, <1>4, UpdateKeepsRetained, TickKeepsRetained DEF Next, vars

LEMMA RetainInitially == Init => RetainInv
<1> SUFFICES ASSUME Init, NEW n \in Nodes
             PROVE  Retains(<<>>, <<>>, FirstEpoch, 0)
  BY DEF Init, RetainInv
<1>1. Timely(<<>>, 0) /\ WellQueued(<<>>, <<>>)
  BY DEF Timely, WellQueued, Backed, InOrder
<1> QED
  BY <1>1, OverlayAssumption DEF Retains, Keeps, Holds

(* update_neighbor_map and expire_retained_neighbor_maps: through any      *)
(* sequence of topology changes, an epoch a node left stays usable for the *)
(* whole grace unless MaxRetained others were left after it.               *)
THEOREM GraceIsHonoured == Spec => []GraceHonoured
<1>1. ASSUME RetainInv PROVE GraceHonoured
  <2> SUFFICES ASSUME NEW n \in Nodes, NEW i \in DOMAIN trail[n], now < trail[n][i].at + Grace,
                      Cardinality(LeftAfter(trail[n], i)) < MaxRetained
               PROVE  trail[n][i].epoch \in KnownEpochs(n)
    BY DEF GraceHonoured, LeftAfter
  <2> DEFINE tr == trail[n]
             x  == tr[i].epoch
             u  == Unexpired(n)
  <2>1. Retains(u, tr, epoch[n], now)
    BY <1>1, ExpiryRetains, UnexpiredIs DEF RetainInv
  <2> HIDE DEF u
  <2>2. Timely(tr, now) /\ tr \in Seq(Departures) /\ now \in Nat /\ Grace \in Nat /\ MaxRetained \in Nat
    BY <2>1, OverlayAssumption DEF Retains, Timely
  <2>3. PICK j \in DOMAIN tr : i <= j /\ LastLeft(tr, x, j)
    BY <2>2, LastLeftExists
  <2>4. tr[i].at \in Nat /\ tr[j].at \in Nat /\ tr[i].at <= tr[j].at /\ tr[j].epoch = x
    <3>1. tr[i] \in Departures /\ tr[j] \in Departures
      BY <2>2
    <3> QED
      BY <2>2, <2>3, <3>1 DEF Timely, Departures, LastLeft
  <2>5. Cardinality(LeftAfter(tr, j)) < MaxRetained
    <3> DEFINE A == LeftAfter(tr, j)
               B == LeftAfter(tr, i)
    <3>1. IsFiniteSet(B) /\ Cardinality(B) \in Nat /\ Cardinality(A) \in Nat
      BY <2>2, LeftAfterFinite
    <3>2. A \in SUBSET B
      <4>1. \A k \in (j + 1)..Len(tr) : k \in (i + 1)..Len(tr)
        BY <2>2, <2>3
      <4> QED
        BY <2>4, <4>1 DEF LeftAfter
    <3>3. Cardinality(B) < MaxRetained
      OBVIOUS
    <3> HIDE DEF A, B
    <3>4. Cardinality(A) <= Cardinality(B)
      BY <3>1, <3>2, FS_Subset
    <3>5. Cardinality(A) < MaxRetained
      BY <2>2, <3>1, <3>3, <3>4
    <3> QED
      BY <3>5 DEF A
  <2>6. now < tr[j].at + Grace
    BY <2>2, <2>4
  <2>7. x # epoch[n] => Holds(u, x)
    BY <2>1, <2>3, <2>4, <2>5, <2>6 DEF Retains, Keeps
  <2> QED
    BY <2>7 DEF KnownEpochs, RetainedEpochs, Holds, u
<1>2. Init => EdgeInv
  BY DEF Init, EdgeInv
<1>3. EdgeInv /\ [Next]_vars => EdgeInv'
  BY EdgesStep
<1> QED
  BY <1>1, <1>2, <1>3, RetainInitially, RetainStep, PTL DEF Spec

CacheKeys == [topology_epoch : Epochs, source : Nodes, path_id : PathIds]

(* The cache of a node is bounded, its queue tracks its keys, and its keys *)
(* are of the epochs es.                                                   *)
CacheWithin(c, es) ==
    Sound(c, CacheKeys) /\ Bounded(c) /\ \A k \in Keys(c) : k.topology_epoch \in es

BoundInv ==
    \A n \in Nodes : CacheWithin(replay[n], {epoch[n]} \cup RetainedEpochs(retained[n]))

LEMMA RetainWithin ==
    ASSUME NEW c, Sound(c, CacheKeys), Bounded(c), NEW es
    PROVE  CacheWithin(RetainEpochs(c, es), es)
<1>1. IsCache(c)
  BY DEF Sound
<1>2. \A k \in Keys(RetainEpochs(c, es)) : k.topology_epoch \in es
  BY <1>1, RetainWindows
<1>3. Sound(RetainEpochs(c, es), CacheKeys) /\ Bounded(RetainEpochs(c, es))
  BY RetainSound
<1> QED
  BY <1>2, <1>3 DEF CacheWithin

LEMMA ExpiryWithin ==
    ASSUME BoundInv, NEW n \in Nodes
    PROVE  CacheWithin(ReplayAfterExpiry(n), KnownEpochs(n))
<1>1. CacheWithin(replay[n], {epoch[n]} \cup RetainedEpochs(retained[n]))
  BY DEF BoundInv
<1>2. CASE Unexpired(n) = retained[n]
  BY <1>1, <1>2 DEF ReplayAfterExpiry, KnownEpochs
<1>3. CASE Unexpired(n) # retained[n]
  BY <1>1, <1>3, RetainWithin DEF ReplayAfterExpiry, CacheWithin
<1> QED
  BY <1>2, <1>3

LEMMA ObservedWithin ==
    ASSUME ReplayInv, BoundInv, NEW n \in Nodes, NEW env \in Envelopes,
           DOMAIN retained = Nodes, UNCHANGED epoch,
           env.topology_epoch \in KnownEpochs(n), Observed(n, env)
    PROVE  BoundInv'
<1> DEFINE c == ReplayAfterExpiry(n)
           key == ReplayKey(env)
           s == env.sequence
           d == Observe(c, key, s)
           es == KnownEpochs(n)
<1>1. /\ Accepts(c, key, s)
      /\ replay' = [replay EXCEPT ![n] = d]
      /\ retained' = [retained EXCEPT ![n] = Unexpired(n)]
  BY DEF Observed
<1>2. CacheWithin(c, es)
  BY ExpiryWithin
<1>3. \A k \in Keys(c) : c.sequences[k] \in WindowRecord
  BY ExpiryKeepsLog DEF Logged, Exact
<1>4. key \in CacheKeys /\ key.topology_epoch \in es /\ s \in Nat
  BY DEF ReplayKey, CacheKeys, Envelopes
<1>5. es = {epoch[n]} \cup RetainedEpochs(Unexpired(n))
  BY DEF KnownEpochs
<1> HIDE DEF c, key, s, es
<1>6. Sound(d, CacheKeys) /\ Bounded(d)
  BY <1>1, <1>2, <1>3, <1>4, ObserveSound DEF CacheWithin
<1>7. Keys(d) \subseteq Keys(c) \cup {key}
  BY <1>2, ObserveWindows DEF CacheWithin, Sound
<1> HIDE DEF d
<1>8. CacheWithin(d, es)
  BY <1>2, <1>4, <1>6, <1>7 DEF CacheWithin
<1>9. /\ replay'[n] = d /\ retained'[n] = Unexpired(n)
      /\ \A m \in Nodes \ {n} : replay'[m] = replay[m] /\ retained'[m] = retained[m]
  BY <1>1 DEF ReplayInv
<1> QED
  BY <1>5, <1>8, <1>9 DEF BoundInv

LEMMA BoundStep ==
    ASSUME EdgeInv, ReplayInv, RetainInv, BoundInv, [Next]_vars
    PROVE  BoundInv'
<1>1. ASSUME NEW n \in Nodes, Expire(n) PROVE BoundInv'
  <2>1. CacheWithin(ReplayAfterExpiry(n), {epoch[n]} \cup RetainedEpochs(Unexpired(n)))
    BY ExpiryWithin DEF KnownEpochs
  <2>2. /\ replay'[n] = ReplayAfterExpiry(n) /\ retained'[n] = Unexpired(n) /\ epoch' = epoch
        /\ \A m \in Nodes \ {n} : replay'[m] = replay[m] /\ retained'[m] = retained[m]
    BY <1>1 DEF Expire, ReplayInv, RetainInv
  <2> QED
    BY <2>1, <2>2 DEF BoundInv
<1>2. ASSUME NEW n \in Nodes, NEW e \in Epochs, UpdateNeighborMap(n, e) PROVE BoundInv'
  <2> DEFINE es == {e} \cup RetainedEpochs(RetainedAfter(n, e))
             d  == RetainEpochs(ReplayAfterExpiry(n), es)
  <2>1. CacheWithin(d, es)
    BY ExpiryWithin, RetainWithin DEF CacheWithin
  <2>2. /\ replay'[n] = d /\ retained'[n] = RetainedAfter(n, e) /\ epoch'[n] = e
        /\ \A m \in Nodes \ {n} : /\ replay'[m] = replay[m] /\ retained'[m] = retained[m]
                                  /\ epoch'[m] = epoch[m]
    BY <1>2 DEF UpdateNeighborMap, ReplayInv, RetainInv
  <2> HIDE DEF d
  <2> QED
    BY <2>1, <2>2 DEF BoundInv
<1>3. ASSUME NEW p \in Paths, NEW id \in PathIds, NEW s \in 0..MaxSequence, Encapsulate(p, id, s)
      PROVE  BoundInv'
  <2> DEFINE nodes == p.ordered_nodes
             env   == [topology_epoch |-> p.topology_epoch, path_id |-> id, sequence |-> s,
                       hop_index |-> 0, source |-> Head(nodes), destination |-> Last(nodes),
                       path |-> SubSeq(nodes, 2, Len(nodes) - 1)]
  <2>1. /\ nodes \in Seq(Nodes) /\ Len(nodes) \in Nat /\ Len(nodes) >= 2 /\ p.topology_epoch \in Epochs
        /\ MaxSequence \in Nat
    BY OverlayAssumption
  <2>2. Head(nodes) \in Nodes /\ Last(nodes) \in Nodes /\ SubSeq(nodes, 2, Len(nodes) - 1) \in Seq(Nodes)
    BY <2>1 DEF Last
  <2>3. Observed(Head(nodes), env) /\ p.topology_epoch \in KnownEpochs(Head(nodes)) /\ epoch' = epoch
    BY <1>3 DEF Encapsulate
  <2>4. env \in Envelopes /\ env.topology_epoch = p.topology_epoch
    BY <2>1, <2>2 DEF Envelopes
  <2> HIDE DEF env, nodes
  <2> QED
    BY <2>2, <2>3, <2>4, ObservedWithin DEF RetainInv
<1>4. ASSUME NEW h \in network, Relay(h) \/ Deliver(h) PROVE BoundInv'
  <2>1. h.envelope \in Envelopes /\ h.to \in Nodes
    BY AtNode
  <2>2. Observed(h.to, h.envelope) /\ h.envelope.topology_epoch \in KnownEpochs(h.to) /\ epoch' = epoch
    BY <1>4 DEF Relay, Deliver
  <2> QED
    BY <2>1, <2>2, ObservedWithin DEF RetainInv
<1>5. CASE UNCHANGED <<replay, retained, epoch>>
  BY <1>5 DEF BoundInv
<1> QED
  BY <1>1, <1>2, <1>3, <1>4, <1>5 DEF Next, vars, Tick

(* A queue holds no epoch twice and not the current one.                   *)
LEMMA RetainedOnce ==
    ASSUME NEW q, NEW tr, NEW cur, NEW t, Retains(q, tr, cur, t)
    PROVE  IsInjective(<<cur>> \o [i \in DOMAIN q |-> q[i].epoch])
<1> DEFINE L == Len(q)
           f == [i \in DOMAIN q |-> q[i].epoch]
           s == <<cur>> \o f
<1>1. /\ q \in Seq(Retentions) /\ DOMAIN q = 1..L /\ L \in Nat /\ cur \in Epochs
      /\ \A a \in DOMAIN q : q[a] \in Retentions /\ q[a].epoch # cur
      /\ \A a, b \in DOMAIN q : a # b => q[a].epoch # q[b].epoch
  <2>1. /\ q \in Seq(Retentions) /\ tr \in Seq(Departures) /\ WellQueued(q, tr) /\ cur \in Epochs
        /\ \A a \in DOMAIN q : q[a].epoch # cur
    BY DEF Retains, WellQueued, Timely, Holds
  <2>2. \A a, b \in DOMAIN q : a # b => q[a].epoch # q[b].epoch
    BY <2>1, QueuedOnce
  <2> QED
    BY <2>1, <2>2
<1>2. f \in Seq(Epochs) /\ Len(f) = L
  BY <1>1 DEF Retentions
<1>3. \A a \in 1..L : f[a] = q[a].epoch
  BY <1>1
<1> HIDE DEF f
<1>4. /\ s \in Seq(Epochs) /\ Len(s) = L + 1 /\ DOMAIN s = 1..(L + 1) /\ s[1] = cur
      /\ \A a \in 2..(L + 1) : s[a] = f[a - 1]
  BY <1>1, <1>2
<1>5. \A a \in 1..(L + 1) : a # 1 => a \in 2..(L + 1) /\ a - 1 \in 1..L
  BY <1>1
<1> HIDE DEF s, L
<1>6. ASSUME NEW a \in DOMAIN s, NEW b \in DOMAIN s, s[a] = s[b], a # b
      PROVE  FALSE
  <2>1. CASE a = 1
    BY <1>1, <1>3, <1>4, <1>5, <1>6, <2>1
  <2>2. CASE b = 1
    BY <1>1, <1>3, <1>4, <1>5, <1>6, <2>2
  <2>3. CASE a # 1 /\ b # 1
    <3>1. a - 1 \in DOMAIN q /\ b - 1 \in DOMAIN q /\ a - 1 # b - 1
      BY <1>1, <1>4, <1>5, <1>6, <2>3
    <3>2. q[a - 1].epoch = q[b - 1].epoch
      BY <1>1, <1>3, <1>4, <1>5, <1>6, <2>3
    <3> QED
      BY <1>1, <3>1, <3>2
  <2> QED
    BY <2>1, <2>2, <2>3
<1>7. IsInjective(s)
  BY <1>6 DEF IsInjective
<1> QED
  BY <1>7 DEF s, f

(* The replay state of every engine follows its epochs and stays within    *)
(* the capacity, and the queue of maps within its limit, for any of them.  *)
THEOREM ReplayStateStaysBounded == Spec => []ReplayStateBounded
<1>1. Init => EdgeInv /\ ReplayInv /\ BoundInv
  <2> SUFFICES ASSUME Init PROVE EdgeInv /\ ReplayInv /\ BoundInv
    OBVIOUS
  <2>1. EdgeInv
    BY DEF Init, EdgeInv
  <2>2. Logged(EmptyCache, {}) /\ Keys(EmptyCache) = {}
    BY EmptySound DEF Logged, Sound
  <2> HIDE DEF EmptyCache
  <2>3. ReplayInv
    BY <2>2 DEF Init, ReplayInv
  <2>4. BoundInv
    BY EmptySound DEF Init, BoundInv, CacheWithin
  <2> QED
    BY <2>1, <2>3, <2>4
<1>2. ASSUME EdgeInv, ReplayInv, RetainInv, BoundInv, [Next]_vars
      PROVE  EdgeInv' /\ ReplayInv' /\ RetainInv' /\ BoundInv'
  BY <1>2, EdgesStep, ReplayStep, RetainStep, BoundStep
<1>3. ASSUME RetainInv, BoundInv PROVE ReplayStateBounded
  <2> SUFFICES ASSUME NEW n \in Nodes
               PROVE  /\ \A k \in Keys(replay[n]) :
                            k.topology_epoch \in {epoch[n]} \cup RetainedEpochs(retained[n])
                      /\ Cardinality(Keys(replay[n])) <= Capacity
                      /\ Len(retained[n]) <= MaxRetained
                      /\ IsInjective(<<epoch[n]>> \o [i \in DOMAIN retained[n] |-> retained[n][i].epoch])
    BY DEF ReplayStateBounded
  <2>1. Retains(retained[n], trail[n], epoch[n], now)
    BY <1>3 DEF RetainInv
  <2>2. CacheWithin(replay[n], {epoch[n]} \cup RetainedEpochs(retained[n]))
    BY <1>3 DEF BoundInv
  <2>3. Len(retained[n]) <= MaxRetained
    BY <2>1 DEF Retains
  <2> QED
    BY <2>1, <2>2, <2>3, RetainedOnce DEF CacheWithin, Bounded
<1> QED
  BY <1>1, <1>2, <1>3, RetainInitially, PTL DEF Spec

---------------------------------------------------------------------------
(* Leases on paths: what each operation leaves of them.                    *)

LeaseFields == {"paths", "lru", "used"}
PathFields == {"epochs", "vpn", "routes"}

IsLease(s) == DOMAIN s = LeaseFields /\ \A p \in DOMAIN s.paths : DOMAIN s.paths[p] = PathFields

LEMMA OmitFacts ==
    ASSUME NEW f, NEW ks
    PROVE  /\ DOMAIN Omit(f, ks) = DOMAIN f \ ks
           /\ \A x \in DOMAIN Omit(f, ks) : Omit(f, ks)[x] = f[x]
  BY DEF Omit, Restrict

LEMMA RemovePeersFacts ==
    ASSUME NEW s, IsLease(s), NEW ps
    PROVE  LET t == RemovePeers(s, ps)
           IN  /\ IsLease(t) /\ DOMAIN t.paths = DOMAIN s.paths \ ps
               /\ \A p \in DOMAIN t.paths : t.paths[p] = s.paths[p]
               /\ t.lru = {e \in s.lru : e.peer \notin ps} /\ t.used = s.used
<1> DEFINE kept == Omit(s.paths, ps)
           t == RemovePeers(s, ps)
<1>1. DOMAIN kept = DOMAIN s.paths \ ps /\ \A p \in DOMAIN kept : kept[p] = s.paths[p]
  BY OmitFacts
<1>2. t = [s EXCEPT !.paths = kept, !.lru = {e \in s.lru : e.peer \notin ps}]
  BY DEF RemovePeers
<1> HIDE DEF kept, t
<1>3. DOMAIN t = LeaseFields /\ t.paths = kept /\ t.lru = {e \in s.lru : e.peer \notin ps}
      /\ t.used = s.used
  BY <1>2 DEF IsLease, LeaseFields
<1> QED
  BY <1>1, <1>3 DEF IsLease, t

LEMMA RemoveActivityFacts ==
    ASSUME NEW s, IsLease(s), NEW ps
    PROVE  LET t == RemoveActivity(s, ps)
           IN  /\ IsLease(t) /\ t.paths = s.paths /\ t.lru = s.lru
               /\ DOMAIN t.used = DOMAIN s.used \ ps
<1> DEFINE kept == Omit(s.used, ps)
           t == RemoveActivity(s, ps)
<1>1. DOMAIN kept = DOMAIN s.used \ ps
  BY OmitFacts
<1>2. t = [s EXCEPT !.used = kept]
  BY DEF RemoveActivity
<1> HIDE DEF kept, t
<1>3. DOMAIN t = LeaseFields /\ t.paths = s.paths /\ t.lru = s.lru /\ t.used = kept
  BY <1>2 DEF IsLease, LeaseFields
<1> QED
  BY <1>1, <1>3 DEF IsLease, t

LEMMA DismissedFacts ==
    ASSUME NEW s, IsLease(s), NEW ps
    PROVE  LET t == Dismissed(s, ps)
           IN  /\ IsLease(t) /\ DOMAIN t.paths = DOMAIN s.paths \ ps
               /\ \A p \in DOMAIN t.paths : t.paths[p] = s.paths[p]
               /\ t.lru = {e \in s.lru : e.peer \notin ps}
               /\ DOMAIN t.used = DOMAIN s.used \ ps
  BY RemovePeersFacts, RemoveActivityFacts DEF Dismissed

(* The routes of p that the entries name.                                  *)
RoutesOf(entries, p) == {e.cidr : e \in {x \in entries : x.peer = p}}

(* A lease that ends had no other route.                                   *)
LEMMA RemoveRoutesFacts ==
    ASSUME NEW s, IsLease(s), NEW entries
    PROVE  LET t == RemoveRoutes(s, entries)
           IN  /\ IsLease(t) /\ t.used = s.used /\ t.lru = s.lru \ entries
               /\ DOMAIN t.paths \subseteq DOMAIN s.paths
               /\ \A p \in DOMAIN t.paths :
                     /\ t.paths[p].epochs = s.paths[p].epochs
                     /\ DOMAIN t.paths[p].routes
                           = DOMAIN s.paths[p].routes \ RoutesOf(entries, p)
                     /\ \A c \in DOMAIN t.paths[p].routes :
                           t.paths[p].routes[c] = s.paths[p].routes[c]
               /\ \A p \in DOMAIN s.paths \ DOMAIN t.paths :
                     /\ DOMAIN s.paths[p].routes \subseteq RoutesOf(entries, p)
                     /\ p \in {e.peer : e \in entries}
<1> DEFINE left(p) == Omit(s.paths[p].routes, RoutesOf(entries, p))
           over == {p \in {e.peer : e \in entries} : ~s.paths[p].vpn /\ left(p) = <<>>}
           kept == [p \in DOMAIN s.paths \ over |-> [s.paths[p] EXCEPT !.routes = left(p)]]
           t == RemoveRoutes(s, entries)
<1>1. t = [s EXCEPT !.paths = kept, !.lru = s.lru \ entries]
  BY Zenon DEF RemoveRoutes, RoutesOf
<1>2. \A p : /\ DOMAIN left(p) = DOMAIN s.paths[p].routes \ RoutesOf(entries, p)
             /\ \A c \in DOMAIN left(p) : left(p)[c] = s.paths[p].routes[c]
  BY OmitFacts
<1>3. \A p \in over : DOMAIN s.paths[p].routes \subseteq RoutesOf(entries, p)
                      /\ p \in {e.peer : e \in entries}
  <2>1. DOMAIN <<>> = {}
    OBVIOUS
  <2> HIDE DEF left
  <2> QED
    BY <1>2, <2>1
<1> HIDE DEF left, over
<1>4. /\ DOMAIN kept = DOMAIN s.paths \ over
      /\ \A p \in DOMAIN kept : /\ DOMAIN kept[p] = PathFields
                                /\ kept[p].epochs = s.paths[p].epochs
                                /\ kept[p].routes = left(p)
  BY DEF IsLease, PathFields
<1> HIDE DEF kept, t
<1>5. DOMAIN t = LeaseFields /\ t.paths = kept /\ t.lru = s.lru \ entries /\ t.used = s.used
  BY <1>1 DEF IsLease, LeaseFields
<1>6. IsLease(t)
  BY <1>4, <1>5 DEF IsLease
<1>7. \A p \in DOMAIN t.paths :
          /\ t.paths[p].epochs = s.paths[p].epochs
          /\ DOMAIN t.paths[p].routes = DOMAIN s.paths[p].routes \ RoutesOf(entries, p)
          /\ \A c \in DOMAIN t.paths[p].routes : t.paths[p].routes[c] = s.paths[p].routes[c]
  <2> TAKE p \in DOMAIN t.paths
  <2>1. t.paths[p].epochs = s.paths[p].epochs /\ t.paths[p].routes = left(p)
    BY <1>4, <1>5
  <2> QED
    BY <1>2, <2>1
<1>8. /\ DOMAIN t.paths \subseteq DOMAIN s.paths
      /\ \A p \in DOMAIN s.paths \ DOMAIN t.paths :
            DOMAIN s.paths[p].routes \subseteq RoutesOf(entries, p) /\ p \in {e.peer : e \in entries}
  BY <1>3, <1>4, <1>5
<1> QED
  BY <1>5, <1>6, <1>7, <1>8 DEF t

(* upsert_path touches the lease of p only, and gives it the epochs of the *)
(* answer.                                                                 *)
HadRoutes(s, p) == IF p \in DOMAIN s.paths THEN s.paths[p].routes ELSE <<>>

Upserts(t, s, p, d, epochs) ==
    /\ IsLease(t) /\ t.used = s.used
    /\ DOMAIN t.paths = DOMAIN s.paths \cup {p}
    /\ \A q \in DOMAIN s.paths \ {p} : t.paths[q] = s.paths[q]
    /\ t.paths[p].epochs = epochs
    /\ t.paths[p].routes = IF d \in Cidrs THEN Put(HadRoutes(s, p), d, 0) ELSE HadRoutes(s, p)
    /\ t.lru = IF d \in Cidrs
               THEN {e \in s.lru : e.peer # p \/ e.cidr # d}
                    \cup {[age |-> 0, peer |-> p, cidr |-> d]}
               ELSE s.lru

LEMMA UpsertFacts ==
    ASSUME NEW s, IsLease(s), NEW p, NEW d, NEW epochs
    PROVE  Upserts(UpsertPath(s, p, d, epochs), s, p, d, epochs)
<1> DEFINE old == IF p \in DOMAIN s.paths THEN s.paths[p] ELSE [vpn |-> FALSE, routes |-> <<>>]
           had == HadRoutes(s, p)
           lease == IF d \in Cidrs
                    THEN [epochs |-> epochs, vpn |-> old.vpn, routes |-> Put(old.routes, d, 0)]
                    ELSE [epochs |-> epochs, vpn |-> TRUE, routes |-> old.routes]
           after == Put(s.paths, p, lease)
           lru == IF d \in Cidrs THEN {e \in s.lru : e.peer # p \/ e.cidr # d}
                                      \cup {[age |-> 0, peer |-> p, cidr |-> d]}
                  ELSE s.lru
           t == UpsertPath(s, p, d, epochs)
<1>1. old.routes = had
  BY DEF HadRoutes
<1>2. DOMAIN t = LeaseFields /\ t.paths = after /\ t.lru = lru /\ t.used = s.used
  <2> HIDE DEF old
  <2>1. CASE d \in Cidrs
    <3>1. t = [s EXCEPT !.paths = after, !.lru = lru]
      BY <2>1, Zenon DEF UpsertPath, old
    <3> HIDE DEF t, after, lru
    <3> QED
      BY <3>1 DEF IsLease, LeaseFields
  <2>2. CASE d \notin Cidrs
    <3>1. t = [s EXCEPT !.paths = after] /\ lru = s.lru
      BY <2>2, Zenon DEF UpsertPath, old
    <3> HIDE DEF t, after, lru
    <3> QED
      BY <3>1 DEF IsLease, LeaseFields
  <2> QED
    BY <2>1, <2>2
<1>3. /\ DOMAIN lease = PathFields /\ lease.epochs = epochs
      /\ lease.routes = IF d \in Cidrs THEN Put(had, d, 0) ELSE had
  BY <1>1 DEF PathFields
<1> HIDE DEF lease, t, had, lru
<1>4. /\ DOMAIN after = DOMAIN s.paths \cup {p} /\ after[p] = lease
      /\ \A q \in DOMAIN s.paths \ {p} : after[q] = s.paths[q]
  BY DEF Put
<1> HIDE DEF after
<1>5. IsLease(t)
  BY <1>2, <1>3, <1>4 DEF IsLease
<1> QED
  BY <1>2, <1>3, <1>4, <1>5 DEF Upserts, t, had, lru

---------------------------------------------------------------------------
(* The order of use and the leases.                                        *)

EntryOf(P, p, c) == [age |-> P[p].routes[c], peer |-> p, cidr |-> c]

EntriesOf(P) ==
    UNION {{[age |-> P[p].routes[c], peer |-> p, cidr |-> c] : c \in DOMAIN P[p].routes} :
              p \in DOMAIN P}

(* The order holds each route once, at the age of the lease, and nothing   *)
(* else.                                                                   *)
Mirrors(L, P) ==
    /\ \A e \in L : /\ e.peer \in DOMAIN P /\ e.cidr \in DOMAIN P[e.peer].routes
                    /\ e = EntryOf(P, e.peer, e.cidr)
    /\ \A p \in DOMAIN P : \A c \in DOMAIN P[p].routes : EntryOf(P, p, c) \in L

LEMMA MirrorsEntries ==
    ASSUME NEW L, NEW P
    PROVE  L = EntriesOf(P) <=> Mirrors(L, P)
<1>1. \A p, c : EntryOf(P, p, c).peer = p /\ EntryOf(P, p, c).cidr = c
  BY DEF EntryOf
<1>2. \A e : e \in EntriesOf(P) <=>
                \E p \in DOMAIN P : \E c \in DOMAIN P[p].routes : e = EntryOf(P, p, c)
  <2>1. EntriesOf(P) = UNION {{EntryOf(P, p, c) : c \in DOMAIN P[p].routes} : p \in DOMAIN P}
    BY Zenon DEF EntriesOf, EntryOf
  <2> QED
    BY <2>1
<1>3. ASSUME L = EntriesOf(P) PROVE Mirrors(L, P)
  BY <1>1, <1>2, <1>3 DEF Mirrors
<1>4. ASSUME Mirrors(L, P) PROVE L = EntriesOf(P)
  <2>1. \A e : e \in L <=> e \in EntriesOf(P)
    BY <1>2, <1>4 DEF Mirrors
  <2> QED
    BY <2>1
<1> QED
  BY <1>3, <1>4

(* LeasesBounded without the limit on peers, as a relation between values. *)
Consistent(P, L, U) ==
    /\ IsFiniteSet(DOMAIN P) /\ IsFiniteSet(L)
    /\ \A p \in DOMAIN P : /\ IsFiniteSet(DOMAIN P[p].routes)
                           /\ Cardinality(DOMAIN P[p].routes) <= MaxNodeRoutes
    /\ Cardinality(L) <= MaxRoutes
    /\ Mirrors(L, P)
    /\ DOMAIN P \subseteq DOMAIN U

SoundLease(s) == IsLease(s) /\ Consistent(s.paths, s.lru, s.used)

LEMMA SubsetBounds ==
    ASSUME NEW S, IsFiniteSet(S), NEW n \in Nat, Cardinality(S) <= n, NEW T \in SUBSET S
    PROVE  IsFiniteSet(T) /\ Cardinality(T) <= n
<1>1. IsFiniteSet(T) /\ Cardinality(T) <= Cardinality(S)
  BY FS_Subset
<1>2. Cardinality(T) \in Nat /\ Cardinality(S) \in Nat
  BY <1>1, FS_CardinalityType
<1> QED
  BY <1>1, <1>2

LEMMA LimitsAreNumbers == MaxRoutes \in Nat /\ MaxNodeRoutes \in Nat /\ MaxRoutes >= 1
                          /\ MaxNodeRoutes >= 1
  BY AgentAssumption

LEMMA RemovePeersSound ==
    ASSUME NEW s, SoundLease(s), NEW ps
    PROVE  SoundLease(RemovePeers(s, ps))
<1> DEFINE t == RemovePeers(s, ps)
<1>1. /\ IsLease(t) /\ DOMAIN t.paths = DOMAIN s.paths \ ps
      /\ \A p \in DOMAIN t.paths : t.paths[p] = s.paths[p]
      /\ t.lru = {e \in s.lru : e.peer \notin ps} /\ t.used = s.used
  BY RemovePeersFacts DEF SoundLease
<1> HIDE DEF t
<1>2. IsFiniteSet(DOMAIN t.paths) /\ IsFiniteSet(t.lru) /\ Cardinality(t.lru) <= MaxRoutes
  <2>1. t.lru \in SUBSET s.lru /\ DOMAIN t.paths \in SUBSET DOMAIN s.paths
    BY <1>1
  <2>2. IsFiniteSet(DOMAIN t.paths)
    BY <2>1, FS_Subset DEF SoundLease, Consistent
  <2> QED
    BY <2>1, <2>2, SubsetBounds, LimitsAreNumbers DEF SoundLease, Consistent
<1>3. Mirrors(t.lru, t.paths)
  <2>1. \A p \in DOMAIN t.paths : \A c : EntryOf(t.paths, p, c) = EntryOf(s.paths, p, c)
    BY <1>1 DEF EntryOf
  <2>2. \A p, c : EntryOf(s.paths, p, c).peer = p
    BY DEF EntryOf
  <2>3. Mirrors(s.lru, s.paths)
    BY DEF SoundLease, Consistent
  <2> QED
    BY <1>1, <2>1, <2>2, <2>3 DEF Mirrors
<1> QED
  BY <1>1, <1>2, <1>3 DEF SoundLease, Consistent, t

(* Activity may be forgotten of peers without a lease only.                *)
LEMMA RemoveActivitySound ==
    ASSUME NEW s, SoundLease(s), NEW ps, ps \cap DOMAIN s.paths = {}
    PROVE  SoundLease(RemoveActivity(s, ps))
<1>1. LET t == RemoveActivity(s, ps)
      IN  IsLease(t) /\ t.paths = s.paths /\ t.lru = s.lru /\ DOMAIN t.used = DOMAIN s.used \ ps
  BY RemoveActivityFacts DEF SoundLease
<1> QED
  BY <1>1 DEF SoundLease, Consistent

LEMMA DismissedSound ==
    ASSUME NEW s, SoundLease(s), NEW ps
    PROVE  SoundLease(Dismissed(s, ps))
<1>1. SoundLease(RemovePeers(s, ps)) /\ ps \cap DOMAIN RemovePeers(s, ps).paths = {}
  BY RemovePeersSound, RemovePeersFacts DEF SoundLease
<1> QED
  BY <1>1, RemoveActivitySound DEF Dismissed

LEMMA RemoveRoutesSound ==
    ASSUME NEW s, SoundLease(s), NEW entries \in SUBSET s.lru
    PROVE  SoundLease(RemoveRoutes(s, entries))
<1> DEFINE t == RemoveRoutes(s, entries)
<1>1. /\ IsLease(t) /\ t.used = s.used /\ t.lru = s.lru \ entries
      /\ DOMAIN t.paths \subseteq DOMAIN s.paths
      /\ \A p \in DOMAIN t.paths :
            /\ DOMAIN t.paths[p].routes = DOMAIN s.paths[p].routes \ RoutesOf(entries, p)
            /\ \A c \in DOMAIN t.paths[p].routes : t.paths[p].routes[c] = s.paths[p].routes[c]
      /\ \A p \in DOMAIN s.paths \ DOMAIN t.paths :
            DOMAIN s.paths[p].routes \subseteq RoutesOf(entries, p)
  BY RemoveRoutesFacts DEF SoundLease
<1> HIDE DEF t
<1>2. IsFiniteSet(DOMAIN t.paths) /\ IsFiniteSet(t.lru) /\ Cardinality(t.lru) <= MaxRoutes
  <2>1. t.lru \in SUBSET s.lru /\ DOMAIN t.paths \in SUBSET DOMAIN s.paths
    BY <1>1
  <2>2. IsFiniteSet(DOMAIN t.paths)
    BY <2>1, FS_Subset DEF SoundLease, Consistent
  <2> QED
    BY <2>1, <2>2, SubsetBounds, LimitsAreNumbers DEF SoundLease, Consistent
<1>3. ASSUME NEW p \in DOMAIN t.paths
      PROVE  /\ IsFiniteSet(DOMAIN t.paths[p].routes)
             /\ Cardinality(DOMAIN t.paths[p].routes) <= MaxNodeRoutes
  <2>1. DOMAIN t.paths[p].routes \in SUBSET DOMAIN s.paths[p].routes /\ p \in DOMAIN s.paths
    BY <1>1
  <2>2. IsFiniteSet(DOMAIN s.paths[p].routes)
        /\ Cardinality(DOMAIN s.paths[p].routes) <= MaxNodeRoutes
    BY <2>1 DEF SoundLease, Consistent
  <2> QED
    BY <2>1, <2>2, SubsetBounds, LimitsAreNumbers
<1>4. Mirrors(t.lru, t.paths)
  <2>1. Mirrors(s.lru, s.paths)
    BY DEF SoundLease, Consistent
  <2>2. \A p, c : EntryOf(s.paths, p, c).peer = p /\ EntryOf(s.paths, p, c).cidr = c
    BY DEF EntryOf
  <2>3. \A p : \A c : c \in RoutesOf(entries, p) <=> \E e \in entries : e.peer = p /\ e.cidr = c
    BY DEF RoutesOf
  <2>4. \A p \in DOMAIN s.paths : \A c \in DOMAIN s.paths[p].routes :
            EntryOf(s.paths, p, c) \in entries <=> c \in RoutesOf(entries, p)
    BY <2>1, <2>2, <2>3 DEF Mirrors
  <2>5. \A p \in DOMAIN t.paths : \A c \in DOMAIN t.paths[p].routes :
            EntryOf(t.paths, p, c) = EntryOf(s.paths, p, c)
    BY <1>1 DEF EntryOf
  <2>6. ASSUME NEW e \in t.lru
        PROVE  /\ e.peer \in DOMAIN t.paths /\ e.cidr \in DOMAIN t.paths[e.peer].routes
               /\ e = EntryOf(t.paths, e.peer, e.cidr)
    <3>1. /\ e \in s.lru /\ e \notin entries /\ e.peer \in DOMAIN s.paths
          /\ e.cidr \in DOMAIN s.paths[e.peer].routes /\ e = EntryOf(s.paths, e.peer, e.cidr)
      BY <1>1, <2>1 DEF Mirrors
    <3>2. e.cidr \notin RoutesOf(entries, e.peer)
      BY <2>4, <3>1
    <3>3. e.peer \in DOMAIN t.paths /\ e.cidr \in DOMAIN t.paths[e.peer].routes
      BY <1>1, <3>1, <3>2
    <3> QED
      BY <2>5, <3>1, <3>3
  <2>7. ASSUME NEW p \in DOMAIN t.paths, NEW c \in DOMAIN t.paths[p].routes
        PROVE  EntryOf(t.paths, p, c) \in t.lru
    <3>1. p \in DOMAIN s.paths /\ c \in DOMAIN s.paths[p].routes /\ c \notin RoutesOf(entries, p)
      BY <1>1
    <3>2. EntryOf(s.paths, p, c) \in s.lru /\ EntryOf(s.paths, p, c) \notin entries
      BY <2>1, <2>4, <3>1 DEF Mirrors
    <3> QED
      BY <1>1, <2>5, <3>2
  <2> QED
    BY <2>6, <2>7 DEF Mirrors
<1>5. DOMAIN t.paths \subseteq DOMAIN t.used
  BY <1>1 DEF SoundLease, Consistent
<1> QED
  BY <1>1, <1>2, <1>3, <1>4, <1>5 DEF SoundLease, Consistent, t

(* The order of use counts the routes of an owner.                         *)
LEMMA OwnCount ==
    ASSUME NEW s, SoundLease(s), NEW p \in DOMAIN s.paths
    PROVE  LET own == {e \in s.lru : e.peer = p}
           IN  IsFiniteSet(own) /\ Cardinality(own) = Cardinality(DOMAIN s.paths[p].routes)
<1> DEFINE own == {e \in s.lru : e.peer = p}
           R == DOMAIN s.paths[p].routes
           f == [c \in R |-> EntryOf(s.paths, p, c)]
<1>1. \A c : EntryOf(s.paths, p, c).peer = p /\ EntryOf(s.paths, p, c).cidr = c
  BY DEF EntryOf
<1>2. IsFiniteSet(R) /\ Mirrors(s.lru, s.paths)
  BY DEF SoundLease, Consistent
<1>3. \A c \in R : EntryOf(s.paths, p, c) \in own
  BY <1>1, <1>2 DEF Mirrors
<1>4. \A e \in own : e.cidr \in R /\ EntryOf(s.paths, p, e.cidr) = e
  BY <1>2 DEF Mirrors
<1> HIDE DEF own, R
<1>5. f \in Bijection(R, own)
  <2>1. f \in [R -> own]
    BY <1>3
  <2>2. \A c, d \in R : f[c] = f[d] => c = d
    BY <1>1
  <2>3. \A e \in own : \E c \in R : f[c] = e
    BY <1>4
  <2> HIDE DEF f
  <2> QED
    BY <2>1, <2>2, <2>3 DEF Bijection, Injection, Surjection, IsInjective
<1>6. ExistsBijection(R, own)
  BY <1>5 DEF ExistsBijection
<1> QED
  BY <1>2, <1>6, FS_Bijection DEF own, R

IsNewRoute(s, p, d) == d \in Cidrs /\ ~(p \in DOMAIN s.paths /\ d \in DOMAIN s.paths[p].routes)

(* There is room for the route d of p in both budgets.                     *)
HasRouteRoom(s, p, d) ==
    IsNewRoute(s, p, d) =>
        /\ Cardinality(s.lru) < MaxRoutes
        /\ p \in DOMAIN s.paths => Cardinality(DOMAIN s.paths[p].routes) < MaxNodeRoutes

(* The leases of t are some of those of s, with the same epochs.           *)
Within(t, s) ==
    /\ DOMAIN t.paths \subseteq DOMAIN s.paths
    /\ \A p \in DOMAIN t.paths : t.paths[p].epochs = s.paths[p].epochs

LEMMA RemoveOneRoute ==
    ASSUME NEW s, SoundLease(s), NEW e \in s.lru
    PROVE  LET t == RemoveRoutes(s, {e})
           IN  /\ SoundLease(t) /\ Within(t, s)
               /\ Cardinality(t.lru) < MaxRoutes
               /\ \A p \in DOMAIN t.paths :
                     /\ DOMAIN t.paths[p].routes \subseteq DOMAIN s.paths[p].routes
                     /\ p = e.peer => Cardinality(DOMAIN t.paths[p].routes) < MaxNodeRoutes
<1> DEFINE t == RemoveRoutes(s, {e})
<1>1. SoundLease(t)
  BY RemoveRoutesSound
<1>2. /\ t.lru = s.lru \ {e} /\ Within(t, s)
      /\ \A p \in DOMAIN t.paths : /\ p \in DOMAIN s.paths
                                   /\ DOMAIN t.paths[p].routes
                                         = DOMAIN s.paths[p].routes \ RoutesOf({e}, p)
  <2>1. /\ t.lru = s.lru \ {e} /\ DOMAIN t.paths \subseteq DOMAIN s.paths
        /\ \A p \in DOMAIN t.paths :
              /\ t.paths[p].epochs = s.paths[p].epochs
              /\ DOMAIN t.paths[p].routes = DOMAIN s.paths[p].routes \ RoutesOf({e}, p)
    <3> DEFINE E == {e}
    <3> HIDE DEF E
    <3>1. LET r == RemoveRoutes(s, E)
          IN  /\ r.lru = s.lru \ E /\ DOMAIN r.paths \subseteq DOMAIN s.paths
              /\ \A p \in DOMAIN r.paths :
                    /\ r.paths[p].epochs = s.paths[p].epochs
                    /\ DOMAIN r.paths[p].routes = DOMAIN s.paths[p].routes \ RoutesOf(E, p)
      BY RemoveRoutesFacts DEF SoundLease
    <3> QED
      BY <3>1, Zenon DEF E
  <2> HIDE DEF t
  <2> QED
    BY <2>1 DEF Within
<1>3. IsFiniteSet(s.lru) /\ Cardinality(s.lru) <= MaxRoutes
      /\ Mirrors(s.lru, s.paths)
  BY DEF SoundLease, Consistent
<1>4. Cardinality(t.lru) < MaxRoutes
  <2>1. Cardinality(s.lru \ {e}) = Cardinality(s.lru) - 1 /\ Cardinality(s.lru) \in Nat
    BY <1>3, FS_RemoveElement, FS_CardinalityType
  <2> HIDE DEF t
  <2> QED
    BY <1>2, <1>3, <2>1, LimitsAreNumbers
<1>5. ASSUME NEW p \in DOMAIN t.paths, p = e.peer
      PROVE  Cardinality(DOMAIN t.paths[p].routes) < MaxNodeRoutes
  <2> DEFINE R == DOMAIN s.paths[p].routes
  <2>1. RoutesOf({e}, p) = {e.cidr} /\ e.cidr \in R
    BY <1>3, <1>5 DEF RoutesOf, Mirrors
  <2>2. IsFiniteSet(R) /\ Cardinality(R) <= MaxNodeRoutes
    BY <1>2 DEF SoundLease, Consistent
  <2>3. DOMAIN t.paths[p].routes = R \ {e.cidr}
    BY <1>2, <2>1
  <2> HIDE DEF R, t
  <2>4. Cardinality(R \ {e.cidr}) = Cardinality(R) - 1 /\ Cardinality(R) \in Nat
    BY <2>1, <2>2, FS_RemoveElement, FS_CardinalityType
  <2> QED
    BY <2>2, <2>3, <2>4, LimitsAreNumbers
<1> QED
  BY <1>1, <1>2, <1>4, <1>5

(* make_room_for_exact_route.                                              *)
LEMMA MadeRoomSound ==
    ASSUME NEW s, SoundLease(s), NEW p, NEW d, NEW u \in MadeRoom(s, p, d)
    PROVE  SoundLease(u) /\ Within(u, s) /\ HasRouteRoom(u, p, d)
<1> DEFINE new     == IsNewRoute(s, p, d)
           own     == {e \in s.lru : e.peer = p}
           first   == IF new /\ Cardinality(own) >= MaxNodeRoutes
                      THEN {RemoveRoutes(s, {e}) : e \in LeastRecent(own)} ELSE {s}
           full(t) == new /\ Cardinality(t.lru) >= MaxRoutes
           Evict(t, e) == LET v == RemoveRoutes(t, {e})
                          IN  IF e.peer = p \/ e.peer \in DOMAIN v.paths THEN v
                              ELSE RemoveActivity(v, {e.peer})
<1>1. PICK t \in first : \/ full(t) /\ \E e \in LeastRecent(t.lru) : u = Evict(t, e)
                         \/ ~full(t) /\ u = t
  <2>1. MadeRoom(s, p, d) = UNION {IF full(t) THEN {Evict(t, e) : e \in LeastRecent(t.lru)}
                                   ELSE {t} : t \in first}
    BY Zenon DEF MadeRoom, IsNewRoute
  <2> HIDE DEF first, Evict, full
  <2>2. PICK t \in first : u \in IF full(t) THEN {Evict(t, e) : e \in LeastRecent(t.lru)} ELSE {t}
    BY <2>1
  <2>3. CASE full(t)
    BY <2>2, <2>3
  <2>4. CASE ~full(t)
    BY <2>2, <2>4
  <2> QED
    BY <2>3, <2>4
<1>2. LeastRecent(own) \subseteq own /\ LeastRecent(t.lru) \subseteq t.lru
  BY DEF LeastRecent
<1>3. /\ SoundLease(t) /\ Within(t, s)
      /\ new /\ p \in DOMAIN t.paths => Cardinality(DOMAIN t.paths[p].routes) < MaxNodeRoutes
      /\ \A q \in DOMAIN t.paths : DOMAIN t.paths[q].routes \subseteq DOMAIN s.paths[q].routes
  <2>1. CASE new /\ Cardinality(own) >= MaxNodeRoutes
    <3>1. PICK e \in own : t = RemoveRoutes(s, {e})
      BY <1>2, <2>1
    <3> QED
      BY <3>1, RemoveOneRoute
  <2>2. CASE ~(new /\ Cardinality(own) >= MaxNodeRoutes)
    <3>1. t = s
      BY <2>2
    <3>2. ASSUME new, p \in DOMAIN s.paths
          PROVE  Cardinality(DOMAIN s.paths[p].routes) < MaxNodeRoutes
      <4>1. IsFiniteSet(own) /\ Cardinality(own) = Cardinality(DOMAIN s.paths[p].routes)
        BY <3>2, OwnCount
      <4>2. Cardinality(own) \in Nat /\ ~(Cardinality(own) >= MaxNodeRoutes)
        BY <2>2, <3>2, <4>1, FS_CardinalityType
      <4> HIDE DEF own
      <4> QED
        BY <4>1, <4>2, LimitsAreNumbers
    <3> HIDE DEF new, own
    <3> QED
      BY <3>1, <3>2 DEF Within
  <2> QED
    BY <2>1, <2>2
<1>5. CASE ~full(t) /\ u = t
  <2>1. CASE new
    <3>1. IsFiniteSet(t.lru) /\ Cardinality(t.lru) \in Nat
      BY <1>3, FS_CardinalityType DEF SoundLease, Consistent
    <3>2. Cardinality(t.lru) < MaxRoutes
      BY <1>5, <2>1, <3>1, LimitsAreNumbers
    <3> QED
      BY <1>3, <1>5, <2>1, <3>2 DEF HasRouteRoom
  <2>2. CASE ~new
    <3>1. t = s
      BY <2>2
    <3> QED
      BY <1>3, <1>5, <2>2, <3>1 DEF HasRouteRoom
  <2> QED
    BY <2>1, <2>2
<1>6. ASSUME full(t), NEW e \in LeastRecent(t.lru), u = Evict(t, e)
      PROVE  SoundLease(u) /\ Within(u, s) /\ HasRouteRoom(u, p, d)
  <2> DEFINE v == RemoveRoutes(t, {e})
  <2>1. /\ SoundLease(v) /\ Within(v, t) /\ Cardinality(v.lru) < MaxRoutes
        /\ \A q \in DOMAIN v.paths : DOMAIN v.paths[q].routes \subseteq DOMAIN t.paths[q].routes
    BY <1>2, <1>3, <1>6, RemoveOneRoute
  <2>2. u = v \/ (e.peer \notin DOMAIN v.paths /\ u = RemoveActivity(v, {e.peer}))
    BY <1>6
  <2> HIDE DEF v
  <2>3. SoundLease(u) /\ u.paths = v.paths /\ u.lru = v.lru
    <3>1. CASE u = v
      BY <2>1, <3>1
    <3>2. CASE e.peer \notin DOMAIN v.paths /\ u = RemoveActivity(v, {e.peer})
      BY <2>1, <3>2, RemoveActivitySound, RemoveActivityFacts DEF SoundLease
    <3> QED
      BY <2>2, <3>1, <3>2
  <2>4. Within(u, s)
    BY <1>3, <2>1, <2>3 DEF Within
  <2>5. p \in DOMAIN u.paths => Cardinality(DOMAIN u.paths[p].routes) < MaxNodeRoutes
    <3> SUFFICES ASSUME p \in DOMAIN v.paths
                 PROVE  Cardinality(DOMAIN v.paths[p].routes) < MaxNodeRoutes
      BY <2>3
    <3>1. p \in DOMAIN t.paths /\ DOMAIN v.paths[p].routes \subseteq DOMAIN t.paths[p].routes
      BY <2>1 DEF Within
    <3>2. IsFiniteSet(DOMAIN t.paths[p].routes)
          /\ Cardinality(DOMAIN t.paths[p].routes) < MaxNodeRoutes
      BY <1>3, <1>6, <3>1 DEF SoundLease, Consistent
    <3>3. /\ Cardinality(DOMAIN v.paths[p].routes) <= Cardinality(DOMAIN t.paths[p].routes)
          /\ IsFiniteSet(DOMAIN v.paths[p].routes)
      BY <3>1, <3>2, FS_Subset
    <3>4. Cardinality(DOMAIN v.paths[p].routes) \in Nat
          /\ Cardinality(DOMAIN t.paths[p].routes) \in Nat
      BY <3>2, <3>3, FS_CardinalityType
    <3> QED
      BY <3>2, <3>3, <3>4, LimitsAreNumbers
  <2> QED
    BY <2>1, <2>3, <2>4, <2>5 DEF HasRouteRoom
<1> QED
  BY <1>1, <1>5, <1>6

(* A route moves to the front of the order of use.                         *)
ToFront(L, p, d) == {e \in L : e.peer # p \/ e.cidr # d} \cup {[age |-> 0, peer |-> p, cidr |-> d]}

RoutesAt(P, p) == IF p \in DOMAIN P THEN DOMAIN P[p].routes ELSE {}

LEMMA FrontCount ==
    ASSUME NEW L, NEW P, Mirrors(L, P), IsFiniteSet(L), Cardinality(L) <= MaxRoutes,
           NEW p, NEW d, d \in RoutesAt(P, p) \/ Cardinality(L) < MaxRoutes
    PROVE  IsFiniteSet(ToFront(L, p, d)) /\ Cardinality(ToFront(L, p, d)) <= MaxRoutes
<1> DEFINE K == {e \in L : e.peer # p \/ e.cidr # d}
           new == [age |-> 0, peer |-> p, cidr |-> d]
           old == EntryOf(P, p, d)
<1>1. K \subseteq L /\ ToFront(L, p, d) = K \cup {new}
  BY DEF ToFront
<1>2. new \notin K
  OBVIOUS
<1>3. d \in RoutesAt(P, p) => old \in L /\ old \notin K
  <2>1. old.peer = p /\ old.cidr = d
    BY DEF EntryOf
  <2> HIDE DEF old
  <2>2. d \in RoutesAt(P, p) => old \in L
    BY DEF Mirrors, RoutesAt, old
  <2> QED
    BY <2>1, <2>2
<1> HIDE DEF K, new, old
<1>4. IsFiniteSet(K) /\ Cardinality(K) \in Nat /\ Cardinality(L) \in Nat
      /\ Cardinality(K) <= Cardinality(L)
  <2>1. IsFiniteSet(K) /\ Cardinality(K) <= Cardinality(L)
    BY <1>1, FS_Subset
  <2> QED
    BY <2>1, FS_CardinalityType
<1>5. IsFiniteSet(K \cup {new}) /\ Cardinality(K \cup {new}) = Cardinality(K) + 1
  BY <1>2, <1>4, FS_AddElement
<1>6. Cardinality(K) < MaxRoutes
  <2>1. CASE d \in RoutesAt(P, p)
    <3>1. K \subseteq L \ {old} /\ IsFiniteSet(L \ {old})
          /\ Cardinality(L \ {old}) = Cardinality(L) - 1
      BY <1>1, <1>3, <2>1, FS_RemoveElement
    <3>2. Cardinality(K) <= Cardinality(L \ {old})
      BY <3>1, FS_Subset
    <3> QED
      BY <1>4, <3>1, <3>2, LimitsAreNumbers
  <2>2. CASE Cardinality(L) < MaxRoutes
    BY <1>4, <2>2, LimitsAreNumbers
  <2> QED
    BY <2>1, <2>2
<1> QED
  BY <1>1, <1>4, <1>5, <1>6, LimitsAreNumbers

(* Q is P with the route d of p at age 0.                                  *)
Touches(Q, P, p, d) ==
    /\ DOMAIN Q = DOMAIN P \cup {p}
    /\ \A q \in DOMAIN P \ {p} : Q[q].routes = P[q].routes
    /\ DOMAIN Q[p].routes = RoutesAt(P, p) \cup {d}
    /\ Q[p].routes[d] = 0
    /\ \A c \in RoutesAt(P, p) \ {d} : Q[p].routes[c] = P[p].routes[c]

LEMMA FrontMirrors ==
    ASSUME NEW L, NEW P, Mirrors(L, P), NEW p, NEW d, NEW Q, Touches(Q, P, p, d)
    PROVE  Mirrors(ToFront(L, p, d), Q)
<1> DEFINE new == [age |-> 0, peer |-> p, cidr |-> d]
<1>1. \A R, q, c : EntryOf(R, q, c).peer = q /\ EntryOf(R, q, c).cidr = c
  BY DEF EntryOf
<1>2. EntryOf(Q, p, d) = new
  BY DEF EntryOf, Touches
<1>3. \A e : e \in ToFront(L, p, d) <=> e = new \/ (e \in L /\ (e.peer # p \/ e.cidr # d))
  BY DEF ToFront
<1>4. new.peer = p /\ new.cidr = d
  OBVIOUS
<1>5. ASSUME NEW q \in DOMAIN P, NEW c \in DOMAIN P[q].routes, q # p \/ c # d
      PROVE  q \in DOMAIN Q /\ c \in DOMAIN Q[q].routes /\ EntryOf(Q, q, c) = EntryOf(P, q, c)
  <2>1. q \in DOMAIN Q /\ c \in DOMAIN Q[q].routes /\ Q[q].routes[c] = P[q].routes[c]
    BY <1>5 DEF Touches, RoutesAt
  <2> QED
    BY <2>1 DEF EntryOf
<1>6. ASSUME NEW q \in DOMAIN Q, NEW c \in DOMAIN Q[q].routes, q # p \/ c # d
      PROVE  q \in DOMAIN P /\ c \in DOMAIN P[q].routes
  BY <1>6 DEF Touches, RoutesAt
<1> HIDE DEF new
<1>7. ASSUME NEW e \in ToFront(L, p, d)
      PROVE  /\ e.peer \in DOMAIN Q /\ e.cidr \in DOMAIN Q[e.peer].routes
             /\ e = EntryOf(Q, e.peer, e.cidr)
  <2>1. CASE e = new
    BY <1>2, <1>4, <2>1 DEF Touches
  <2>2. CASE e \in L /\ (e.peer # p \/ e.cidr # d)
    BY <1>5, <2>2 DEF Mirrors
  <2> QED
    BY <1>3, <2>1, <2>2
<1>8. ASSUME NEW q \in DOMAIN Q, NEW c \in DOMAIN Q[q].routes
      PROVE  EntryOf(Q, q, c) \in ToFront(L, p, d)
  <2>1. CASE q = p /\ c = d
    BY <1>2, <1>3, <2>1
  <2>2. CASE q # p \/ c # d
    <3>1. EntryOf(Q, q, c) \in L
      BY <1>5, <1>6, <2>2 DEF Mirrors
    <3> QED
      BY <1>1, <1>3, <2>2, <3>1
  <2> QED
    BY <2>1, <2>2
<1> QED
  BY <1>7, <1>8 DEF Mirrors

(* The last step of record_resolved_overlay_path: the path is stored and   *)
(* counts as activity.                                                     *)
LEMMA UpsertSound ==
    ASSUME NEW s, SoundLease(s), NEW p, NEW d, NEW epochs, HasRouteRoom(s, p, d)
    PROVE  LET t == [UpsertPath(s, p, d, epochs) EXCEPT !.used = Put(@, p, 0)]
           IN  /\ SoundLease(t) /\ DOMAIN t.paths = DOMAIN s.paths \cup {p}
               /\ \A q \in DOMAIN s.paths \ {p} : t.paths[q] = s.paths[q]
               /\ t.paths[p].epochs = epochs
<1> DEFINE x == UpsertPath(s, p, d, epochs)
           used == Put(x.used, p, 0)
           t == [x EXCEPT !.used = used]
           had == HadRoutes(s, p)
<1>1. /\ IsLease(x) /\ x.used = s.used
      /\ DOMAIN x.paths = DOMAIN s.paths \cup {p}
      /\ \A q \in DOMAIN s.paths \ {p} : x.paths[q] = s.paths[q]
      /\ x.paths[p].epochs = epochs
      /\ x.paths[p].routes = IF d \in Cidrs THEN Put(had, d, 0) ELSE had
      /\ x.lru = IF d \in Cidrs THEN ToFront(s.lru, p, d) ELSE s.lru
  <2>1. Upserts(x, s, p, d, epochs)
    BY UpsertFacts DEF SoundLease
  <2> HIDE DEF x
  <2> QED
    BY <2>1, Zenon DEF Upserts, ToFront
<1>2. DOMAIN had = RoutesAt(s.paths, p)
      /\ \A c \in RoutesAt(s.paths, p) : had[c] = s.paths[p].routes[c]
  BY DEF RoutesAt, HadRoutes
<1>3. DOMAIN Put(had, d, 0) = DOMAIN had \cup {d} /\ Put(had, d, 0)[d] = 0
      /\ \A c \in DOMAIN had \ {d} : Put(had, d, 0)[c] = had[c]
  BY DEF Put
<1> HIDE DEF x, had
<1>4. DOMAIN used = DOMAIN s.used \cup {p}
  BY <1>1 DEF Put
<1> HIDE DEF used
<1>5. DOMAIN t = LeaseFields /\ t.paths = x.paths /\ t.lru = x.lru /\ t.used = used
  BY <1>1 DEF IsLease, LeaseFields
<1> HIDE DEF t
<1>6. IsLease(t)
  BY <1>1, <1>5 DEF IsLease
<1>7. /\ IsFiniteSet(DOMAIN s.paths) /\ IsFiniteSet(s.lru) /\ Cardinality(s.lru) <= MaxRoutes
      /\ Mirrors(s.lru, s.paths) /\ DOMAIN s.paths \subseteq DOMAIN s.used
      /\ \A q \in DOMAIN s.paths : IsFiniteSet(DOMAIN s.paths[q].routes)
                                   /\ Cardinality(DOMAIN s.paths[q].routes) <= MaxNodeRoutes
  BY DEF SoundLease, Consistent
<1>8. IsFiniteSet(DOMAIN t.paths) /\ DOMAIN t.paths \subseteq DOMAIN t.used
  <2>1. IsFiniteSet(DOMAIN s.paths \cup {p})
    BY <1>7, FS_AddElement
  <2> QED
    BY <1>1, <1>4, <1>5, <1>7, <2>1
<1>9. IsFiniteSet(DOMAIN x.paths[p].routes)
      /\ Cardinality(DOMAIN x.paths[p].routes) <= MaxNodeRoutes
  <2> DEFINE R == RoutesAt(s.paths, p)
  <2>1. IsFiniteSet(R) /\ Cardinality(R) <= MaxNodeRoutes
    <3>1. IsFiniteSet({}) /\ Cardinality({}) = 0
      BY FS_EmptySet
    <3> QED
      BY <1>7, <3>1, LimitsAreNumbers DEF RoutesAt
  <2>2. DOMAIN x.paths[p].routes = IF d \in Cidrs THEN R \cup {d} ELSE R
    BY <1>1, <1>2, <1>3
  <2>3. d \in Cidrs /\ d \notin R => Cardinality(R) < MaxNodeRoutes
    <3>1. IsFiniteSet({}) /\ Cardinality({}) = 0
      BY FS_EmptySet
    <3> QED
      BY <3>1, LimitsAreNumbers DEF HasRouteRoom, IsNewRoute, RoutesAt
  <2> HIDE DEF R
  <2>4. Cardinality(R) \in Nat /\ IsFiniteSet(R \cup {d})
        /\ Cardinality(R \cup {d}) = IF d \in R THEN Cardinality(R) ELSE Cardinality(R) + 1
    BY <2>1, FS_AddElement, FS_CardinalityType
  <2>5. CASE d \in Cidrs
    BY <2>1, <2>2, <2>3, <2>4, <2>5, LimitsAreNumbers
  <2>6. CASE d \notin Cidrs
    BY <2>1, <2>2, <2>6
  <2> QED
    BY <2>5, <2>6
<1>10. /\ IsFiniteSet(x.lru) /\ Cardinality(x.lru) <= MaxRoutes
       /\ Mirrors(x.lru, x.paths)
  <2>1. CASE d \in Cidrs
    <3>1. d \in RoutesAt(s.paths, p) \/ Cardinality(s.lru) < MaxRoutes
      BY <2>1 DEF HasRouteRoom, IsNewRoute, RoutesAt
    <3>2. Touches(x.paths, s.paths, p, d)
      BY <1>1, <1>2, <1>3, <2>1 DEF Touches
    <3> QED
      BY <1>1, <1>7, <2>1, <3>1, <3>2, FrontCount, FrontMirrors
  <2>2. CASE d \notin Cidrs
    <3>1. \A q \in DOMAIN s.paths : DOMAIN x.paths[q].routes = DOMAIN s.paths[q].routes
          /\ \A c \in DOMAIN s.paths[q].routes : x.paths[q].routes[c] = s.paths[q].routes[c]
      BY <1>1, <1>2, <2>2 DEF RoutesAt
    <3>2. p \notin DOMAIN s.paths => DOMAIN x.paths[p].routes = {}
      BY <1>1, <1>2, <2>2 DEF RoutesAt
    <3>3. \A q \in DOMAIN s.paths : \A c \in DOMAIN s.paths[q].routes :
             EntryOf(x.paths, q, c) = EntryOf(s.paths, q, c)
      BY <3>1 DEF EntryOf
    <3>4. Mirrors(s.lru, x.paths)
      BY <1>1, <1>7, <3>1, <3>2, <3>3 DEF Mirrors
    <3> QED
      BY <1>1, <1>7, <2>2, <3>4
  <2> QED
    BY <2>1, <2>2
<1>11. \A q \in DOMAIN t.paths : IsFiniteSet(DOMAIN t.paths[q].routes)
                                 /\ Cardinality(DOMAIN t.paths[q].routes) <= MaxNodeRoutes
  BY <1>1, <1>5, <1>7, <1>9
<1>12. SoundLease(t)
  BY <1>5, <1>6, <1>8, <1>10, <1>11 DEF SoundLease, Consistent
<1> QED
  BY <1>1, <1>5, <1>12 DEF t, x, used

(* trim_on_demand_overlay_paths evicts what is over the limit, as far as   *)
(* there are candidates.                                                   *)
Trimmed(ps, O, limit, safe) ==
    /\ IsFiniteSet(O \ ps) /\ ps \subseteq O \ safe
    /\ Cardinality(O \ ps) <= limit \/ O \ ps = O \cap safe

LEMMA TrimsFacts ==
    ASSUME NEW s, SoundLease(s), NEW B, NEW limit \in Int, NEW safe,
           NEW ps \in Trims(s, B, limit, safe)
    PROVE  Trimmed(ps, DOMAIN s.paths \ B, limit, safe)
<1> DEFINE O == DOMAIN s.paths \ B
           C == O \ safe
           excess == Max({Cardinality(O) - limit, 0})
           n == Min({excess, Cardinality(C)})
<1>1. ps \subseteq C /\ Cardinality(ps) = n
  BY Zenon DEF Trims, kSubset
<1>2. IsFiniteSet(O) /\ IsFiniteSet(C) /\ IsFiniteSet(ps) /\ IsFiniteSet(O \ ps)
  <2>1. IsFiniteSet(O)
    BY FS_Subset DEF SoundLease, Consistent
  <2> HIDE DEF O
  <2> QED
    BY <1>1, <2>1, FS_Subset
<1> HIDE DEF O
<1>3. /\ Cardinality(O) \in Nat /\ Cardinality(C) \in Nat
      /\ Cardinality(ps) \in Nat /\ Cardinality(O \ ps) \in Nat
  BY <1>2, FS_CardinalityType
<1>4. Cardinality(O \ ps) = Cardinality(O) - Cardinality(ps)
  <2>1. Cardinality(O \ ps) = Cardinality(O) - Cardinality(O \cap ps) /\ O \cap ps = ps
    BY <1>1, <1>2, FS_Difference
  <2> QED
    BY <2>1
<1> HIDE DEF C
<1>5. excess = (IF Cardinality(O) - limit <= 0 THEN 0 ELSE Cardinality(O) - limit)
      /\ excess \in Int
  <2> DEFINE k == Cardinality(O) - limit
  <2>1. k \in Int /\ 0 \in Int
    BY <1>3
  <2> HIDE DEF k
  <2>2. Max({k, 0}) = IF k <= 0 THEN 0 ELSE k
    BY <2>1, MinMaxOfTwo
  <2>3. excess = Max({k, 0})
    BY DEF k
  <2>4. excess = (IF k <= 0 THEN 0 ELSE k) /\ excess \in Int
    BY <2>1, <2>2, <2>3
  <2> HIDE DEF excess
  <2> QED
    BY <2>4 DEF k
<1> HIDE DEF excess
<1>6. n = IF excess <= Cardinality(C) THEN excess ELSE Cardinality(C)
  BY <1>3, <1>5, MinMaxOfTwo
<1> HIDE DEF n
<1>7. CASE excess <= Cardinality(C)
  BY <1>1, <1>2, <1>3, <1>4, <1>5, <1>6, <1>7 DEF Trimmed, O, C
<1>8. CASE ~(excess <= Cardinality(C))
  <2>1. Cardinality(ps) = Cardinality(C)
    BY <1>1, <1>6, <1>8
  <2>2. ps = C
    BY <1>1, <1>2, <2>1, FS_Subset
  <2> QED
    BY <1>1, <1>2, <2>2 DEF Trimmed, O, C
<1> QED
  BY <1>7, <1>8

(* The eviction before a path is recorded leaves room for its peer.        *)
LEMMA WithinBudgetSound ==
    ASSUME NEW s, SoundLease(s), NEW p, NEW m, m.on_demand_peer_limit \in Nat,
           p \in m.neighbors \/ m.on_demand_peer_limit > 0,
           NEW t \in WithinBudget(s, p, m)
    PROVE  /\ SoundLease(t) /\ Within(t, s)
           /\ p \notin m.neighbors =>
                 Cardinality((DOMAIN t.paths \cup {p}) \ m.neighbors) <= m.on_demand_peer_limit
<1> DEFINE r == IF p \in DOMAIN s.paths /\ s.paths[p].epochs # EpochsOf(m)
                THEN RemovePeers(s, {p}) ELSE s
           exists == p \in DOMAIN r.paths
           limit == m.on_demand_peer_limit
           keep == IF exists THEN limit ELSE limit - 1
           safe == IF exists THEN {p} ELSE {}
           N == m.neighbors
<1>1. SoundLease(r) /\ Within(r, s)
  <2>1. SoundLease(RemovePeers(s, {p})) /\ Within(RemovePeers(s, {p}), s)
    BY RemovePeersSound, RemovePeersFacts DEF SoundLease, Within
  <2>2. Within(s, s)
    BY DEF Within
  <2> QED
    BY <2>1, <2>2
<1>2. IF p \in N THEN t = r
      ELSE \E ps \in Trims(r, N, keep, safe) : t = Dismissed(r, ps)
  <2>1. WithinBudget(s, p, m)
           = IF p \in N THEN {r} ELSE {Dismissed(r, ps) : ps \in Trims(r, N, keep, safe)}
    BY Zenon DEF WithinBudget
  <2> HIDE DEF r, keep, safe, N
  <2>2. CASE p \in N
    BY <2>1, <2>2
  <2>3. CASE p \notin N
    BY <2>1, <2>3
  <2> QED
    BY <2>2, <2>3
<1> HIDE DEF r
<1>3. CASE p \in N
  BY <1>1, <1>2, <1>3
<1>4. CASE p \notin N
  <2>1. PICK ps \in Trims(r, N, keep, safe) : t = Dismissed(r, ps)
    BY <1>2, <1>4
  <2>2. limit \in Nat /\ limit >= 1 /\ keep \in Int
    BY <1>4
  <2> DEFINE O == DOMAIN r.paths \ N
  <2>3. /\ IsFiniteSet(O \ ps) /\ ps \subseteq O \ safe
        /\ Cardinality(O \ ps) <= keep \/ O \ ps = O \cap safe
    <3>1. Trimmed(ps, O, keep, safe)
      <4> HIDE DEF keep, safe, N
      <4> QED
        BY <1>1, <2>1, <2>2, TrimsFacts
    <3> HIDE DEF keep, safe, N, O
    <3> QED
      BY <3>1 DEF Trimmed
  <2>4. SoundLease(t) /\ DOMAIN t.paths = DOMAIN r.paths \ ps
        /\ \A q \in DOMAIN t.paths : t.paths[q] = r.paths[q]
    <3> HIDE DEF keep, safe, N
    <3> QED
      BY <1>1, <2>1, DismissedSound, DismissedFacts DEF SoundLease
  <2>5. Within(t, s)
    BY <1>1, <2>4 DEF Within
  <2>6. Cardinality((DOMAIN t.paths \cup {p}) \ N) <= limit
    <3>1. CASE exists
      <4>1. (DOMAIN t.paths \cup {p}) \ N = O \ ps
        BY <1>4, <2>3, <2>4, <3>1
      <4>2. CASE Cardinality(O \ ps) <= keep
        <5>1. keep = limit
          BY <3>1
        <5> HIDE DEF O, keep, exists
        <5> QED
          BY <4>1, <4>2, <5>1
      <4>3. CASE O \ ps = O \cap safe
        <5>1. O \ ps = {p}
          BY <1>4, <3>1, <4>3
        <5>2. Cardinality({p}) = 1
          BY FS_Singleton
        <5> HIDE DEF O
        <5> QED
          BY <2>2, <4>1, <5>1, <5>2
      <4> QED
        BY <2>3, <4>2, <4>3
    <3>2. CASE ~exists
      <4>1. (DOMAIN t.paths \cup {p}) \ N = (O \ ps) \cup {p} /\ p \notin O \ ps
        BY <1>4, <2>4, <3>2
      <4>2. Cardinality((O \ ps) \cup {p}) = Cardinality(O \ ps) + 1
            /\ Cardinality(O \ ps) \in Nat
        <5> HIDE DEF O
        <5> QED
          BY <2>3, <4>1, FS_AddElement, FS_CardinalityType
      <4>3. keep = limit - 1
        BY <3>2
      <4>4. O \ ps = O \cap safe => O \ ps = {}
        BY <3>2
      <4>5. Cardinality(O \ ps) <= limit - 1
        <5>1. Cardinality({}) = 0
          BY FS_EmptySet
        <5> HIDE DEF O, keep, safe, exists, limit
        <5> QED
          BY <2>2, <2>3, <4>3, <4>4, <5>1
      <4> HIDE DEF O, N, keep, exists, limit
      <4>6. Cardinality((O \ ps) \cup {p}) <= limit
        BY <2>2, <4>2, <4>5
      <4> QED
        BY <4>1, <4>6
    <3> QED
      BY <3>1, <3>2
  <2> QED
    BY <1>4, <2>4, <2>5, <2>6
<1> QED
  BY <1>3, <1>4

Shaped(P) == \A p \in DOMAIN P : DOMAIN P[p] = PathFields

(* The same leases, whatever the ages.                                     *)
Alike(Q, P) == DOMAIN Q = DOMAIN P /\ \A p \in DOMAIN P : Q[p].epochs = P[p].epochs

AgedPaths(P) ==
    [p \in DOMAIN P |-> [P[p] EXCEPT !.routes = [c \in DOMAIN @ |-> Older(@[c])]]]
AgedOrder(L) == {[e EXCEPT !.age = Older(@)] : e \in L}
TouchedPaths(P, p, d) == [P EXCEPT ![p].routes[d] = 0]

(* A tick ages leases and order alike.                                     *)
LEMMA AgedConsistent ==
    ASSUME NEW P, NEW L, NEW U, Consistent(P, L, U),
           Shaped(P), NEW V, DOMAIN V = DOMAIN U
    PROVE  /\ Consistent(AgedPaths(P), AgedOrder(L), V)
           /\ Shaped(AgedPaths(P)) /\ Alike(AgedPaths(P), P)
<1> DEFINE Q == AgedPaths(P)
           M == AgedOrder(L)
<1> DEFINE Aged(e) == [e EXCEPT !.age = Older(@)]
<1>1. DOMAIN Q = DOMAIN P /\ M = {Aged(e) : e \in L}
  BY DEF AgedPaths, AgedOrder
<1>2. ASSUME NEW p \in DOMAIN P
      PROVE  /\ DOMAIN Q[p] = PathFields /\ Q[p].epochs = P[p].epochs
             /\ DOMAIN Q[p].routes = DOMAIN P[p].routes
             /\ \A c \in DOMAIN P[p].routes : Q[p].routes[c] = Older(P[p].routes[c])
  <2> DEFINE aged == [c \in DOMAIN P[p].routes |-> Older(P[p].routes[c])]
  <2>1. Q[p] = [P[p] EXCEPT !.routes = aged] /\ DOMAIN P[p] = PathFields
    BY DEF AgedPaths, Shaped
  <2>2. DOMAIN aged = DOMAIN P[p].routes
        /\ \A c \in DOMAIN P[p].routes : aged[c] = Older(P[p].routes[c])
    OBVIOUS
  <2> HIDE DEF aged, Q
  <2>3. DOMAIN Q[p] = PathFields /\ Q[p].epochs = P[p].epochs /\ Q[p].routes = aged
    BY <2>1 DEF PathFields
  <2> QED
    BY <2>2, <2>3
<1> HIDE DEF Q, M
<1>3. \A p \in DOMAIN P : \A c \in DOMAIN P[p].routes :
          EntryOf(Q, p, c) = Aged(EntryOf(P, p, c))
  <2>1. \A a, q, k : Aged([age |-> a, peer |-> q, cidr |-> k])
                        = [age |-> Older(a), peer |-> q, cidr |-> k]
    OBVIOUS
  <2> HIDE DEF Aged
  <2> TAKE p \in DOMAIN P
  <2> TAKE c \in DOMAIN P[p].routes
  <2>2. Q[p].routes[c] = Older(P[p].routes[c])
    BY <1>2
  <2> QED
    BY <2>1, <2>2 DEF EntryOf
<1> HIDE DEF Aged
<1>4. \A R, q, c : EntryOf(R, q, c).peer = q /\ EntryOf(R, q, c).cidr = c
  BY DEF EntryOf
<1>5. Mirrors(M, Q)
  <2>1. Mirrors(L, P)
    BY DEF Consistent
  <2>2. ASSUME NEW e \in M
        PROVE  /\ e.peer \in DOMAIN Q /\ e.cidr \in DOMAIN Q[e.peer].routes
               /\ e = EntryOf(Q, e.peer, e.cidr)
    <3>1. PICK o \in L : e = Aged(o)
      BY <1>1
    <3>2. o.peer \in DOMAIN P /\ o.cidr \in DOMAIN P[o.peer].routes
          /\ o = EntryOf(P, o.peer, o.cidr)
      BY <2>1 DEF Mirrors
    <3>3. e = EntryOf(Q, o.peer, o.cidr)
      BY <1>3, <3>1, <3>2
    <3> QED
      BY <1>1, <1>2, <1>4, <3>2, <3>3
  <2>3. ASSUME NEW p \in DOMAIN Q, NEW c \in DOMAIN Q[p].routes
        PROVE  EntryOf(Q, p, c) \in M
    <3>1. EntryOf(P, p, c) \in L
      BY <1>1, <1>2, <2>1 DEF Mirrors
    <3>2. EntryOf(Q, p, c) = Aged(EntryOf(P, p, c))
      BY <1>1, <1>2, <1>3
    <3> QED
      BY <1>1, <3>1, <3>2
  <2> QED
    BY <2>2, <2>3 DEF Mirrors
<1>6. IsFiniteSet(M) /\ Cardinality(M) <= MaxRoutes
  <2> DEFINE f == [e \in L |-> Aged(e)]
  <2>1. f \in Surjection(L, M)
    BY <1>1 DEF Surjection
  <2>2. IsFiniteSet(L) /\ Cardinality(L) <= MaxRoutes
    BY DEF Consistent
  <2>3. IsFiniteSet(M) /\ Cardinality(M) <= Cardinality(L)
    BY <2>1, <2>2, FS_Surjection
  <2>4. Cardinality(L) \in Nat /\ Cardinality(M) \in Nat
    BY <2>2, <2>3, FS_CardinalityType
  <2> QED
    BY <2>2, <2>3, <2>4, LimitsAreNumbers
<1>7. Consistent(Q, M, V) /\ Shaped(Q) /\ Alike(Q, P)
  BY <1>1, <1>2, <1>5, <1>6 DEF Consistent, Shaped, Alike
<1> QED
  BY <1>7 DEF Q, M

(* A packet refreshes the lease of its route and its place in the order.   *)
LEMMA TouchedConsistent ==
    ASSUME NEW P, NEW L, NEW U, Consistent(P, L, U),
           Shaped(P), NEW p \in DOMAIN P, NEW d \in DOMAIN P[p].routes,
           NEW V, DOMAIN U \subseteq DOMAIN V
    PROVE  /\ Consistent(TouchedPaths(P, p, d), ToFront(L, p, d), V)
           /\ Shaped(TouchedPaths(P, p, d)) /\ Alike(TouchedPaths(P, p, d), P)
<1> DEFINE Q == TouchedPaths(P, p, d)
<1>1. DOMAIN Q = DOMAIN P /\ \A q \in DOMAIN P \ {p} : Q[q] = P[q]
  BY DEF TouchedPaths
<1>2. /\ DOMAIN Q[p] = PathFields /\ Q[p].epochs = P[p].epochs
      /\ DOMAIN Q[p].routes = DOMAIN P[p].routes /\ Q[p].routes[d] = 0
      /\ \A c \in DOMAIN P[p].routes \ {d} : Q[p].routes[c] = P[p].routes[c]
  <2> DEFINE fresh == [P[p].routes EXCEPT ![d] = 0]
  <2>1. Q[p] = [P[p] EXCEPT !.routes = fresh] /\ DOMAIN P[p] = PathFields
    BY DEF TouchedPaths, Shaped
  <2>2. DOMAIN fresh = DOMAIN P[p].routes /\ fresh[d] = 0
        /\ \A c \in DOMAIN P[p].routes \ {d} : fresh[c] = P[p].routes[c]
    OBVIOUS
  <2> HIDE DEF fresh, Q
  <2>3. DOMAIN Q[p] = PathFields /\ Q[p].epochs = P[p].epochs /\ Q[p].routes = fresh
    BY <2>1 DEF PathFields
  <2> QED
    BY <2>2, <2>3
<1> HIDE DEF Q
<1>3. Touches(Q, P, p, d)
  BY <1>1, <1>2 DEF Touches, RoutesAt
<1>4. Mirrors(ToFront(L, p, d), Q)
  BY <1>3, FrontMirrors DEF Consistent
<1>5. IsFiniteSet(ToFront(L, p, d)) /\ Cardinality(ToFront(L, p, d)) <= MaxRoutes
  BY FrontCount DEF Consistent, RoutesAt
<1>6. Consistent(Q, ToFront(L, p, d), V) /\ Shaped(Q) /\ Alike(Q, P)
  BY <1>1, <1>2, <1>4, <1>5 DEF Consistent, Shaped, Alike
<1> QED
  BY <1>6 DEF Q

---------------------------------------------------------------------------
(* The agent's invariant.                                                  *)

LeaseInv == SoundLease(LeaseState)

Replacing == {"forget", "trim", "publish"}     \* the leases follow the map to come

TaskInv ==
    /\ latest_map \in Maps \cup {NoMap}
    /\ \/ update \in {Free, Finished}
       \/ update.stage \in {"retain", "pin", "revoke"} \cup Replacing /\ update.map \in Maps

RoutingInv ==
    /\ latest_map = NoMap => DOMAIN paths = {}
    /\ \A p \in DOMAIN paths :
          paths[p].epochs.routing = IF update.stage \in Replacing THEN update.map.routing_epoch
                                    ELSE latest_map.routing_epoch

(* The leases on peers that are no neighbours under m are within its limit. *)
WithinLimit(P, m) == Cardinality(DOMAIN P \ m.neighbors) <= m.on_demand_peer_limit

LimitInv ==
    /\ update.stage \in {"free", "finished"} /\ latest_map # NoMap => WithinLimit(paths, latest_map)
    /\ update.stage = "publish" => WithinLimit(paths, update.map)
    /\ update.stage = "forget" => update.peers \cap DOMAIN paths = {}

Reachable == DOMAIN paths \ (latest_map.neighbors \cup latest_map.pinned_peers \cup pins)

(* Without a change to announce, what a reader has and what is kept is     *)
(* about the peers as they are.                                            *)
SnapInv ==
    /\ DOMAIN shortcuts = {"current", "peers"} /\ unannounced \in BOOLEAN
    /\ \/ unannounced \/ update.stage # "free"
       \/ /\ reader.stage = "maps" =>
                latest_map.neighbors \cup latest_map.pinned_peers \cup pins \subseteq reader.peers
          /\ reader.stage = "paths" => reader.peers \subseteq Reachable
          /\ shortcuts.current = TRUE => shortcuts.peers \subseteq Reachable

AgentInv == LeaseInv /\ TaskInv /\ RoutingInv /\ LimitInv /\ SnapInv

LEMMA LeaseStateFields ==
    /\ DOMAIN LeaseState = LeaseFields
    /\ LeaseState.paths = paths /\ LeaseState.lru = route_lru /\ LeaseState.used = last_used
  BY DEF LeaseState, LeaseFields

(* No lease is new, and none changes its epochs.                           *)
Shrinks ==
    /\ DOMAIN paths' \subseteq DOMAIN paths
    /\ \A p \in DOMAIN paths' : paths'[p].epochs = paths[p].epochs

LEMMA StoredSound ==
    ASSUME NEW s, SoundLease(s), StoreLeases(s)
    PROVE  LeaseInv' /\ (Within(s, LeaseState) => Shrinks)
<1>1. paths' = s.paths /\ route_lru' = s.lru /\ last_used' = s.used
  BY DEF StoreLeases
<1>2. LeaseInv'
  <2> DEFINE t == [paths |-> s.paths, lru |-> s.lru, used |-> s.used]
  <2>1. LeaseState' = t
    BY <1>1 DEF LeaseState
  <2>2. DOMAIN t = LeaseFields /\ t.paths = s.paths /\ t.lru = s.lru /\ t.used = s.used
    BY DEF LeaseFields
  <2> HIDE DEF t
  <2>3. SoundLease(t)
    BY <2>2 DEF SoundLease, IsLease
  <2> QED
    BY <2>1, <2>3, Zenon DEF LeaseInv
<1>3. Within(s, LeaseState) => Shrinks
  BY <1>1, LeaseStateFields DEF Within, Shrinks
<1> QED
  BY <1>2, <1>3

LEMMA SameLeases ==
    ASSUME LeaseInv, UNCHANGED leaseVars
    PROVE  LeaseInv' /\ Shrinks
<1>1. LeaseState' = LeaseState /\ paths' = paths
  BY DEF LeaseState, leaseVars
<1>2. LeaseInv'
  BY <1>1, Zenon DEF LeaseInv
<1> QED
  BY <1>1, <1>2 DEF Shrinks

LEMMA MapFacts ==
    ASSUME NEW m \in Maps
    PROVE  /\ m.neighbors \subseteq Peers /\ m.on_demand_peer_limit \in Nat /\ m # NoMap
  BY AgentAssumption

LEMMA RecordStep ==
    ASSUME AgentInv, NEW d, NEW m, RecordPath(d, m)
    PROVE  /\ LeaseInv'
           /\ \A p \in DOMAIN paths' : paths'[p].epochs.routing = latest_map.routing_epoch
           /\ WithinLimit(paths', latest_map)
<1> DEFINE p == TargetOf(d)
           N == latest_map.neighbors
           limit == latest_map.on_demand_peer_limit
           s == LeaseState
<1>1. update = Free /\ AnswerCurrent(m) /\ (p \in N \/ limit > 0) /\ update.stage = "free"
  BY DEF RecordPath, Free
<1>2. latest_map \in Maps /\ latest_map # NoMap /\ limit \in Nat
  BY <1>1, MapFacts DEF AnswerCurrent, AgentInv, TaskInv
<1>3. /\ \A q \in DOMAIN paths : paths[q].epochs.routing = latest_map.routing_epoch
      /\ Cardinality(DOMAIN paths \ N) <= limit
      /\ IsFiniteSet(DOMAIN paths)
  BY <1>1, <1>2, LeaseStateFields
     DEF AgentInv, RoutingInv, LimitInv, WithinLimit, LeaseInv, SoundLease, Consistent, Replacing
<1>4. EpochsOf(m).routing = latest_map.routing_epoch
  BY <1>1 DEF AnswerCurrent, EpochsOf
<1>5. SoundLease(s)
  BY DEF AgentInv, LeaseInv
<1>6. CASE p \in N /\ d \notin Cidrs
  <2> DEFINE t == [s EXCEPT !.used = Put(@, p, 0)]
  <2>1. StoreLeases(t)
    BY <1>6 DEF RecordPath
  <2>2. /\ DOMAIN t = LeaseFields /\ t.paths = s.paths /\ t.lru = s.lru
        /\ t.used = Put(s.used, p, 0)
    BY LeaseStateFields DEF LeaseFields
  <2> HIDE DEF t
  <2>3. DOMAIN t.used = DOMAIN s.used \cup {p}
    BY <2>2 DEF Put
  <2>4. SoundLease(t)
    BY <1>5, <2>2, <2>3 DEF SoundLease, IsLease, Consistent
  <2>5. LeaseInv' /\ paths' = paths
    BY <2>1, <2>2, <2>4, StoredSound, LeaseStateFields DEF StoreLeases
  <2> QED
    BY <1>3, <2>5 DEF WithinLimit
<1>7. CASE ~(p \in N /\ d \notin Cidrs)
  <2>1. PICK t \in WithinBudget(s, p, latest_map) : \E u \in MadeRoom(t, p, d) :
             StoreLeases([UpsertPath(u, p, d, EpochsOf(m)) EXCEPT !.used = Put(@, p, 0)])
    BY <1>7, Zenon DEF RecordPath
  <2>2. PICK u \in MadeRoom(t, p, d) :
             StoreLeases([UpsertPath(u, p, d, EpochsOf(m)) EXCEPT !.used = Put(@, p, 0)])
    BY <2>1
  <2> DEFINE v == [UpsertPath(u, p, d, EpochsOf(m)) EXCEPT !.used = Put(@, p, 0)]
  <2>3. /\ SoundLease(t) /\ Within(t, s)
        /\ p \notin N => Cardinality((DOMAIN t.paths \cup {p}) \ N) <= limit
    <3> HIDE DEF s, p
    <3> QED
      BY <1>1, <1>2, <1>5, <2>1, WithinBudgetSound
  <2>4. SoundLease(u) /\ Within(u, t) /\ HasRouteRoom(u, p, d)
    <3> HIDE DEF s, p
    <3> QED
      BY <2>2, <2>3, MadeRoomSound
  <2>5. /\ SoundLease(v) /\ DOMAIN v.paths = DOMAIN u.paths \cup {p}
        /\ \A q \in DOMAIN u.paths \ {p} : v.paths[q] = u.paths[q]
        /\ v.paths[p].epochs = EpochsOf(m)
    <3> HIDE DEF s, p
    <3> QED
      BY <2>4, UpsertSound
  <2>6. StoreLeases(v)
    BY <2>2
  <2> HIDE DEF v
  <2>7. LeaseInv' /\ paths' = v.paths
    BY <2>5, <2>6, StoredSound DEF StoreLeases
  <2>8. DOMAIN u.paths \subseteq DOMAIN t.paths /\ DOMAIN t.paths \subseteq DOMAIN paths
        /\ \A q \in DOMAIN u.paths : u.paths[q].epochs = paths[q].epochs
    BY <2>3, <2>4, LeaseStateFields DEF Within
  <2>9. \A q \in DOMAIN paths' : paths'[q].epochs.routing = latest_map.routing_epoch
    <3> HIDE DEF p, s
    <3> QED
      BY <1>3, <1>4, <2>5, <2>7, <2>8
  <2>10. WithinLimit(paths', latest_map)
    <3> DEFINE A == DOMAIN paths' \ N
               B == (DOMAIN t.paths \cup {p}) \ N
               C == DOMAIN paths \ N
    <3> SUFFICES Cardinality(A) <= limit
      BY DEF WithinLimit
    <3>1. IsFiniteSet(DOMAIN t.paths) /\ IsFiniteSet(DOMAIN paths)
      BY <1>3, <2>3 DEF SoundLease, Consistent
    <3>2. IsFiniteSet(B) /\ IsFiniteSet(C)
      <4>1. IsFiniteSet(DOMAIN t.paths \cup {p})
        BY <3>1, FS_AddElement
      <4> QED
        BY <3>1, <4>1, FS_Subset
    <3>3. A \subseteq B /\ (p \in N => A \subseteq C)
      <4> HIDE DEF p, s
      <4> QED
        BY <2>5, <2>7, <2>8
    <3>4. Cardinality(C) <= limit /\ (p \notin N => Cardinality(B) <= limit)
      BY <1>3, <2>3
    <3> HIDE DEF A, B, C
    <3> QED
      BY <1>2, <3>2, <3>3, <3>4, SubsetBounds
  <2> QED
    BY <2>7, <2>9, <2>10
<1> QED
  BY <1>6, <1>7

LEMMA ExpireStep ==
    ASSUME LeaseInv, NEW c, ExpireRoutes(c)
    PROVE  /\ LeaseInv' /\ Shrinks /\ update = Free
           /\ update' = Finished \/ (update' = Free /\ DOMAIN paths' = DOMAIN paths)
<1> DEFINE expired  == {e \in route_lru : e.age >= IdleTimeout}
           s        == RemoveRoutes(LeaseState, expired)
           ended    == {e.peer : e \in expired} \ DOMAIN s.paths
           backbone == IF latest_map = NoMap THEN {} ELSE latest_map.neighbors
           removed  == ended \ backbone
           t        == RemoveActivity(s, removed)
<1>1. /\ update = Free /\ StoreLeases(t)
      /\ update' = IF expired = {} THEN Free ELSE Finished
  BY Zenon DEF ExpireRoutes
<1>2. expired \in SUBSET LeaseState.lru
  BY LeaseStateFields
<1>3. removed \cap DOMAIN s.paths = {} /\ SoundLease(LeaseState)
  BY DEF LeaseInv
<1> HIDE DEF removed, backbone, ended
<1>4. /\ SoundLease(s) /\ DOMAIN s.paths \subseteq DOMAIN paths
      /\ \A p \in DOMAIN s.paths : s.paths[p].epochs = paths[p].epochs
      /\ \A p \in DOMAIN paths \ DOMAIN s.paths : p \in {e.peer : e \in expired}
  <2> HIDE DEF expired
  <2>1. SoundLease(s)
    BY <1>2, <1>3, RemoveRoutesSound
  <2>2. IsLease(LeaseState)
    BY <1>3 DEF SoundLease
  <2> QED
    BY <2>1, <2>2, RemoveRoutesFacts, LeaseStateFields
<1>5. expired = {} => DOMAIN s.paths = DOMAIN paths
  BY <1>4
<1> HIDE DEF expired, s
<1>6. SoundLease(t) /\ t.paths = s.paths
  BY <1>3, <1>4, RemoveActivitySound, RemoveActivityFacts DEF SoundLease
<1>7. Within(t, LeaseState)
  BY <1>4, <1>6, LeaseStateFields DEF Within
<1> HIDE DEF t
<1>8. LeaseInv' /\ Shrinks /\ paths' = t.paths
  BY <1>1, <1>6, <1>7, StoredSound DEF StoreLeases
<1> QED
  BY <1>1, <1>5, <1>6, <1>8

LEMMA DismissStep ==
    ASSUME LeaseInv, NEW ps, StoreLeases(Dismissed(LeaseState, ps))
    PROVE  LeaseInv' /\ Shrinks /\ DOMAIN paths' = DOMAIN paths \ ps
<1> DEFINE t == Dismissed(LeaseState, ps)
<1>1. SoundLease(LeaseState)
  BY DEF LeaseInv
<1>2. SoundLease(t) /\ DOMAIN t.paths = DOMAIN paths \ ps
      /\ \A p \in DOMAIN t.paths : t.paths[p] = paths[p]
  <2>1. IsLease(LeaseState)
    BY <1>1 DEF SoundLease
  <2> QED
    BY <1>1, <2>1, DismissedSound, DismissedFacts, LeaseStateFields
<1>3. StoreLeases(t)
  OBVIOUS
<1> HIDE DEF t
<1>4. Within(t, LeaseState)
  BY <1>2, LeaseStateFields DEF Within
<1> QED
  BY <1>2, <1>3, <1>4, StoredSound DEF StoreLeases

LEMMA RevokeStep ==
    ASSUME LeaseInv, NEW ps, StoreLeases(RemovePeers(LeaseState, ps))
    PROVE  LeaseInv' /\ Shrinks /\ DOMAIN paths' = DOMAIN paths \ ps
<1> DEFINE t == RemovePeers(LeaseState, ps)
<1>1. SoundLease(LeaseState)
  BY DEF LeaseInv
<1>2. SoundLease(t) /\ DOMAIN t.paths = DOMAIN paths \ ps
      /\ \A p \in DOMAIN t.paths : t.paths[p] = paths[p]
  <2>1. IsLease(LeaseState)
    BY <1>1 DEF SoundLease
  <2> QED
    BY <1>1, <2>1, RemovePeersSound, RemovePeersFacts, LeaseStateFields
<1>3. StoreLeases(t)
  OBVIOUS
<1> HIDE DEF t
<1>4. Within(t, LeaseState)
  BY <1>2, LeaseStateFields DEF Within
<1> QED
  BY <1>2, <1>3, <1>4, StoredSound DEF StoreLeases

LEMMA ForgetStep ==
    ASSUME AgentInv, ForgetRevoked
    PROVE  LeaseInv' /\ Shrinks
<1> DEFINE t == RemoveActivity(LeaseState, update.peers)
<1>1. StoreLeases(t) /\ update.peers \cap DOMAIN LeaseState.paths = {}
  BY LeaseStateFields DEF ForgetRevoked, AgentInv, LimitInv
<1>2. SoundLease(LeaseState)
  BY DEF AgentInv, LeaseInv
<1>3. SoundLease(t) /\ t.paths = paths
  BY <1>1, <1>2, RemoveActivitySound, RemoveActivityFacts, LeaseStateFields DEF SoundLease
<1> HIDE DEF t
<1>4. Within(t, LeaseState)
  BY <1>3, LeaseStateFields DEF Within
<1> QED
  BY <1>1, <1>3, <1>4, StoredSound

LEMMA ActivityStep ==
    ASSUME LeaseInv, NEW d, NEW pin, Activity(d, pin)
    PROVE  LeaseInv' /\ Shrinks
<1> DEFINE p == TargetOf(d)
           touched == p \in DOMAIN paths /\ d \in DOMAIN paths[p].routes
<1>1. /\ last_used' = Put(last_used, p, 0)
      /\ paths' = IF touched THEN TouchedPaths(paths, p, d) ELSE paths
      /\ route_lru' = IF touched THEN ToFront(route_lru, p, d) ELSE route_lru
  BY Zenon DEF Activity, ToFront, TouchedPaths
<1>2. DOMAIN last_used \subseteq DOMAIN last_used'
  BY <1>1 DEF Put
<1>3. /\ Consistent(paths, route_lru, last_used)
      /\ Shaped(paths)
  BY LeaseStateFields DEF LeaseInv, SoundLease, IsLease, Shaped
<1>4. /\ Consistent(paths', route_lru', last_used') /\ Shaped(paths')
      /\ Alike(paths', paths)
  <2>1. CASE touched
    <3> HIDE DEF p
    <3>1. paths' = TouchedPaths(paths, p, d) /\ route_lru' = ToFront(route_lru, p, d)
      BY <1>1, <2>1
    <3> QED
      BY <1>2, <1>3, <2>1, <3>1, TouchedConsistent
  <2>2. CASE ~touched
    BY <1>1, <1>2, <1>3, <2>2 DEF Consistent, Alike
  <2> QED
    BY <2>1, <2>2
<1>5. LeaseInv'
  <2>1. /\ (DOMAIN LeaseState)' = LeaseFields /\ (LeaseState.paths)' = paths'
        /\ (LeaseState.lru)' = route_lru' /\ (LeaseState.used)' = last_used'
    BY DEF LeaseState, LeaseFields
  <2> QED
    BY <1>4, <2>1 DEF LeaseInv, SoundLease, IsLease, Shaped
<1> QED
  BY <1>4, <1>5 DEF Shrinks, Alike

LEMMA TickStep ==
    ASSUME LeaseInv, AgentTick
    PROVE  LeaseInv' /\ Shrinks /\ DOMAIN paths' = DOMAIN paths
<1>1. /\ Consistent(paths, route_lru, last_used)
      /\ Shaped(paths)
  BY LeaseStateFields DEF LeaseInv, SoundLease, IsLease, Shaped
<1>2. /\ DOMAIN last_used' = DOMAIN last_used
      /\ paths' = AgedPaths(paths) /\ route_lru' = AgedOrder(route_lru)
  <2>1. paths' = AgedPaths(paths) /\ route_lru' = AgedOrder(route_lru)
    BY Zenon DEF AgentTick, AgedPaths, AgedOrder
  <2>2. DOMAIN last_used' = DOMAIN last_used
    BY DEF AgentTick
  <2> QED
    BY <2>1, <2>2
<1>3. /\ Consistent(paths', route_lru', last_used') /\ Shaped(paths')
      /\ Alike(paths', paths)
  BY <1>1, <1>2, AgedConsistent
<1>4. LeaseInv'
  <2>1. /\ (DOMAIN LeaseState)' = LeaseFields /\ (LeaseState.paths)' = paths'
        /\ (LeaseState.lru)' = route_lru' /\ (LeaseState.used)' = last_used'
    BY DEF LeaseState, LeaseFields
  <2> QED
    BY <1>3, <2>1 DEF LeaseInv, SoundLease, IsLease, Shaped
<1> QED
  BY <1>3, <1>4 DEF Shrinks, Alike

(* What every action does to the leases.                                   *)
LEMMA LeaseStep ==
    ASSUME AgentInv, [AgentNext]_agentVars
    PROVE  /\ LeaseInv'
           /\ Shrinks \/ \E d \in Destinations, m \in Maps : RecordPath(d, m)
<1> USE DEF AgentInv
<1>1. CASE UNCHANGED leaseVars
  BY <1>1, SameLeases
<1>2. CASE RevokePaths
  BY <1>2, RevokeStep DEF RevokePaths
<1>3. CASE ForgetRevoked
  BY <1>3, ForgetStep
<1>4. CASE TrimPaths
  BY <1>4, DismissStep DEF TrimPaths
<1>5. ASSUME NEW d \in Destinations, NEW m \in Maps, RecordPath(d, m)
      PROVE  LeaseInv'
  BY <1>5, RecordStep
<1>6. ASSUME NEW c \in BOOLEAN, ExpireRoutes(c)
      PROVE  LeaseInv' /\ Shrinks
  BY <1>6, ExpireStep
<1>7. CASE TakeIdle
  BY <1>7, DismissStep DEF TakeIdle
<1>8. ASSUME NEW d \in Destinations, NEW pin \in BOOLEAN, Activity(d, pin)
      PROVE  LeaseInv' /\ Shrinks
  BY <1>8, ActivityStep
<1>9. CASE AgentTick
  BY <1>9, TickStep
<1>10. CASE \/ Announce \/ ReleaseUpdate \/ \E m \in Maps : BeginUpdate(m)
            \/ RetainPrevious \/ ReplacePins \/ PublishMap \/ Repin
            \/ ReadMaps \/ ReadPaths \/ KeepSnapshot \/ UNCHANGED agentVars
  <2>1. UNCHANGED leaseVars
    BY <1>10 DEF Announce, ReleaseUpdate, BeginUpdate, RetainPrevious, ReplacePins, PublishMap,
                 Repin, ReadMaps, ReadPaths, KeepSnapshot, agentVars
  <2> QED
    BY <1>1, <2>1
<1> QED
  BY <1>2, <1>3, <1>4, <1>5, <1>6, <1>7, <1>8, <1>9, <1>10 DEF AgentNext

(* The stages of an update, one after the other.                           *)
LEMMA StageFacts ==
    /\ Free.stage = "free" /\ Finished.stage = "finished"
    /\ \A st, m, a, ps : LET h == Holding(st, m, a, ps)
                         IN  h.stage = st /\ h.map = m /\ h.peers = ps
  BY DEF Free, Finished, Holding

(* How each action moves the task that holds neighbor_map_update.          *)
LEMMA UpdateSteps ==
    ASSUME AgentInv, [AgentNext]_agentVars
    PROVE  \/ UNCHANGED <<latest_map, update>>
           \/ latest_map' = latest_map /\ update.stage = "finished" /\ update' = Free
           \/ /\ latest_map' = latest_map /\ update.stage = "free"
              /\ \E m \in Maps : update'.stage = "retain" /\ update'.map = m
           \/ /\ latest_map' = latest_map /\ update'.map = update.map
              /\ \/ update.stage = "retain" /\ update'.stage = "pin"
                 \/ update.stage = "pin" /\ update'.stage = "revoke"
                 \/ RevokePaths /\ update'.stage = "forget"
                 \/ update.stage = "forget" /\ update'.stage = "trim"
                 \/ TrimPaths /\ update'.stage = "publish"
           \/ update.stage = "publish" /\ latest_map' = update.map /\ update' = Free
              /\ UNCHANGED leaseVars
           \/ latest_map' = latest_map /\ update.stage = "free" /\ update' = Finished
<1>1. CASE ReleaseUpdate
  BY <1>1, StageFacts DEF ReleaseUpdate, mapVars
<1>2. ASSUME NEW m \in Maps, BeginUpdate(m)
      PROVE  /\ latest_map' = latest_map /\ update.stage = "free"
             /\ update'.stage = "retain" /\ update'.map = m
  BY <1>2, StageFacts DEF BeginUpdate, mapVars
<1>3. CASE RetainPrevious
  <2>1. PICK a, ps : update' = Holding("pin", update.map, a, ps)
    BY <1>3, Zenon DEF RetainPrevious
  <2>2. update'.stage = "pin" /\ update'.map = update.map
    BY <2>1, StageFacts
  <2> QED
    BY <1>3, <2>2 DEF RetainPrevious
<1>4. CASE ReplacePins
  BY <1>4, StageFacts DEF ReplacePins, mapVars
<1>5. CASE RevokePaths
  <2>1. PICK ps : update' = Holding("forget", update.map, {}, ps)
    BY <1>5, Zenon DEF RevokePaths
  <2>2. update'.stage = "forget" /\ update'.map = update.map
    BY <2>1, StageFacts
  <2> QED
    BY <1>5, <2>2 DEF RevokePaths, mapVars
<1>6. CASE ForgetRevoked
  BY <1>6, StageFacts DEF ForgetRevoked, mapVars
<1>7. CASE TrimPaths
  BY <1>7, StageFacts DEF TrimPaths, mapVars
<1>8. CASE PublishMap
  BY <1>8 DEF PublishMap
<1>9. ASSUME NEW d \in Destinations, NEW m \in Maps, RecordPath(d, m)
      PROVE  latest_map' = latest_map /\ update.stage = "free" /\ update' = Finished
  BY <1>9, StageFacts DEF RecordPath, mapVars
<1>10. ASSUME NEW c \in BOOLEAN, ExpireRoutes(c)
       PROVE  latest_map' = latest_map /\ update = Free /\ update' \in {Free, Finished}
  BY <1>10 DEF ExpireRoutes, mapVars
<1>11. CASE \/ Announce \/ Repin \/ TakeIdle
            \/ \E d \in Destinations, pin \in BOOLEAN : Activity(d, pin)
            \/ ReadMaps \/ ReadPaths \/ KeepSnapshot \/ AgentTick \/ UNCHANGED agentVars
  BY <1>11 DEF Announce, Repin, TakeIdle, Activity, ReadMaps, ReadPaths, KeepSnapshot, AgentTick,
               agentVars, mapVars, taskVars
<1>12. CASE AgentNext
  BY <1>1, <1>2, <1>3, <1>4, <1>5, <1>6, <1>7, <1>8, <1>9, <1>10, <1>11, <1>12, StageFacts
     DEF AgentNext
<1> QED
  BY <1>11, <1>12

LEMMA TaskStep ==
    ASSUME AgentInv, [AgentNext]_agentVars
    PROVE  TaskInv'
  BY UpdateSteps, StageFacts DEF AgentInv, TaskInv, Replacing, RevokePaths, TrimPaths

LEMMA RoutingStep ==
    ASSUME AgentInv, [AgentNext]_agentVars
    PROVE  RoutingInv'
<1>1. CASE \E d \in Destinations, m \in Maps : RecordPath(d, m)
  <2>1. PICK d \in Destinations, m \in Maps : RecordPath(d, m)
    BY <1>1
  <2>2. /\ latest_map' = latest_map /\ latest_map # NoMap /\ update'.stage = "finished"
        /\ \A p \in DOMAIN paths' : paths'[p].epochs.routing = latest_map.routing_epoch
    BY <2>1, RecordStep, StageFacts DEF RecordPath, AnswerCurrent, mapVars
  <2> QED
    BY <2>2 DEF RoutingInv, Replacing
<1>2. CASE Shrinks
  <2>1. latest_map = NoMap => DOMAIN paths' = {}
    BY <1>2 DEF Shrinks, AgentInv, RoutingInv
  <2>2. \A p \in DOMAIN paths' :
           /\ p \in DOMAIN paths
           /\ paths'[p].epochs.routing = IF update.stage \in Replacing
                                         THEN update.map.routing_epoch
                                         ELSE latest_map.routing_epoch
    BY <1>2 DEF Shrinks, AgentInv, RoutingInv
  <2>3. CASE RevokePaths
    <3> DEFINE revoked == {p \in DOMAIN paths :
                              \/ Changed(update.map, "routing")
                              \/ paths[p].epochs.topology \notin update.active}
    <3>1. /\ StoreLeases(RemovePeers(LeaseState, revoked))
          /\ update' = Holding("forget", update.map, {}, revoked)
          /\ latest_map' = latest_map /\ update.stage = "revoke"
      BY <2>3 DEF RevokePaths, mapVars
    <3>2. DOMAIN paths' = DOMAIN paths \ revoked
      <4> HIDE DEF revoked
      <4> QED
        BY <3>1, RevokeStep DEF AgentInv
    <3>3. ASSUME NEW p \in DOMAIN paths'
          PROVE  latest_map.routing_epoch = update.map.routing_epoch
      <4>1. ~Changed(update.map, "routing") /\ latest_map # NoMap
        BY <2>1, <3>2
      <4>2. EpochsOf(latest_map)["routing"] = EpochsOf(update.map)["routing"]
        BY <4>1 DEF Changed
      <4> QED
        BY <4>2 DEF EpochsOf
    <3>4. update'.stage = "forget" /\ update'.map = update.map
      BY <3>1, StageFacts
    <3> QED
      BY <2>1, <2>2, <3>1, <3>3, <3>4 DEF RoutingInv, Replacing
  <2>4. CASE ~RevokePaths
    BY <2>1, <2>2, <2>4, UpdateSteps, StageFacts, MapFacts
       DEF RoutingInv, Replacing, TrimPaths, AgentInv, TaskInv
  <2> QED
    BY <2>3, <2>4
<1> QED
  BY <1>1, <1>2, LeaseStep

LEMMA ShrunkWithin ==
    ASSUME LeaseInv, Shrinks, NEW m \in Maps, WithinLimit(paths, m)
    PROVE  WithinLimit(paths', m)
<1> DEFINE A == DOMAIN paths \ m.neighbors
           B == DOMAIN paths' \ m.neighbors
<1>1. IsFiniteSet(A) /\ B \in SUBSET A
  <2>1. IsFiniteSet(DOMAIN paths)
    BY LeaseStateFields DEF LeaseInv, SoundLease, Consistent
  <2> QED
    BY <2>1, FS_Subset DEF Shrinks
<1>2. Cardinality(A) <= m.on_demand_peer_limit /\ m.on_demand_peer_limit \in Nat
  BY MapFacts DEF WithinLimit
<1> HIDE DEF A, B
<1>3. Cardinality(B) <= m.on_demand_peer_limit
  BY <1>1, <1>2, SubsetBounds
<1> QED
  BY <1>3 DEF WithinLimit, B

LEMMA TrimmedWithin ==
    ASSUME AgentInv, TrimPaths
    PROVE  WithinLimit(paths', update.map)
<1> DEFINE m == update.map
           O == DOMAIN paths \ m.neighbors
<1>1. m \in Maps /\ m.on_demand_peer_limit \in Nat
  BY StageFacts, MapFacts DEF TrimPaths, AgentInv, TaskInv, Replacing
<1>2. PICK ps \in Trims(LeaseState, m.neighbors, m.on_demand_peer_limit, {}) :
             StoreLeases(Dismissed(LeaseState, ps))
  BY DEF TrimPaths
<1>3. Trimmed(ps, O, m.on_demand_peer_limit, {})
  BY <1>1, <1>2, TrimsFacts, LeaseStateFields DEF AgentInv, LeaseInv
<1>4. DOMAIN paths' \ m.neighbors = O \ ps
  BY <1>2, DismissStep DEF AgentInv
<1> HIDE DEF O
<1>5. Cardinality(O \ ps) <= m.on_demand_peer_limit
  <2>1. Cardinality({}) = 0 /\ O \cap {} = {}
    BY FS_EmptySet
  <2> QED
    BY <1>1, <1>3, <2>1 DEF Trimmed
<1> QED
  BY <1>4, <1>5 DEF WithinLimit

LEMMA LimitStep ==
    ASSUME AgentInv, [AgentNext]_agentVars
    PROVE  LimitInv'
<1>1. CASE \E d \in Destinations, m \in Maps : RecordPath(d, m)
  <2>1. PICK d \in Destinations, m \in Maps : RecordPath(d, m)
    BY <1>1
  <2>2. latest_map' = latest_map /\ update'.stage = "finished" /\ WithinLimit(paths', latest_map)
    BY <2>1, RecordStep, StageFacts DEF RecordPath, mapVars
  <2> QED
    BY <2>2 DEF LimitInv
<1>2. CASE Shrinks
  <2>1. update'.stage = "forget" => update'.peers \cap DOMAIN paths' = {}
    <3>1. CASE RevokePaths
      <4> DEFINE revoked == {p \in DOMAIN paths :
                                \/ Changed(update.map, "routing")
                                \/ paths[p].epochs.topology \notin update.active}
      <4>1. /\ StoreLeases(RemovePeers(LeaseState, revoked))
            /\ update' = Holding("forget", update.map, {}, revoked)
        BY <3>1 DEF RevokePaths
      <4> HIDE DEF revoked
      <4>2. DOMAIN paths' = DOMAIN paths \ revoked
        BY <4>1, RevokeStep DEF AgentInv
      <4>3. update'.peers = revoked
        BY <4>1, StageFacts
      <4> QED
        BY <4>2, <4>3
    <3>2. CASE ~RevokePaths
      <4>1. update'.stage = "forget" => update' = update
        BY <3>2, UpdateSteps, StageFacts
      <4> QED
        BY <1>2, <4>1 DEF Shrinks, AgentInv, LimitInv
    <3> QED
      BY <3>1, <3>2
  <2>2. update'.stage = "publish" => WithinLimit(paths', update'.map)
    <3>1. CASE TrimPaths
      BY <3>1, TrimmedWithin, StageFacts DEF TrimPaths
    <3>2. CASE ~TrimPaths
      <4>1. update'.stage = "publish" => update' = update
        BY <3>2, UpdateSteps, StageFacts
      <4>2. update.stage = "publish" => update.map \in Maps /\ WithinLimit(paths, update.map)
        BY StageFacts DEF AgentInv, TaskInv, LimitInv
      <4> QED
        BY <1>2, <4>1, <4>2, ShrunkWithin DEF AgentInv
    <3> QED
      BY <3>1, <3>2
  <2>3. update'.stage \in {"free", "finished"} /\ latest_map' # NoMap
           => WithinLimit(paths', latest_map')
    <3> SUFFICES ASSUME update'.stage \in {"free", "finished"}, latest_map' # NoMap
                 PROVE  WithinLimit(paths', latest_map')
      OBVIOUS
    <3>1. \/ latest_map' = latest_map /\ update.stage \in {"free", "finished"}
          \/ update.stage = "publish" /\ latest_map' = update.map
      BY UpdateSteps, StageFacts
    <3>2. CASE latest_map' = latest_map /\ update.stage \in {"free", "finished"}
      <4>1. latest_map \in Maps /\ WithinLimit(paths, latest_map)
        BY <3>2 DEF AgentInv, TaskInv, LimitInv
      <4> QED
        BY <1>2, <3>2, <4>1, ShrunkWithin DEF AgentInv
    <3>3. CASE update.stage = "publish" /\ latest_map' = update.map
      <4>1. update.map \in Maps /\ WithinLimit(paths, update.map)
        BY <3>3, StageFacts DEF AgentInv, TaskInv, LimitInv
      <4> QED
        BY <1>2, <3>3, <4>1, ShrunkWithin DEF AgentInv
    <3> QED
      BY <3>1, <3>2, <3>3
  <2> QED
    BY <2>1, <2>2, <2>3 DEF LimitInv
<1> QED
  BY <1>1, <1>2, LeaseStep

LEMMA BumpClears ==
    ASSUME SnapInv, Bump
    PROVE  DOMAIN shortcuts' = {"current", "peers"} /\ reader'.stage = "free"
           /\ shortcuts'.current = FALSE
  BY StageFacts DEF SnapInv, Bump

LEMMA SnapStep ==
    ASSUME AgentInv, [AgentNext]_agentVars
    PROVE  SnapInv'
<1>1. CASE Announce \/ ReleaseUpdate \/ (\E m \in Maps : BeginUpdate(m)) \/ PublishMap
  <2>1. Bump /\ unannounced' \in BOOLEAN
    BY <1>1 DEF Announce, ReleaseUpdate, BeginUpdate, PublishMap, AgentInv, SnapInv
  <2> QED
    BY <2>1, BumpClears DEF AgentInv, SnapInv
<1>2. CASE RetainPrevious \/ ReplacePins \/ RevokePaths \/ ForgetRevoked \/ TrimPaths
           \/ \E d \in Destinations, m \in Maps : RecordPath(d, m)
  <2>1. UNCHANGED cacheVars
    BY <1>2 DEF RetainPrevious, ReplacePins, RevokePaths, ForgetRevoked, TrimPaths, RecordPath
  <2>2. update'.stage # "free"
    <3>1. CASE RetainPrevious
      <4>1. PICK a, ps : update' = Holding("pin", update.map, a, ps)
        BY <3>1, Zenon DEF RetainPrevious
      <4> QED
        BY <4>1, StageFacts
    <3>2. CASE RevokePaths
      <4>1. PICK ps : update' = Holding("forget", update.map, {}, ps)
        BY <3>2, Zenon DEF RevokePaths
      <4> QED
        BY <4>1, StageFacts
    <3>3. CASE ReplacePins
      BY <3>3, StageFacts DEF ReplacePins
    <3>4. CASE ForgetRevoked
      BY <3>4, StageFacts DEF ForgetRevoked
    <3>5. CASE TrimPaths
      BY <3>5, StageFacts DEF TrimPaths
    <3>6. CASE \E d \in Destinations, m \in Maps : RecordPath(d, m)
      <4>1. update' = Finished
        BY <3>6 DEF RecordPath
      <4> QED
        BY <4>1, StageFacts
    <3> QED
      BY <1>2, <3>1, <3>2, <3>3, <3>4, <3>5, <3>6
  <2> QED
    BY <2>1, <2>2 DEF AgentInv, SnapInv, cacheVars
<1>3. CASE Repin \/ AgentTick \/ UNCHANGED agentVars
  <2>1. UNCHANGED <<latest_map, pins, update, cacheVars>> /\ DOMAIN paths' = DOMAIN paths
    <3>1. CASE AgentTick
      BY <3>1, TickStep DEF AgentTick, AgentInv, pinVars, taskVars
    <3>2. CASE Repin \/ UNCHANGED agentVars
      BY <3>2 DEF Repin, agentVars, mapVars, leaseVars, pinVars, taskVars, cacheVars
    <3> QED
      BY <1>3, <3>1, <3>2
  <2> QED
    BY <2>1 DEF AgentInv, SnapInv, Reachable, cacheVars
<1>4. ASSUME NEW c \in BOOLEAN, ExpireRoutes(c)
      PROVE  SnapInv'
  <2>1. UNCHANGED <<latest_map, pins, cacheVars>>
    BY <1>4 DEF ExpireRoutes, mapVars, pinVars
  <2>2. \/ update'.stage = "finished"
        \/ update = Free /\ update' = Free /\ DOMAIN paths' = DOMAIN paths
    BY <1>4, ExpireStep, StageFacts DEF AgentInv
  <2> QED
    BY <2>1, <2>2, StageFacts DEF AgentInv, SnapInv, Reachable, cacheVars
<1>5. CASE TakeIdle
  <2> DEFINE unused == {p \in DOMAIN last_used :
                           last_used[p] >= IdleTimeout /\ ~DurablyPinned(p)}
             idle == unused \cup closing.peers
  <2>1. /\ StoreLeases(Dismissed(LeaseState, idle))
        /\ unannounced' = (unannounced \/ idle # {})
        /\ UNCHANGED <<latest_map, pins, update, reader, shortcuts>>
    BY <1>5 DEF TakeIdle, mapVars, pinVars
  <2> HIDE DEF idle
  <2>2. DOMAIN paths' = DOMAIN paths \ idle
    BY <2>1, DismissStep DEF AgentInv
  <2>3. unannounced' \in BOOLEAN
    BY <2>1, Zenon
  <2>4. CASE idle # {}
    BY <2>1, <2>3, <2>4 DEF AgentInv, SnapInv
  <2>5. CASE idle = {}
    <3>1. DOMAIN paths' = DOMAIN paths
      BY <2>2, <2>5
    <3>2. unannounced' = unannounced
      BY <2>1, <2>5, Zenon DEF AgentInv, SnapInv
    <3> QED
      BY <2>1, <3>1, <3>2 DEF AgentInv, SnapInv, Reachable
  <2> QED
    BY <2>4, <2>5
<1>6. ASSUME NEW d \in Destinations, NEW pin \in BOOLEAN, Activity(d, pin)
      PROVE  SnapInv'
  BY <1>6 DEF Activity, AgentInv, SnapInv
<1>7. CASE ReadMaps
  <2>1. /\ UNCHANGED <<latest_map, paths, pins, update, unannounced, shortcuts>>
        /\ reader'.stage = "maps"
        /\ latest_map.neighbors \cup latest_map.pinned_peers \cup pins \subseteq reader'.peers
    BY <1>7 DEF ReadMaps, TopologyPins, leaseVars, pinVars, taskVars
  <2> QED
    BY <2>1 DEF AgentInv, SnapInv, Reachable
<1>8. CASE ReadPaths
  <2>1. /\ UNCHANGED <<latest_map, paths, pins, update, unannounced, shortcuts>>
        /\ reader.stage = "maps" /\ reader'.stage = "paths"
        /\ reader'.peers \subseteq DOMAIN paths \ reader.peers
    BY <1>8 DEF ReadPaths, mapVars, leaseVars, pinVars, taskVars
  <2> QED
    BY <2>1 DEF AgentInv, SnapInv, Reachable
<1>9. CASE KeepSnapshot
  <2>1. /\ UNCHANGED <<latest_map, paths, pins, update, unannounced>>
        /\ reader.stage = "paths" /\ reader'.stage = "free"
        /\ shortcuts' = [current |-> TRUE, peers |-> reader.peers]
    BY <1>9, StageFacts DEF KeepSnapshot, mapVars, leaseVars, pinVars, taskVars
  <2>2. DOMAIN shortcuts' = {"current", "peers"} /\ shortcuts'.peers = reader.peers
    BY <2>1
  <2> QED
    BY <2>1, <2>2 DEF AgentInv, SnapInv, Reachable
<1> QED
  BY <1>1, <1>2, <1>3, <1>4, <1>5, <1>6, <1>7, <1>8, <1>9 DEF AgentNext

LEMMA AgentInductive ==
    /\ AgentInit => AgentInv
    /\ AgentInv /\ [AgentNext]_agentVars => AgentInv'
<1>1. ASSUME AgentInit PROVE AgentInv
  <2>1. paths = <<>> /\ route_lru = {} /\ last_used = <<>> /\ DOMAIN paths = {}
    BY <1>1 DEF AgentInit
  <2>2. LeaseInv
    <3>1. IsFiniteSet({}) /\ Cardinality({}) = 0
      BY FS_EmptySet
    <3>2. Consistent(paths, route_lru, last_used)
      BY <2>1, <3>1, LimitsAreNumbers DEF Consistent, Mirrors
    <3> QED
      BY <2>1, <3>2, LeaseStateFields DEF LeaseInv, SoundLease, IsLease
  <2>3. latest_map = NoMap /\ update = Free /\ reader = Free /\ unannounced = FALSE
        /\ shortcuts = [current |-> FALSE, peers |-> {}]
    BY <1>1 DEF AgentInit
  <2> QED
    BY <2>1, <2>2, <2>3, StageFacts DEF AgentInv, TaskInv, RoutingInv, LimitInv, SnapInv
<1>2. ASSUME AgentInv, [AgentNext]_agentVars PROVE AgentInv'
  BY <1>2, LeaseStep, TaskStep, RoutingStep, LimitStep, SnapStep DEF AgentInv
<1> QED
  BY <1>1, <1>2

(* record_resolved_overlay_path, trim_on_demand_overlay_paths and the      *)
(* removals: for any peers, routes, maps and limits, the leases are within *)
(* every budget between updates, and the order of use is the leases' own.  *)
THEOREM LeasesStayBounded == AgentSpec => []LeasesBounded
<1>1. AgentInv => LeasesBounded
  <2> SUFFICES ASSUME AgentInv PROVE LeasesBounded
    OBVIOUS
  <2>1. Consistent(paths, route_lru, last_used)
    BY LeaseStateFields DEF AgentInv, LeaseInv, SoundLease
  <2>2. route_lru = EntriesOf(paths)
    BY <2>1, MirrorsEntries DEF Consistent
  <2>3. update \in {Free, Finished} /\ latest_map # NoMap =>
           Cardinality(DOMAIN paths \ latest_map.neighbors) <= latest_map.on_demand_peer_limit
    BY StageFacts DEF AgentInv, LimitInv, WithinLimit
  <2>4. /\ \A p \in DOMAIN paths : Cardinality(DOMAIN paths[p].routes) <= MaxNodeRoutes
        /\ Cardinality(route_lru) <= MaxRoutes /\ DOMAIN paths \subseteq DOMAIN last_used
    BY <2>1 DEF Consistent
  <2> QED
    BY <2>2, <2>3, <2>4, Zenon DEF LeasesBounded, EntriesOf
<1> QED
  BY <1>1, AgentInductive, PTL DEF AgentSpec

(* record_neighbor_map_snapshot and record_resolved_overlay_path: however  *)
(* updates, late answers and closings interleave, no lease outlives the    *)
(* routes it was resolved with.                                            *)
THEOREM LeasesFollowRouting == AgentSpec => []LeasesOfCurrentRouting
<1>1. AgentInv => LeasesOfCurrentRouting
  BY StageFacts DEF AgentInv, RoutingInv, LeasesOfCurrentRouting, Replacing
<1> QED
  BY <1>1, AgentInductive, PTL DEF AgentSpec

(* overlay_shortcut_snapshot: once every change is announced, what counts  *)
(* as current sends no traffic to a peer that must not get it.             *)
THEOREM SnapshotsAreCoherent == AgentSpec => []SnapshotCoherent
<1>1. AgentInv => SnapshotCoherent
  <2> SUFFICES ASSUME AgentInv, shortcuts.current, ~unannounced, update = Free
               PROVE  shortcuts.peers \subseteq Reachable
    BY DEF SnapshotCoherent, Reachable
  <2>1. update.stage = "free"
    BY StageFacts
  <2> QED
    BY <2>1 DEF AgentInv, SnapInv
<1> QED
  BY <1>1, AgentInductive, PTL DEF AgentSpec

============================================================================
