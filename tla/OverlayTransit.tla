-------------------------- MODULE OverlayTransit --------------------------
(***************************************************************************)
(* One node's overlay transit client, the peer proxies that use it, and    *)
(* the receiving end of their paths                                        *)
(* (crates/ipars-agent/src/overlay_transit.rs).  A proxy spawns a task for *)
(* every inner datagram; a task tries the primary path, waits for the end- *)
(* to-end acknowledgement, and tries the secondary path once.  The tasks   *)
(* share four maps, each behind a mutex of its own: between two of its     *)
(* critical sections a task yields, so each section is one action.         *)
(*                                                                         *)
(* The network of relays in between loses and reorders: a frame or an      *)
(* acknowledgement may be received at any later time or never.  What one   *)
(* engine refuses or accepts is the subject of OverlayForwarder; here      *)
(* encapsulation succeeds or is refused, and a receiving engine accepts a  *)
(* (path id, sequence) once, so that the copies a duplicating network adds *)
(* are gone with the first.  Timers count down the ticks that are left.    *)
(***************************************************************************)
EXTENDS Integers, Sequences, FiniteSets

CONSTANTS
    MaxSends,        \* bound: the inner datagrams, one send task each
    Peers,           \* remote nodes, each with a proxy of its own
    Paths,           \* validated overlay paths with at least one relay
    AckTimeout,      \* DEFAULT_OVERLAY_ACK_TIMEOUT
    MaxTimeoutHops,  \* MAX_OVERLAY_ACK_TIMEOUT_PATH_HOPS
    Backoff,         \* OVERLAY_PRIMARY_FAILURE_BACKOFF
    MaxPending,      \* max_pending_acknowledgements
    MaxInFlight,     \* MAX_OVERLAY_PEER_IN_FLIGHT_SENDS
    MaxPrimary,      \* MAX_OVERLAY_PRIMARY_IN_FLIGHT_PER_NEXT_HOP
    QueueCapacity,   \* delivery_queue_capacity
    MaxU64,          \* u64::MAX
    FirstSequences,  \* where a proxy may start: random, at most u64::MAX - 2
    MaxRestarts,     \* bound: restarts of one proxy
    MaxUpdates       \* bound: topology changes

(* hops is the number of nodes of the primary and of the secondary path,   *)
(* 0 when there is no secondary.                                           *)
ASSUME TransitAssumption ==
    /\ MaxSends \in Nat
    /\ \A p \in Paths :
          /\ p.target \in Peers
          /\ p.primary \in Nat /\ p.secondary \in Nat
    /\ {AckTimeout, MaxTimeoutHops, Backoff, MaxPending, MaxInFlight,
        MaxPrimary, QueueCapacity} \subseteq Nat \ {0}
    /\ MaxU64 \in Nat /\ FirstSequences \subseteq 0..(MaxU64 - 2)
    /\ MaxRestarts \in Nat /\ MaxUpdates \in Nat

Sends == 1..MaxSends   \* in the order WireGuard hands them over

RouteKey(path) == <<path.topology_epoch, path.next_hop>>
RouteKeys == {RouteKey(p) : p \in Paths}

VARIABLES
    send,            \* the send tasks
    session,         \* of each proxy: its path id, counted from 1
    next_sequence,   \* of each proxy
    pending,         \* pending_acknowledgements: who waits for which key
    suppressed,      \* suppressed_primary_routes: ticks left
    generation,      \* how often primary_route_limiters was cleared
    updating,        \* update_neighbor_map: the map it will clear next
    updates,         \* topology changes so far
    frames,          \* data frames handed to the network, [key, send]
    acks,            \* keys acknowledged into the network
    queue,           \* deliveries of the destination
    injected         \* history: sends whose datagram reached WireGuard

vars == <<send, session, next_sequence, pending, suppressed, generation, updating,
          updates, frames, acks, queue, injected>>

clientVars == <<session, next_sequence, generation, updating, updates>>
networkVars == <<frames, acks, queue, injected>>

Idle == [stage |-> "idle"]

(* The task has returned or was dropped: its permit is free again, its     *)
(* waiter closed.                                                          *)
Done(result) == [stage |-> "done", result |-> result]

Init ==
    /\ send = [i \in Sends |-> Idle]
    /\ session = [p \in Peers |-> 1]
    /\ next_sequence \in [Peers -> FirstSequences]
    /\ pending = {}
    /\ suppressed = [r \in RouteKeys |-> 0]
    /\ generation = 0
    /\ updating = "none"
    /\ updates = 0
    /\ frames = {} /\ acks = {}
    /\ queue = <<>>
    /\ injected = {}

---------------------------------------------------------------------------
(* The proxy of a peer, OverlayWireGuardPeerForwarder::serve.              *)

Running == {i \in Sends : send[i].stage \notin {"idle", "done"}}
SendsOf(p) == {i \in Running : send[i].path.target = p}

(* Mutant: the next datagram takes the sequence of this one's retry.       *)
AfterOne(n) == n + 1

(* Two sequences are reserved, the second for the retry.                   *)
AfterReserved(n) == IF n + 2 <= MaxU64 THEN n + 2 ELSE n + 1

(* A datagram from WireGuard: the task starts on the path of the moment.   *)
Spawn(i, path) ==
    LET p == path.target
    IN  /\ send[i].stage = "idle"
        /\ \A j \in 1..(i - 1) : send[j].stage # "idle"
        /\ Cardinality(SendsOf(p)) < MaxInFlight
        /\ next_sequence[p] + 1 <= MaxU64
        /\ send' = [send EXCEPT ![i] =
              [stage |-> "check", path |-> path, session |-> session[p],
               attempt |-> "primary", sequence |-> next_sequence[p],
               permit |-> FALSE, limiter |-> 0, timer |-> 0, result |-> "none"]]
        /\ next_sequence' = [next_sequence EXCEPT ![p] = AfterReserved(@)]
        /\ UNCHANGED <<session, pending, suppressed, generation, updating, updates>>
        /\ UNCHANGED networkVars

(* serve returns (shutdown, an error, no sequence left) and drops its      *)
(* JoinSet: the tasks end where they are, their permits come back, their   *)
(* waiters close.  The daemon starts the proxy anew with a fresh path id.  *)
Restart(p) ==
    /\ session[p] <= MaxRestarts
    /\ session' = [session EXCEPT ![p] = @ + 1]
    /\ \E n \in FirstSequences : next_sequence' = [next_sequence EXCEPT ![p] = n]
    /\ send' = [i \in Sends |->
          IF i \in SendsOf(p) THEN Done("failed") ELSE send[i]]
    /\ UNCHANGED <<pending, suppressed, generation, updating, updates>>
    /\ UNCHANGED networkVars

---------------------------------------------------------------------------
(* send_with_secondary_failover, one critical section after the other.     *)

(* OverlayAcknowledgementKey; the remote is the target of the path id.     *)
Key(i) == [topology_epoch |-> send[i].path.topology_epoch, peer |-> send[i].path.target,
           session |-> send[i].session, sequence |-> send[i].sequence]

HasSecondary(i) == send[i].path.secondary # 0
IsSuppressed(i) == HasSecondary(i) /\ suppressed[RouteKey(send[i].path)] > 0

Step(i, stage, next) ==
    /\ send[i].stage = stage
    /\ send' = [send EXCEPT ![i] = next]

(* primary_route_is_suppressed, then the limiter of the route: the entry   *)
(* is made when the map, cleared generation times, has none.               *)
CheckSuppressed(i) ==
    /\ Step(i, "check",
            IF IsSuppressed(i)
            THEN [send[i] EXCEPT !.stage = "encapsulate", !.attempt = "secondary"]
            ELSE [send[i] EXCEPT !.stage = "acquire", !.limiter = generation])
    /\ UNCHANGED <<pending, suppressed>>
    /\ UNCHANGED clientVars /\ UNCHANGED networkVars

Holders(route, limiter) ==
    {i \in Running : send[i].permit /\ RouteKey(send[i].path) = route
                                    /\ send[i].limiter = limiter}

AcquirePermit(i) ==
    /\ Step(i, "acquire", [send[i] EXCEPT !.stage = "recheck", !.permit = TRUE])
    /\ Cardinality(Holders(RouteKey(send[i].path), send[i].limiter)) < MaxPrimary
    /\ UNCHANGED <<pending, suppressed>>
    /\ UNCHANGED clientVars /\ UNCHANGED networkVars

(* The route may have failed while the task waited for its permit.         *)
Recheck(i) ==
    /\ Step(i, "recheck",
            IF IsSuppressed(i)
            THEN [send[i] EXCEPT !.stage = "encapsulate", !.attempt = "secondary",
                                 !.permit = FALSE]
            ELSE [send[i] EXCEPT !.stage = "encapsulate"])
    /\ UNCHANGED <<pending, suppressed>>
    /\ UNCHANGED clientVars /\ UNCHANGED networkVars

(* encapsulate_selected; a refusal ends the send.                          *)
Encapsulate(i) ==
    /\ \/ Step(i, "encapsulate", [send[i] EXCEPT !.stage = "register"])
       \/ Step(i, "encapsulate", Done("failed"))
    /\ UNCHANGED <<pending, suppressed>>
    /\ UNCHANGED clientVars /\ UNCHANGED networkVars

---------------------------------------------------------------------------
(* send_action_with_acknowledgement.                                       *)

(* waiter.is_closed: the task that held the receiver is gone.              *)
IsOpen(w) == send[w.send].stage \in {"transmit", "await"} /\ Key(w.send) = w.key

OpenWaiters == {w \in pending : IsOpen(w)}

(* Of the errors a send can end with, only the capacity is told apart.     *)
Outcome(reason) == IF reason = "capacity" THEN reason ELSE "failed"

(* What a failed attempt leaves: the permit is dropped.                    *)
Failed(i, reason) ==
    IF send[i].attempt = "primary"
    THEN [send[i] EXCEPT !.stage = "fail", !.permit = FALSE, !.result = reason]
    ELSE Done(Outcome(reason))

(* Mutant: closed waiters are not swept out.                               *)
RegisterUnswept(i) ==
    LET full  == Cardinality(pending) >= MaxPending
        taken == \E w \in pending : w.key = Key(i)
    IN  /\ Step(i, "register",
                IF full THEN Failed(i, "capacity")
                ELSE IF taken THEN Failed(i, "duplicate")
                ELSE [send[i] EXCEPT !.stage = "transmit"])
        /\ pending' = IF full \/ taken THEN pending
                      ELSE pending \cup {[key |-> Key(i), send |-> i]}
        /\ UNCHANGED suppressed
        /\ UNCHANGED clientVars /\ UNCHANGED networkVars

Register(i) ==
    LET full  == Cardinality(OpenWaiters) >= MaxPending
        taken == \E w \in OpenWaiters : w.key = Key(i)
    IN  /\ Step(i, "register",
                IF full THEN Failed(i, "capacity")
                ELSE IF taken THEN Failed(i, "duplicate")
                ELSE [send[i] EXCEPT !.stage = "transmit"])
        /\ pending' = IF full \/ taken THEN OpenWaiters
                      ELSE OpenWaiters \cup {[key |-> Key(i), send |-> i]}
        /\ UNCHANGED suppressed
        /\ UNCHANGED clientVars /\ UNCHANGED networkVars

Forget(i) == pending' = {w \in pending : w.key # Key(i)}

AckTimeoutOf(nodes) ==
    LET hops == IF nodes - 1 > 1 THEN nodes - 1 ELSE 1
    IN  AckTimeout * (IF hops < MaxTimeoutHops THEN hops ELSE MaxTimeoutHops)

TransmitFails(i) ==
    /\ Step(i, "transmit", Failed(i, "send"))
    /\ Forget(i)
    /\ UNCHANGED suppressed
    /\ UNCHANGED clientVars /\ UNCHANGED networkVars

Transmit(i) ==
    /\ Step(i, "transmit",
            [send[i] EXCEPT !.stage = "await",
                            !.timer = AckTimeoutOf(send[i].path[send[i].attempt])])
    /\ frames' = frames \cup {[key |-> Key(i), send |-> i]}
    /\ UNCHANGED <<pending, suppressed, acks, queue, injected>>
    /\ UNCHANGED clientVars

AcknowledgementTimeout(i) ==
    /\ Step(i, "await", Failed(i, "timeout"))
    /\ send[i].timer = 0
    /\ Forget(i)
    /\ UNCHANGED suppressed
    /\ UNCHANGED clientVars /\ UNCHANGED networkVars

(* The acknowledgement reached the waiter: the timer no longer matters.    *)
Acknowledged(i) ==
    /\ Step(i, "acknowledged", Done("delivered"))
    /\ UNCHANGED <<pending, suppressed>>
    /\ UNCHANGED clientVars /\ UNCHANGED networkVars

(* Mutant: a failed primary goes back to the queue for its next hop.       *)
FailoverRequeues(i) ==
    /\ Step(i, "fail", [send[i] EXCEPT !.stage = "acquire", !.limiter = generation])
    /\ suppressed' = [suppressed EXCEPT ![RouteKey(send[i].path)] = Backoff]
    /\ UNCHANGED pending
    /\ UNCHANGED clientVars /\ UNCHANGED networkVars

(* The primary failed: the route is suppressed when the network is to      *)
(* blame, and the reserved sequence goes to the secondary path.            *)
Failover(i) ==
    /\ Step(i, "fail",
            IF HasSecondary(i) /\ send[i].sequence + 1 <= MaxU64
            THEN [send[i] EXCEPT !.stage = "encapsulate", !.attempt = "secondary",
                                 !.sequence = @ + 1]
            ELSE Done(Outcome(send[i].result)))
    /\ suppressed' = IF send[i].result \in {"send", "timeout"}
                     THEN [suppressed EXCEPT ![RouteKey(send[i].path)] = Backoff]
                     ELSE suppressed
    /\ UNCHANGED pending
    /\ UNCHANGED clientVars /\ UNCHANGED networkVars

TaskStep(i) ==
    \/ CheckSuppressed(i) \/ AcquirePermit(i) \/ Recheck(i) \/ Encapsulate(i)
    \/ Register(i) \/ Transmit(i) \/ TransmitFails(i)
    \/ AcknowledgementTimeout(i) \/ Acknowledged(i) \/ Failover(i)

---------------------------------------------------------------------------
(* update_neighbor_map with another topology: forwarder, suppressions and  *)
(* limiters are three critical sections.                                   *)

UpdateNeighborMap ==
    /\ updating = "none" /\ updates < MaxUpdates
    /\ updates' = updates + 1
    /\ updating' = "suppressed_primary_routes"
    /\ UNCHANGED <<send, session, next_sequence, pending, suppressed, generation>>
    /\ UNCHANGED networkVars

ClearSuppressed ==
    /\ updating = "suppressed_primary_routes"
    /\ updating' = "primary_route_limiters"
    /\ suppressed' = [r \in RouteKeys |-> 0]
    /\ UNCHANGED <<send, session, next_sequence, pending, generation, updates>>
    /\ UNCHANGED networkVars

ClearLimiters ==
    /\ updating = "primary_route_limiters"
    /\ updating' = "none"
    /\ generation' = generation + 1
    /\ UNCHANGED <<send, session, next_sequence, pending, suppressed, updates>>
    /\ UNCHANGED networkVars

---------------------------------------------------------------------------
(* run_receive_loop at the destination and at this node, and the proxy at  *)
(* the destination.                                                        *)

(* A full delivery queue drops what the engine has already accepted.       *)
ReceiveData(f) ==
    /\ frames' = {g \in frames : g.key # f.key}
    /\ queue' = IF Len(queue) < QueueCapacity THEN Append(queue, f) ELSE queue
    /\ UNCHANGED <<send, pending, suppressed, acks, injected>>
    /\ UNCHANGED clientVars

(* The delivery loop or the proxy drops a delivery: no reverse proxy, its  *)
(* queue full or closed, another source, no WireGuard datagram, or the     *)
(* injection failed.  Nothing is acknowledged.                             *)
DropDelivery ==
    /\ queue # <<>>
    /\ queue' = Tail(queue)
    /\ UNCHANGED <<send, pending, suppressed, frames, acks, injected>>
    /\ UNCHANGED clientVars

(* The complete datagram went to WireGuard; acknowledge may fail to send.  *)
Inject ==
    /\ queue # <<>>
    /\ queue' = Tail(queue)
    /\ injected' = injected \cup {Head(queue).send}
    /\ acks' \in {acks, acks \cup {Head(queue).key}}
    /\ UNCHANGED <<send, pending, suppressed, frames>>
    /\ UNCHANGED clientVars

(* The acknowledgement wakes the waiter of its key, if there is one.       *)
ReceiveAcknowledgement(k) ==
    /\ acks' = acks \ {k}
    /\ pending' = {w \in pending : w.key # k}
    /\ send' = [i \in Sends |->
          IF [key |-> k, send |-> i] \in OpenWaiters
          THEN [send[i] EXCEPT !.stage = "acknowledged", !.result = "none"] ELSE send[i]]
    /\ UNCHANGED <<suppressed, frames, queue, injected>>
    /\ UNCHANGED clientVars

Countdown(n) == IF n > 0 THEN n - 1 ELSE 0

Waiting == {i \in Sends : send[i].stage = "await"}

Tick ==
    /\ \/ \E i \in Waiting : send[i].timer > 0
       \/ \E r \in RouteKeys : suppressed[r] > 0
    /\ send' = [i \in Sends |->
          IF i \in Waiting THEN [send[i] EXCEPT !.timer = Countdown(@)] ELSE send[i]]
    /\ suppressed' = [r \in RouteKeys |-> Countdown(suppressed[r])]
    /\ UNCHANGED pending
    /\ UNCHANGED clientVars /\ UNCHANGED networkVars

Next ==
    \/ \E i \in Sends, path \in Paths : Spawn(i, path)
    \/ \E i \in Sends : TaskStep(i)
    \/ \E p \in Peers : Restart(p)
    \/ UpdateNeighborMap \/ ClearSuppressed \/ ClearLimiters
    \/ \E f \in frames : ReceiveData(f)
    \/ DropDelivery \/ Inject
    \/ \E k \in acks : ReceiveAcknowledgement(k)
    \/ Tick

(* The executor polls every task that can go on, and time passes; nothing  *)
(* is assumed of the network, of the destination or of new work.           *)
Fairness == (\A i \in Sends : WF_vars(TaskStep(i))) /\ WF_vars(Tick)

Spec == Init /\ [][Next]_vars /\ Fairness

---------------------------------------------------------------------------
(* Properties.                                                             *)

(* "The destination acknowledges only after the peer-specific proxy socket *)
(* sends the complete datagram to the local WireGuard UDP endpoint"        *)
(* (docs/ARCHITECTURE.md:262): a send that reports success, on either      *)
(* path, was injected at its destination, and not some other datagram      *)
(* whose acknowledgement was late, duplicated or of an earlier session.    *)
SuccessMeansInjected ==
    \A i \in Sends : send[i].stage = "done" /\ send[i].result = "delivered"
                        => i \in injected

(* Tasks that were cancelled leave their waiters in the table; they never  *)
(* count: a send is refused for capacity only while MaxPending tasks are   *)
(* really waiting.                                                         *)
CapacityRefusalsGenuine ==
    [][\A i \in Sends :
          send[i].stage = "register" /\ send'[i].stage \in {"fail", "done"}
             /\ send'[i].result = "capacity"
          => Cardinality({j \in Sends : send[j].stage \in {"transmit", "await"}})
                >= MaxPending]_vars

(* Every datagram a proxy takes from WireGuard is settled: whatever the    *)
(* network loses and however many sends share a next hop, no task waits    *)
(* forever for an acknowledgement or for a permit.                         *)
SendsComplete == \A i \in Sends : send[i].stage # "idle" ~> send[i].stage = "done"

===========================================================================
