# HeteroNetwork in TLA+

HeteroNetwork (crates named `ipars-*`) is a peer-to-peer VPN in Rust: agents build
WireGuard tunnels between nodes directly, through UDP relays, or over several overlay
hops; control planes register nodes and publish topology; administrators act through
threshold-signed capabilities. This directory specifies the parts of it whose
correctness depends on order, time and concurrency, checks them with TLC and proves
their main safety properties with TLAPS. Paths below are relative to `src/`; a crate
`crates/ipars-X/src/lib.rs` is written `ipars-X`.

`PROJECT.json` maps every definition to the lines it models, lists the hazards of the
code with the properties that address them, the runs, and one mutant of the model per
checked property.

## 1. Inventory

### The system's parts

| Part | State it keeps | Operations | Hard because |
|---|---|---|---|
| Relay session table (`ipars-relay`) | sessions by node pair, return routes by WireGuard index | admit/refresh, forward a framed datagram, forward a raw return, purge, rebuild routes | datagrams are delayed and duplicated; three operations update one index; addresses are learned from traffic |
| Relay admission (`ipars-relay`, `ipars-relay-http`) | advertised capability, attempt window, counters | admit under limits, status | concurrent requests with separately locked steps |
| Replay window (`ipars-agent/overlay_forwarder.rs`) | a bitmap per (epoch, source, path), a lazily cleaned LRU queue | observe, retain epochs, evict | shifts across words, stale queue entries, capacity |
| Overlay forwarder (same file, `ipars-relay/multihop.rs`) | current and retained neighbour maps, replay window | update map, encapsulate, relay, deliver, expire | every node changes epoch on its own; networks duplicate and reorder |
| Overlay transit (`ipars-agent/overlay_transit.rs`) | pending acknowledgements, suppressed primary routes, limiters, partial frames | send with failover, acknowledge, reassemble, restart a proxy | a timeout racing a late acknowledgement; cancelled tasks; bounded tables |
| Peer probes (`ipars-agent/peer_probe.rs`) | outstanding probes | probe, answer, measure | loss, late answers |
| Agent (`ipars-agent`) | neighbour maps, resolved paths and route leases, activity and pins, peer map, relay sessions, pending probes | install a map, record a resolved path, touch, expire, close idle peers, snapshot; reconcile peers, select path, renew relay session, rotate key | tasks over many small locks; late answers; stale snapshots |
| Control plane (`ipars-control-plane`) | nodes, health, token ledger, policy, connection intents, routing epochs | register, heartbeat, remove, rotate key, select gateway, compute topology | several control planes over one store; read-then-write sequences |
| Stores (`ipars-store`) | the control plane's tables in SQLite or PostgreSQL | one transaction per operation | isolation differs by backend |
| Admin quorum signers (`ipars-quorum`, `ipars-control-plane-http/quorum.rs`) | pending signing rounds with secret nonces | round 1, round 2, for capabilities, transitions and sudo | nonce reuse, untrusted coordinator, clock skew |
| Admin capability ledger (`ipars-control-plane`, `ipars-store`, `ipars-control-plane-http`) | manifest anchor, public manifests, rotation history, tombstones | initialize, consume, revoke, collect, rotate | requests on several control planes with different clocks; lost answers |
| Signal (`ipars-signal`, `ipars-signal-http`) | nodes, NAT classes, health | upsert, negotiate, hole-punch plan | stale observations on both sides |
| HTTP tunnel (`ipars-http-tunnel`) | tunnel sessions, nonces, observations | open, send, receive, touch, close | idle expiry racing traffic; session limit |
| Route manager (`ipars-route-manager`) | managed kernel routes | plan, diff, apply, roll back | partial application |
| STUN (`ipars-stun`) | none beyond a socket | binding request, classification | - |
| Kubernetes controller (`ipars-k8s-controller`) | none of its own | reconcile, report | API conflicts |
| Types and crypto, daemon, CLI, load generator, eBPF counters, native clients, web UIs, charts | data types, wiring, files | - | - |

### How they interact

An agent registers at a control plane and learns its neighbours (a *topology epoch*
names the graph). It asks a relay for admission over HTTP, gets a token, and sends
framed datagrams to the relay's UDP socket; the relay answers the unmodified WireGuard
implementation of the other side with raw datagrams and learns from these where the
peers are. Without a relay an agent encapsulates WireGuard datagrams in multi-hop
envelopes that neighbours pass on. The relay reports its load to the control plane,
which places new sessions by it. A path to a node that is no neighbour is resolved by the
control plane on the first packet and leased by the agent; the agent's transit client
sends over it and, failing an acknowledgement, over the secondary path. Where UDP is
blocked, a node's packets go through the tunnel hub of a gateway. An administrator obtains shares from a majority of the
signers in two FROST rounds, aggregates them into a capability and presents that to any
control plane; the planes share nothing but the store.

### What makes each modelled part correct

* Relay table: a rate limit over the session's whole life; route map and index lists
  that agree; credentials that work until the promised expiry; addresses that only an
  authenticated party can introduce.
* Relay admission: capacity, per-node and attempt limits under concurrency; a reported
  load never below the real one.
* Replay window: exactly the sequences an ideal LRU cache of sliding windows accepts.
* Overlay forwarder: local checks of adjacent edges that together cover the path;
  grace periods that hold through any sequence of topology changes; no datagram twice.
* Overlay transit: success reported only for what was injected; refusals only when the
  table is really full; sends that always complete; frames that come out as they were
  sent, and do come out, with reservations that add up.
* Agent: leases within their budgets and of the current routes; a shortcut snapshot that
  no concurrent change can falsify.
* Control plane: distinct addresses; routes within the policy, the token and the limit;
  heartbeats in order; final revocations; answers of one moment.
* Tunnel hub: limits that hold for overlapping opens; observations that stay with their
  sessions.
* Signers: a nonce that signs once; a majority behind every signature.
* Ledger: at most one execution per capability; revocations that stay effective; one
  chain of manifests; nothing consumed under a superseded manifest; planes without a
  verifier that close once the quorum is active.

## 2. Modules

| Module | Role |
|---|---|
| `RelayTable` | the session table; its `Dataplane` and admission actions |
| `RelayService` | extends it with admission calls in several steps |
| `Subsequence` | what `VecDeque::retain` leaves of a queue, by the positions it keeps; used by the next three and `OverlayForwarder` |
| `ReplayWindow` | the window as operators on a cache value |
| `ReplayWindowSpec` | one window as the forwarder drives it; refines `ReplayCache` |
| `ReplayCache` | abstract specification: exact bounded LRU memory of sequences |
| `OverlayForwarder` | the engines of all nodes and the network between them; uses `ReplayWindow` |
| `OverlayTransit` | one node's transit client, its proxies and send tasks, and the receiving end |
| `OverlayFragments` | cutting and reassembling frames that exceed a hop datagram |
| `AgentOverlay` | the overlay state of one agent: maps, leases, activity, shortcut snapshot |
| `HttpTunnel` | the tunnel hub of a gateway |
| `ControlPlane` | control planes over one store: tokens, joins, heartbeats, policy, queries |
| `QuorumClaims` | manifests, claims, transitions, lifetimes and clocks |
| `CapabilityIssuance` | abstract specification of the signers: claims are signed only while valid |
| `SignerQuorum` | the signing engines; implements `CapabilityIssuance` |
| `CapabilityLedger` | control planes and ledger, over `CapabilityIssuance` |
| `Relay_proofs`, `CapabilityLedger_proofs`, `SignerQuorum_proofs`, `ControlPlane_proofs`, `OverlayTransit_proofs` | theorems about the component they are named after |
| `ReplayWindow_proofs` | lemmas about the window's operators, subsequences, and the queue and order of a cache |
| `NodeStructures_proofs` | theorems about the structures `MCNodeStructures` runs: replay cache, reassembler, tunnel hub |
| `OverlayAgent_proofs` | theorems about the two halves `MCOverlayAgent` runs: forwarding engines, agent |
| `MC*` | instances for TLC |

`SignerQuorum` and `CapabilityLedger` meet at `CapabilityIssuance`: the first is shown
to implement it, the second is built on it, so the ledger's properties do not rest on an
assumption about signing times that the signers might not keep. `MCNodeStructures` and
`MCOverlayAgent` put components side by side that share no state, each behaviour driving
one of them: their state spaces add up instead of multiplying, and one run asks about all.

### Relay table

`sessions` and `return_routes` are the two maps of `RelayTable`; all operations of the
code hold the table's write lock, hence one action each: `AdmitExisting` / `AdmitNew`
(`admit_with_options`), `ForwardDatagram` / `DatagramRateLimited` / `ForwardTarget`
(`forward_datagram_*`), `ForwardReturn` (`forward_wireguard_return_*`), `PurgeExpired`,
`RemoveExpiredSession`. A frame may carry any token ever issued, from any address, at
any time, which covers delay, duplication and reordering. The rate limited path is an
action of its own because the code has already moved the sender's address when it
refuses. `issued` and `bound` are history.

Abstractions: a datagram is its length and the index the relay reads; a session is
identified by its pair of nodes (node ids contain no `:`); tokens are numbered; time is
monotone and the several `Utc::now()` of one locked operation are one reading; frames
are those the encoders build; byte counters do not reach `u64::MAX`.

### Relay admission

A call goes through `Count`, `CheckLimit`, then `Admit`, `Refuse` or `RefuseRelayNode`
under both locks, then `Finish`; other calls and datagrams run in between. The two
failure counters of the code are one function of the cause. Of the capability only
`active_sessions` changes. `ServiceNext` contains the table's `Dataplane`.

### Replay window and overlay forwarder

A bitmap word is the set of its one bits, so `ShiftLeft` and `ShiftRight` lose bits
at the word's edges as `<<` and `>>` do. `ReplayWindowSpec` keeps the history
`accepted` for the refinement mapping. In `OverlayForwarder` the engine of each node
has its own `epoch`, `retained` queue and `replay`; `network` holds every envelope ever
sent, so it loses, duplicates and reorders. An epoch names a graph (it is a hash of it in
the code), so `Graph` is a constant per epoch; `hop_limit` always equals the path length
when it is valid and is left out; payload and frame sizes are abstracted.

### Overlay transit

A send is a task (`CheckSuppressed`, `AcquirePermit`, `Recheck`, `Encapsulate`,
`Register`, `Transmit` or `TransmitFails`, then `Acknowledged`, `AcknowledgementTimeout`,
`Failover`); between two locks any other task may run. `pending` is the map of waiters;
a waiter is open while its task waits, so a task that is dropped with its proxy
(`Restart`) leaves a closed one behind, as a dropped `oneshot::Receiver` does. A topology
change clears suppressions and limiters in two further steps; a task that holds a permit
of a cleared semaphore keeps it (`limiter` is the generation it queued at). Frames and
acknowledgements stay in the network until received, in any order or never. The receiving
engine accepts a key once, which `OverlayForwarder` establishes. `AfterReserved` keeps the
`checked_add` at the end of `u64`.

`OverlayFragments` keeps the payload bytes, since the length checks, the comparison of a
repeated fragment and the digest are what it is about; the truncated SHA-256 is taken to
be injective and stands for the frame exactly, so a fragment carries the frame as its
digest. `push` computes the length of a last fragment before it has compared the
number of fragments (`overlay_transit.rs:406`); for a malformed datagram the subtraction
wraps around in a release build, which no payload length equals, and panics in a debug
build. The model has the first. `watch` is history: `Init` chooses any frame of any
neighbour, and the record follows what arrived of it, how long the first fragment may
still wait, whether damage or a limit interfered, and what came out.

### Agent

Every lock of `AgentRuntime` that holds overlay state is separate, so a critical section
is an action: `record_neighbor_map_snapshot` is `BeginUpdate`, `RetainPrevious`,
`ReplacePins`, `RevokePaths`, `ForgetRevoked`, `TrimPaths`, `PublishMap`. The mutex
`neighbor_map_update` is `update`; `Repin`, `Activity`, `TakeIdle` and the reader run
beside it. Abstractions: the queue of destinations that wait for a path is left out and
an answer may come for any destination at any time; the generation of the shortcut
snapshot is only compared for equality, so a bump marks the cache as outdated and makes a
reader start over, and one bump covers every change before it; `Repin` may use an earlier
map, which it read before the lock; ages saturate at the idle timeout; ties in the order
of eviction are broken arbitrarily, by node id in the code; pins by role, tag or owned
route are left out.

### Control plane

A request is a handler that awaits the store between its reads and its write; a store
operation is one action (`Mutex`, SQLite writer transaction, `pg_advisory_xact_lock`).
`AdmitToken`, `JoinPolicy`, `ValidateCatalog`, `SparseAddress`, `ListLeases`, `Allocate`,
`InsertNode`, `ReadExisting`, `RejoinNode` are a join; `HeartbeatNode`, `HeartbeatPolicy`,
`ApplyHeartbeat` a heartbeat; `ReadNode` then `RemoveNode` and `ResetAllocator`, or
`RotateKey`; `CheckPolicy`, `WritePolicy`; `QueryEpoch`, `QueryPolicy`, `QueryEpochAgain`,
`FindSnapshot`, `CheckSnapshot` a neighbour-map or path query up to the node list it
computes with. `StillExpected` is the compare-and-set in each conditional write and
`SameGeneration` the comparison with the record a heartbeat was checked against. Requests
are those that pass the checks on the request alone. The digest of the catalog stands for
the catalog. Two things the model makes visible without a property: a rejoin keeps the
token policy of the first join, so heartbeats with routes that only a later token allows
are refused; and NAT, build and transport records, which are left out, are written after
the registration commits and may outlive a concurrent removal. `UniqueIndex = FALSE`, the
in-memory store, admits two nodes with one address, which the architecture document
reserves to the SQL stores' index.

### Tunnel hub

An open holds a permit, awaits the backend and commits under the session lock
(`OpenStarts`, `OpenCommits`, `OpenRefused`, `OpenFails`); a long poll keeps its tunnel
while the session may expire, close or be replaced. Observations are objects shared by a
session and the hub's table, so the model keeps their identity. The nonce table is left
out.

### Admin quorum

`now` is real time. Every reading of a clock by a process is any value within `Skew` of
it, so that clocks of different machines disagree and one clock may step backwards.
Digests are collision free, hence a manifest is its epoch and group. Method, path, body
and requester key are bound by the signature and by `verify_capability`, so claims carry
only what the time, manifest and ledger checks tell apart, and the request id that a
revocation names. FROST is external: a share is tied to a nonce and a whole signing
package, a group signature exists once all participants of one package answered.

`SignerQuorum`: `Round1`, `Round1Refused`, `Round2`, `Round2Refused` (the session is
consumed by every second round, whatever it submits), `Restart`. The coordinator is not
trusted: a package may combine any commitments. A member has one engine for capabilities
and one for transitions.

`CapabilityLedger`: a handler is a request in progress on some control plane, with a
stage: `LoadActive`, `VerifyCapability`, `Consume` or `ConsumeRefused`, `Dispatch` or
`DispatchRevocation`, `Revoke` or `RevokeRefused`; `LoadForRotation`, `VerifyRotation`,
`Rotate`; for planes without a verifier `LegacyProbe`, `LegacyAuthenticate`,
`LegacyClear`. `Consume` may commit without the handler hearing of it (five-second
timeout). `Abandon` stands for every path that ends a request without an effect: a failed
check, a store error, a timeout, a crash. Each ledger operation is one action because
all three stores run it under one lock or in one serialised transaction (`Mutex`,
`BEGIN IMMEDIATE`, `pg_advisory_xact_lock`), reading the clock inside it. Garbage
collection is part of the operation that triggers it and commits also when the insertion
is refused, but not when the anchor does not match. Transitions presented to a plane are
taken to be signed by both groups. `received_at` is always before `expires_at` on the
paths that reach the ledger and is dropped.

## 3. Runs

| Run | Properties | Instance |
|---|---|---|
| `relay_table` | `RateBound` `RoutesMirrorIndices` `AddressProvenance` `CredentialsHonoured` | one pair, three addresses on two IPs, three indices for two places |
| `relay_service` | `NodeLimitRespected` `AdmissionRateBound` `CapacityRespected` `ReportedLoadCovers` | two concurrent calls over four nodes, capacity three, two sessions per node, two attempts per window |
| `node_structures` | `WindowExact` `RecencyTracksKeys` `ImplementsReplayCache`; `ReassemblyFaithful` `ReservationExact`; `HubWithinLimits` `ObservationOwned` | replay: three keys for two places, two words of two bits; fragments: two frames, two senders, four kinds of damage; hub: three scopes, three opens, two sessions |
| `overlay` | `EveryEdgeValidated` `NothingAcceptedTwice` `GraceHonoured` `ReplayStateBounded`; `LeasesBounded` `LeasesOfCurrentRouting` `SnapshotCoherent` | source, relay, destination and four epochs; an agent with two peers, three routes, three maps, budgets of one |
| `overlay_transit` | `SuccessMeansInjected` `CapacityRefusalsGenuine` `SendsComplete` | two sends, one permit, one place for acknowledgements, one restart, one topology change |
| `capability_ledger` | `ExecutedAtMostOnce` `RevocationEffective` | two requests, a mutation, its revocation, a later use that collects the ledger, clocks one tick off |
| `manifest_rotation` | `OneManifestChain` `LegacyClosedAfterActivation` `SupersededNeverConsumed` | rival and chained rotations, capabilities of two epochs, a plane without a verifier |
| `signer_quorum` | `NonceSignsOnce` `MajorityApproved` `ImplementsIssuance` | two claims and a transition, two groups with a common member, clocks one tick off |
| `control_plane` | `LeasesDistinct` `RoutesWithinScopes` `RoutesAuthorised` `CatalogWithinLimit` `SignaturesAdvance` `RevocationFinal` `AnswersConsistent` | two planes, a SQL store, two addresses, one capture scope, seven workloads |
| `one_previous_graph` | `OnePreviousGraph` (violated) | see findings |
| `outbound_current_graph` | `OutboundUsesCurrentGraph` (violated) | see findings |
| `pool_exhausted` | `ExhaustedOnlyWhenFull` (violated) | see findings |

Bounds and why they are enough:

* Relay: `MaxTime` lets a session expire and be re-admitted, `MaxTokens` lets one pair
  have two tokens; `RateLimit` equals one datagram, so every second one is at the limit.
  Two rather than eight indices per side reach the same eviction; three indices make one
  return after its eviction. In the service, capacity three and two sessions per node are
  the least values at which, with four nodes, neither limit implies the other: a third
  session at one node is refused on a relay that has room, and a fourth session by a full
  relay although its nodes have room. Four attempts and tokens reach that point. The
  constraint `AddressesFixed` keeps sessions at the addresses they were first admitted
  with, which admission does not look at and `relay_table` explores; five attempts were
  checked apart.
* Replay: `MaxSequence` is the window size, so a distance below, at and beyond a word and
  the window occur. Three keys for two places is the first case that evicts.
* Overlay: three nodes are the shortest relayed path; two retained maps with four epochs
  and three changes of the source make the queue overflow and an epoch return. The two
  epochs without a path, and the two routes of one owner, are interchangeable, which the run
  uses as symmetry. A direct path of two nodes, which leaves only a mark in the source's
  window, was checked apart (1,571,551 states).
* Agent: with budgets of one every new route or peer evicts, within an owner and across
  owners; of the three maps one changes only the topology and one the routes. The agent
  alone was also checked with four routes and budgets of two (1,410,936 states).
* Fragments: a full frame is two or three fragments, two frames share their first
  fragment, two places for two senders make a third frame refused; damage changes a
  payload, a shape, a digest or a length. The timeout is one tick; two were checked apart.
* Hub: three scopes for two sessions and two observations; an observation outlives its
  session by one tick, so that eviction meets live and dead ones.
* Transit: the second send finds the permit or the only place taken; with `MaxU64 = 3` the
  second send of a proxy is the last whose retry has a sequence.
* Control plane: each workload holds the requests that compete for one piece of state;
  across workloads they do not interact except through what another workload covers.
  A policy change has the code's three rounds. The other retry bounds are smaller: three
  rounds of a join or query instead of eight (`MAX_ROUTE_CATALOG_UPDATE_RETRIES`) and one
  sparse address instead of 64. Success at once, success after a retry and giving up all
  differ from a further round only in the counter; the properties speak of what is
  committed, not of who gives up, and the proofs hold for any bound.
* Ledger: the grace is `4 * Skew`. TLC refutes `RevocationEffective` at a grace one below
  that and `ExecutedAtMostOnce` at a grace one below `2 * Skew`, so these assumptions
  are exact. `MaxTime` reaches the expiry of the replayed claims plus the grace. Two handlers
  are enough for a replay, a revocation race and a rotation race. One claim has a
  lifetime beyond the limit and is never signed.
* Signers: three nonces are one more than a signature needs, so a package can mix
  commitments of a second session; two signers form an even roster, where half is not a
  majority.

Fairness: `SendsComplete` assumes weak fairness of each send task (`TaskStep`), since
tokio polls every task that was woken, and of `Tick`, since timers fire. A waiting permit
needs no strong fairness: a send takes a permit at most once, so a waiting one is
overtaken finitely often (and tokio's semaphore is first in, first out). Nothing is assumed of the network, the
destination, WireGuard or the operator. No liveness is claimed elsewhere: those components
answer requests, whose retries the code leaves to clients. Deadlock is checked in the
service, ledger and signer runs; the other models stop when their bounds (time, requests,
updates) are used up.

### Findings

* `docs/ARCHITECTURE.md:259` ("The current graph and one previous graph overlap") and
  `docs/SECURITY.md:250` against `update_neighbor_map`, which retains up to eight earlier
  maps, each for the whole grace.
* `docs/ARCHITECTURE.md:261` ("outbound traffic always uses the current graph") against
  `encapsulate_selected`, which accepts a path of any retained epoch.

* `docs/ARCHITECTURE.md:131` ("skips already assigned VPN IPs before allocating the next
  address") against `allocate_next`: its offset only grows, and each join of a node that is
  already registered allocates an address before the insertion finds the record. Agents
  that restart use the pool up, and a new node is refused while addresses are free, until
  a removal handled by the same plane, or its restart, resets the scan.

The first two are deliberate in the code (a unit test relies on the second) and the
documents are out of date; the third is a defect.

Smaller observations, without a run: the daemon drops a resolved path that the agent
rejects because the map changed meanwhile, without queueing its destination again
(`ipars-daemon/src/main.rs:22502`), so the next packet has to ask anew;
`take_idle_peers_to_close` closes a peer whose route lease had expired even if it was
resolved again in between (`TakeIdle`); `retained_overlay_neighbors` may put back the pins
of an earlier map (`Repin`); after a topology change a new semaphore is made for an epoch
and next hop whose old permits are still held, so for a moment more than sixteen primary
attempts can be in flight.

## 4. Proofs

All theorems hold for every value of the constants that satisfies the named assumptions
of the modules. Those that the proofs added say no more than the code has: requests are
of one of the kinds and carry that kind's fields (`RequestsAssumption`), sets are finite
where the code counts (`FiniteNodes`; slots and objects in `TunnelAssumption`), sequence
numbers and the fields of a damaged fragment are numbers (`SequenceAssumption`,
`FragmentsAssumption`). Two theorems have a hypothesis of their own, named in them:
`UniqueIndex`, which the SQL stores have and the in-memory store lacks, and
`4 * Skew <= Grace` for revocations.

**Relay table** (`Relay_proofs`). `TableTypeCorrect` by one lemma per action. The
other properties are shown each with its own invariant:

* `RateBounded`: `RateBound` compares bytes with the age of the session, which one window
  cannot see. `RateInv` splits the total into what passed before the current window,
  bounded by the time up to its start, and what the window itself has counted.
* `CredentialsAreHonoured`: `CredentialInv` adds that nobody was promised more than a
  full TTL from now, so a refresh never brings an expiry forward.
* `AddressesHaveProvenance`: `ProvenanceInv` carries the same claim for the IPs stored in
  return routes, since a raw return matches one of those, not the session's address.
* `RoutesMirrorTheIndices`: `RoutesMirrorIndices` is inductive on well-typed tables. The
  work is in the operators: `RecordedFacts` says which indices
  `record_wireguard_sender_index` leaves in a list, `UpsertMirrors` that the routes
  dropped by `upsert_wireguard_return_route` are exactly those of the indices it lost,
  `RebuildMirrors` that a rebuild restores the inverse from the sessions alone.

**Relay admission** (`Relay_proofs`). `ServiceImplementsTable`: every step of the
service is a step of the table or leaves it alone; `ServiceKeepsTableProperties` transfers
the theorems above. `CapacityAlwaysRespected` and `NodeLimitAlwaysRespected` are inductive
together with the table's type: an admission inserts under the locks it counted under,
every other step only drops sessions. `ReportedLoadAlwaysCovers` follows from `LoadInv`: the
load is recounted under the lock or left alone by a step that cannot add a session.
`AdmissionRateBounded` uses `LimiterInv`, the analogue of `RateInv`.

**Capability ledger** (`CapabilityLedger_proofs`). `LedgerTypeCorrect` from `TypeInv`,
which ties the type of a handler's request to its stage.

* `CapabilityExecutedAtMostOnce`: `ConsumedInv` says that for every consumed capability
  the ledger still has its tombstone, or real time is so far beyond its expiry that no
  clock can find it unexpired. The collection at a reading `t` drops an entry only if
  `expires_at <= t - Grace`; with `2 * Skew <= Grace` every later reading is at least
  `expires_at`. `AuthorizedInv` counts executions against the one handler that holds
  the authorization.
* `RevocationStaysEffective`: the tombstone's expiry is the revoking plane's clock plus
  the maximal lifetime; `IssuedInv` bounds the expiry of anything signed by then,
  `TombstoneInv` relates the computed expiry to that moment, and `RevokedInv` is the
  analogue of `ConsumedInv` for revoked ids. Two more clock readings enter, hence the
  hypothesis `4 * Skew <= Grace`. With the code's grace of 300 s clocks may be off by
  75 s.
* `RotationsFormOneChain` and `SupersededCapabilitiesDie`: `ChainInv` adds that every
  superseded manifest has an earlier epoch than the anchor, so the anchor never returns
  to a manifest that was left.
* `LegacyPlanesCloseAfterActivation`: `LegacyInv`; the anchor is never removed, so the
  second probe sees every activation that precedes the authentication.

**Signers** (`SignerQuorum_proofs`). `NoncesSignOnce`: `NonceInv` says that a nonce is
pending in at most one session of one engine and in none once it has a share; a restart
drops pending nonces and never reuses a number. `SignaturesHaveMajority`: `MajorityInv`;
shares are never taken back, so a majority stays one. `SignersImplementIssuance` is the
step simulation: combining shares on claims for the first time is `Issue`, at the reading
of an engine that answered; everything else leaves the abstract state alone.

**Control plane** (`ControlPlane_proofs`). `HeldInv` is what all of it rests on: at each
stage of a request, what its handler holds was read from the store or derived from what
was, so that the comparison a transaction makes is about the right thing.
`NodesHoldDistinctAddresses` needs nothing but the index, `RoutesStayWithinScopes` the
comparison of the policy a heartbeat was checked against and of the catalogue a policy was
checked against. `RoutesStayAuthorised` adds `GrantInv` (a registration carries no routes
its tokens did not grant), `HeartbeatsApplyInOrder` `SignatureInv`, `RevocationsAreFinal`
`TokenShape`. `AnswersAreConsistent` uses `QueryInv`: a cached snapshot, and whatever a
query has read, is of the present or of an earlier routing epoch, and of the present epoch
only if it is what the store holds now; the second read of the epoch then decides.

**Overlay transit** (`OverlayTransit_proofs`). `TransitInv` ties the maps of the client to
the tasks: a waiter's key is of a session and sequence that one task owns, no key in the
network or at the receiver is of a sequence not yet drawn, and an acknowledgement exists
only for what was injected. `SuccessIsInjection` follows; `RefusalsAreGenuine` maps the
waiters injectively into the tasks that wait, after the cancelled ones are swept.

**Node structures** (`NodeStructures_proofs`, over `ReplayWindow_proofs`).
`WindowsAreExact`: `ShiftMoves` shows, from the division of a position into word and bit,
that `shift_older` moves every bit by the distance and loses none at a word boundary;
`AdvanceExact` and `InsertExact` carry that to the window, `WindowInv` to the cache.
`RecencyFollowsKeys` and `ReplayWindowImplementsCache` rest on `CacheInv`, which adds to
`WindowInv` what the lazily cleaned queue keeps true:

* the observations of one key stand in the order of their sequences (`Ordered`), none is
  above the key's highest (`Below`), and each key has one at its highest (`Covers`). So
  the current one is unique, and `EvictToCapacity`, which pops until few enough keys are
  left, always meets one. Compaction keeps exactly the current ones, hence the bound of
  twice the capacity on the queue.
* For the refinement, `Along` says of a sequence of keys that it follows the queue's
  current observations. `AlongUnique`: only one does, as the position of a key in it is the
  number of current observations up to its own. It is therefore enough to show that what
  the abstract cache keeps (`RetainOrder`), appends (`EnqueueOrder`) and drops
  (`EvictsFirst`: there is at most one key too many, so exactly the first goes) still
  follows the queue. `HighestInv`, that the highest sequence of a window was accepted,
  makes the abstract test "newer than all accepted" the code's "above the highest".

`ReservationsAreExact`: `FragmentsInv` adds that partial frames are finitely many and of a
legal length; the sum is the number of reserved bytes, so that dropping frames subtracts.
`FramesComeThrough`: `WatchInv` says that as long as nothing spoiled the watched frame, its
place in the table holds exactly the fragments that arrived, with the time that is left
to them, and is missing only before the first and after the last; and that
nothing came out before all had arrived. Two facts about bytes carry it, both from the
division of a position into fragment and offset: the fragments cut from a frame join to it
(`JoinedIsFrame`), and payloads of the lengths that `push` checked join to a frame only if
each is that frame's fragment (`JoinedIsUnique`), so a digest that matches means that
every one was received. `HubStaysWithinLimits` and
`SessionsOwnTheirObservations` share `TunnelInv`: a live session was touched no longer ago
than its observation, so that neither age nor eviction takes it, and a token stands for
one tunnel through opening, polling and closing.

**Forwarder and agent** (`OverlayAgent_proofs`). `EdgesAreValidated`: `EdgeInv` says of an
envelope under way that it is where its hop index says and that both ends checked every
edge behind it. `WindowsAcceptOnce`: `ReplayInv` says that each window is an exact record
of the log of its node, key by key. `GraceIsHonoured`: `RetainInv` compares the queue of retained maps with the
trail of departures: queue positions follow the last departure of each epoch, each entry
expires a grace after it, the current epoch is not queued, and what was left within the
grace and not crowded out is there. The hard step is the pop of a full queue. Every other
entry was left after the head, and so was the epoch now being left, so the head has
`MaxRetained` other epochs behind it and the property claims nothing of it
(`HeadIsOldest`). `RetainInv` was checked by TLC on the run's instance before it was proved.
`ReplayStateStaysBounded`: `BoundInv` takes the same `Sound` and `Bounded` from the cache
as `CacheInv`, with keys of known epochs only; that the epochs are distinct is `InOrder`,
two entries of one epoch having one last departure. The agent's theorems share `AgentInv`:

* `LeaseInv`, at any time and between any two stages of an update: the order of use mirrors
  the leases' routes one to one, no owner has more than its share, and every lease has
  activity. It is stated of a lease value, so one lemma per operator (removal, eviction,
  merging, ageing) serves every action that uses it.
* `RoutingInv` and `LimitInv`: from the revocation on, the leases follow the map to come;
  before it, the map in force. `LeasesFollowRouting` and `LeasesStayBounded` are the case
  between updates. `TrimsFacts` counts what `trim_on_demand_overlay_paths` leaves.
* `SnapInv`: unless a bump is still to come, what a reader has read and what is kept is
  about the peers as they are. `SnapshotsAreCoherent` follows.

**Only model-checked**: the liveness property `SendsComplete`, as fairness is out of the
provers' reach. Every other property of the passing runs is stated by a theorem. To make
the queues provable, the filters of `ReplayWindow`, `ReplayCache` and `OverlayForwarder`
are written with `Pick`, by positions kept, where `SelectSeq` recurses.

## 5. Plan

Modelling was done in the order planned: relay, forwarder, admin quorum, transit, control
plane, tunnel hub, agent. No safety property, action property or refinement is left to
prove.

Worth modelling next: direct probes and relay session renewal of the agent composed
with `RelayService`, and the queue of destinations that wait for a path.

## 6. Not modelled

Byte codecs, cryptography and network I/O are outside what TLC can usefully explore;
they appear as the conditions they establish. Metrics and status that only report are
left out unless a property is about them (`ReportedLoadCovers`). User
interfaces, installers, charts, scripts, the load generator and eBPF counters hold no
protocol state. `bind_admin_quorum_manifest` has no caller outside tests. Heartbeats are signed, as
`require_heartbeat_signature` demands; where a deployment turns that off, unsigned ones are
ordered by `last_seen_at` (`ensure_heartbeat_is_newer`), which is not modelled. The signers'
OIDC check and the verifier's concurrency limit of 16 only refuse requests, which the
models allow at any time by not taking a step or by `Abandon`. The operator's drain of
in-flight mutations at activation, which closes the gap between a legacy plane's second
probe and its dispatch, is a procedure, not code.

The repository has about 230,000 lines of implementation, most of them command-line
parsing and wiring (`ipars-daemon`, `ipars-cli`), data types with their validation and
serialisation (`ipars-types`), row encoding and schema migration (`ipars-store`), request
decoding (`ipars-*-http`), a load generator and unit tests in the same files. The modules
cover the code that keeps shared state across an await, a lock or a message; the rest is
sequential, and a model of it would repeat it. The share of lines that map to a definition
therefore stays small, at a few per cent, and can only be raised by describing code in
which order does not matter.

Left out within the modelled crates: topology computation and gateway or relay selection
(pure functions over the node list), connection intents, HTTP mesh, health, NAT and
transport records (last write wins), the agent's direct probes, path selection, relay
session renewal, key rotation and pending-destination queue, WireGuard backends, the
tunnel's nonce table and TCP framing, peer probes, signal, STUN, the route manager, the
sudo record and the Kubernetes controller, each with its reason in `PROJECT.json`.
