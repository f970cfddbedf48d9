---------------------------- MODULE RelayTable ----------------------------
(***************************************************************************)
(* The session table of the UDP relay (crates/ipars-relay/src/lib.rs,      *)
(* RelayTable and RelaySession).  Every operation of the table runs under  *)
(* the write lock of Arc<RwLock<RelayTable>>, so each is one action.  What *)
(* is concurrent is the order of the operations: admissions, datagrams of  *)
(* both peers, raw WireGuard returns and the clock interleave freely, and  *)
(* UDP may delay or duplicate any datagram, so a frame may carry any token *)
(* ever issued.                                                            *)
(*                                                                         *)
(* A node pair identifies its session (RelaySessionId::new sorts the two   *)
(* ids), so SessionId is the set of unordered pairs.  A WireGuard datagram *)
(* is abstracted to its length and to the sender index (handshakes) or the *)
(* receiver index (responses, data) the relay reads from it.               *)
(***************************************************************************)
EXTENDS Integers, Sequences, FiniteSets, SequencesExt

CONSTANTS
    Nodes,           \* node ids that may be relayed
    Addrs,           \* socket addresses, [ip |-> _, port |-> _]
    Indices,         \* WireGuard sender indices (u32)
    PayloadLens,     \* lengths of forwarded payloads
    SessionTtl,      \* session_ttl
    Second,          \* clock ticks of the one-second rate window
    RateLimit,       \* max_bytes_per_second
    MaxIndices,      \* MAX_WIREGUARD_SENDER_INDICES_PER_SIDE
    NoSession, NoIndex, NoSide, NoRoute,
    MaxTime,         \* bound: last tick of the clock
    MaxTokens        \* bound: number of session tokens generated

Sides == {"Left", "Right"}
Other(side) == IF side = "Left" THEN "Right" ELSE "Left"

SessionId == {id \in SUBSET Nodes : \E l, r \in Nodes : l # r /\ id = {l, r}}

IPs == {a.ip : a \in Addrs}
Routes == {NoRoute} \cup (Nodes \X Nodes)

ASSUME ConstantsAssumption ==
    /\ \A a \in Addrs : a = [ip |-> a.ip, port |-> a.port] /\ a.port \in Nat
    /\ PayloadLens \subseteq Nat \ {0}
    /\ SessionTtl \in Nat \ {0}
    /\ Second \in Nat \ {0}
    /\ RateLimit \in Nat
    /\ MaxIndices \in Nat \ {0}
    /\ MaxTime \in Nat
    /\ MaxTokens \in Nat
    /\ NoSide \notin Sides
    /\ NoIndex \notin Indices
    /\ NoRoute \notin Nodes \X Nodes

(* RelaySession, without the fields that only report (created_at is kept   *)
(* because the rate bound is stated from it).                              *)
Session == [token : Nat, node : [Sides -> Nodes], addr : [Sides -> Addrs],
            learned : [Sides -> BOOLEAN], indices : [Sides -> Seq(Indices)],
            created_at : Nat, expires_at : Nat, bytes_forwarded : Nat,
            window_started_at : Nat, window_bytes : Nat]

ASSUME NoSessionAssumption == NoSession \notin Session

(* wireguard_return_routes, flattened: one record per vector element.      *)
(* Vectors become sets because only their elements are ever looked at.     *)
ReturnRoute == [index : Indices, session_id : SessionId,
                source_side : Sides, source_ip : IPs]

(* A decoded RelayDatagram: V1 frames have no route, V3 and V4 frames are  *)
(* announcements with an empty payload.                                    *)
Frame == [session_id : SessionId, token : Nat, route : Routes,
          announcement : BOOLEAN, sender : Indices \cup {NoIndex},
          len : PayloadLens \cup {0}]

VARIABLES
    now,             \* Utc::now()
    sessions,        \* RelayTable.sessions
    return_routes,   \* RelayTable.wireguard_return_routes
    tokens,          \* how many tokens Uuid::new_v4 has produced
    issued,          \* history: credentials returned to admission clients
    bound            \* history: IPs an authenticated party gave a side

tableVars == <<now, sessions, return_routes, tokens, issued, bound>>

Credential == [session_id : SessionId, token : Nat, expires_at : Nat]

Live(id) == sessions[id] # NoSession

TableTypeOK ==
    /\ now \in Nat
    /\ sessions \in [SessionId -> Session \cup {NoSession}]
    /\ return_routes \subseteq ReturnRoute
    /\ tokens \in Nat
    /\ issued \subseteq Credential
    /\ bound \in [SessionId -> [Sides -> SUBSET IPs]]

TableInit ==
    /\ now = 0
    /\ sessions = [id \in SessionId |-> NoSession]
    /\ return_routes = {}
    /\ tokens = 0
    /\ issued = {}
    /\ bound = [id \in SessionId |-> [side \in Sides |-> {}]]

---------------------------------------------------------------------------
(* Expiry.                                                                 *)

(* Mutant: expiry counted from the first admission, not from the last.     *)
IsExpiredFromCreation(s) == now >= s.created_at + SessionTtl

IsExpired(s) == now >= s.expires_at

(* rebuild_wireguard_return_routes: the routes the sessions ss stand for.  *)
Rebuild(ss) ==
    {r \in ReturnRoute :
        LET s == ss[r.session_id]
        IN  /\ s # NoSession
            /\ r.index \in Range(s.indices[Other(r.source_side)])
            /\ r.source_ip = s.addr[r.source_side].ip}

(* purge_expired: routes are rebuilt only when a session was removed.      *)
PurgedSessions ==
    [id \in SessionId |->
        IF Live(id) /\ IsExpired(sessions[id]) THEN NoSession ELSE sessions[id]]

PurgedRoutes ==
    IF PurgedSessions = sessions THEN return_routes ELSE Rebuild(PurgedSessions)

(* status(), and every operation that fails after purging.                 *)
PurgeExpired ==
    /\ PurgedSessions # sessions
    /\ sessions' = PurgedSessions
    /\ return_routes' = PurgedRoutes
    /\ UNCHANGED <<now, tokens, issued, bound>>

(* remove_expired_session: a frame or an HTTP announcement that names an   *)
(* expired session drops it and is refused.                                *)
RemoveExpiredSession(id) ==
    /\ Live(id)
    /\ IsExpired(sessions[id])
    /\ sessions' = [sessions EXCEPT ![id] = NoSession]
    /\ return_routes' = Rebuild(sessions')
    /\ UNCHANGED <<now, tokens, issued, bound>>

---------------------------------------------------------------------------
(* Admission.                                                              *)

UsableAddr(a) == a.port # 0

(* validate_relay_session_admission.                                       *)
ValidAdmission(l, r, la, ra) ==
    l # r /\ la # ra /\ UsableAddr(la) /\ UsableAddr(ra)

(* An admission names its peers in either order.                           *)
BySide(s, l, la, ra) ==
    IF s.node["Left"] = l THEN [side \in Sides |-> IF side = "Left" THEN la ELSE ra]
                          ELSE [side \in Sides |-> IF side = "Left" THEN ra ELSE la]

Refreshed(s, l, la, ra) ==
    [s EXCEPT !.addr = [side \in Sides |->
                           IF s.learned[side] THEN s.addr[side]
                                              ELSE BySide(s, l, la, ra)[side]],
              !.expires_at = now + SessionTtl]

(* admit_with_options on a live pair: same token, later expiry, and new    *)
(* addresses only for the sides that never sent a routed frame.            *)
AdmitExisting(l, r, la, ra) ==
    LET id == {l, r}
        s  == PurgedSessions[id]
        s2 == Refreshed(s, l, la, ra)
        ss == [PurgedSessions EXCEPT ![id] = s2]
    IN  /\ ValidAdmission(l, r, la, ra)
        /\ s # NoSession
        /\ sessions' = ss
        /\ return_routes' = Rebuild(ss)
        /\ issued' = issued \cup {[session_id |-> id, token |-> s.token,
                                   expires_at |-> s2.expires_at]}
        /\ bound' = [bound EXCEPT ![id] = [side \in Sides |-> @[side] \cup {s2.addr[side].ip}]]
        /\ UNCHANGED <<now, tokens>>

(* admit_with_options on a pair without a session.                         *)
AdmitNew(l, r, la, ra) ==
    LET id   == {l, r}
        addr == [side \in Sides |-> IF side = "Left" THEN la ELSE ra]
        s    == [token |-> tokens,
                 node |-> [side \in Sides |-> IF side = "Left" THEN l ELSE r],
                 addr |-> addr,
                 learned |-> [side \in Sides |-> FALSE],
                 indices |-> [side \in Sides |-> <<>>],
                 created_at |-> now, expires_at |-> now + SessionTtl,
                 bytes_forwarded |-> 0,
                 window_started_at |-> now, window_bytes |-> 0]
    IN  /\ tokens < MaxTokens
        /\ ValidAdmission(l, r, la, ra)
        /\ PurgedSessions[id] = NoSession
        /\ sessions' = [PurgedSessions EXCEPT ![id] = s]
        /\ return_routes' = PurgedRoutes
        /\ tokens' = tokens + 1
        /\ issued' = issued \cup {[session_id |-> id, token |-> tokens,
                                   expires_at |-> now + SessionTtl]}
        /\ bound' = [bound EXCEPT ![id] = [side \in Sides |-> {addr[side].ip}]]
        /\ UNCHANGED now

---------------------------------------------------------------------------
(* Forwarding.                                                             *)

(* consume_rate_limit: first the window may restart, then the payload is   *)
(* charged or refused; a refusal keeps the restarted window.               *)
WindowAt(s) ==
    IF now - s.window_started_at >= Second
    THEN [s EXCEPT !.window_started_at = now, !.window_bytes = 0]
    ELSE s

(* Mutant: the limit is compared before the payload is added.              *)
WithinLimitBefore(s, n) == WindowAt(s).window_bytes <= RateLimit

WithinLimit(s, n) == WindowAt(s).window_bytes + n <= RateLimit

Charged(s, n) ==
    LET w == WindowAt(s)
    IN  [w EXCEPT !.window_bytes = w.window_bytes + n,
                  !.bytes_forwarded = w.bytes_forwarded + n]

(* The side a frame speaks for: its route must name the two peers; without *)
(* a route the source address must be the one the session holds.           *)
SourceSide(s, route, src) ==
    CASE route = <<s.node["Left"], s.node["Right"]>> -> "Left"
      [] route = <<s.node["Right"], s.node["Left"]>> -> "Right"
      [] route = NoRoute /\ s.addr["Left"] = src     -> "Left"
      [] route = NoRoute /\ s.addr["Left"] # src /\ s.addr["Right"] = src -> "Right"
      [] OTHER -> NoSide

(* A routed frame teaches the relay its sender's address, and does so      *)
(* before the rate limit is looked at.                                     *)
Learn(s, route, side, src) ==
    IF route = NoRoute THEN s
    ELSE [s EXCEPT !.addr[side] = src,
                   !.learned[side] = TRUE]

(* record_wireguard_sender_index: most recent index last, oldest evicted.  *)
WithoutIndex(list, i) ==
    IF \E k \in DOMAIN list : list[k] = i
    THEN RemoveAt(list, CHOOSE k \in DOMAIN list : list[k] = i)
    ELSE list

Evicts(list, i) == Len(WithoutIndex(list, i)) >= MaxIndices

Recorded(list, i) ==
    LET rest == WithoutIndex(list, i)
    IN  Append(IF Evicts(list, i) THEN Tail(rest) ELSE rest, i)

(* Mutant: the route of the evicted index stays.                           *)
UpsertedOnly(id, s, side, i) ==
    return_routes \cup {[index |-> i, session_id |-> id, source_side |-> Other(side),
                        source_ip |-> s.addr[Other(side)].ip]}

(* upsert_wireguard_return_route for sender index i of the given side.     *)
Upserted(id, s, side, i) ==
    LET list  == s.indices[side]
        stale == {i} \cup (IF Evicts(list, i) THEN {Head(WithoutIndex(list, i))} ELSE {})
    IN  {r \in return_routes : ~ /\ r.session_id = id
                                 /\ r.source_side = Other(side)
                                 /\ r.index \in stale}
        \cup {[index |-> i, session_id |-> id, source_side |-> Other(side),
               source_ip |-> s.addr[Other(side)].ip]}

AuthenticatedFrame(f, src) ==
    /\ Live(f.session_id)
    /\ ~IsExpired(sessions[f.session_id])
    /\ sessions[f.session_id].token = f.token
    /\ SourceSide(sessions[f.session_id], f.route, src) \in Sides

BoundBy(f, side, src) ==
    IF f.route = NoRoute THEN bound
    ELSE [bound EXCEPT ![f.session_id][side] = @ \cup {src.ip}]

(* forward_datagram_for_addr_at, accepted.                                 *)
ForwardDatagram(f, src) ==
    LET id      == f.session_id
        side    == SourceSide(sessions[id], f.route, src)
        s       == Charged(Learn(sessions[id], f.route, side, src), f.len)
        records == ~f.announcement /\ f.sender # NoIndex
    IN  /\ AuthenticatedFrame(f, src)
        /\ WithinLimit(sessions[id], f.len)
        /\ sessions' = [sessions EXCEPT ![id] =
               IF records
               THEN [s EXCEPT !.indices[side] = Recorded(@, f.sender)]
               ELSE s]
        /\ return_routes' = IF records THEN Upserted(id, s, side, f.sender)
                                       ELSE return_routes
        /\ bound' = BoundBy(f, side, src)
        /\ UNCHANGED <<now, tokens, issued>>

(* forward_datagram_for_addr_at, refused with RateLimited.                 *)
DatagramRateLimited(f, src) ==
    LET id   == f.session_id
        side == SourceSide(sessions[id], f.route, src)
    IN  /\ AuthenticatedFrame(f, src)
        /\ ~WithinLimit(sessions[id], f.len)
        /\ sessions' = [sessions EXCEPT ![id] =
                           WindowAt(Learn(sessions[id], f.route, side, src))]
        /\ bound' = BoundBy(f, side, src)
        /\ UNCHANGED <<now, return_routes, tokens, issued>>

(* Mutant: any source may return a datagram for a known index.             *)
ReturnMatchesAnyIp(src, i) ==
    {r \in PurgedRoutes :
        /\ r.index = i
        /\ PurgedSessions[r.session_id] # NoSession
        /\ PurgedSessions[r.session_id].learned[Other(r.source_side)]}

(* forward_wireguard_return_datagram: a raw WireGuard datagram without a   *)
(* relay frame is routed by its receiver index and source IP, if exactly   *)
(* one live session with an authenticated target matches.                  *)
ReturnMatches(src, i) ==
    {r \in PurgedRoutes :
        /\ r.index = i
        /\ r.source_ip = src.ip
        /\ PurgedSessions[r.session_id] # NoSession
        /\ PurgedSessions[r.session_id].learned[Other(r.source_side)]}

ForwardReturn(src, i, n) ==
    \E r \in ReturnMatches(src, i) :
        LET id == r.session_id
            s  == PurgedSessions[id]
        IN  /\ ReturnMatches(src, i) = {r}
            /\ sessions' = [PurgedSessions EXCEPT ![id] =
                   IF WithinLimit(s, n)
                   THEN [Charged(s, n) EXCEPT !.addr[r.source_side] = src]
                   ELSE WindowAt(s)]
            /\ return_routes' = PurgedRoutes
            /\ UNCHANGED <<now, tokens, issued, bound>>

(* forward_target_at: the in-process variant, which learns nothing.        *)
ForwardTarget(f) ==
    LET id == f.session_id
        s  == sessions[id]
    IN  /\ f.route # NoRoute /\ ~f.announcement
        /\ AuthenticatedFrame(f, s.addr["Left"])
        /\ sessions' = [sessions EXCEPT ![id] =
                           IF WithinLimit(s, f.len) THEN Charged(s, f.len) ELSE WindowAt(s)]
        /\ UNCHANGED <<now, return_routes, tokens, issued, bound>>

Tick ==
    /\ now < MaxTime
    /\ now' = now + 1
    /\ UNCHANGED <<sessions, return_routes, tokens, issued, bound>>

---------------------------------------------------------------------------
(* Frames carry a token issued so far: any of them, however late.          *)
Frames == [session_id : SessionId, token : 0..(tokens - 1), route : Routes,
           announcement : BOOLEAN, sender : Indices \cup {NoIndex},
           len : PayloadLens \cup {0}]

(* The frames the encoders produce: announcements are empty and routed.    *)
WellFormed(f) ==
    IF f.announcement THEN f.len = 0 /\ f.sender = NoIndex /\ f.route # NoRoute
                      ELSE f.len # 0

Receive(f, src) ==
    \/ ForwardDatagram(f, src)
    \/ DatagramRateLimited(f, src)

(* Everything but admission: it needs nothing but the table.               *)
Dataplane ==
    \/ Tick
    \/ PurgeExpired
    \/ \E id \in SessionId : RemoveExpiredSession(id)
    \/ \E f \in Frames : /\ WellFormed(f)
                         /\ \/ ForwardTarget(f)
                            \/ \E src \in Addrs : Receive(f, src)
    \/ \E src \in Addrs, i \in Indices, n \in PayloadLens : ForwardReturn(src, i, n)

TableNext ==
    \/ Dataplane
    \/ \E l, r \in Nodes, la, ra \in Addrs :
          AdmitExisting(l, r, la, ra) \/ AdmitNew(l, r, la, ra)

TableSpec == TableInit /\ [][TableNext]_tableVars

---------------------------------------------------------------------------
(* Properties.                                                             *)

(* What consume_rate_limit promises over a session's whole life: however   *)
(* windows, refusals, re-admissions and raw returns interleave, at most    *)
(* RateLimit bytes per elapsed second, plus one window's worth, pass.      *)
RateBound ==
    \A id \in SessionId : Live(id) =>
        Second * sessions[id].bytes_forwarded
            <= RateLimit * (now - sessions[id].created_at + Second)

(* upsert_wireguard_return_route and rebuild_wireguard_return_routes keep  *)
(* the route map the exact inverse of the sessions' index lists through    *)
(* eviction, expiry and re-admission: no dangling route, no lost one, and  *)
(* never two routes that one session would make ambiguous by itself.  Nor  *)
(* does record_wireguard_sender_index list an index twice or too many.     *)
RoutesMirrorIndices ==
    /\ \A id \in SessionId, side \in Sides : Live(id) =>
          /\ Len(sessions[id].indices[side]) <= MaxIndices
          /\ IsInjective(sessions[id].indices[side])
    /\ \A id \in SessionId, side \in Sides, i \in Indices :
          (\E r \in return_routes : /\ r.index = i
                                    /\ r.session_id = id
                                    /\ r.source_side = Other(side))
             <=> Live(id) /\ i \in Range(sessions[id].indices[side])
    /\ \A r1, r2 \in return_routes :
          (/\ r1.index = r2.index
           /\ r1.session_id = r2.session_id
           /\ r1.source_side = r2.source_side) => r1 = r2

(* A raw return datagram carries no token, yet it moves the address of the *)
(* side it came from.  It can move it only to an IP that an admission or a *)
(* token-bearing frame gave that side of this session.                     *)
AddressProvenance ==
    \A id \in SessionId, side \in Sides : Live(id) =>
        sessions[id].addr[side].ip \in bound[id][side]

(* A credential returned by an admission works until the expiry returned   *)
(* with it: no purge, re-admission or later session takes it away early.   *)
CredentialsHonoured ==
    \A c \in issued : now < c.expires_at =>
        /\ Live(c.session_id)
        /\ sessions[c.session_id].token = c.token
        /\ c.expires_at <= sessions[c.session_id].expires_at

===========================================================================
