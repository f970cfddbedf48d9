---------------------------- MODULE Relay_proofs ----------------------------
(***************************************************************************)
(* Theorems about the relay, for every set of nodes, addresses, indices    *)
(* and calls and every limit.  First the session table alone; then relay   *)
(* admission: the service implements the table, so what is proved of the   *)
(* table holds under concurrent admission calls too, and its own limits    *)
(* hold.                                                                   *)
(***************************************************************************)
EXTENDS RelayService, FiniteSetTheorems, TLAPS


---------------------------------------------------------------------------
(* Lemmas about the values a session goes through.                         *)

(* record_wireguard_sender_index returns a list of indices.                *)
LEMMA RecordedType ==
    ASSUME NEW list \in Seq(Indices), NEW i \in Indices
    PROVE  Recorded(list, i) \in Seq(Indices)
<1>1. WithoutIndex(list, i) \in Seq(Indices)
  <2>1. CASE \E k \in DOMAIN list : list[k] = i
    <3>1. PICK k \in DOMAIN list : WithoutIndex(list, i) = RemoveAt(list, k)
      BY <2>1 DEF WithoutIndex
    <3>2. SubSeq(list, 1, k - 1) \in Seq(Indices) /\ SubSeq(list, k + 1, Len(list)) \in Seq(Indices)
      OBVIOUS
    <3> QED BY <3>1, <3>2 DEF RemoveAt
  <2>2. CASE ~ \E k \in DOMAIN list : list[k] = i
    BY <2>2 DEF WithoutIndex
  <2> QED BY <2>1, <2>2
<1>2. Evicts(list, i) => WithoutIndex(list, i) # <<>>
  BY <1>1, ConstantsAssumption DEF Evicts
<1> QED BY <1>1, <1>2 DEF Recorded

(* consume_rate_limit touches only the window and the byte counter.        *)
SameOwner(s, t) ==
    /\ t.token = s.token
    /\ t.node = s.node
    /\ t.addr = s.addr
    /\ t.learned = s.learned
    /\ t.indices = s.indices
    /\ t.created_at = s.created_at
    /\ t.expires_at = s.expires_at

(* consume_rate_limit's window restart keeps a session well typed and   *)
(* touches nothing but the window.                                         *)
LEMMA WindowType ==
    ASSUME NEW s \in Session, now \in Nat
    PROVE  /\ WindowAt(s) \in Session
           /\ SameOwner(s, WindowAt(s))
           /\ WindowAt(s).bytes_forwarded = s.bytes_forwarded
<1>1. CASE now - s.window_started_at >= Second
  <2>1. WindowAt(s) = [s EXCEPT !.window_started_at = now, !.window_bytes = 0]
    BY <1>1 DEF WindowAt
  <2>2. [s EXCEPT !.window_started_at = now, !.window_bytes = 0] \in Session
    BY DEF Session
  <2>3. SameOwner(s, [s EXCEPT !.window_started_at = now, !.window_bytes = 0])
    BY DEF Session, SameOwner
  <2>4. [s EXCEPT !.window_started_at = now, !.window_bytes = 0].bytes_forwarded = s.bytes_forwarded
    BY DEF Session
  <2> QED BY <2>1, <2>2, <2>3, <2>4
<1>2. CASE ~(now - s.window_started_at >= Second)
  BY <1>2 DEF WindowAt, SameOwner
<1> QED BY <1>1, <1>2

(* Charging a payload moves the window and the byte counter together.      *)
LEMMA ChargedType ==
    ASSUME NEW s \in Session, NEW n \in Nat, now \in Nat
    PROVE  /\ Charged(s, n) \in Session
           /\ SameOwner(s, Charged(s, n))
           /\ Charged(s, n).window_started_at = WindowAt(s).window_started_at
           /\ Charged(s, n).window_bytes = WindowAt(s).window_bytes + n
           /\ Charged(s, n).bytes_forwarded = s.bytes_forwarded + n
<1> DEFINE w == WindowAt(s)
<1>1. w \in Session /\ SameOwner(s, w) /\ w.bytes_forwarded = s.bytes_forwarded
  BY WindowType
<1>2. Charged(s, n) = [w EXCEPT !.window_bytes = w.window_bytes + n,
                                !.bytes_forwarded = w.bytes_forwarded + n]
  BY DEF Charged
<1> HIDE DEF w
<1>3. [w EXCEPT !.window_bytes = w.window_bytes + n,
                !.bytes_forwarded = w.bytes_forwarded + n] \in Session
  <2>1. w.window_bytes + n \in Nat /\ w.bytes_forwarded + n \in Nat
    BY <1>1 DEF Session
  <2> QED BY <1>1, <2>1 DEF Session
<1>4. SameOwner(w, Charged(s, n)) /\ Charged(s, n).window_started_at = w.window_started_at
  BY <1>1, <1>2 DEF Session, SameOwner
<1>5. Charged(s, n).window_bytes = w.window_bytes + n /\ Charged(s, n).bytes_forwarded = w.bytes_forwarded + n
  BY <1>1, <1>2 DEF Session
<1> QED BY <1>1, <1>2, <1>3, <1>4, <1>5 DEF SameOwner, w

(* Learning a source address keeps a session well typed.                   *)
LEMMA LearnType ==
    ASSUME NEW s \in Session, NEW route, NEW side \in Sides, NEW src \in Addrs
    PROVE  Learn(s, route, side, src) \in Session
BY DEF Learn, Session

(* purge_expired keeps a session as it is or drops it.                     *)
LEMMA PurgedType ==
    ASSUME TableTypeOK
    PROVE  /\ PurgedSessions \in [SessionId -> Session \cup {NoSession}]
           /\ PurgedRoutes \subseteq ReturnRoute
           /\ \A id \in SessionId : PurgedSessions[id] \in {NoSession, sessions[id]}
BY DEF TableTypeOK, PurgedSessions, PurgedRoutes, Rebuild

(* The steps of the dataplane, one disjunct per operation of the table.    *)
LEMMA DataplaneCases ==
    ASSUME TableTypeOK, Dataplane
    PROVE  \/ Tick
           \/ PurgeExpired
           \/ \E id \in SessionId : RemoveExpiredSession(id)
           \/ \E f \in Frame : ForwardTarget(f)
           \/ \E f \in Frame, src \in Addrs : ForwardDatagram(f, src)
           \/ \E f \in Frame, src \in Addrs : DatagramRateLimited(f, src)
           \/ \E src \in Addrs, i \in Indices, n \in PayloadLens : ForwardReturn(src, i, n)
<1>1. Frames \subseteq Frame
  BY DEF Frames, Frame, TableTypeOK
<1> QED BY <1>1 DEF Dataplane, Receive

(* A frame that is let through speaks for one side of a live session.      *)
LEMMA AuthenticatedSide ==
    ASSUME TableTypeOK, NEW f \in Frame, NEW src, AuthenticatedFrame(f, src)
    PROVE  /\ f.session_id \in SessionId
           /\ sessions[f.session_id] \in Session
           /\ SourceSide(sessions[f.session_id], f.route, src) \in Sides
           /\ f.len \in Nat
           /\ f.sender \in Indices \cup {NoIndex}
BY ConstantsAssumption DEF AuthenticatedFrame, TableTypeOK, Frame, Live

(* upsert_wireguard_return_route inserts a well-typed route.               *)
LEMMA UpsertedType ==
    ASSUME TableTypeOK, NEW id \in SessionId, NEW s \in Session, NEW side \in Sides,
           NEW i \in Indices
    PROVE  Upserted(id, s, side, i) \subseteq ReturnRoute
<1>1. Other(side) \in Sides
  BY DEF Other, Sides
<1>2. s.addr[Other(side)].ip \in IPs
  BY <1>1 DEF Session, IPs
<1> QED BY <1>1, <1>2 DEF Upserted, ReturnRoute, TableTypeOK

(* The history of bound IPs stays well typed.                              *)
LEMMA BoundByType ==
    ASSUME TableTypeOK, NEW f \in Frame, NEW side \in Sides, NEW src \in Addrs
    PROVE  BoundBy(f, side, src) \in [SessionId -> [Sides -> SUBSET IPs]]
<1>1. f.session_id \in SessionId /\ src.ip \in IPs
  BY DEF Frame, IPs
<1> DEFINE b == [bound[f.session_id] EXCEPT ![side] = @ \cup {src.ip}]
<1>2. b \in [Sides -> SUBSET IPs]
  BY <1>1 DEF TableTypeOK
<1>3. [bound EXCEPT ![f.session_id] = b] \in [SessionId -> [Sides -> SUBSET IPs]]
  BY <1>1, <1>2 DEF TableTypeOK
<1> QED BY <1>3 DEF BoundBy, TableTypeOK

---------------------------------------------------------------------------
(* Every operation keeps the table well typed, one lemma per operation.    *)

(* purge_expired keeps the table well typed.                               *)
LEMMA TypePurge ==
    ASSUME TableTypeOK, PurgeExpired
    PROVE  TableTypeOK'
BY PurgedType DEF PurgeExpired, TableTypeOK

(* remove_expired_session keeps the table well typed.                      *)
LEMMA TypeRemove ==
    ASSUME TableTypeOK, NEW id \in SessionId, RemoveExpiredSession(id)
    PROVE  TableTypeOK'
BY DEF RemoveExpiredSession, TableTypeOK, Rebuild

(* forward_target_at keeps the table well typed.                           *)
LEMMA TypeTarget ==
    ASSUME TableTypeOK, NEW f \in Frame, ForwardTarget(f)
    PROVE  TableTypeOK'
<1> DEFINE s == sessions[f.session_id]
<1>1. f.session_id \in SessionId /\ s \in Session /\ f.len \in Nat
  BY AuthenticatedSide DEF ForwardTarget
<1>2. WindowAt(s) \in Session /\ Charged(s, f.len) \in Session
  BY <1>1, WindowType, ChargedType DEF TableTypeOK
<1> QED BY <1>1, <1>2 DEF ForwardTarget, TableTypeOK

(* An accepted datagram keeps the table well typed.                        *)
LEMMA TypeForward ==
    ASSUME TableTypeOK, NEW f \in Frame, NEW src \in Addrs, ForwardDatagram(f, src)
    PROVE  TableTypeOK'
<1> DEFINE id   == f.session_id
           side == SourceSide(sessions[id], f.route, src)
           s    == Charged(Learn(sessions[id], f.route, side, src), f.len)
           t    == [s EXCEPT !.indices[side] = Recorded(@, f.sender)]
<1>1. id \in SessionId /\ sessions[id] \in Session /\ side \in Sides /\ f.len \in Nat
      /\ f.sender \in Indices \cup {NoIndex}
  BY AuthenticatedSide DEF ForwardDatagram
<1>2. s \in Session
  <2>1. Learn(sessions[id], f.route, side, src) \in Session
    BY <1>1, LearnType
  <2> QED BY <1>1, <2>1, ChargedType DEF TableTypeOK
<1>3. ASSUME f.sender # NoIndex
      PROVE  t \in Session /\ Upserted(id, s, side, f.sender) \subseteq ReturnRoute
  <2> HIDE DEF s, side
  <2>1. Recorded(s.indices[side], f.sender) \in Seq(Indices)
    BY <1>1, <1>2, <1>3, RecordedType DEF Session
  <2> DEFINE list == [s.indices EXCEPT ![side] = Recorded(s.indices[side], f.sender)]
  <2>2. t \in Session
    <3>1. list \in [Sides -> Seq(Indices)]
      BY <1>1, <1>2, <2>1 DEF Session
    <3>2. t = [s EXCEPT !.indices = list]
      BY <1>2 DEF Session
    <3> HIDE DEF list
    <3> QED BY <1>2, <3>1, <3>2 DEF Session
  <2> QED BY <1>1, <1>2, <1>3, <2>2, UpsertedType
<1>4. BoundBy(f, side, src) \in [SessionId -> [Sides -> SUBSET IPs]]
  BY <1>1, BoundByType
<1>5. sessions' = [sessions EXCEPT ![id] = IF ~f.announcement /\ f.sender # NoIndex THEN t ELSE s]
      /\ return_routes' = (IF ~f.announcement /\ f.sender # NoIndex
                           THEN Upserted(id, s, side, f.sender) ELSE return_routes)
      /\ bound' = BoundBy(f, side, src)
      /\ UNCHANGED <<now, tokens, issued>>
  BY DEF ForwardDatagram
<1> HIDE DEF t, s, side, id
<1> QED BY <1>1, <1>2, <1>3, <1>4, <1>5 DEF TableTypeOK

(* A rate-limited datagram keeps the table well typed.                     *)
LEMMA TypeLimited ==
    ASSUME TableTypeOK, NEW f \in Frame, NEW src \in Addrs, DatagramRateLimited(f, src)
    PROVE  TableTypeOK'
<1> DEFINE id   == f.session_id
           side == SourceSide(sessions[id], f.route, src)
           s    == WindowAt(Learn(sessions[id], f.route, side, src))
<1>1. id \in SessionId /\ sessions[id] \in Session /\ side \in Sides
  BY AuthenticatedSide DEF DatagramRateLimited
<1>2. s \in Session
  <2>1. Learn(sessions[id], f.route, side, src) \in Session
    BY <1>1, LearnType
  <2> QED BY <2>1, WindowType DEF TableTypeOK
<1>3. BoundBy(f, side, src) \in [SessionId -> [Sides -> SUBSET IPs]]
  BY <1>1, BoundByType
<1> QED BY <1>1, <1>2, <1>3 DEF DatagramRateLimited, TableTypeOK

(* A raw WireGuard return keeps the table well typed.                      *)
LEMMA TypeReturn ==
    ASSUME TableTypeOK, NEW src \in Addrs, NEW i \in Indices, NEW n \in PayloadLens,
           ForwardReturn(src, i, n)
    PROVE  TableTypeOK'
<1>1. PICK r \in ReturnMatches(src, i) :
        /\ sessions' = [PurgedSessions EXCEPT ![r.session_id] =
               IF WithinLimit(PurgedSessions[r.session_id], n)
               THEN [Charged(PurgedSessions[r.session_id], n) EXCEPT
                        !.addr[r.source_side] = src]
               ELSE WindowAt(PurgedSessions[r.session_id])]
        /\ return_routes' = PurgedRoutes
        /\ UNCHANGED <<now, tokens, issued, bound>>
  BY DEF ForwardReturn
<1> DEFINE s == PurgedSessions[r.session_id]
           c == Charged(s, n)
           t == [c EXCEPT !.addr[r.source_side] = src]
<1>2. r.session_id \in SessionId /\ r.source_side \in Sides /\ s \in Session /\ n \in Nat
  BY PurgedType, ConstantsAssumption DEF ReturnMatches, ReturnRoute
<1>3. WindowAt(s) \in Session /\ c \in Session
  BY <1>2, WindowType, ChargedType DEF TableTypeOK
<1>4. t \in Session
  <2> HIDE DEF c
  <2> QED BY <1>2, <1>3 DEF Session
<1>5. sessions' = [PurgedSessions EXCEPT ![r.session_id] =
                      IF WithinLimit(s, n) THEN t ELSE WindowAt(s)]
  BY <1>1
<1> HIDE DEF t, s
<1> QED BY <1>1, <1>2, <1>3, <1>4, <1>5, PurgedType DEF TableTypeOK

(* A refresh changes a session's addresses and expiry and nothing else.    *)
LEMMA RefreshedType ==
    ASSUME TableTypeOK, NEW s \in Session, NEW l \in Nodes, NEW la \in Addrs, NEW ra \in Addrs
    PROVE  /\ Refreshed(s, l, la, ra) \in Session
           /\ Refreshed(s, l, la, ra).expires_at = now + SessionTtl
           /\ Refreshed(s, l, la, ra).token = s.token
           /\ Refreshed(s, l, la, ra).indices = s.indices
           /\ Refreshed(s, l, la, ra).created_at = s.created_at
           /\ Refreshed(s, l, la, ra).window_started_at = s.window_started_at
           /\ Refreshed(s, l, la, ra).window_bytes = s.window_bytes
           /\ Refreshed(s, l, la, ra).bytes_forwarded = s.bytes_forwarded
<1> DEFINE a == [side \in Sides |-> IF s.learned[side] THEN s.addr[side]
                                    ELSE BySide(s, l, la, ra)[side]]
<1>1. BySide(s, l, la, ra) \in [Sides -> Addrs]
  BY DEF BySide
<1>2. a \in [Sides -> Addrs]
  BY <1>1 DEF Session
<1>3. now + SessionTtl \in Nat
  BY ConstantsAssumption DEF TableTypeOK
<1>4. Refreshed(s, l, la, ra) = [s EXCEPT !.addr = a, !.expires_at = now + SessionTtl]
  BY DEF Refreshed
<1> HIDE DEF a
<1> QED BY <1>2, <1>3, <1>4 DEF Session

(* An admission of a live pair keeps the table well typed.                 *)
LEMMA TypeAdmitExisting ==
    ASSUME TableTypeOK, NEW l \in Nodes, NEW r \in Nodes, NEW la \in Addrs, NEW ra \in Addrs,
           AdmitExisting(l, r, la, ra)
    PROVE  TableTypeOK'
<1> DEFINE id == {l, r}
           s  == PurgedSessions[id]
           t  == Refreshed(s, l, la, ra)
           b  == [side \in Sides |-> bound[id][side] \cup {t.addr[side].ip}]
<1>1. id \in SessionId
  BY DEF AdmitExisting, ValidAdmission, SessionId
<1>2. s \in Session
  BY <1>1, PurgedType DEF AdmitExisting
<1>3. t \in Session /\ t.expires_at \in Nat /\ s.token \in Nat
  BY <1>2, RefreshedType DEF Session
<1>4. b \in [Sides -> SUBSET IPs]
  <2> HIDE DEF t
  <2> QED BY <1>1, <1>3 DEF TableTypeOK, Session, IPs
<1>5. /\ sessions' = [PurgedSessions EXCEPT ![id] = t]
      /\ return_routes' = Rebuild(sessions')
      /\ issued' = issued \cup {[session_id |-> id, token |-> s.token, expires_at |-> t.expires_at]}
      /\ bound' = [bound EXCEPT ![id] = b]
      /\ UNCHANGED <<now, tokens>>
  BY DEF AdmitExisting
<1> HIDE DEF b, t, s, id
<1>6. sessions' \in [SessionId -> Session \cup {NoSession}]
  BY <1>1, <1>3, <1>5, PurgedType
<1>7. issued' \subseteq Credential
  BY <1>1, <1>3, <1>5 DEF Credential, TableTypeOK
<1>8. bound' \in [SessionId -> [Sides -> SUBSET IPs]]
  BY <1>1, <1>4, <1>5 DEF TableTypeOK
<1>9. return_routes' \subseteq ReturnRoute
  BY <1>5 DEF Rebuild
<1> QED BY <1>5, <1>6, <1>7, <1>8, <1>9 DEF TableTypeOK

(* The session admit_with_options inserts.                                 *)
Fresh(l, r, la, ra) ==
    [token |-> tokens,
     node |-> [side \in Sides |-> IF side = "Left" THEN l ELSE r],
     addr |-> [side \in Sides |-> IF side = "Left" THEN la ELSE ra],
     learned |-> [side \in Sides |-> FALSE],
     indices |-> [side \in Sides |-> <<>>],
     created_at |-> now, expires_at |-> now + SessionTtl,
     bytes_forwarded |-> 0,
     window_started_at |-> now, window_bytes |-> 0]

(* A fresh session is well typed.                                          *)
LEMMA FreshType ==
    ASSUME TableTypeOK, NEW l \in Nodes, NEW r \in Nodes, NEW la \in Addrs, NEW ra \in Addrs
    PROVE  /\ Fresh(l, r, la, ra) \in Session
           /\ now + SessionTtl \in Nat
<1>1. now + SessionTtl \in Nat
  BY ConstantsAssumption DEF TableTypeOK
<1>2. [side \in Sides |-> <<>>] \in [Sides -> Seq(Indices)]
  OBVIOUS
<1> QED BY <1>1, <1>2 DEF Fresh, Session, TableTypeOK

(* What an admission of a new pair does to the table.                      *)
LEMMA AdmitNewEffect ==
    ASSUME TableTypeOK, NEW l \in Nodes, NEW r \in Nodes, NEW la \in Addrs, NEW ra \in Addrs,
           AdmitNew(l, r, la, ra)
    PROVE  /\ {l, r} \in SessionId
           /\ PurgedSessions[{l, r}] = NoSession
           /\ sessions' = [PurgedSessions EXCEPT ![{l, r}] = Fresh(l, r, la, ra)]
           /\ return_routes' = PurgedRoutes
           /\ tokens' = tokens + 1
           /\ issued' = issued \cup {[session_id |-> {l, r}, token |-> tokens,
                                      expires_at |-> now + SessionTtl]}
           /\ bound' = [bound EXCEPT ![{l, r}] =
                           [side \in Sides |-> {Fresh(l, r, la, ra).addr[side].ip}]]
           /\ now' = now
BY DEF AdmitNew, Fresh, ValidAdmission, SessionId

(* An admission of a new pair keeps the table well typed.                  *)
LEMMA TypeAdmitNew ==
    ASSUME TableTypeOK, NEW l \in Nodes, NEW r \in Nodes, NEW la \in Addrs, NEW ra \in Addrs,
           AdmitNew(l, r, la, ra)
    PROVE  TableTypeOK'
<1> DEFINE id == {l, r}
           t  == Fresh(l, r, la, ra)
           b  == [side \in Sides |-> {t.addr[side].ip}]
<1>1. t \in Session /\ now + SessionTtl \in Nat
  BY FreshType
<1>2. b \in [Sides -> SUBSET IPs]
  <2> HIDE DEF t
  <2> QED BY <1>1 DEF Session, IPs
<1>3. /\ id \in SessionId
      /\ sessions' = [PurgedSessions EXCEPT ![id] = t]
      /\ return_routes' = PurgedRoutes
      /\ tokens' = tokens + 1
      /\ issued' = issued \cup {[session_id |-> id, token |-> tokens,
                                 expires_at |-> now + SessionTtl]}
      /\ bound' = [bound EXCEPT ![id] = b]
      /\ now' = now
  BY AdmitNewEffect
<1> HIDE DEF b, t, id
<1>4. sessions' \in [SessionId -> Session \cup {NoSession}]
  BY <1>1, <1>3, PurgedType
<1>5. issued' \subseteq Credential
  BY <1>1, <1>3 DEF Credential, TableTypeOK
<1>6. bound' \in [SessionId -> [Sides -> SUBSET IPs]]
  BY <1>2, <1>3 DEF TableTypeOK
<1> QED BY <1>3, <1>4, <1>5, <1>6, PurgedType DEF TableTypeOK

(* Every dataplane step keeps the table well typed.                        *)
LEMMA TypeDataplane ==
    ASSUME TableTypeOK, Dataplane
    PROVE  TableTypeOK'
<1>1. CASE Tick
  BY <1>1 DEF Tick, TableTypeOK
<1> QED BY <1>1, DataplaneCases, TypePurge, TypeRemove, TypeTarget, TypeForward, TypeLimited,
           TypeReturn

(* Every step of the table keeps it well typed.                            *)
LEMMA TypeStep ==
    ASSUME TableTypeOK, [TableNext]_tableVars
    PROVE  TableTypeOK'
<1>1. CASE UNCHANGED tableVars
  BY <1>1 DEF tableVars, TableTypeOK
<1>2. CASE Dataplane
  BY <1>2, TypeDataplane
<1> QED BY <1>1, <1>2, TypeAdmitExisting, TypeAdmitNew DEF TableNext

(* The empty table is well typed.                                          *)
LEMMA TypeInit == TableInit => TableTypeOK
BY DEF TableInit, TableTypeOK

(* The table is well typed in every reachable state.                       *)
THEOREM TableTypeCorrect == TableSpec => []TableTypeOK
BY TypeInit, TypeStep, PTL DEF TableSpec

---------------------------------------------------------------------------
(* The rate bound.  RateBound alone is not inductive: what matters is how  *)
(* many bytes passed before the current window, measured by when it began. *)

RateOK(s) ==
    /\ s.created_at <= s.window_started_at
    /\ s.window_started_at <= now
    /\ s.window_bytes <= RateLimit
    /\ Second * (s.bytes_forwarded - s.window_bytes)
          <= RateLimit * (s.window_started_at - s.created_at)

RateInv == \A id \in SessionId : Live(id) => RateOK(sessions[id])

(* Multiplication by a natural number is monotone.                         *)
LEMMA Monotone ==
    ASSUME NEW a \in Int, NEW b \in Int, NEW c \in Nat, a <= b
    PROVE  a * c <= b * c /\ c * a <= c * b
OBVIOUS

(* A window that restarts has let at most RateLimit bytes pass, and a full *)
(* second has gone by.                                                     *)
LEMMA WindowRate ==
    ASSUME NEW s \in Session, now \in Nat, RateOK(s)
    PROVE  RateOK(WindowAt(s))
<1> USE ConstantsAssumption
<1>1. CASE now - s.window_started_at >= Second
  <2> DEFINE w == WindowAt(s)
             bytes == s.bytes_forwarded
             old == s.window_bytes
             start == s.window_started_at
             born == s.created_at
  <2>1. w.window_started_at = now /\ w.window_bytes = 0 /\ w.bytes_forwarded = bytes
        /\ w.created_at = born
    BY <1>1 DEF WindowAt, Session
  <2>2. bytes \in Nat /\ old \in Nat /\ start \in Nat /\ born \in Nat
    BY DEF Session
  <2>3. Second * (bytes - old) <= RateLimit * (start - born) /\ old <= RateLimit
        /\ now - start >= Second /\ born <= start
    BY <1>1 DEF RateOK
  <2> HIDE DEF w, bytes, old, start, born
  <2>4. Second * old <= RateLimit * (now - start)
    <3>1. Second * old <= Second * RateLimit
      BY <2>2, <2>3, Monotone
    <3>2. RateLimit * Second <= RateLimit * (now - start)
      BY <2>2, <2>3, Monotone
    <3>3. Second * RateLimit = RateLimit * Second
      OBVIOUS
    <3> QED BY <2>2, <3>1, <3>2, <3>3
  <2>5. Second * (bytes - old) = Second * bytes - Second * old
    BY <2>2
  <2>6. RateLimit * (start - born) + RateLimit * (now - start) = RateLimit * (now - born)
    BY <2>2
  <2>7. Second * bytes <= RateLimit * (now - born)
    BY <2>2, <2>3, <2>4, <2>5, <2>6
  <2> QED BY <2>1, <2>2, <2>3, <2>7 DEF RateOK, w, born
<1>2. CASE ~(now - s.window_started_at >= Second)
  BY <1>2 DEF WindowAt
<1> QED BY <1>1, <1>2

(* A payload within the limit is charged to the current window only.       *)
LEMMA ChargedRate ==
    ASSUME NEW s \in Session, NEW n \in Nat, now \in Nat, RateOK(s), WithinLimit(s, n)
    PROVE  RateOK(Charged(s, n))
<1> DEFINE w == WindowAt(s)
           c == Charged(s, n)
<1>1. RateOK(w) /\ w \in Session /\ w.bytes_forwarded = s.bytes_forwarded
      /\ w.created_at = s.created_at
  BY WindowRate, WindowType DEF SameOwner
<1>2. /\ c.window_started_at = w.window_started_at
      /\ c.window_bytes = w.window_bytes + n
      /\ c.bytes_forwarded = w.bytes_forwarded + n
      /\ c.created_at = w.created_at
  BY <1>1, ChargedType DEF SameOwner
<1>3. w.window_bytes + n <= RateLimit
  BY DEF WithinLimit
<1> HIDE DEF w, c
<1>4. c.bytes_forwarded - c.window_bytes = w.bytes_forwarded - w.window_bytes
  BY <1>1, <1>2 DEF Session
<1> QED BY <1>1, <1>2, <1>3, <1>4 DEF RateOK, c

(* Learning an address, recording an index and refreshing a session leave  *)
(* the window alone.                                                       *)
LEMMA SameWindowRate ==
    ASSUME NEW s, NEW t, RateOK(s),
           t.created_at = s.created_at, t.window_started_at = s.window_started_at,
           t.window_bytes = s.window_bytes, t.bytes_forwarded = s.bytes_forwarded
    PROVE  RateOK(t)
BY DEF RateOK

(* Learning an address leaves the rate window alone.                       *)
LEMMA LearnRate ==
    ASSUME NEW s \in Session, NEW route, NEW side \in Sides, NEW src \in Addrs, RateOK(s)
    PROVE  /\ RateOK(Learn(s, route, side, src))
           /\ WindowAt(Learn(s, route, side, src)).window_bytes = WindowAt(s).window_bytes
<1> DEFINE t == Learn(s, route, side, src)
<1>1. /\ t.created_at = s.created_at /\ t.window_started_at = s.window_started_at
      /\ t.window_bytes = s.window_bytes /\ t.bytes_forwarded = s.bytes_forwarded
      /\ t \in Session
  BY LearnType DEF Learn, Session
<1> HIDE DEF t
<1>2. RateOK(t)
  BY <1>1, SameWindowRate
<1>3. WindowAt(t).window_bytes = WindowAt(s).window_bytes
  BY <1>1 DEF WindowAt, Session
<1> QED BY <1>2, <1>3 DEF t

(* A purge leaves the surviving sessions' windows alone.                   *)
LEMMA PurgedRate ==
    ASSUME TableTypeOK, RateInv, NEW id \in SessionId, PurgedSessions[id] # NoSession
    PROVE  /\ PurgedSessions[id] \in Session
           /\ RateOK(PurgedSessions[id])
BY PurgedType DEF RateInv, Live

(* What sets one session and leaves the others, or drops some, keeps the   *)
(* bound if it keeps it for that session.                                  *)
LEMMA RateOneSession ==
    ASSUME TableTypeOK, RateInv, NEW id \in SessionId, NEW t, now' = now,
           RateOK(t),
           \/ sessions' = [sessions EXCEPT ![id] = t]
           \/ sessions' = [PurgedSessions EXCEPT ![id] = t]
    PROVE  RateInv'
<1> SUFFICES ASSUME NEW j \in SessionId, Live(j)'
             PROVE  RateOK(sessions[j])'
  BY DEF RateInv
<1>1. RateOK(sessions'[j])
  BY PurgedRate, PurgedType DEF RateInv, Live, TableTypeOK
<1> QED BY <1>1 DEF RateOK

(* Every dataplane step keeps the rate invariant.                          *)
LEMMA RateDataplane ==
    ASSUME TableTypeOK, RateInv, Dataplane
    PROVE  RateInv'
<1>1. CASE Tick
  <2> SUFFICES ASSUME NEW j \in SessionId, Live(j)'
               PROVE  RateOK(sessions[j])'
    BY DEF RateInv
  <2>1. now' = now + 1 /\ sessions' = sessions /\ RateOK(sessions[j]) /\ sessions[j] \in Session
    BY <1>1 DEF Tick, RateInv, Live, TableTypeOK
  <2> QED BY <2>1 DEF RateOK, Session, TableTypeOK
<1>2. CASE PurgeExpired
  <2> SUFFICES ASSUME NEW j \in SessionId, Live(j)'
               PROVE  RateOK(sessions[j])'
    BY DEF RateInv
  <2>1. now' = now /\ sessions' = PurgedSessions
    BY <1>2 DEF PurgeExpired
  <2> QED BY <2>1, PurgedRate DEF RateOK, Live
<1>3. ASSUME NEW id \in SessionId, RemoveExpiredSession(id) PROVE RateInv'
  <2> SUFFICES ASSUME NEW j \in SessionId, Live(j)'
               PROVE  RateOK(sessions[j])'
    BY DEF RateInv
  <2>1. now' = now /\ sessions'[j] = sessions[j] /\ Live(j)
    BY <1>3 DEF RemoveExpiredSession, Live, TableTypeOK
  <2> QED BY <2>1 DEF RateOK, RateInv
<1>4. ASSUME NEW f \in Frame, ForwardTarget(f) PROVE RateInv'
  <2> DEFINE s == sessions[f.session_id]
             t == IF WithinLimit(s, f.len) THEN Charged(s, f.len) ELSE WindowAt(s)
  <2>1. f.session_id \in SessionId /\ s \in Session /\ f.len \in Nat /\ RateOK(s)
    BY <1>4, AuthenticatedSide, NoSessionAssumption DEF ForwardTarget, RateInv, Live
  <2>2. RateOK(t)
    BY <2>1, WindowRate, ChargedRate DEF TableTypeOK
  <2>3. now' = now /\ sessions' = [sessions EXCEPT ![f.session_id] = t]
    BY <1>4 DEF ForwardTarget
  <2> QED BY <2>1, <2>2, <2>3, RateOneSession
<1>5. ASSUME NEW f \in Frame, NEW src \in Addrs, ForwardDatagram(f, src) PROVE RateInv'
  <2> DEFINE id   == f.session_id
             side == SourceSide(sessions[id], f.route, src)
             k    == Learn(sessions[id], f.route, side, src)
             s    == Charged(k, f.len)
             u    == [s EXCEPT !.indices[side] = Recorded(@, f.sender)]
             t    == IF ~f.announcement /\ f.sender # NoIndex THEN u ELSE s
  <2>1. id \in SessionId /\ sessions[id] \in Session /\ side \in Sides /\ f.len \in Nat
        /\ RateOK(sessions[id])
    BY <1>5, AuthenticatedSide, NoSessionAssumption DEF ForwardDatagram, RateInv, Live
  <2>2. k \in Session /\ RateOK(k) /\ WithinLimit(k, f.len)
    BY <1>5, <2>1, LearnType, LearnRate DEF ForwardDatagram, WithinLimit
  <2>3. s \in Session /\ RateOK(s)
    <3> HIDE DEF k
    <3> QED BY <2>1, <2>2, ChargedRate, ChargedType DEF TableTypeOK
  <2>4. RateOK(u)
    <3> HIDE DEF s, side
    <3>1. /\ u.created_at = s.created_at /\ u.window_started_at = s.window_started_at
          /\ u.window_bytes = s.window_bytes /\ u.bytes_forwarded = s.bytes_forwarded
      BY <2>3 DEF Session
    <3> QED BY <2>3, <3>1, SameWindowRate
  <2>5. now' = now /\ sessions' = [sessions EXCEPT ![id] = t]
    BY <1>5 DEF ForwardDatagram
  <2>6. RateOK(t)
    BY <2>3, <2>4
  <2> HIDE DEF t
  <2> QED BY <2>1, <2>5, <2>6, RateOneSession
<1>6. ASSUME NEW f \in Frame, NEW src \in Addrs, DatagramRateLimited(f, src) PROVE RateInv'
  <2> DEFINE id   == f.session_id
             side == SourceSide(sessions[id], f.route, src)
             k    == Learn(sessions[id], f.route, side, src)
  <2>1. id \in SessionId /\ sessions[id] \in Session /\ side \in Sides /\ RateOK(sessions[id])
    BY <1>6, AuthenticatedSide, NoSessionAssumption DEF DatagramRateLimited, RateInv, Live
  <2>2. k \in Session /\ RateOK(k)
    BY <2>1, LearnType, LearnRate
  <2>3. now' = now /\ sessions' = [sessions EXCEPT ![id] = WindowAt(k)]
    BY <1>6 DEF DatagramRateLimited
  <2>4. RateOK(WindowAt(k))
    BY <2>2, WindowRate DEF TableTypeOK
  <2> QED BY <2>1, <2>3, <2>4, RateOneSession
<1>7. ASSUME NEW src \in Addrs, NEW i \in Indices, NEW n \in PayloadLens, ForwardReturn(src, i, n)
      PROVE  RateInv'
  <2>1. PICK r \in ReturnMatches(src, i) :
          /\ sessions' = [PurgedSessions EXCEPT ![r.session_id] =
                 IF WithinLimit(PurgedSessions[r.session_id], n)
                 THEN [Charged(PurgedSessions[r.session_id], n) EXCEPT !.addr[r.source_side] = src]
                 ELSE WindowAt(PurgedSessions[r.session_id])]
          /\ now' = now
    BY <1>7 DEF ForwardReturn
  <2> DEFINE s == PurgedSessions[r.session_id]
             c == Charged(s, n)
             u == [c EXCEPT !.addr[r.source_side] = src]
             t == IF WithinLimit(s, n) THEN u ELSE WindowAt(s)
  <2>2. r.session_id \in SessionId /\ s \in Session /\ n \in Nat /\ RateOK(s)
    BY PurgedType, PurgedRate, ConstantsAssumption DEF ReturnMatches, ReturnRoute
  <2>3. c \in Session /\ RateOK(WindowAt(s)) /\ (WithinLimit(s, n) => RateOK(c))
    BY <2>2, ChargedType, ChargedRate, WindowRate DEF TableTypeOK
  <2>4. WithinLimit(s, n) => RateOK(u)
    <3> HIDE DEF c
    <3>1. /\ u.created_at = c.created_at /\ u.window_started_at = c.window_started_at
          /\ u.window_bytes = c.window_bytes /\ u.bytes_forwarded = c.bytes_forwarded
      BY <2>3 DEF Session
    <3> QED BY <2>3, <3>1, SameWindowRate
  <2>5. RateOK(t) /\ sessions' = [PurgedSessions EXCEPT ![r.session_id] = t]
    BY <2>1, <2>3, <2>4
  <2> HIDE DEF t
  <2> QED BY <2>1, <2>2, <2>5, RateOneSession
<1> QED BY <1>1, <1>2, <1>3, <1>4, <1>5, <1>6, <1>7, DataplaneCases

(* Every step of the table keeps the rate invariant.                       *)
LEMMA RateStep ==
    ASSUME TableTypeOK, RateInv, [TableNext]_tableVars
    PROVE  RateInv'
<1>1. CASE UNCHANGED tableVars
  BY <1>1 DEF tableVars, RateInv, RateOK, Live
<1>2. CASE Dataplane
  BY <1>2, RateDataplane
<1>3. ASSUME NEW l \in Nodes, NEW r \in Nodes, NEW la \in Addrs, NEW ra \in Addrs,
             AdmitExisting(l, r, la, ra)
      PROVE  RateInv'
  <2> DEFINE id == {l, r}
             s  == PurgedSessions[id]
             t  == Refreshed(s, l, la, ra)
  <2>1. id \in SessionId /\ s # NoSession
    BY <1>3 DEF AdmitExisting, ValidAdmission, SessionId
  <2>2. s \in Session /\ RateOK(s)
    BY <2>1, PurgedRate
  <2>3. now' = now /\ sessions' = [PurgedSessions EXCEPT ![id] = t]
    BY <1>3 DEF AdmitExisting
  <2>4. RateOK(t)
    BY <2>2, RefreshedType, SameWindowRate
  <2> QED BY <2>1, <2>3, <2>4, RateOneSession
<1>4. ASSUME NEW l \in Nodes, NEW r \in Nodes, NEW la \in Addrs, NEW ra \in Addrs,
             AdmitNew(l, r, la, ra)
      PROVE  RateInv'
  <2>1. RateOK(Fresh(l, r, la, ra))
    BY ConstantsAssumption DEF RateOK, Fresh, TableTypeOK
  <2>2. /\ {l, r} \in SessionId
        /\ sessions' = [PurgedSessions EXCEPT ![{l, r}] = Fresh(l, r, la, ra)]
        /\ now' = now
    BY <1>4 DEF AdmitNew, Fresh, ValidAdmission, SessionId
  <2> QED BY <2>1, <2>2, RateOneSession
<1> QED BY <1>1, <1>2, <1>3, <1>4 DEF TableNext

(* The rate invariant implies the bound over the session's life.           *)
LEMMA RateImplied ==
    ASSUME TableTypeOK, RateInv
    PROVE  RateBound
<1> SUFFICES ASSUME NEW id \in SessionId, Live(id)
             PROVE  Second * sessions[id].bytes_forwarded
                       <= RateLimit * (now - sessions[id].created_at + Second)
  BY DEF RateBound
<1> DEFINE s == sessions[id]
           bytes == s.bytes_forwarded
           old == s.window_bytes
           start == s.window_started_at
           born == s.created_at
<1> USE ConstantsAssumption
<1>1. bytes \in Nat /\ old \in Nat /\ start \in Nat /\ born \in Nat /\ now \in Nat
  BY DEF TableTypeOK, Live, Session
<1>2. born <= start /\ start <= now /\ old <= RateLimit
      /\ Second * (bytes - old) <= RateLimit * (start - born)
  BY DEF RateInv, RateOK
<1> HIDE DEF bytes, old, start, born
<1>3. Second * old <= RateLimit * Second
  BY <1>1, <1>2, Monotone
<1>4. RateLimit * (start - born) <= RateLimit * (now - born)
  BY <1>1, <1>2, Monotone
<1>5. Second * (bytes - old) = Second * bytes - Second * old
  BY <1>1
<1>6. RateLimit * (now - born + Second) = RateLimit * (now - born) + RateLimit * Second
  BY <1>1
<1>7. Second * bytes <= RateLimit * (now - born + Second)
  BY <1>1, <1>2, <1>3, <1>4, <1>5, <1>6
<1> QED BY <1>7 DEF bytes, born

(* consume_rate_limit keeps its promise for every limit, window length and *)
(* interleaving: a session forwards at most RateLimit bytes per elapsed    *)
(* second plus one window.                                                 *)
THEOREM RateBounded == TableSpec => []RateBound
<1>1. TableInit => RateInv
  BY DEF TableInit, RateInv, Live
<1> QED BY <1>1, TypeInit, TypeStep, RateStep, RateImplied, PTL DEF TableSpec

---------------------------------------------------------------------------
(* Credentials.  A refresh must not bring an expiry forward, so the        *)
(* invariant also says that nobody was promised more than a full TTL.      *)

CredentialInv ==
    /\ CredentialsHonoured
    /\ \A c \in issued : c.expires_at <= now + SessionTtl

(* The dataplane drops only expired sessions and never touches a token or  *)
(* an expiry.                                                              *)
Kept(id) ==
    IF sessions'[id] = NoSession
    THEN sessions[id] # NoSession => now >= sessions[id].expires_at
    ELSE /\ sessions[id] # NoSession
         /\ sessions'[id].token = sessions[id].token
         /\ sessions'[id].expires_at = sessions[id].expires_at

(* A purge drops only expired sessions.                                    *)
LEMMA PurgedKept ==
    ASSUME TableTypeOK, NEW id \in SessionId
    PROVE  /\ PurgedSessions[id] = NoSession =>
                 (sessions[id] # NoSession => now >= sessions[id].expires_at)
           /\ PurgedSessions[id] # NoSession => PurgedSessions[id] = sessions[id]
BY DEF PurgedSessions, IsExpired, Live, TableTypeOK

(* Replacing one session by one with its token and expiry drops nothing.   *)
LEMMA KeptOneSession ==
    ASSUME TableTypeOK, NEW id \in SessionId, NEW s \in Session, NEW t \in Session,
           t.token = s.token, t.expires_at = s.expires_at,
           \/ s = sessions[id] /\ sessions' = [sessions EXCEPT ![id] = t]
           \/ s = PurgedSessions[id] /\ sessions' = [PurgedSessions EXCEPT ![id] = t]
    PROVE  \A j \in SessionId : Kept(j)
<1> SUFFICES ASSUME NEW j \in SessionId PROVE Kept(j)
  OBVIOUS
<1>1. sessions \in [SessionId -> Session \cup {NoSession}]
      /\ PurgedSessions \in [SessionId -> Session \cup {NoSession}]
  BY PurgedType DEF TableTypeOK
<1>2. s # NoSession /\ t # NoSession
  BY NoSessionAssumption
<1>3. CASE j = id
  BY <1>1, <1>2, <1>3, PurgedKept DEF Kept
<1>4. CASE j # id
  BY <1>1, <1>4, PurgedKept DEF Kept
<1> QED BY <1>3, <1>4

(* No dataplane step drops a live credential.                              *)
LEMMA DataplaneKeeps ==
    ASSUME TableTypeOK, Dataplane
    PROVE  /\ \A id \in SessionId : Kept(id)
           /\ issued' = issued
           /\ now' = now \/ (now' = now + 1 /\ sessions' = sessions)
<1>1. CASE Tick
  BY <1>1 DEF Tick, Kept
<1>2. CASE PurgeExpired
  BY <1>2, PurgedKept DEF PurgeExpired, Kept
<1>3. ASSUME NEW id \in SessionId, RemoveExpiredSession(id)
      PROVE  (\A j \in SessionId : Kept(j)) /\ issued' = issued /\ now' = now
  BY <1>3 DEF RemoveExpiredSession, Kept, IsExpired, TableTypeOK
<1>4. ASSUME NEW f \in Frame, ForwardTarget(f)
      PROVE  (\A j \in SessionId : Kept(j)) /\ issued' = issued /\ now' = now
  <2> DEFINE s == sessions[f.session_id]
             t == IF WithinLimit(s, f.len) THEN Charged(s, f.len) ELSE WindowAt(s)
  <2>1. f.session_id \in SessionId /\ s \in Session /\ f.len \in Nat
    BY <1>4, AuthenticatedSide DEF ForwardTarget
  <2>2. t \in Session /\ t.token = s.token /\ t.expires_at = s.expires_at
    BY <2>1, WindowType, ChargedType DEF TableTypeOK, SameOwner
  <2>3. now' = now /\ issued' = issued /\ sessions' = [sessions EXCEPT ![f.session_id] = t]
    BY <1>4 DEF ForwardTarget
  <2> HIDE DEF t
  <2> QED BY <2>1, <2>2, <2>3, KeptOneSession
<1>5. ASSUME NEW f \in Frame, NEW src \in Addrs, ForwardDatagram(f, src)
      PROVE  (\A j \in SessionId : Kept(j)) /\ issued' = issued /\ now' = now
  <2> DEFINE id   == f.session_id
             side == SourceSide(sessions[id], f.route, src)
             k    == Learn(sessions[id], f.route, side, src)
             s    == Charged(k, f.len)
             u    == [s EXCEPT !.indices[side] = Recorded(@, f.sender)]
             t    == IF ~f.announcement /\ f.sender # NoIndex THEN u ELSE s
  <2>1. id \in SessionId /\ sessions[id] \in Session /\ side \in Sides /\ f.len \in Nat
    BY <1>5, AuthenticatedSide DEF ForwardDatagram
  <2>2. k \in Session /\ k.token = sessions[id].token /\ k.expires_at = sessions[id].expires_at
    BY <2>1, LearnType DEF Learn, Session
  <2>3. s \in Session /\ s.token = k.token /\ s.expires_at = k.expires_at
    <3> HIDE DEF k
    <3> QED BY <2>1, <2>2, ChargedType DEF TableTypeOK, SameOwner
  <2>4. u.token = s.token /\ u.expires_at = s.expires_at
    <3> HIDE DEF s, side
    <3> QED BY <2>3 DEF Session
  <2>5. now' = now /\ issued' = issued /\ sessions' = [sessions EXCEPT ![id] = t]
    BY <1>5 DEF ForwardDatagram
  <2>6. t \in Session
    <3>1. sessions'[id] \in Session \cup {NoSession}
      BY <1>5, <2>1, TypeForward DEF TableTypeOK
    <3>2. sessions'[id] = t
      <4> HIDE DEF t
      <4> QED BY <2>1, <2>5 DEF TableTypeOK
    <3>3. t \in Session \cup {NoSession}
      BY <3>1, <3>2
    <3>4. t # NoSession
      <4>1. CASE ~f.announcement /\ f.sender # NoIndex
        <5>1. Recorded(s.indices[side], f.sender) \in Seq(Indices)
          BY <1>5, <4>1, <2>1, <2>3, AuthenticatedSide, RecordedType DEF ForwardDatagram, Session
        <5> HIDE DEF s, side
        <5>2. u \in Session
          BY <2>1, <2>3, <5>1 DEF Session
        <5> QED BY <4>1, <5>2, NoSessionAssumption
      <4>2. CASE ~(~f.announcement /\ f.sender # NoIndex)
        BY <4>2, <2>3, NoSessionAssumption
      <4> QED BY <4>1, <4>2
    <3> QED BY <3>3, <3>4
  <2>7. t.token = sessions[id].token /\ t.expires_at = sessions[id].expires_at
    BY <2>2, <2>3, <2>4
  <2> HIDE DEF t
  <2> QED BY <2>1, <2>5, <2>6, <2>7, KeptOneSession
<1>6. ASSUME NEW f \in Frame, NEW src \in Addrs, DatagramRateLimited(f, src)
      PROVE  (\A j \in SessionId : Kept(j)) /\ issued' = issued /\ now' = now
  <2> DEFINE id   == f.session_id
             side == SourceSide(sessions[id], f.route, src)
             k    == Learn(sessions[id], f.route, side, src)
  <2>1. id \in SessionId /\ sessions[id] \in Session /\ side \in Sides
    BY <1>6, AuthenticatedSide DEF DatagramRateLimited
  <2>2. k \in Session /\ k.token = sessions[id].token /\ k.expires_at = sessions[id].expires_at
    BY <2>1, LearnType DEF Learn, Session
  <2>3. WindowAt(k) \in Session /\ WindowAt(k).token = k.token /\ WindowAt(k).expires_at = k.expires_at
    BY <2>2, WindowType DEF TableTypeOK, SameOwner
  <2>4. now' = now /\ issued' = issued /\ sessions' = [sessions EXCEPT ![id] = WindowAt(k)]
    BY <1>6 DEF DatagramRateLimited
  <2> QED BY <2>1, <2>2, <2>3, <2>4, KeptOneSession
<1>7. ASSUME NEW src \in Addrs, NEW i \in Indices, NEW n \in PayloadLens, ForwardReturn(src, i, n)
      PROVE  (\A j \in SessionId : Kept(j)) /\ issued' = issued /\ now' = now
  <2>1. PICK r \in ReturnMatches(src, i) :
          /\ sessions' = [PurgedSessions EXCEPT ![r.session_id] =
                 IF WithinLimit(PurgedSessions[r.session_id], n)
                 THEN [Charged(PurgedSessions[r.session_id], n) EXCEPT !.addr[r.source_side] = src]
                 ELSE WindowAt(PurgedSessions[r.session_id])]
          /\ now' = now /\ issued' = issued
    BY <1>7 DEF ForwardReturn
  <2> DEFINE s == PurgedSessions[r.session_id]
             c == Charged(s, n)
             u == [c EXCEPT !.addr[r.source_side] = src]
             t == IF WithinLimit(s, n) THEN u ELSE WindowAt(s)
  <2>2. r.session_id \in SessionId /\ s \in Session /\ n \in Nat /\ r.source_side \in Sides
    BY PurgedType, ConstantsAssumption DEF ReturnMatches, ReturnRoute
  <2>3. c \in Session /\ SameOwner(s, c) /\ WindowAt(s) \in Session /\ SameOwner(s, WindowAt(s))
    BY <2>2, ChargedType, WindowType DEF TableTypeOK
  <2>4. u \in Session /\ u.token = c.token /\ u.expires_at = c.expires_at
    <3> HIDE DEF c
    <3> QED BY <2>2, <2>3 DEF Session
  <2>5. t \in Session /\ t.token = s.token /\ t.expires_at = s.expires_at
    BY <2>3, <2>4 DEF SameOwner
  <2>6. sessions' = [PurgedSessions EXCEPT ![r.session_id] = t]
    BY <2>1
  <2> HIDE DEF t
  <2> QED BY <2>1, <2>2, <2>5, <2>6, KeptOneSession
<1> QED BY <1>1, <1>2, <1>3, <1>4, <1>5, <1>6, <1>7, DataplaneCases

(* Every step of the table keeps the credential invariant.                 *)
LEMMA CredentialStep ==
    ASSUME TableTypeOK, CredentialInv, [TableNext]_tableVars
    PROVE  CredentialInv'
<1> USE ConstantsAssumption
<1>1. CASE UNCHANGED tableVars
  BY <1>1 DEF tableVars, CredentialInv, CredentialsHonoured, Live
<1>2. CASE Dataplane
  <2>1. /\ \A id \in SessionId : Kept(id)
        /\ issued' = issued
        /\ now' = now \/ (now' = now + 1 /\ sessions' = sessions)
    BY <1>2, DataplaneKeeps
  <2>2. ASSUME NEW c \in issued, now' < c.expires_at
        PROVE  /\ sessions'[c.session_id] # NoSession
               /\ sessions'[c.session_id].token = c.token
               /\ c.expires_at <= sessions'[c.session_id].expires_at
    <3>1. c.session_id \in SessionId /\ c.expires_at \in Nat /\ now \in Nat
      BY DEF TableTypeOK, Credential
    <3>2. now < c.expires_at
      BY <2>1, <2>2, <3>1
    <3>3. /\ sessions[c.session_id] # NoSession
          /\ sessions[c.session_id].token = c.token
          /\ c.expires_at <= sessions[c.session_id].expires_at
      BY <3>2 DEF CredentialInv, CredentialsHonoured, Live
    <3>4. sessions[c.session_id].expires_at \in Nat
      BY <3>1, <3>3 DEF TableTypeOK, Session
    <3>5. sessions'[c.session_id] # NoSession
      BY <2>1, <3>1, <3>2, <3>3, <3>4 DEF Kept
    <3> QED BY <2>1, <3>1, <3>3, <3>5 DEF Kept
  <2>3. \A c \in issued' : c.expires_at <= now' + SessionTtl
    BY <2>1 DEF CredentialInv, TableTypeOK, Credential
  <2> QED BY <2>1, <2>2, <2>3 DEF CredentialInv, CredentialsHonoured, Live
<1>3. ASSUME NEW id \in SessionId, NEW t \in Session, NEW tok \in Nat,
             sessions' = [PurgedSessions EXCEPT ![id] = t],
             issued' = issued \cup {[session_id |-> id, token |-> tok, expires_at |-> now + SessionTtl]},
             now' = now,
             t.token = tok, t.expires_at = now + SessionTtl,
             PurgedSessions[id] # NoSession => t.token = PurgedSessions[id].token
      PROVE  CredentialInv'
  <2>1. t # NoSession /\ now \in Nat /\ now + SessionTtl \in Nat
        /\ PurgedSessions \in [SessionId -> Session \cup {NoSession}]
    BY NoSessionAssumption, PurgedType DEF TableTypeOK
  <2>2. ASSUME NEW c \in issued', now < c.expires_at
        PROVE  /\ sessions'[c.session_id] # NoSession
               /\ sessions'[c.session_id].token = c.token
               /\ c.expires_at <= sessions'[c.session_id].expires_at
    <3>1. CASE c \in issued
      <4>1. /\ sessions[c.session_id] # NoSession
            /\ sessions[c.session_id].token = c.token
            /\ c.expires_at <= sessions[c.session_id].expires_at
            /\ c.expires_at <= now + SessionTtl
            /\ c.session_id \in SessionId
            /\ c.expires_at \in Nat
        BY <2>2, <3>1 DEF CredentialInv, CredentialsHonoured, Live, TableTypeOK, Credential
      <4>2. sessions[c.session_id].expires_at \in Nat
        BY <4>1 DEF TableTypeOK, Session
      <4>3. PurgedSessions[c.session_id] = sessions[c.session_id]
        BY <2>1, <2>2, <4>1, <4>2, PurgedKept
      <4>4. CASE c.session_id = id
        BY <1>3, <2>1, <4>1, <4>3, <4>4
      <4>5. CASE c.session_id # id
        BY <1>3, <2>1, <4>1, <4>3, <4>5
      <4> QED BY <4>4, <4>5
    <3>2. CASE c \notin issued
      <4>1. c = [session_id |-> id, token |-> tok, expires_at |-> now + SessionTtl]
        BY <1>3, <3>2
      <4>2. sessions'[c.session_id] = t
        BY <1>3, <2>1, <4>1
      <4> QED BY <1>3, <2>1, <4>1, <4>2
    <3> QED BY <3>1, <3>2
  <2>3. \A c \in issued' : c.expires_at <= now' + SessionTtl
    BY <1>3, <2>1 DEF CredentialInv
  <2> QED BY <1>3, <2>2, <2>3 DEF CredentialInv, CredentialsHonoured, Live
<1>4. ASSUME NEW l \in Nodes, NEW r \in Nodes, NEW la \in Addrs, NEW ra \in Addrs,
             AdmitExisting(l, r, la, ra)
      PROVE  CredentialInv'
  <2> DEFINE id == {l, r}
             s  == PurgedSessions[id]
             t  == Refreshed(s, l, la, ra)
  <2>1. id \in SessionId /\ s # NoSession
    BY <1>4 DEF AdmitExisting, ValidAdmission, SessionId
  <2>2. s \in Session
    BY <2>1, PurgedType
  <2>3. /\ t \in Session
        /\ t.token = s.token
        /\ t.expires_at = now + SessionTtl
        /\ s.token \in Nat
    <3>1. s.token \in Nat
      BY <2>2 DEF Session
    <3> HIDE DEF s
    <3> QED BY <2>2, <3>1, RefreshedType
  <2>4. /\ sessions' = [PurgedSessions EXCEPT ![id] = t]
        /\ issued' = issued \cup {[session_id |-> id, token |-> s.token, expires_at |-> t.expires_at]}
        /\ now' = now
    BY <1>4 DEF AdmitExisting
  <2> QED BY <1>3, <2>1, <2>3, <2>4
<1>5. ASSUME NEW l \in Nodes, NEW r \in Nodes, NEW la \in Addrs, NEW ra \in Addrs,
             AdmitNew(l, r, la, ra)
      PROVE  CredentialInv'
  <2>1. Fresh(l, r, la, ra) \in Session /\ tokens \in Nat
    BY FreshType DEF TableTypeOK
  <2>2. Fresh(l, r, la, ra).token = tokens /\ Fresh(l, r, la, ra).expires_at = now + SessionTtl
    BY DEF Fresh
  <2>3. /\ {l, r} \in SessionId
        /\ PurgedSessions[{l, r}] = NoSession
        /\ sessions' = [PurgedSessions EXCEPT ![{l, r}] = Fresh(l, r, la, ra)]
        /\ issued' = issued \cup {[session_id |-> {l, r}, token |-> tokens,
                                   expires_at |-> now + SessionTtl]}
        /\ now' = now
    BY <1>5, AdmitNewEffect
  <2> QED BY <1>3, <2>1, <2>2, <2>3
<1> QED BY <1>1, <1>2, <1>4, <1>5 DEF TableNext

(* Whatever purges, re-admissions and replacements happen, a credential    *)
(* the relay returned is honoured until the expiry returned with it.       *)
THEOREM CredentialsAreHonoured == TableSpec => []CredentialsHonoured
<1>1. TableInit => CredentialInv
  BY DEF TableInit, CredentialInv, CredentialsHonoured
<1>2. CredentialInv => CredentialsHonoured
  BY DEF CredentialInv
<1> QED BY <1>1, <1>2, TypeInit, TypeStep, CredentialStep, PTL DEF TableSpec

---------------------------------------------------------------------------
(* Addresses.  A raw return moves an address on the strength of a route,   *)
(* so the invariant must also cover the IPs the routes carry.              *)

AddrOK(ss, b) ==
    \A id \in SessionId, side \in Sides :
        ss[id] # NoSession => ss[id].addr[side].ip \in b[id][side]

RoutesOK(rs, ss, b) ==
    \A r \in rs : ss[r.session_id] # NoSession /\ r.source_ip \in b[r.session_id][r.source_side]

ProvenanceInv == AddrOK(sessions, bound) /\ RoutesOK(return_routes, sessions, bound)

(* A rebuild derives routes whose source IPs the sessions hold.            *)
LEMMA RebuildOK ==
    ASSUME NEW ss, NEW b, AddrOK(ss, b)
    PROVE  RoutesOK(Rebuild(ss), ss, b)
BY DEF RoutesOK, Rebuild, AddrOK, ReturnRoute

(* A purge keeps addresses and routes accounted for.                       *)
LEMMA PurgedOK ==
    ASSUME TableTypeOK, ProvenanceInv
    PROVE  AddrOK(PurgedSessions, bound) /\ RoutesOK(PurgedRoutes, PurgedSessions, bound)
<1>1. AddrOK(PurgedSessions, bound)
  BY PurgedType DEF ProvenanceInv, AddrOK
<1>2. CASE PurgedSessions = sessions
  BY <1>1, <1>2 DEF PurgedRoutes, ProvenanceInv
<1>3. CASE PurgedSessions # sessions
  BY <1>1, <1>3, RebuildOK DEF PurgedRoutes
<1> QED BY <1>1, <1>2, <1>3

(* Replacing one session whose IPs are bound keeps addresses and routes   *)
(* accounted for.                                                          *)
LEMMA SetOne ==
    ASSUME NEW ss \in [SessionId -> Session \cup {NoSession}], NEW rs \in SUBSET ReturnRoute,
           NEW b, NEW b2, NEW id \in SessionId, NEW t \in Session,
           AddrOK(ss, b), RoutesOK(rs, ss, b),
           \A j \in SessionId, side \in Sides : b[j][side] \subseteq b2[j][side],
           \A side \in Sides : t.addr[side].ip \in b2[id][side]
    PROVE  /\ AddrOK([ss EXCEPT ![id] = t], b2)
           /\ RoutesOK(rs, [ss EXCEPT ![id] = t], b2)
<1>1. t # NoSession
  BY NoSessionAssumption
<1>2. AddrOK([ss EXCEPT ![id] = t], b2)
  BY DEF AddrOK
<1>3. RoutesOK(rs, [ss EXCEPT ![id] = t], b2)
  BY <1>1 DEF RoutesOK, ReturnRoute
<1> QED BY <1>2, <1>3

(* A token-bearing frame: the address it teaches joins bound.              *)
LEMMA BoundByOK ==
    ASSUME TableTypeOK, ProvenanceInv, NEW f \in Frame, NEW side \in Sides, NEW src \in Addrs,
           sessions[f.session_id] \in Session
    PROVE  /\ \A j \in SessionId, k \in Sides : bound[j][k] \subseteq BoundBy(f, side, src)[j][k]
           /\ \A k \in Sides : Learn(sessions[f.session_id], f.route, side, src).addr[k].ip
                                \in BoundBy(f, side, src)[f.session_id][k]
<1> DEFINE id == f.session_id
           s  == sessions[id]
<1>1. id \in SessionId /\ s \in Session /\ s # NoSession
  BY NoSessionAssumption DEF Frame
<1>2. \A k \in Sides : s.addr[k].ip \in bound[id][k]
  BY <1>1 DEF ProvenanceInv, AddrOK
<1>3. CASE f.route = NoRoute
  BY <1>1, <1>2, <1>3 DEF BoundBy, Learn
<1>4. CASE f.route # NoRoute
  <2>1. BoundBy(f, side, src) = [bound EXCEPT ![id][side] = @ \cup {src.ip}]
    BY <1>4 DEF BoundBy
  <2>2. \A j \in SessionId, k \in Sides : bound[j][k] \subseteq BoundBy(f, side, src)[j][k]
    BY <1>1, <2>1 DEF TableTypeOK
  <2>3. src.ip \in BoundBy(f, side, src)[id][side]
    BY <1>1, <2>1 DEF TableTypeOK
  <2>4. \A k \in Sides : Learn(s, f.route, side, src).addr[k] = IF k = side THEN src ELSE s.addr[k]
    <3> HIDE DEF s
    <3> QED BY <1>1, <1>4 DEF Learn, Session
  <2> QED BY <1>1, <1>2, <2>2, <2>3, <2>4
<1> QED BY <1>3, <1>4

(* Every dataplane step keeps the provenance invariant.                    *)
LEMMA ProvenanceDataplane ==
    ASSUME TableTypeOK, ProvenanceInv, Dataplane
    PROVE  ProvenanceInv'
<1> USE NoSessionAssumption
<1> DEFINE Goal == AddrOK(sessions', bound') /\ RoutesOK(return_routes', sessions', bound')
<1>0. sessions \in [SessionId -> Session \cup {NoSession}] /\ return_routes \in SUBSET ReturnRoute
      /\ PurgedSessions \in [SessionId -> Session \cup {NoSession}]
      /\ PurgedRoutes \in SUBSET ReturnRoute
      /\ \A j \in SessionId, k \in Sides : bound[j][k] \subseteq bound[j][k]
  BY PurgedType DEF TableTypeOK
<1>1. ASSUME Tick PROVE Goal
  BY <1>1 DEF Tick, ProvenanceInv
<1>2. ASSUME PurgeExpired PROVE Goal
  <2>1. sessions' = PurgedSessions /\ return_routes' = PurgedRoutes /\ bound' = bound
    BY <1>2 DEF PurgeExpired
  <2> QED BY <2>1, PurgedOK
<1>3. ASSUME NEW id \in SessionId, RemoveExpiredSession(id) PROVE Goal
  <2>1. AddrOK(sessions', bound)
    BY <1>0, <1>3 DEF RemoveExpiredSession, ProvenanceInv, AddrOK
  <2> QED BY <1>3, <2>1, RebuildOK DEF RemoveExpiredSession
<1>4. ASSUME NEW f \in Frame, ForwardTarget(f) PROVE Goal
  <2> DEFINE s == sessions[f.session_id]
             t == IF WithinLimit(s, f.len) THEN Charged(s, f.len) ELSE WindowAt(s)
  <2>1. f.session_id \in SessionId /\ s \in Session /\ f.len \in Nat /\ s # NoSession
    BY <1>4, AuthenticatedSide DEF ForwardTarget
  <2>2. t \in Session /\ t.addr = s.addr
    BY <2>1, WindowType, ChargedType DEF TableTypeOK, SameOwner
  <2>3. \A k \in Sides : t.addr[k].ip \in bound[f.session_id][k]
    BY <2>1, <2>2 DEF ProvenanceInv, AddrOK
  <2>4. sessions' = [sessions EXCEPT ![f.session_id] = t] /\ bound' = bound
        /\ return_routes' = return_routes
    BY <1>4 DEF ForwardTarget
  <2> HIDE DEF t
  <2> QED BY <1>0, <2>1, <2>2, <2>3, <2>4, SetOne DEF ProvenanceInv
<1>5. ASSUME NEW f \in Frame, NEW src \in Addrs, ForwardDatagram(f, src) PROVE Goal
  <2> DEFINE id   == f.session_id
             side == SourceSide(sessions[id], f.route, src)
             k    == Learn(sessions[id], f.route, side, src)
             s    == Charged(k, f.len)
             u    == [s EXCEPT !.indices[side] = Recorded(@, f.sender)]
             recs == ~f.announcement /\ f.sender # NoIndex
             t    == IF recs THEN u ELSE s
             b    == BoundBy(f, side, src)
  <2>1. id \in SessionId /\ sessions[id] \in Session /\ side \in Sides /\ f.len \in Nat
        /\ f.sender \in Indices \cup {NoIndex}
    BY <1>5, AuthenticatedSide DEF ForwardDatagram
  <2>2. k \in Session
    BY <2>1, LearnType
  <2>3. s \in Session /\ s.addr = k.addr
    <3> HIDE DEF k
    <3> QED BY <2>1, <2>2, ChargedType DEF TableTypeOK, SameOwner
  <2>4. recs => u \in Session /\ u.addr = s.addr
    <3>1. recs => Recorded(s.indices[side], f.sender) \in Seq(Indices)
      BY <2>1, <2>3, RecordedType DEF Session
    <3> HIDE DEF s, side
    <3> QED BY <2>1, <2>3, <3>1 DEF Session
  <2>5. t \in Session /\ t.addr = k.addr
    BY <2>3, <2>4
  <2>6. /\ \A j \in SessionId, x \in Sides : bound[j][x] \subseteq b[j][x]
        /\ \A x \in Sides : k.addr[x].ip \in b[id][x]
    BY <2>1, BoundByOK
  <2>7. /\ sessions' = [sessions EXCEPT ![id] = t]
        /\ return_routes' = (IF recs THEN Upserted(id, s, side, f.sender) ELSE return_routes)
        /\ bound' = b
    BY <1>5 DEF ForwardDatagram
  <2>8. Other(side) \in Sides
    BY <2>1 DEF Other, Sides
  <2> HIDE DEF t, s, k, b, side, id, recs
  <2>9. AddrOK(sessions', b) /\ RoutesOK(return_routes, sessions', b)
    BY <1>0, <2>1, <2>5, <2>6, <2>7, SetOne DEF ProvenanceInv
  <2>10. recs => RoutesOK(Upserted(id, s, side, f.sender), sessions', b)
    <3>1. sessions'[id] # NoSession /\ s.addr[Other(side)].ip \in b[id][Other(side)]
      BY <1>0, <2>1, <2>3, <2>5, <2>6, <2>7, <2>8
    <3> QED BY <2>9, <3>1 DEF RoutesOK, Upserted
  <2> QED BY <2>7, <2>9, <2>10
<1>6. ASSUME NEW f \in Frame, NEW src \in Addrs, DatagramRateLimited(f, src) PROVE Goal
  <2> DEFINE id   == f.session_id
             side == SourceSide(sessions[id], f.route, src)
             k    == Learn(sessions[id], f.route, side, src)
             t    == WindowAt(k)
             b    == BoundBy(f, side, src)
  <2>1. id \in SessionId /\ sessions[id] \in Session /\ side \in Sides
    BY <1>6, AuthenticatedSide DEF DatagramRateLimited
  <2>2. k \in Session
    BY <2>1, LearnType
  <2>3. t \in Session /\ t.addr = k.addr
    BY <2>2, WindowType DEF TableTypeOK, SameOwner
  <2>4. /\ \A j \in SessionId, x \in Sides : bound[j][x] \subseteq b[j][x]
        /\ \A x \in Sides : k.addr[x].ip \in b[id][x]
    BY <2>1, BoundByOK
  <2>5. sessions' = [sessions EXCEPT ![id] = t] /\ return_routes' = return_routes /\ bound' = b
    BY <1>6 DEF DatagramRateLimited
  <2> HIDE DEF t, k, b, side, id
  <2> QED BY <1>0, <2>1, <2>3, <2>4, <2>5, SetOne DEF ProvenanceInv
<1>7. ASSUME NEW src \in Addrs, NEW i \in Indices, NEW n \in PayloadLens, ForwardReturn(src, i, n)
      PROVE  Goal
  <2>1. PICK r \in ReturnMatches(src, i) :
          /\ sessions' = [PurgedSessions EXCEPT ![r.session_id] =
                 IF WithinLimit(PurgedSessions[r.session_id], n)
                 THEN [Charged(PurgedSessions[r.session_id], n) EXCEPT !.addr[r.source_side] = src]
                 ELSE WindowAt(PurgedSessions[r.session_id])]
          /\ return_routes' = PurgedRoutes
          /\ bound' = bound
    BY <1>7 DEF ForwardReturn
  <2> DEFINE id == r.session_id
             s  == PurgedSessions[id]
             c  == Charged(s, n)
             u  == [c EXCEPT !.addr[r.source_side] = src]
             t  == IF WithinLimit(s, n) THEN u ELSE WindowAt(s)
  <2>2. id \in SessionId /\ s \in Session /\ n \in Nat /\ r.source_side \in Sides
        /\ r \in PurgedRoutes /\ src.ip = r.source_ip
    BY <1>0, ConstantsAssumption DEF ReturnMatches, ReturnRoute
  <2>3. c \in Session /\ SameOwner(s, c) /\ WindowAt(s) \in Session /\ SameOwner(s, WindowAt(s))
    BY <2>2, ChargedType, WindowType DEF TableTypeOK
  <2>4. u \in Session /\ \A k \in Sides : u.addr[k] = IF k = r.source_side THEN src ELSE c.addr[k]
    <3> HIDE DEF c
    <3> QED BY <2>2, <2>3 DEF Session
  <2>5. AddrOK(PurgedSessions, bound) /\ RoutesOK(PurgedRoutes, PurgedSessions, bound)
    BY PurgedOK
  <2>6. src.ip \in bound[id][r.source_side] /\ \A k \in Sides : s.addr[k].ip \in bound[id][k]
    BY <2>2, <2>5 DEF AddrOK, RoutesOK
  <2>7. t \in Session /\ \A k \in Sides : t.addr[k].ip \in bound[id][k]
    <3>1. CASE WithinLimit(s, n)
      BY <2>3, <2>4, <2>6, <3>1 DEF SameOwner
    <3>2. CASE ~WithinLimit(s, n)
      BY <2>3, <2>6, <3>2 DEF SameOwner
    <3> QED BY <3>1, <3>2
  <2>8. sessions' = [PurgedSessions EXCEPT ![id] = t]
    BY <2>1
  <2> HIDE DEF t, s, id
  <2>9. /\ AddrOK([PurgedSessions EXCEPT ![id] = t], bound)
        /\ RoutesOK(PurgedRoutes, [PurgedSessions EXCEPT ![id] = t], bound)
    BY <1>0, <2>2, <2>5, <2>7, SetOne
  <2> QED BY <2>1, <2>8, <2>9
<1>8. ProvenanceInv' = Goal
  BY DEF ProvenanceInv, AddrOK, RoutesOK
<1> HIDE DEF Goal
<1> QED BY <1>1, <1>2, <1>3, <1>4, <1>5, <1>6, <1>7, <1>8, DataplaneCases

(* Every step of the table keeps the provenance invariant.                 *)
LEMMA ProvenanceStep ==
    ASSUME TableTypeOK, ProvenanceInv, [TableNext]_tableVars
    PROVE  ProvenanceInv'
<1>1. CASE UNCHANGED tableVars
  BY <1>1 DEF tableVars, ProvenanceInv, AddrOK, RoutesOK
<1>2. CASE Dataplane
  BY <1>2, ProvenanceDataplane
<1> DEFINE Goal == AddrOK(sessions', bound') /\ RoutesOK(return_routes', sessions', bound')
<1>3. ProvenanceInv' = Goal
  BY DEF ProvenanceInv, AddrOK, RoutesOK
<1>4. /\ PurgedSessions \in [SessionId -> Session \cup {NoSession}]
      /\ PurgedRoutes \in SUBSET ReturnRoute
      /\ AddrOK(PurgedSessions, bound)
      /\ RoutesOK(PurgedRoutes, PurgedSessions, bound)
  BY PurgedType, PurgedOK
<1>5. ASSUME NEW l \in Nodes, NEW r \in Nodes, NEW la \in Addrs, NEW ra \in Addrs,
             AdmitExisting(l, r, la, ra)
      PROVE  Goal
  <2> DEFINE id == {l, r}
             s  == PurgedSessions[id]
             t  == Refreshed(s, l, la, ra)
             b  == [bound EXCEPT ![id] = [side \in Sides |-> bound[id][side] \cup {t.addr[side].ip}]]
  <2>1. id \in SessionId /\ s # NoSession
    BY <1>5 DEF AdmitExisting, ValidAdmission, SessionId
  <2>2. s \in Session
    BY <1>4, <2>1
  <2>3. t \in Session
    BY <2>2, RefreshedType
  <2>4. /\ sessions' = [PurgedSessions EXCEPT ![id] = t]
        /\ return_routes' = Rebuild(sessions')
        /\ bound' = b
    BY <1>5 DEF AdmitExisting
  <2> HIDE DEF s, t, id
  <2>5. /\ \A j \in SessionId, x \in Sides : bound[j][x] \subseteq b[j][x]
        /\ \A x \in Sides : t.addr[x].ip \in b[id][x]
    BY <2>1 DEF TableTypeOK
  <2> HIDE DEF b
  <2>6. AddrOK([PurgedSessions EXCEPT ![id] = t], b)
    BY <1>4, <2>1, <2>3, <2>5, SetOne
  <2>7. AddrOK(sessions', bound')
    BY <2>4, <2>6
  <2> QED BY <2>4, <2>7, RebuildOK
<1>6. ASSUME NEW l \in Nodes, NEW r \in Nodes, NEW la \in Addrs, NEW ra \in Addrs,
             AdmitNew(l, r, la, ra)
      PROVE  Goal
  <2> DEFINE id == {l, r}
             t  == Fresh(l, r, la, ra)
             b  == [side \in Sides |-> {t.addr[side].ip}]
  <2>1. /\ id \in SessionId
        /\ PurgedSessions[id] = NoSession
        /\ sessions' = [PurgedSessions EXCEPT ![id] = t]
        /\ return_routes' = PurgedRoutes
        /\ bound' = [bound EXCEPT ![id] = b]
    BY <1>6 DEF AdmitNew, Fresh, ValidAdmission, SessionId
  <2>2. t \in Session
    BY FreshType
  <2> HIDE DEF t, id
  <2>3. AddrOK(sessions', bound')
    BY <1>4, <2>1, <2>2 DEF AddrOK, TableTypeOK
  <2>4. ASSUME NEW x \in PurgedRoutes
        PROVE  sessions'[x.session_id] # NoSession
               /\ x.source_ip \in bound'[x.session_id][x.source_side]
    <3>1. /\ PurgedSessions[x.session_id] # NoSession
          /\ x.source_ip \in bound[x.session_id][x.source_side]
          /\ x.session_id \in SessionId
          /\ x.session_id # id
      BY <1>4, <2>1 DEF RoutesOK, ReturnRoute
    <3> QED BY <1>4, <2>1, <3>1 DEF TableTypeOK
  <2> QED BY <2>1, <2>3, <2>4 DEF RoutesOK
<1> HIDE DEF Goal
<1> QED BY <1>1, <1>2, <1>3, <1>5, <1>6 DEF TableNext

(* No raw datagram can move a side's address to an IP that no admission    *)
(* and no token-bearing frame ever gave that side.                         *)
THEOREM AddressesHaveProvenance == TableSpec => []AddressProvenance
<1>1. TableInit => ProvenanceInv
  BY DEF TableInit, ProvenanceInv, AddrOK, RoutesOK
<1>2. ProvenanceInv => AddressProvenance
  BY DEF ProvenanceInv, AddrOK, AddressProvenance, Live
<1> QED BY <1>1, <1>2, TypeInit, TypeStep, ProvenanceStep, PTL DEF TableSpec


---------------------------------------------------------------------------
(* Return routes.  RoutesMirrorIndices is inductive by itself; it is kept  *)
(* as a predicate of the two values, because a purge goes through them     *)
(* within one step.                                                        *)

(* What record_wireguard_sender_index keeps of one side's index list.      *)
ListOK(list) == Len(list) <= MaxIndices /\ IsInjective(list)

(* The indices upsert_wireguard_return_route drops before it inserts one.  *)
Stale(list, i) ==
    {i} \cup (IF Evicts(list, i) THEN {Head(WithoutIndex(list, i))} ELSE {})

(* Removing position k of a list without repetitions.                      *)
LEMMA RemovedAt ==
    ASSUME NEW list \in Seq(Indices), IsInjective(list), NEW k \in 1..Len(list)
    PROVE  /\ RemoveAt(list, k) \in Seq(Indices)
           /\ Len(RemoveAt(list, k)) = Len(list) - 1
           /\ IsInjective(RemoveAt(list, k))
           /\ Range(RemoveAt(list, k)) = Range(list) \ {list[k]}
<1> DEFINE a == SubSeq(list, 1, k - 1)
           b == SubSeq(list, k + 1, Len(list))
           n == Len(list)
<1>1. a \in Seq(Indices) /\ Len(a) = k - 1 /\ \A j \in 1..(k - 1) : a[j] = list[j]
  OBVIOUS
<1>2. b \in Seq(Indices) /\ Len(b) = n - k /\ \A j \in 1..(n - k) : b[j] = list[j + k]
  OBVIOUS
<1>3. RemoveAt(list, k) = a \o b
  BY DEF RemoveAt
<1> HIDE DEF a, b
<1> DEFINE q == a \o b
<1>4. q \in Seq(Indices) /\ Len(q) = n - 1
  <2>1. ASSUME NEW u \in Seq(Indices), NEW v \in Seq(Indices)
        PROVE  u \o v \in Seq(Indices) /\ Len(u \o v) = Len(u) + Len(v)
    OBVIOUS
  <2>2. Len(a) + Len(b) = n - 1
    BY <1>1, <1>2
  <2> QED BY <1>1, <1>2, <2>1, <2>2
<1>5. \A j \in 1..(n - 1) : q[j] = IF j < k THEN list[j] ELSE list[j + 1]
  <2> TAKE j \in 1..(n - 1)
  <2>1. q[j] = IF j <= Len(a) THEN a[j] ELSE b[j - Len(a)]
    BY <1>1, <1>2
  <2>2. CASE j < k
    BY <2>1, <2>2, <1>1
  <2>3. CASE ~(j < k)
    <3>1. j - Len(a) \in 1..(n - k) /\ (j - Len(a)) + k = j + 1
      BY <1>1, <2>3
    <3> QED BY <2>1, <2>3, <1>1, <1>2, <3>1
  <2> QED BY <2>2, <2>3
<1> HIDE DEF q
<1>6. DOMAIN q = 1..(n - 1) /\ DOMAIN list = 1..n /\ n \in Nat
  BY <1>4
<1>7. IsInjective(q)
  <2> SUFFICES ASSUME NEW x \in 1..(n - 1), NEW y \in 1..(n - 1), q[x] = q[y]
               PROVE  x = y
    BY <1>6 DEF IsInjective
  <2> DEFINE up(j) == IF j < k THEN j ELSE j + 1
  <2>1. up(x) \in 1..n /\ up(y) \in 1..n /\ list[up(x)] = list[up(y)]
    BY <1>5
  <2>2. up(x) = up(y)
    BY <1>6, <2>1 DEF IsInjective
  <2> QED BY <2>2
<1>8. Range(q) = Range(list) \ {list[k]}
  <2>1. ASSUME NEW j \in 1..(n - 1)
        PROVE  q[j] \in Range(list) \ {list[k]}
    <3> DEFINE up == IF j < k THEN j ELSE j + 1
    <3>1. up \in 1..n /\ up # k /\ q[j] = list[up]
      BY <1>5
    <3> HIDE DEF up
    <3> QED BY <1>6, <3>1 DEF IsInjective, Range
  <2>2. ASSUME NEW j \in 1..n, list[j] # list[k]
        PROVE  list[j] \in Range(q)
    <3> DEFINE dn == IF j < k THEN j ELSE j - 1
    <3>1. dn \in 1..(n - 1) /\ q[dn] = list[j]
      BY <1>5, <2>2
    <3> HIDE DEF dn
    <3> QED BY <1>6, <3>1 DEF Range
  <2> QED BY <1>6, <2>1, <2>2 DEF Range
<1> QED BY <1>3, <1>4, <1>7, <1>8 DEF q

(* Dropping the entry of index i, if the list has one.                     *)
LEMMA WithoutFacts ==
    ASSUME NEW list \in Seq(Indices), ListOK(list), NEW i \in Indices
    PROVE  /\ WithoutIndex(list, i) \in Seq(Indices)
           /\ ListOK(WithoutIndex(list, i))
           /\ Range(WithoutIndex(list, i)) = Range(list) \ {i}
<1> DEFINE rest == WithoutIndex(list, i)
<1>1. Len(list) \in Nat /\ Len(list) <= MaxIndices /\ IsInjective(list) /\ MaxIndices \in Nat
  BY ConstantsAssumption DEF ListOK
<1>2. CASE \E k \in DOMAIN list : list[k] = i
  <2> DEFINE c == CHOOSE k \in DOMAIN list : list[k] = i
  <2>1. c \in DOMAIN list /\ list[c] = i
    BY <1>2
  <2>2. rest = RemoveAt(list, c)
    BY <1>2 DEF WithoutIndex
  <2>3. PICK k \in 1..Len(list) : rest = RemoveAt(list, k) /\ list[k] = i
    <3>1. c \in 1..Len(list)
      BY <2>1
    <3> HIDE DEF c, rest
    <3> QED BY <2>1, <2>2, <3>1
  <2>4. /\ rest \in Seq(Indices)
        /\ Len(rest) = Len(list) - 1
        /\ IsInjective(rest)
        /\ Range(rest) = Range(list) \ {i}
    BY <1>1, <2>3, RemovedAt
  <2> HIDE DEF rest
  <2>5. ListOK(rest)
    BY <1>1, <2>4 DEF ListOK
  <2> QED BY <2>4, <2>5 DEF rest
<1>3. CASE ~ \E k \in DOMAIN list : list[k] = i
  BY <1>3 DEF WithoutIndex, Range
<1> QED BY <1>2, <1>3

(* record_wireguard_sender_index keeps the list short and free of          *)
(* repetitions; it gains the recorded index and loses the evicted one.     *)
LEMMA RecordedFacts ==
    ASSUME NEW list \in Seq(Indices), ListOK(list), NEW i \in Indices
    PROVE  /\ ListOK(Recorded(list, i))
           /\ Range(Recorded(list, i)) = (Range(list) \ Stale(list, i)) \cup {i}
<1> DEFINE rest == WithoutIndex(list, i)
           kept == IF Evicts(list, i) THEN Tail(rest) ELSE rest
<1>1. rest \in Seq(Indices) /\ ListOK(rest) /\ Range(rest) = Range(list) \ {i}
  BY WithoutFacts
<1>2. Evicts(list, i) <=> Len(rest) >= MaxIndices
  BY DEF Evicts
<1>3. Recorded(list, i) = Append(kept, i)
  BY DEF Recorded
<1>4. Stale(list, i) = {i} \cup (IF Evicts(list, i) THEN {Head(rest)} ELSE {})
  BY DEF Stale
<1> HIDE DEF rest
<1>5. Len(rest) \in Nat /\ Len(rest) <= MaxIndices /\ MaxIndices \in Nat \ {0} /\ IsInjective(rest)
      /\ DOMAIN rest = 1..Len(rest)
  BY <1>1, ConstantsAssumption DEF ListOK
<1>6. /\ kept \in Seq(Indices)
      /\ Len(kept) < MaxIndices
      /\ IsInjective(kept)
      /\ Range(kept) = Range(list) \ Stale(list, i)
  <2>1. CASE Evicts(list, i)
    <3> DEFINE t == Tail(rest)
    <3>1. rest # <<>> /\ Len(rest) >= 1 /\ Head(rest) = rest[1]
      BY <1>1, <1>2, <1>5, <2>1
    <3>2. t \in Seq(Indices) /\ Len(t) = Len(rest) - 1 /\ \A j \in 1..(Len(rest) - 1) : t[j] = rest[j + 1]
      BY <1>1, <3>1
    <3> HIDE DEF t
    <3>3. IsInjective(t)
      <4> SUFFICES ASSUME NEW x \in 1..(Len(rest) - 1), NEW y \in 1..(Len(rest) - 1), t[x] = t[y]
                   PROVE  x = y
        BY <3>2 DEF IsInjective
      <4>1. rest[x + 1] = rest[y + 1] /\ x + 1 \in 1..Len(rest) /\ y + 1 \in 1..Len(rest)
        BY <1>5, <3>2
      <4>2. x + 1 = y + 1
        BY <1>5, <4>1 DEF IsInjective
      <4> QED BY <4>2
    <3>4. Range(t) = Range(rest) \ {Head(rest)}
      <4>1. ASSUME NEW j \in 1..(Len(rest) - 1)
            PROVE  t[j] \in Range(rest) \ {rest[1]}
        <5>1. t[j] = rest[j + 1] /\ j + 1 \in 1..Len(rest) /\ 1 \in 1..Len(rest) /\ j + 1 # 1
          BY <1>5, <3>1, <3>2
        <5>2. rest[j + 1] # rest[1]
          BY <1>5, <5>1 DEF IsInjective
        <5> QED BY <1>5, <5>1, <5>2 DEF Range
      <4>2. ASSUME NEW j \in 1..Len(rest), rest[j] # rest[1]
            PROVE  rest[j] \in Range(t)
        <5>1. j - 1 \in 1..(Len(rest) - 1) /\ t[j - 1] = rest[j]
          BY <1>5, <3>1, <3>2, <4>2
        <5>2. DOMAIN t = 1..(Len(rest) - 1)
          BY <3>2
        <5> QED BY <5>1, <5>2 DEF Range
      <4>3. DOMAIN t = 1..(Len(rest) - 1)
        BY <3>2
      <4> QED BY <1>5, <3>1, <4>1, <4>2, <4>3 DEF Range
    <3>5. kept = t
      BY <2>1 DEF t
    <3>6. Len(t) < MaxIndices
      BY <1>5, <3>2
    <3>7. Range(t) = Range(list) \ Stale(list, i)
      BY <1>1, <1>4, <2>1, <3>4
    <3> QED BY <3>2, <3>3, <3>5, <3>6, <3>7
  <2>2. CASE ~Evicts(list, i)
    BY <1>1, <1>2, <1>4, <1>5, <2>2
  <2> QED BY <2>1, <2>2
<1> HIDE DEF kept
<1>7. i \notin Range(kept)
  BY <1>4, <1>6
<1> DEFINE q == Append(kept, i)
           m == Len(kept)
<1>8. q \in Seq(Indices) /\ Len(q) = m + 1 /\ m \in Nat
  BY <1>6
<1>9. \A j \in 1..(m + 1) : q[j] = IF j = m + 1 THEN i ELSE kept[j]
  BY <1>6
<1>10. \A j \in 1..m : kept[j] # i
  BY <1>6, <1>7 DEF Range
<1>11. DOMAIN q = 1..(m + 1) /\ DOMAIN kept = 1..m
  BY <1>6, <1>8
<1> HIDE DEF q
<1>12. IsInjective(q)
  <2> SUFFICES ASSUME NEW x \in 1..(m + 1), NEW y \in 1..(m + 1), q[x] = q[y]
               PROVE  x = y
    BY <1>11 DEF IsInjective
  <2>1. CASE x = m + 1 \/ y = m + 1
    BY <1>8, <1>9, <1>10, <2>1
  <2>2. CASE x # m + 1 /\ y # m + 1
    <3>1. x \in 1..m /\ y \in 1..m /\ kept[x] = kept[y]
      BY <1>8, <1>9, <2>2
    <3> QED BY <1>6, <1>11, <3>1 DEF IsInjective
  <2> QED BY <2>1, <2>2
<1>13. Range(q) = Range(kept) \cup {i}
  <2>1. \A j \in 1..m : j \in 1..(m + 1) /\ q[j] = kept[j]
    BY <1>8, <1>9
  <2>2. m + 1 \in 1..(m + 1) /\ q[m + 1] = i
    BY <1>8, <1>9
  <2>3. \A j \in 1..(m + 1) : j \in 1..m \/ j = m + 1
    BY <1>8
  <2> QED BY <1>11, <2>1, <2>2, <2>3 DEF Range
<1>14. ListOK(q)
  BY <1>5, <1>6, <1>8, <1>12 DEF ListOK
<1> QED BY <1>3, <1>6, <1>13, <1>14 DEF q

(* The invariant of sessions and routes as a predicate of their values.    *)
ListsOK(ss) ==
    \A id \in SessionId, side \in Sides : ss[id] # NoSession => ListOK(ss[id].indices[side])

HasRoute(rs, id, side, i) ==
    \E r \in rs : r.index = i /\ r.session_id = id /\ r.source_side = side

InverseOf(rs, ss) ==
    \A id \in SessionId, side \in Sides, i \in Indices :
        HasRoute(rs, id, Other(side), i)
            <=> ss[id] # NoSession /\ i \in Range(ss[id].indices[side])

Unambiguous(rs) ==
    \A r1, r2 \in rs :
        (/\ r1.index = r2.index
         /\ r1.session_id = r2.session_id
         /\ r1.source_side = r2.source_side) => r1 = r2

Mirrored(rs, ss) == ListsOK(ss) /\ InverseOf(rs, ss) /\ Unambiguous(rs)

(* The property is this predicate of the table's state.                    *)
LEMMA MirroredIsProperty == RoutesMirrorIndices <=> Mirrored(return_routes, sessions)
BY DEF RoutesMirrorIndices, Mirrored, ListsOK, ListOK, InverseOf, HasRoute, Unambiguous, Live

(* The two sides are each other's opposite.                                *)
LEMMA OtherSide ==
    \A side \in Sides : Other(side) \in Sides /\ Other(Other(side)) = side /\ Other(side) # side
BY DEF Other, Sides

(* rebuild_wireguard_return_routes yields the inverse of the index lists.  *)
LEMMA RebuildMirrors ==
    ASSUME NEW ss \in [SessionId -> Session \cup {NoSession}], ListsOK(ss)
    PROVE  Mirrored(Rebuild(ss), ss)
<1>1. ASSUME NEW id \in SessionId, NEW side \in Sides, NEW i \in Indices,
             ss[id] # NoSession, i \in Range(ss[id].indices[side])
      PROVE  HasRoute(Rebuild(ss), id, Other(side), i)
  <2> DEFINE ip == ss[id].addr[Other(side)].ip
             r  == [index |-> i, session_id |-> id, source_side |-> Other(side), source_ip |-> ip]
  <2>1. ip \in IPs
    BY <1>1, OtherSide DEF Session, IPs
  <2> HIDE DEF ip
  <2>2. r \in ReturnRoute
    BY <2>1, OtherSide DEF ReturnRoute
  <2>3. /\ r.index = i /\ r.session_id = id /\ r.source_side = Other(side)
        /\ r.source_ip = ss[id].addr[Other(side)].ip
    BY DEF ip
  <2> HIDE DEF r
  <2>4. r \in Rebuild(ss)
    BY <1>1, <2>2, <2>3, OtherSide DEF Rebuild
  <2> QED BY <2>3, <2>4 DEF HasRoute
<1>2. ASSUME NEW id \in SessionId, NEW side \in Sides, NEW i \in Indices,
             HasRoute(Rebuild(ss), id, Other(side), i)
      PROVE  ss[id] # NoSession /\ i \in Range(ss[id].indices[side])
  BY <1>2, OtherSide DEF HasRoute, Rebuild
<1>3. InverseOf(Rebuild(ss), ss)
  BY <1>1, <1>2 DEF InverseOf
<1>4. Unambiguous(Rebuild(ss))
  <2> SUFFICES ASSUME NEW r1 \in Rebuild(ss), NEW r2 \in Rebuild(ss), r1.index = r2.index,
                      r1.session_id = r2.session_id, r1.source_side = r2.source_side
               PROVE  r1 = r2
    BY DEF Unambiguous
  <2>1. r1.source_ip = r2.source_ip
    BY DEF Rebuild
  <2>2. r1 \in ReturnRoute /\ r2 \in ReturnRoute
    BY DEF Rebuild
  <2> QED BY <2>1, <2>2 DEF ReturnRoute
<1> QED BY <1>3, <1>4 DEF Mirrored

(* A purge rebuilds exactly when it removed a session.                     *)
LEMMA PurgedMirrors ==
    ASSUME TableTypeOK, Mirrored(return_routes, sessions)
    PROVE  Mirrored(PurgedRoutes, PurgedSessions)
<1>1. ListsOK(PurgedSessions)
  BY PurgedType DEF Mirrored, ListsOK
<1>2. CASE PurgedSessions = sessions
  BY <1>2 DEF PurgedRoutes
<1>3. CASE PurgedSessions # sessions
  BY <1>1, <1>3, RebuildMirrors, PurgedType DEF PurgedRoutes
<1> QED BY <1>2, <1>3

(* A step that keeps a session's index lists need not touch the routes.    *)
LEMMA SameLists ==
    ASSUME NEW ss \in [SessionId -> Session \cup {NoSession}], NEW rs, Mirrored(rs, ss),
           NEW id \in SessionId, ss[id] # NoSession,
           NEW t \in Session, t.indices = ss[id].indices
    PROVE  Mirrored(rs, [ss EXCEPT ![id] = t])
<1> DEFINE s2 == [ss EXCEPT ![id] = t]
<1>1. \A j \in SessionId : /\ (s2[j] = NoSession) <=> (ss[j] = NoSession)
                           /\ ss[j] # NoSession => s2[j].indices = ss[j].indices
  BY NoSessionAssumption
<1> HIDE DEF s2
<1>2. ListsOK(s2)
  BY <1>1 DEF Mirrored, ListsOK
<1>3. InverseOf(rs, s2)
  BY <1>1 DEF Mirrored, InverseOf
<1> QED BY <1>2, <1>3 DEF Mirrored, s2

(* upsert_wireguard_return_route follows record_wireguard_sender_index:    *)
(* it drops the routes of the re-inserted and of the evicted index.        *)
LEMMA UpsertMirrors ==
    ASSUME TableTypeOK, Mirrored(return_routes, sessions),
           NEW id \in SessionId, sessions[id] \in Session, NEW side \in Sides, NEW i \in Indices,
           NEW s \in Session, s.indices = sessions[id].indices,
           NEW t \in Session,
           t.indices = [s.indices EXCEPT ![side] = Recorded(s.indices[side], i)]
    PROVE  Mirrored(Upserted(id, s, side, i), [sessions EXCEPT ![id] = t])
<1> DEFINE list  == s.indices[side]
           stale == Stale(list, i)
           new   == [index |-> i, session_id |-> id, source_side |-> Other(side),
                     source_ip |-> s.addr[Other(side)].ip]
           ss    == [sessions EXCEPT ![id] = t]
           rs    == Upserted(id, s, side, i)
           old   == {r \in return_routes : ~ /\ r.session_id = id
                                             /\ r.source_side = Other(side)
                                             /\ r.index \in stale}
<1> USE NoSessionAssumption
<1>1. rs = old \cup {new}
  BY DEF Upserted, Stale
<1>2. new.index = i /\ new.session_id = id /\ new.source_side = Other(side)
  OBVIOUS
<1>3. i \in stale
  BY DEF Stale
<1>4. list \in Seq(Indices) /\ sessions[id] # NoSession /\ list = sessions[id].indices[side]
  BY DEF Session
<1>5. ListOK(list)
  BY <1>4 DEF Mirrored, ListsOK
<1>6. ListOK(Recorded(list, i)) /\ Range(Recorded(list, i)) = (Range(list) \ stale) \cup {i}
  BY <1>4, <1>5, RecordedFacts
<1>7. /\ t.indices[side] = Recorded(list, i)
      /\ \A x \in Sides : x # side => t.indices[x] = sessions[id].indices[x]
  BY DEF Session
<1>8. /\ ss[id] = t /\ t # NoSession
      /\ \A j \in SessionId : j # id => ss[j] = sessions[j]
  BY DEF TableTypeOK
<1> HIDE DEF list, stale, new, ss, rs
<1>9. ListsOK(ss)
  <2> SUFFICES ASSUME NEW j \in SessionId, NEW x \in Sides, ss[j] # NoSession
               PROVE  ListOK(ss[j].indices[x])
    BY DEF ListsOK
  <2>1. sessions[j] # NoSession => ListOK(sessions[j].indices[x])
    BY DEF Mirrored, ListsOK
  <2> QED BY <1>4, <1>6, <1>7, <1>8, <2>1
<1>10. InverseOf(rs, ss)
  <2> SUFFICES ASSUME NEW j \in SessionId, NEW x \in Sides, NEW k \in Indices
               PROVE  HasRoute(rs, j, Other(x), k)
                        <=> ss[j] # NoSession /\ k \in Range(ss[j].indices[x])
    BY DEF InverseOf
  <2>1. HasRoute(return_routes, j, Other(x), k)
          <=> sessions[j] # NoSession /\ k \in Range(sessions[j].indices[x])
    BY DEF Mirrored, InverseOf
  <2>2. CASE j = id /\ x = side
    <3>1. HasRoute(rs, j, Other(x), k)
            <=> k = i \/ (k \notin stale /\ HasRoute(return_routes, j, Other(x), k))
      BY <1>1, <1>2, <1>3, <2>2 DEF HasRoute
    <3> QED BY <1>4, <1>6, <1>7, <1>8, <2>1, <2>2, <3>1
  <2>3. CASE ~(j = id /\ x = side)
    <3>0. j = id => Other(x) # Other(side)
      BY <2>3, OtherSide
    <3>1. HasRoute(rs, j, Other(x), k) <=> HasRoute(return_routes, j, Other(x), k)
      BY <1>1, <1>2, <3>0 DEF HasRoute
    <3> QED BY <1>4, <1>7, <1>8, <2>1, <2>3, <3>1
  <2> QED BY <2>2, <2>3
<1>11. Unambiguous(rs)
  <2>1. Unambiguous(return_routes)
    BY DEF Mirrored
  <2> QED BY <1>1, <1>2, <1>3, <2>1 DEF Unambiguous
<1> QED BY <1>9, <1>10, <1>11 DEF Mirrored, rs, ss

(* Learning an address keeps the index lists.                              *)
LEMMA LearnLists ==
    ASSUME NEW s \in Session, NEW route, NEW side \in Sides, NEW src \in Addrs
    PROVE  Learn(s, route, side, src).indices = s.indices
BY DEF Learn, Session

(* Every dataplane step keeps the routes the mirror of the index lists.    *)
LEMMA MirrorDataplane ==
    ASSUME TableTypeOK, Mirrored(return_routes, sessions), Dataplane
    PROVE  Mirrored(return_routes', sessions')
<1> USE NoSessionAssumption
<1> DEFINE Goal == Mirrored(return_routes', sessions')
<1>0. /\ sessions \in [SessionId -> Session \cup {NoSession}]
      /\ PurgedSessions \in [SessionId -> Session \cup {NoSession}]
      /\ Mirrored(PurgedRoutes, PurgedSessions)
  BY PurgedType, PurgedMirrors DEF TableTypeOK
<1>1. ASSUME Tick PROVE Goal
  BY <1>1 DEF Tick
<1>2. ASSUME PurgeExpired PROVE Goal
  BY <1>0, <1>2 DEF PurgeExpired
<1>3. ASSUME NEW id \in SessionId, RemoveExpiredSession(id) PROVE Goal
  <2>1. sessions' = [sessions EXCEPT ![id] = NoSession] /\ return_routes' = Rebuild(sessions')
    BY <1>3 DEF RemoveExpiredSession
  <2>2. sessions' \in [SessionId -> Session \cup {NoSession}]
    BY <1>0, <2>1
  <2>3. ListsOK(sessions')
    BY <1>0, <2>1 DEF Mirrored, ListsOK
  <2> QED BY <2>1, <2>2, <2>3, RebuildMirrors
<1>4. ASSUME NEW f \in Frame, ForwardTarget(f) PROVE Goal
  <2> DEFINE s == sessions[f.session_id]
             t == IF WithinLimit(s, f.len) THEN Charged(s, f.len) ELSE WindowAt(s)
  <2>1. f.session_id \in SessionId /\ s \in Session /\ f.len \in Nat
    BY <1>4, AuthenticatedSide DEF ForwardTarget
  <2>2. t \in Session /\ t.indices = s.indices
    BY <2>1, WindowType, ChargedType DEF TableTypeOK, SameOwner
  <2>3. sessions' = [sessions EXCEPT ![f.session_id] = t] /\ return_routes' = return_routes
    BY <1>4 DEF ForwardTarget
  <2> HIDE DEF t
  <2> QED BY <1>0, <2>1, <2>2, <2>3, SameLists
<1>5. ASSUME NEW f \in Frame, NEW src \in Addrs, ForwardDatagram(f, src) PROVE Goal
  <2> DEFINE id   == f.session_id
             side == SourceSide(sessions[id], f.route, src)
             k    == Learn(sessions[id], f.route, side, src)
             s    == Charged(k, f.len)
             u    == [s EXCEPT !.indices[side] = Recorded(@, f.sender)]
             recs == ~f.announcement /\ f.sender # NoIndex
  <2>1. id \in SessionId /\ sessions[id] \in Session /\ side \in Sides /\ f.len \in Nat
        /\ f.sender \in Indices \cup {NoIndex}
    BY <1>5, AuthenticatedSide DEF ForwardDatagram
  <2>2. k \in Session /\ k.indices = sessions[id].indices
    BY <2>1, LearnType, LearnLists
  <2>3. s \in Session /\ s.indices = sessions[id].indices
    <3> HIDE DEF k
    <3> QED BY <2>1, <2>2, ChargedType DEF TableTypeOK, SameOwner
  <2>4. /\ sessions' = [sessions EXCEPT ![id] = IF recs THEN u ELSE s]
        /\ return_routes' = (IF recs THEN Upserted(id, s, side, f.sender) ELSE return_routes)
    BY <1>5 DEF ForwardDatagram
  <2> HIDE DEF s, k, side, id
  <2>5. CASE recs
    <3>1. Recorded(s.indices[side], f.sender) \in Seq(Indices)
      BY <2>1, <2>3, <2>5, RecordedType DEF Session
    <3>2. u \in Session /\ u.indices = [s.indices EXCEPT ![side] = Recorded(s.indices[side], f.sender)]
      BY <2>1, <2>3, <3>1 DEF Session
    <3>3. f.sender \in Indices
      BY <2>1, <2>5
    <3> HIDE DEF u
    <3> QED BY <2>1, <2>3, <2>4, <2>5, <3>2, <3>3, UpsertMirrors
  <2>6. CASE ~recs
    <3> HIDE DEF u
    <3>1. sessions' = [sessions EXCEPT ![id] = s] /\ return_routes' = return_routes
      BY <2>4, <2>6
    <3> QED BY <1>0, <2>1, <2>3, <3>1, SameLists
  <2> QED BY <2>5, <2>6
<1>6. ASSUME NEW f \in Frame, NEW src \in Addrs, DatagramRateLimited(f, src) PROVE Goal
  <2> DEFINE id   == f.session_id
             side == SourceSide(sessions[id], f.route, src)
             k    == Learn(sessions[id], f.route, side, src)
             t    == WindowAt(k)
  <2>1. id \in SessionId /\ sessions[id] \in Session /\ side \in Sides
    BY <1>6, AuthenticatedSide DEF DatagramRateLimited
  <2>2. k \in Session /\ k.indices = sessions[id].indices
    BY <2>1, LearnType, LearnLists
  <2>3. t \in Session /\ t.indices = sessions[id].indices
    BY <2>2, WindowType DEF TableTypeOK, SameOwner
  <2>4. sessions' = [sessions EXCEPT ![id] = t] /\ return_routes' = return_routes
    BY <1>6 DEF DatagramRateLimited
  <2> HIDE DEF t, k, side, id
  <2> QED BY <1>0, <2>1, <2>3, <2>4, SameLists
<1>7. ASSUME NEW src \in Addrs, NEW i \in Indices, NEW n \in PayloadLens, ForwardReturn(src, i, n)
      PROVE  Goal
  <2>1. PICK r \in ReturnMatches(src, i) :
          /\ sessions' = [PurgedSessions EXCEPT ![r.session_id] =
                 IF WithinLimit(PurgedSessions[r.session_id], n)
                 THEN [Charged(PurgedSessions[r.session_id], n) EXCEPT !.addr[r.source_side] = src]
                 ELSE WindowAt(PurgedSessions[r.session_id])]
          /\ return_routes' = PurgedRoutes
    BY <1>7 DEF ForwardReturn
  <2> DEFINE id == r.session_id
             s  == PurgedSessions[id]
             c  == Charged(s, n)
             u  == [c EXCEPT !.addr[r.source_side] = src]
             t  == IF WithinLimit(s, n) THEN u ELSE WindowAt(s)
  <2>2. id \in SessionId /\ s \in Session /\ n \in Nat /\ r.source_side \in Sides
    BY <1>0, PurgedType, ConstantsAssumption DEF ReturnMatches, ReturnRoute
  <2>3. c \in Session /\ SameOwner(s, c) /\ WindowAt(s) \in Session /\ SameOwner(s, WindowAt(s))
    BY <2>2, ChargedType, WindowType DEF TableTypeOK
  <2>4. u \in Session /\ u.indices = c.indices
    <3> HIDE DEF c
    <3> QED BY <2>2, <2>3 DEF Session
  <2>5. t \in Session /\ t.indices = s.indices
    BY <2>3, <2>4 DEF SameOwner
  <2>6. sessions' = [PurgedSessions EXCEPT ![id] = t]
    BY <2>1
  <2> HIDE DEF t, s, id
  <2>7. PurgedSessions[id] # NoSession /\ t.indices = PurgedSessions[id].indices
    BY <2>2, <2>5 DEF s
  <2>8. Mirrored(PurgedRoutes, [PurgedSessions EXCEPT ![id] = t])
    BY <1>0, <2>2, <2>5, <2>7, SameLists
  <2> QED BY <2>1, <2>6, <2>8
<1> HIDE DEF Goal
<1>8. Goal
  BY <1>1, <1>2, <1>3, <1>4, <1>5, <1>6, <1>7, DataplaneCases
<1> QED BY <1>8 DEF Goal

(* Every step of the table keeps the routes the mirror of the index lists. *)
LEMMA MirrorStep ==
    ASSUME TableTypeOK, RoutesMirrorIndices, [TableNext]_tableVars
    PROVE  RoutesMirrorIndices'
<1> USE NoSessionAssumption
<1> DEFINE Goal == Mirrored(return_routes', sessions')
<1>0. Mirrored(return_routes, sessions)
  BY MirroredIsProperty
<1>1. ASSUME UNCHANGED tableVars PROVE Goal
  BY <1>0, <1>1 DEF tableVars
<1>2. ASSUME Dataplane PROVE Goal
  BY <1>0, <1>2, MirrorDataplane
<1>3. /\ PurgedSessions \in [SessionId -> Session \cup {NoSession}]
      /\ Mirrored(PurgedRoutes, PurgedSessions)
  BY <1>0, PurgedType, PurgedMirrors
<1>4. ASSUME NEW l \in Nodes, NEW r \in Nodes, NEW la \in Addrs, NEW ra \in Addrs,
             AdmitExisting(l, r, la, ra)
      PROVE  Goal
  <2> DEFINE id == {l, r}
             s  == PurgedSessions[id]
             t  == Refreshed(s, l, la, ra)
  <2>1. id \in SessionId /\ s # NoSession
    BY <1>4 DEF AdmitExisting, ValidAdmission, SessionId
  <2>2. s \in Session
    BY <1>3, <2>1
  <2>3. t \in Session /\ t.indices = s.indices
    BY <2>2, RefreshedType
  <2>4. sessions' = [PurgedSessions EXCEPT ![id] = t] /\ return_routes' = Rebuild(sessions')
    BY <1>4 DEF AdmitExisting
  <2> HIDE DEF t, id
  <2>5. Mirrored(PurgedRoutes, [PurgedSessions EXCEPT ![id] = t])
    BY <1>3, <2>1, <2>3, SameLists
  <2>6. sessions' \in [SessionId -> Session \cup {NoSession}] /\ ListsOK(sessions')
    BY <1>3, <2>1, <2>3, <2>4, <2>5 DEF Mirrored
  <2> QED BY <2>4, <2>6, RebuildMirrors
<1>5. ASSUME NEW l \in Nodes, NEW r \in Nodes, NEW la \in Addrs, NEW ra \in Addrs,
             AdmitNew(l, r, la, ra)
      PROVE  Goal
  <2> DEFINE id == {l, r}
             t  == Fresh(l, r, la, ra)
  <2>1. /\ id \in SessionId
        /\ PurgedSessions[id] = NoSession
        /\ sessions' = [PurgedSessions EXCEPT ![id] = t]
        /\ return_routes' = PurgedRoutes
    BY <1>5 DEF AdmitNew, Fresh, ValidAdmission, SessionId
  <2>2. t \in Session /\ \A x \in Sides : t.indices[x] = <<>>
    BY FreshType DEF Fresh
  <2>3. \A x \in Sides : ListOK(t.indices[x]) /\ Range(t.indices[x]) = {}
    <3>1. ListOK(<<>>) /\ Range(<<>>) = {}
      BY ConstantsAssumption DEF ListOK, IsInjective, Range
    <3> QED BY <2>2, <3>1
  <2> HIDE DEF t, id
  <2>4. /\ sessions'[id] = t
        /\ \A j \in SessionId : j # id => sessions'[j] = PurgedSessions[j]
    BY <1>3, <2>1
  <2>5. ListsOK(sessions')
    BY <1>3, <2>3, <2>4 DEF Mirrored, ListsOK
  <2>6. InverseOf(PurgedRoutes, sessions')
    BY <1>3, <2>1, <2>3, <2>4 DEF Mirrored, InverseOf
  <2> QED BY <1>3, <2>1, <2>5, <2>6 DEF Mirrored
<1>6. Goal => RoutesMirrorIndices'
  <2>1. (RoutesMirrorIndices <=> Mirrored(return_routes, sessions))'
    BY MirroredIsProperty, PTL
  <2> QED BY <2>1
<1> HIDE DEF Goal
<1> QED BY <1>1, <1>2, <1>4, <1>5, <1>6 DEF TableNext

(* Through eviction, expiry, re-admission and raw returns, the return      *)
(* routes are the exact inverse of the sessions' index lists.              *)
THEOREM RoutesMirrorTheIndices == TableSpec => []RoutesMirrorIndices
<1>1. TableInit => RoutesMirrorIndices
  BY DEF TableInit, RoutesMirrorIndices, Live
<1> QED BY <1>1, TypeInit, TypeStep, MirrorStep, PTL DEF TableSpec

---------------------------------------------------------------------------
(* The service as an implementation of the table.                          *)

(* status and refused admissions purge the table or leave it alone.        *)
LEMMA PurgeIsTableStep ==
    ASSUME sessions' = PurgedSessions, return_routes' = PurgedRoutes,
           UNCHANGED <<now, tokens, issued, bound>>
    PROVE  PurgeExpired \/ UNCHANGED tableVars
BY DEF PurgeExpired, PurgedRoutes, tableVars

(* Every step of the service is a step of the table or leaves it alone.    *)
LEMMA ServiceStepIsTableStep ==
    ASSUME [ServiceNext]_<<tableVars, serviceVars>>
    PROVE  [TableNext]_tableVars
<1>1. CASE UNCHANGED <<tableVars, serviceVars>>
  BY <1>1
<1>2. ASSUME NEW c \in Calls, \/ \E authorized \in BOOLEAN : Count(c, authorized)
                              \/ CheckLimit(c)
                              \/ RefuseRelayNode(c)
                              \/ Finish(c)
      PROVE  UNCHANGED tableVars
  BY <1>2 DEF Count, CheckLimit, RefuseRelayNode, Finish
<1>3. ASSUME NEW c \in Calls, NEW l \in Nodes, NEW r \in Nodes, NEW la \in Addrs,
             NEW ra \in Addrs, Admit(c, l, r, la, ra)
      PROVE  TableNext
  BY <1>3 DEF Admit, TableNext
<1>4. ASSUME NEW c \in Calls, NEW l \in Nodes, NEW r \in Nodes, NEW la \in Addrs,
             NEW ra \in Addrs, Refuse(c, l, r, la, ra)
      PROVE  PurgeExpired \/ UNCHANGED tableVars
  BY <1>4, PurgeIsTableStep DEF Refuse
<1>5. ASSUME Status
      PROVE  PurgeExpired \/ UNCHANGED tableVars
  BY <1>5, PurgeIsTableStep DEF Status
<1>6. PurgeExpired => TableNext
  BY DEF TableNext, Dataplane
<1>7. Dataplane => TableNext
  BY DEF TableNext
<1> QED BY <1>1, <1>2, <1>3, <1>4, <1>5, <1>6, <1>7 DEF ServiceNext

(* The admission service, with its concurrent calls, limits and counters,  *)
(* implements the bare session table.                                      *)
THEOREM ServiceImplementsTable == ServiceSpec => TableSpec
<1>1. ServiceInit => TableInit
  BY DEF ServiceInit
<1> QED BY <1>1, ServiceStepIsTableStep, PTL DEF ServiceSpec, TableSpec

(* So every safety property of the table holds of the running service.     *)
THEOREM ServiceKeepsTableProperties ==
    ServiceSpec => [](/\ TableTypeOK /\ RateBound /\ CredentialsHonoured
                     /\ AddressProvenance /\ RoutesMirrorIndices)
BY ServiceImplementsTable, TableTypeCorrect, RateBounded, CredentialsAreHonoured,
   AddressesHaveProvenance, RoutesMirrorTheIndices, PTL

---------------------------------------------------------------------------
(* Which sessions a step can add.                                          *)

(* There are finitely many node pairs.                                     *)
LEMMA SessionIdFinite == IsFiniteSet(SessionId)
<1>1. IsFiniteSet(SUBSET Nodes)
  BY FiniteNodes, FS_SUBSET
<1>2. SessionId \in SUBSET (SUBSET Nodes)
  BY DEF SessionId
<1> QED BY <1>1, <1>2, FS_Subset

(* A datagram or the clock never adds a session.                           *)
LEMMA DataplaneShrinks ==
    ASSUME TableTypeOK, Dataplane
    PROVE  LiveSessions(sessions') \subseteq LiveSessions(sessions)
BY DataplaneKeeps DEF Kept, LiveSessions

(* Neither does a purge.                                                   *)
LEMMA PurgeShrinks ==
    ASSUME TableTypeOK
    PROVE  LiveSessions(PurgedSessions) \subseteq LiveSessions(sessions)
BY PurgedKept DEF LiveSessions

(* An admission adds its own pair and, beyond the purge, nothing else.     *)
LEMMA AdmitAdds ==
    ASSUME TableTypeOK, NEW l \in Nodes, NEW r \in Nodes, NEW la \in Addrs, NEW ra \in Addrs,
           AdmitExisting(l, r, la, ra) \/ AdmitNew(l, r, la, ra)
    PROVE  /\ {l, r} \in SessionId
           /\ LiveSessions(sessions') = LiveSessions(PurgedSessions) \cup {{l, r}}
<1>1. {l, r} \in SessionId
  BY DEF AdmitExisting, AdmitNew, ValidAdmission, SessionId
<1>2. PICK t \in Session : sessions' = [PurgedSessions EXCEPT ![{l, r}] = t]
  <2>1. CASE AdmitExisting(l, r, la, ra)
    <3>1. PurgedSessions[{l, r}] \in Session
      BY <1>1, <2>1, PurgedType DEF AdmitExisting
    <3>2. Refreshed(PurgedSessions[{l, r}], l, la, ra) \in Session
      BY <3>1, RefreshedType
    <3> QED BY <2>1, <3>2 DEF AdmitExisting
  <2>2. CASE AdmitNew(l, r, la, ra)
    <3>1. Fresh(l, r, la, ra) \in Session
      BY FreshType
    <3>2. sessions' = [PurgedSessions EXCEPT ![{l, r}] = Fresh(l, r, la, ra)]
      BY <2>2 DEF AdmitNew, Fresh
    <3> QED BY <3>1, <3>2
  <2> QED BY <2>1, <2>2
<1>3. t # NoSession
  BY NoSessionAssumption
<1>4. PurgedSessions \in [SessionId -> Session \cup {NoSession}]
  BY PurgedType
<1> QED BY <1>1, <1>2, <1>3, <1>4 DEF LiveSessions

(* A smaller set of sessions has no more members.                          *)
LEMMA FewerSessions ==
    ASSUME NEW S \in SUBSET SessionId, NEW T \in SUBSET S
    PROVE  /\ IsFiniteSet(S) /\ IsFiniteSet(T)
           /\ Cardinality(S) \in Nat /\ Cardinality(T) \in Nat
           /\ Cardinality(T) <= Cardinality(S)
<1>1. IsFiniteSet(S)
  BY SessionIdFinite, FS_Subset
<1>2. IsFiniteSet(T) /\ Cardinality(T) <= Cardinality(S)
  BY <1>1, FS_Subset
<1> QED BY <1>1, <1>2, FS_CardinalityType

(* What a step of the service does to the sessions and to the load it      *)
(* reports: it recounts a table from which nothing but expired sessions    *)
(* went, or admits a pair into such a table, or leaves the count alone     *)
(* while the dataplane may drop sessions.                                  *)
Recounts == active_sessions' = Cardinality(LiveSessions(sessions'))

LEMMA ServiceEffect ==
    ASSUME TableTypeOK, [ServiceNext]_<<tableVars, serviceVars>>
    PROVE  \/ /\ LiveSessions(sessions') \subseteq LiveSessions(sessions)
              /\ Recounts \/ active_sessions' = active_sessions
           \/ /\ Recounts
              /\ \E c \in Calls, l, r \in Nodes, la, ra \in Addrs : Admit(c, l, r, la, ra)
<1>1. CASE UNCHANGED <<tableVars, serviceVars>>
  BY <1>1 DEF tableVars, serviceVars, LiveSessions
<1>2. ASSUME NEW c \in Calls, \/ \E authorized \in BOOLEAN : Count(c, authorized)
                              \/ CheckLimit(c)
                              \/ RefuseRelayNode(c)
                              \/ Finish(c)
      PROVE  sessions' = sessions /\ active_sessions' = active_sessions
  BY <1>2 DEF Count, CheckLimit, RefuseRelayNode, Finish, tableVars
<1>3. ASSUME NEW c \in Calls, NEW l \in Nodes, NEW r \in Nodes, NEW la \in Addrs,
             NEW ra \in Addrs, Admit(c, l, r, la, ra)
      PROVE  Recounts
  BY <1>3 DEF Admit, Recounts
<1>4. ASSUME NEW c \in Calls, NEW l \in Nodes, NEW r \in Nodes, NEW la \in Addrs,
             NEW ra \in Addrs, Refuse(c, l, r, la, ra)
      PROVE  LiveSessions(sessions') \subseteq LiveSessions(sessions) /\ Recounts
  BY <1>4, PurgeShrinks DEF Refuse, Recounts
<1>5. ASSUME Status
      PROVE  LiveSessions(sessions') \subseteq LiveSessions(sessions) /\ Recounts
  BY <1>5, PurgeShrinks DEF Status, Recounts
<1>6. ASSUME Dataplane, UNCHANGED serviceVars
      PROVE  LiveSessions(sessions') \subseteq LiveSessions(sessions)
             /\ active_sessions' = active_sessions
  BY <1>6, DataplaneShrinks DEF serviceVars
<1> QED BY <1>1, <1>2, <1>3, <1>4, <1>5, <1>6 DEF ServiceNext

---------------------------------------------------------------------------
(* The limits.                                                             *)

(* can_admit is asked of the purged table and under its lock, so an        *)
(* admission never passes max_sessions.                                    *)
LEMMA CapacityStep ==
    ASSUME TableTypeOK, CapacityRespected, [ServiceNext]_<<tableVars, serviceVars>>
    PROVE  CapacityRespected'
<1> USE ServiceConstants
<1>1. \A ss : LiveSessions(ss) \in SUBSET SessionId
  BY DEF LiveSessions
<1>2. CASE LiveSessions(sessions') \subseteq LiveSessions(sessions)
  <2>1. Cardinality(LiveSessions(sessions')) <= Cardinality(LiveSessions(sessions))
        /\ Cardinality(LiveSessions(sessions')) \in Nat
        /\ Cardinality(LiveSessions(sessions)) \in Nat
    BY <1>1, <1>2, FewerSessions
  <2> QED BY <2>1 DEF CapacityRespected, LiveSessions
<1>3. ASSUME NEW c \in Calls, NEW l \in Nodes, NEW r \in Nodes, NEW la \in Addrs,
             NEW ra \in Addrs, Admit(c, l, r, la, ra)
      PROVE  CapacityRespected'
  <2> DEFINE P == LiveSessions(PurgedSessions)
  <2>1. {l, r} \in SessionId /\ LiveSessions(sessions') = P \cup {{l, r}}
    BY <1>3, AdmitAdds DEF Admit
  <2>2. P \subseteq LiveSessions(sessions)
    BY PurgeShrinks
  <2>3. /\ IsFiniteSet(P) /\ Cardinality(P) \in Nat
        /\ Cardinality(LiveSessions(sessions)) \in Nat
        /\ Cardinality(P) <= Cardinality(LiveSessions(sessions))
    BY <1>1, <2>2, FewerSessions
  <2>4. Cardinality(P \cup {{l, r}}) = IF {l, r} \in P THEN Cardinality(P) ELSE Cardinality(P) + 1
    BY <2>3, FS_AddElement
  <2>5. {l, r} \notin P => Cardinality(P) < MaxSessions
    BY <1>3, <2>1 DEF Admit, CanAdmit, LiveSessions
  <2> HIDE DEF P
  <2>6. Cardinality(LiveSessions(sessions')) <= MaxSessions
    BY <2>1, <2>3, <2>4, <2>5 DEF CapacityRespected
  <2> QED BY <2>6 DEF CapacityRespected, LiveSessions
<1> QED BY <1>2, <1>3, ServiceEffect

(* However concurrent admissions, expiries and refreshes interleave, the   *)
(* relay holds at most capability.max_sessions sessions.                   *)
THEOREM CapacityAlwaysRespected == ServiceSpec => []CapacityRespected
<1>1. ServiceInit => CapacityRespected
  <2>1. ServiceInit => LiveSessions(sessions) = {}
    BY DEF ServiceInit, TableInit, LiveSessions
  <2> QED BY <2>1, FS_EmptySet, ServiceConstants DEF CapacityRespected
<1>2. ServiceSpec => []TableTypeOK
  BY ServiceImplementsTable, TableTypeCorrect, PTL
<1> QED BY <1>1, <1>2, CapacityStep, PTL DEF ServiceSpec

(* A step that adds no session takes no node over its limit; an admission  *)
(* adds one session to two nodes that both had room, or none.              *)
LEMMA NodeLimitStep ==
    ASSUME TableTypeOK, NodeLimitRespected, [ServiceNext]_<<tableVars, serviceVars>>
    PROVE  NodeLimitRespected'
<1> SUFFICES ASSUME NodeLimit # 0, NEW n \in Nodes
             PROVE  Cardinality(SessionsOf(sessions', n)) <= NodeLimit
  BY DEF NodeLimitRespected, SessionsOf, LiveSessions
<1> USE ServiceConstants
<1> DEFINE Old == SessionsOf(sessions, n)
           New == SessionsOf(sessions', n)
           P   == SessionsOf(PurgedSessions, n)
<1>1. Old \in SUBSET SessionId /\ New \in SUBSET SessionId /\ P \in SUBSET Old
      /\ Cardinality(Old) <= NodeLimit
  BY PurgeShrinks DEF SessionsOf, LiveSessions, NodeLimitRespected
<1>2. ASSUME LiveSessions(sessions') \subseteq LiveSessions(sessions)
      PROVE  Cardinality(New) <= NodeLimit
  <2>1. New \in SUBSET Old
    BY <1>2 DEF SessionsOf
  <2> HIDE DEF Old, New, P
  <2> QED BY <1>1, <2>1, FewerSessions
<1>3. ASSUME NEW c \in Calls, NEW l \in Nodes, NEW r \in Nodes, NEW la \in Addrs,
             NEW ra \in Addrs, Admit(c, l, r, la, ra)
      PROVE  Cardinality(New) <= NodeLimit
  <2>1. {l, r} \in SessionId
        /\ LiveSessions(sessions') = LiveSessions(PurgedSessions) \cup {{l, r}}
    BY <1>3, AdmitAdds DEF Admit
  <2>2. New = IF n \in {l, r} THEN P \cup {{l, r}} ELSE P
    BY <2>1 DEF SessionsOf
  <2>3. n \in {l, r} /\ {l, r} \notin P => Cardinality(P) < NodeLimit
    <3>1. SUFFICES ASSUME n \in {l, r}, {l, r} \notin P PROVE Cardinality(P) < NodeLimit
      OBVIOUS
    <3>2. PurgedSessions[{l, r}] = NoSession
      BY <2>1, <3>1 DEF SessionsOf, LiveSessions
    <3>3. ~NodeFull(n)
      BY <1>3, <3>1, <3>2 DEF Admit
    <3>4. IsFiniteSet(P) /\ Cardinality(P) \in Nat
      <4> HIDE DEF P, Old
      <4> QED BY <1>1, FewerSessions
    <3> QED BY <3>3, <3>4 DEF NodeFull
  <2> HIDE DEF Old, New, P
  <2>4. IsFiniteSet(P) /\ Cardinality(P) \in Nat /\ Cardinality(P) <= Cardinality(Old)
        /\ Cardinality(Old) \in Nat
    BY <1>1, FewerSessions
  <2>5. Cardinality(P \cup {{l, r}}) = IF {l, r} \in P THEN Cardinality(P) ELSE Cardinality(P) + 1
    BY <2>4, FS_AddElement
  <2> QED BY <1>1, <2>2, <2>3, <2>4, <2>5
<1> QED BY <1>2, <1>3, ServiceEffect

(* No node ever takes part in more sessions than max_sessions_per_node,    *)
(* whichever side of them it is on.                                        *)
THEOREM NodeLimitAlwaysRespected == ServiceSpec => []NodeLimitRespected
<1>1. ServiceInit => NodeLimitRespected
  <2>1. ServiceInit => \A n \in Nodes : SessionsOf(sessions, n) = {}
    BY DEF ServiceInit, TableInit, LiveSessions, SessionsOf
  <2> QED BY <2>1, FS_EmptySet, ServiceConstants DEF NodeLimitRespected
<1>2. ServiceSpec => []TableTypeOK
  BY ServiceImplementsTable, TableTypeCorrect, PTL
<1> QED BY <1>1, <1>2, NodeLimitStep, PTL DEF ServiceSpec

(* The reported load is either recounted under the lock or left alone by a *)
(* step that can only drop sessions.                                       *)
LoadInv == active_sessions \in Nat /\ ReportedLoadCovers

(* ... so it stays an upper bound.                                         *)
LEMMA LoadStep ==
    ASSUME TableTypeOK, LoadInv, [ServiceNext]_<<tableVars, serviceVars>>
    PROVE  LoadInv'
<1>1. LiveSessions(sessions) \in SUBSET SessionId /\ LiveSessions(sessions') \in SUBSET SessionId
  BY DEF LiveSessions
<1>2. Cardinality(LiveSessions(sessions')) \in Nat
  BY <1>1, FewerSessions
<1>3. CASE Recounts
  BY <1>2, <1>3 DEF Recounts, LoadInv, ReportedLoadCovers, LiveSessions
<1>4. CASE LiveSessions(sessions') \subseteq LiveSessions(sessions)
           /\ active_sessions' = active_sessions
  <2>1. Cardinality(LiveSessions(sessions')) <= Cardinality(LiveSessions(sessions))
        /\ Cardinality(LiveSessions(sessions)) \in Nat
    BY <1>1, <1>4, FewerSessions
  <2>2. active_sessions' \in Nat /\ Cardinality(LiveSessions(sessions')) <= active_sessions'
    BY <1>2, <1>4, <2>1 DEF LoadInv, ReportedLoadCovers
  <2> QED BY <2>2 DEF LoadInv, ReportedLoadCovers, LiveSessions
<1> QED BY <1>3, <1>4, ServiceEffect

(* A control plane that balances relays by active_sessions never believes  *)
(* a relay less loaded than it is.                                         *)
THEOREM ReportedLoadAlwaysCovers == ServiceSpec => []ReportedLoadCovers
<1>1. ServiceInit => LoadInv
  <2>1. ServiceInit => LiveSessions(sessions) = {} /\ active_sessions = 0
    BY DEF ServiceInit, TableInit, LiveSessions
  <2> QED BY <2>1, FS_EmptySet DEF LoadInv, ReportedLoadCovers
<1>2. ServiceSpec => []TableTypeOK
  BY ServiceImplementsTable, TableTypeCorrect, PTL
<1>3. LoadInv => ReportedLoadCovers
  BY DEF LoadInv
<1> QED BY <1>1, <1>2, <1>3, LoadStep, PTL DEF ServiceSpec

---------------------------------------------------------------------------
(* The admission limiter.  As for the byte limiter, what passed before the *)
(* current window is bounded by when that window began.                    *)

LimiterInv ==
    /\ rate_window \in [started_at : Nat, attempts : Nat]
    /\ passed \in Nat
    /\ AttemptLimit # 0 =>
         /\ rate_window.started_at <= now
         /\ rate_window.attempts <= AttemptLimit
         /\ AttemptWindow * (passed - rate_window.attempts)
               <= AttemptLimit * rate_window.started_at

(* record_admission_attempt_for_limit restarts a window only after its     *)
(* whole length has gone by.                                               *)
LEMMA LimiterWindow ==
    ASSUME now \in Nat, LimiterInv
    PROVE  /\ RateWindow \in [started_at : Nat, attempts : Nat]
           /\ AttemptLimit # 0 =>
                /\ RateWindow.started_at <= now
                /\ RateWindow.attempts <= AttemptLimit
                /\ AttemptWindow * (passed - RateWindow.attempts)
                      <= AttemptLimit * RateWindow.started_at
<1> USE ServiceConstants
<1>1. CASE now - rate_window.started_at >= AttemptWindow
  <2> DEFINE start == rate_window.started_at
             old   == rate_window.attempts
  <2>1. RateWindow = [started_at |-> now, attempts |-> 0]
    BY <1>1 DEF RateWindow
  <2>2. start \in Nat /\ old \in Nat /\ passed \in Nat /\ now - start >= AttemptWindow
    BY <1>1 DEF LimiterInv
  <2>3. ASSUME AttemptLimit # 0
        PROVE  AttemptWindow * passed <= AttemptLimit * now
    <3>1. old <= AttemptLimit /\ AttemptWindow * (passed - old) <= AttemptLimit * start
      BY <2>3 DEF LimiterInv
    <3> HIDE DEF start, old
    <3>2. AttemptWindow * old <= AttemptWindow * AttemptLimit
      BY <2>2, <3>1, Monotone
    <3>3. AttemptLimit * AttemptWindow <= AttemptLimit * (now - start)
      BY <2>2, Monotone
    <3>4. AttemptWindow * AttemptLimit = AttemptLimit * AttemptWindow
      OBVIOUS
    <3>5. AttemptWindow * (passed - old) = AttemptWindow * passed - AttemptWindow * old
      BY <2>2
    <3>6. AttemptLimit * (now - start) = AttemptLimit * now - AttemptLimit * start
      BY <2>2
    <3> QED BY <2>2, <3>1, <3>2, <3>3, <3>4, <3>5, <3>6
  <2> QED BY <2>1, <2>2, <2>3
<1>2. CASE ~(now - rate_window.started_at >= AttemptWindow)
  BY <1>2 DEF RateWindow, LimiterInv
<1> QED BY <1>1, <1>2

(* One call passes the limiter, or is refused.                             *)
LEMMA LimiterCheck ==
    ASSUME now \in Nat, LimiterInv, NEW c \in Calls, CheckLimit(c)
    PROVE  LimiterInv'
<1> USE ServiceConstants
<1> DEFINE w == RateWindow
           exceeded == AttemptLimit # 0 /\ w.attempts >= AttemptLimit
<1>1. /\ now' = now
      /\ rate_window' = (IF AttemptLimit = 0 THEN rate_window
                         ELSE IF exceeded THEN w ELSE [w EXCEPT !.attempts = w.attempts + 1])
      /\ passed' = IF exceeded THEN passed ELSE passed + 1
  BY DEF CheckLimit, tableVars
<1>2. /\ w \in [started_at : Nat, attempts : Nat]
      /\ AttemptLimit # 0 =>
           /\ w.started_at <= now
           /\ w.attempts <= AttemptLimit
           /\ AttemptWindow * (passed - w.attempts) <= AttemptLimit * w.started_at
  BY LimiterWindow
<1>3. passed \in Nat /\ rate_window \in [started_at : Nat, attempts : Nat]
  BY DEF LimiterInv
<1> HIDE DEF w
<1>4. CASE AttemptLimit = 0
  BY <1>1, <1>3, <1>4 DEF LimiterInv
<1>5. CASE AttemptLimit # 0 /\ exceeded
  BY <1>1, <1>2, <1>3, <1>5 DEF LimiterInv
<1>6. CASE AttemptLimit # 0 /\ ~exceeded
  <2> DEFINE x == [w EXCEPT !.attempts = w.attempts + 1]
  <2>1. rate_window' = x /\ passed' = passed + 1
    BY <1>1, <1>6
  <2>2. x \in [started_at : Nat, attempts : Nat] /\ x.attempts = w.attempts + 1
        /\ x.started_at = w.started_at
    BY <1>2
  <2> HIDE DEF x
  <2>3. x.attempts <= AttemptLimit /\ passed' - x.attempts = passed - w.attempts
    BY <1>2, <1>3, <1>6, <2>1, <2>2
  <2> QED BY <1>1, <1>2, <1>3, <1>6, <2>1, <2>2, <2>3 DEF LimiterInv
<1> QED BY <1>4, <1>5, <1>6

(* Nothing but CheckLimit touches the limiter, and time only passes.       *)
LEMMA LimiterStep ==
    ASSUME TableTypeOK, LimiterInv, [ServiceNext]_<<tableVars, serviceVars>>
    PROVE  LimiterInv'
<1>1. ASSUME NEW c \in Calls, CheckLimit(c)
      PROVE  LimiterInv'
  BY <1>1, LimiterCheck DEF TableTypeOK
<1>2. ASSUME UNCHANGED <<rate_window, passed>>, now' = now \/ now' = now + 1
      PROVE  LimiterInv'
  BY <1>2 DEF LimiterInv, TableTypeOK
<1>3. ASSUME Dataplane, UNCHANGED serviceVars
      PROVE  UNCHANGED <<rate_window, passed>> /\ (now' = now \/ now' = now + 1)
  BY <1>3, DataplaneKeeps DEF serviceVars
<1>4. ASSUME NEW c \in Calls, \/ \E authorized \in BOOLEAN : Count(c, authorized)
                              \/ RefuseRelayNode(c)
                              \/ Finish(c)
                              \/ \E l, r \in Nodes, la, ra \in Addrs :
                                    Admit(c, l, r, la, ra) \/ Refuse(c, l, r, la, ra)
      PROVE  UNCHANGED <<rate_window, passed>> /\ now' = now
  <2>1. CASE \E authorized \in BOOLEAN : Count(c, authorized)
    BY <2>1 DEF Count, tableVars
  <2>2. CASE RefuseRelayNode(c) \/ Finish(c)
    BY <2>2 DEF RefuseRelayNode, Finish, tableVars
  <2>3. ASSUME NEW l \in Nodes, NEW r \in Nodes, NEW la \in Addrs, NEW ra \in Addrs,
               Admit(c, l, r, la, ra) \/ Refuse(c, l, r, la, ra)
        PROVE  UNCHANGED <<rate_window, passed>> /\ now' = now
    BY <2>3 DEF Admit, Refuse, AdmitExisting, AdmitNew
  <2> QED BY <1>4, <2>1, <2>2, <2>3
<1>5. ASSUME Status
      PROVE  UNCHANGED <<rate_window, passed>> /\ now' = now
  BY <1>5 DEF Status
<1>6. CASE UNCHANGED <<tableVars, serviceVars>>
  BY <1>2, <1>6 DEF tableVars, serviceVars
<1> QED BY <1>1, <1>2, <1>3, <1>4, <1>5, <1>6 DEF ServiceNext

(* The window never holds more than AttemptLimit attempts.                 *)
LEMMA LimiterImplied ==
    ASSUME now \in Nat, LimiterInv
    PROVE  AdmissionRateBound
<1> SUFFICES ASSUME AttemptLimit # 0
             PROVE  AttemptWindow * passed <= AttemptLimit * (now + AttemptWindow)
  BY DEF AdmissionRateBound
<1> USE ServiceConstants
<1> DEFINE start == rate_window.started_at
           old   == rate_window.attempts
<1>1. start \in Nat /\ old \in Nat /\ passed \in Nat /\ start <= now /\ old <= AttemptLimit
      /\ AttemptWindow * (passed - old) <= AttemptLimit * start
  BY DEF LimiterInv
<1> HIDE DEF start, old
<1>2. AttemptWindow * old <= AttemptLimit * AttemptWindow
  BY <1>1, Monotone
<1>3. AttemptLimit * start <= AttemptLimit * now
  BY <1>1, Monotone
<1>4. AttemptWindow * (passed - old) = AttemptWindow * passed - AttemptWindow * old
  BY <1>1
<1>5. AttemptLimit * (now + AttemptWindow) = AttemptLimit * now + AttemptLimit * AttemptWindow
  OBVIOUS
<1> QED BY <1>1, <1>2, <1>3, <1>4, <1>5

(* Authorized or not, at most AttemptLimit admission calls per elapsed     *)
(* window, plus one window's worth, get past the limiter.                  *)
THEOREM AdmissionRateBounded == ServiceSpec => []AdmissionRateBound
<1>1. ServiceInit => LimiterInv
  BY ServiceConstants DEF ServiceInit, TableInit, LimiterInv
<1>2. ServiceSpec => []TableTypeOK
  BY ServiceImplementsTable, TableTypeCorrect, PTL
<1>3. TableTypeOK /\ LimiterInv => AdmissionRateBound
  BY LimiterImplied DEF TableTypeOK
<1> QED BY <1>1, <1>2, <1>3, LimiterStep, PTL DEF ServiceSpec

============================================================================
