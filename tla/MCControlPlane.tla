-------------------------- MODULE MCControlPlane --------------------------
(* Two planes over a SQL store with two addresses and room for one capture *)
(* scope.  Each workload is a handful of requests that race for one piece  *)
(* of shared state; within it they arrive and interleave in every order.   *)
EXTENDS ControlPlane
CONSTANTS p1, p2, x, y

Open   == [scopes |-> {}]
Narrow == [scopes |-> {x}]

Wide(nonce, uses) == [nonce |-> nonce, max_uses |-> uses, allowed |-> {x, y}]
OnlyX(nonce)      == [nonce |-> nonce, max_uses |-> 2, allowed |-> {x}]

JoinOf(id, p, n, token, routes) ==
    [kind |-> "join", id |-> id, plane |-> p, node |-> n, key |-> "k1", routes |-> routes,
     token |-> token, http |-> FALSE]
HttpJoinOf(id, p, n, token) == [JoinOf(id, p, n, token, {}) EXCEPT !.http = TRUE]
HeartbeatOf(id, n, at, routes) ==
    [kind |-> "heartbeat", id |-> id, node |-> n, signed_at |-> at, routes |-> routes]
RemoveOf(id, p, n) == [kind |-> "remove", id |-> id, plane |-> p, node |-> n]
RotateOf(id, n)    == [kind |-> "rotate", id |-> id, node |-> n, previous |-> "k1", next |-> "k2"]
PolicyOf(id, q)    == [kind |-> "policy", id |-> id, policy |-> q]
QueryOf(id, p)     == [kind |-> "query", id |-> id, plane |-> p]
TokenOf(kind, token) == [kind |-> kind, id |-> kind, token |-> token]

(* Two addresses, three nodes, a removal that resets one plane's scan.     *)
Leases == {JoinOf("j1", p1, "a", Wide("t1", 3), {}), JoinOf("j2", p1, "b", Wide("t1", 3), {}),
           HttpJoinOf("j3", p2, "c", Wide("t1", 3)), RemoveOf("d1", p1, "a"),
           RemoveOf("d3", p2, "c")}

(* Policies that narrow and widen against routes that come and go.         *)
Scopes == {JoinOf("j4", p1, "a", Wide("t1", 3), {x}), JoinOf("j5", p2, "a", Wide("t1", 3), {y}),
           HeartbeatOf("h1", "a", 1, {y}), PolicyOf("q1", Narrow), PolicyOf("q2", Open),
           HeartbeatOf("h6", "a", 2, {x})}

(* A heartbeat across a removal and a registration with a narrower token.  *)
Generations == {JoinOf("j6", p1, "a", Wide("t1", 3), {}), HeartbeatOf("h1", "a", 1, {y}),
                RemoveOf("d2", p2, "a"), JoinOf("j7", p2, "a", OnlyX("t2"), {x}),
                HeartbeatOf("h2", "a", 2, NoRoutes)}

(* Two advertisers for the one scope there is room for.                    *)
Limit == {JoinOf("j4", p1, "a", Wide("t1", 3), {x}), JoinOf("j8", p2, "b", Wide("t1", 3), {y}),
          JoinOf("j9", p2, "b", Wide("t1", 3), {}), HeartbeatOf("h3", "b", 1, {y}),
          HeartbeatOf("h4", "a", 1, {})}

(* Heartbeats that overtake one another, while the key is rotated and the  *)
(* node joins again.                                                       *)
Order == {JoinOf("j6", p1, "a", Wide("t1", 3), {}), JoinOf("j4", p1, "a", Wide("t1", 3), {x}),
          RotateOf("k1", "a"), HeartbeatOf("h4", "a", 1, {}), HeartbeatOf("h2", "a", 2, NoRoutes),
          HeartbeatOf("h5", "a", 3, {x})}

(* One use, two joins, and a revocation at any moment.                     *)
Tokens == {TokenOf("issue", Wide("t3", 1)), TokenOf("revoke", Wide("t3", 1)),
           JoinOf("j10", p1, "a", Wide("t3", 1), {}), JoinOf("j11", p2, "b", Wide("t3", 1), {})}

(* Queries, the second of which may find what the first remembered, while  *)
(* the catalog and the policy change.                                      *)
Queries == {JoinOf("j4", p1, "a", Wide("t1", 3), {x}), RotateOf("k1", "a"),
            PolicyOf("q1", Narrow), QueryOf("m1", p1), QueryOf("m2", p1)}

MCWorkloads == {Leases, Scopes, Generations, Limit, Order, Tokens, Queries}
MCRequests == UNION MCWorkloads

(* A node joins, joins again when its agent restarts, then another joins.  *)
Rejoins == {JoinOf("j1", p1, "a", Wide("t1", 3), {}), JoinOf("j6", p1, "a", Wide("t1", 3), {}),
            JoinOf("j2", p1, "b", Wide("t1", 3), {})}
MCRejoinWorkloads == {Rejoins}

===========================================================================
