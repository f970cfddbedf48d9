----------------------- MODULE NodeStructures_proofs -----------------------
(***************************************************************************)
(* Proofs about three structures of a node that share no state: the tunnel *)
(* hub, the replay cache and the fragment reassembler, each for any limits *)
(* and any number of requests, keys and datagrams.                         *)
(***************************************************************************)
EXTENDS ReplayWindowSpec, OverlayFragments, HttpTunnel, ReplayWindow_proofs

---------------------------------------------------------------------------
(* The tunnel hub.                                                         *)

Tunnels == [scope : Scopes, idle : Nat, left : Nat, observation : Objects]

Functional(f, D, R) == DOMAIN f \subseteq D /\ \A x \in DOMAIN f : f[x] \in R

TunnelTypeOK ==
    /\ Functional(opening, Slots, Scopes)
    /\ Functional(sessions, Slots, Tunnels)
    /\ Functional(observations, Scopes, Objects)
    /\ age \in [Objects -> Nat]
    /\ polling \in SUBSET [token : Slots, observation : Objects]

(* The limits; the scopes of sessions and of observations are finite sets  *)
(* although Scopes need not be.                                            *)
LimitsInv == IsFiniteSet(DOMAIN observations) /\ HubWithinLimits

(* A live session was touched no longer ago than its observation was.      *)
OwnedInv ==
    /\ ObservationOwned
    /\ \A t \in LiveTokens : age[sessions[t].observation] <= sessions[t].idle

(* A token stands for one tunnel: a request that still polls a tunnel      *)
(* holds the same observation as the session of that token, if any.        *)
TokenInv ==
    /\ \A p, q \in polling : p.token = q.token => p = q
    /\ \A p \in polling : p.token \in DOMAIN sessions =>
                             sessions[p.token].observation = p.observation
    /\ \A o \in DOMAIN opening : o \notin DOMAIN sessions
                                 /\ \A p \in polling : p.token # o

TunnelInv == TunnelTypeOK /\ LimitsInv /\ OwnedInv /\ TokenInv

LEMMA MinMaxOfTwo ==
    ASSUME NEW a \in Int, NEW b \in Int
    PROVE  /\ Min({a, b}) = IF a <= b THEN a ELSE b
           /\ Max({a, b}) = IF a <= b THEN b ELSE a
<1>1. \E x \in {a, b} : \A y \in {a, b} : x <= y
  OBVIOUS
<1>2. \E x \in {a, b} : \A y \in {a, b} : x >= y
  OBVIOUS
<1>3. /\ Min({a, b}) \in {a, b} /\ \A y \in {a, b} : Min({a, b}) <= y
  BY <1>1, Zenon DEF Min
<1>4. /\ Max({a, b}) \in {a, b} /\ \A y \in {a, b} : Max({a, b}) >= y
  BY <1>2, Zenon DEF Max
<1> QED
  BY <1>3, <1>4

(* There is an object for a new observation: the entries hold at most      *)
(* Maximum, and each token at most one more.                               *)
LEMMA ObjectIsFree ==
    ASSUME TunnelInv
    PROVE  \E x : x \in Unused
<1> DEFINE A == {observations[s] : s \in DOMAIN observations}
           H == {sessions[t].observation : t \in DOMAIN sessions}
                \cup {p.observation : p \in polling}
           Holds(t, x) == \/ t \in DOMAIN sessions /\ sessions[t].observation = x
                          \/ \E p \in polling : p.token = t /\ p.observation = x
           holder == [x \in H |-> CHOOSE t \in Slots : Holds(t, x)]
<1>1. IsFiniteSet(A) /\ Cardinality(A) <= Cardinality(DOMAIN observations)
  <2> DEFINE f == [s \in DOMAIN observations |-> observations[s]]
  <2>1. f \in Surjection(DOMAIN observations, A)
    BY DEF Surjection
  <2> HIDE DEF f
  <2> QED
    BY <2>1, FS_Surjection DEF TunnelInv, LimitsInv
<1>2. \A x \in H : holder[x] \in Slots /\ Holds(holder[x], x)
  <2> TAKE x \in H
  <2>1. \E t \in Slots : Holds(t, x)
    BY DEF TunnelInv, TunnelTypeOK, Functional
  <2> QED
    BY <2>1
<1>3. \A t, x, y : Holds(t, x) /\ Holds(t, y) => x = y
  BY DEF TunnelInv, TokenInv
<1> HIDE DEF holder
<1>4. holder \in Injection(H, Slots)
  <2>1. holder \in [H -> Slots]
    BY <1>2 DEF holder
  <2>2. \A x, y \in H : holder[x] = holder[y] => x = y
    <3> SUFFICES ASSUME NEW x \in H, NEW y \in H, holder[x] = holder[y] PROVE x = y
      OBVIOUS
    <3>1. Holds(holder[x], x) /\ Holds(holder[x], y)
      BY <1>2
    <3> HIDE DEF Holds
    <3> QED
      BY <3>1, <1>3
  <2> HIDE DEF H
  <2> QED
    BY <2>1, <2>2 DEF Injection, IsInjective
<1>5. IsFiniteSet(H) /\ Cardinality(H) <= Cardinality(Slots)
  BY <1>4, FS_Injection, TunnelAssumption
<1>6. /\ IsFiniteSet(A \cup H) 
      /\ Cardinality(A \cup H) <= Cardinality(A) + Cardinality(H)
  <2>1. IsFiniteSet(A \cap H)
    BY <1>1, FS_Subset
  <2> HIDE DEF A, H
  <2>2. Cardinality(A) \in Nat /\ Cardinality(H) \in Nat /\ Cardinality(A \cap H) \in Nat
    BY <2>1, <1>1, <1>5, FS_CardinalityType
  <2>3. /\ IsFiniteSet(A \cup H)
        /\ Cardinality(A \cup H) = Cardinality(A) + Cardinality(H) - Cardinality(A \cap H)
    BY <1>1, <1>5, FS_Union
  <2> QED
    BY <2>2, <2>3
<1>7. A \cup H \subseteq Objects
  BY DEF TunnelInv, TunnelTypeOK, Functional, Tunnels
<1>8. Cardinality(A \cup H) < Cardinality(Objects)
  <2>1. Cardinality(DOMAIN observations) <= Maximum
    BY DEF TunnelInv, LimitsInv, HubWithinLimits
  <2>2. /\ Cardinality(DOMAIN observations) \in Nat
        /\ Cardinality(A) \in Nat /\ Cardinality(H) \in Nat
        /\ Cardinality(A \cup H) \in Nat
    BY <1>1, <1>5, <1>6, FS_CardinalityType DEF TunnelInv, LimitsInv
  <2>3. Cardinality(Slots) \in Nat /\ Cardinality(Objects) \in Nat /\ Maximum \in Nat
        /\ Cardinality(Objects) > Maximum + Cardinality(Slots)
    BY TunnelAssumption, FS_CardinalityType
  <2> HIDE DEF A, H
  <2> QED
    BY <1>1, <1>5, <1>6, <2>1, <2>2, <2>3
<1>9. A \cup H # Objects
  <2> HIDE DEF A, H
  <2>1. Cardinality(Objects) \in Nat
    BY TunnelAssumption, FS_CardinalityType
  <2> QED
    BY <1>8, <2>1
<1>10. Unused = Objects \ (A \cup H)
  BY Zenon DEF Unused
<1> HIDE DEF A, H
<1> QED
  BY <1>7, <1>9, <1>10

(* What the limits and the owners say of the entries that stay.            *)
LEMMA KeptFacts ==
    ASSUME TunnelInv
    PROVE  /\ IsFiniteSet(DOMAIN sessions) /\ Cardinality(DOMAIN sessions) \in Nat
           /\ IsFiniteSet(LiveTokens) /\ Cardinality(LiveTokens) \in Nat
           /\ LiveTokens \subseteq DOMAIN sessions
           /\ Cardinality(LiveTokens) <= Maximum
           /\ Kept \subseteq DOMAIN observations
           /\ IsFiniteSet(Kept) /\ Cardinality(Kept) \in Nat /\ Cardinality(Kept) <= Maximum
           /\ LiveScopes \subseteq Kept
<1>1. IsFiniteSet(DOMAIN sessions)
  BY FS_Subset, TunnelAssumption DEF TunnelInv, TunnelTypeOK, Functional
<1>2. LiveTokens \subseteq DOMAIN sessions
  BY DEF LiveTokens
<1>3. Kept \subseteq DOMAIN observations
  BY DEF Kept
<1>4. IsFiniteSet(DOMAIN observations) /\ Cardinality(DOMAIN observations) <= Maximum
      /\ Cardinality(DOMAIN sessions) <= Maximum /\ Maximum \in Nat
  BY TunnelAssumption DEF TunnelInv, LimitsInv, HubWithinLimits
<1>5. IsFiniteSet(LiveTokens) /\ Cardinality(LiveTokens) <= Cardinality(DOMAIN sessions)
  BY <1>1, <1>2, FS_Subset
<1>6. IsFiniteSet(Kept) /\ Cardinality(Kept) <= Cardinality(DOMAIN observations)
  BY <1>3, <1>4, FS_Subset
<1>7. /\ Cardinality(DOMAIN sessions) \in Nat /\ Cardinality(DOMAIN observations) \in Nat
      /\ Cardinality(LiveTokens) \in Nat /\ Cardinality(Kept) \in Nat
  BY <1>1, <1>4, <1>5, <1>6, FS_CardinalityType
<1>8. ASSUME NEW t \in LiveTokens PROVE sessions[t].scope \in Kept
  <2>1. /\ sessions[t] \in Tunnels /\ sessions[t].idle < Idle
        /\ sessions[t].scope \in DOMAIN observations
        /\ observations[sessions[t].scope] = sessions[t].observation
        /\ age[sessions[t].observation] <= sessions[t].idle
    BY DEF TunnelInv, TunnelTypeOK, Functional, OwnedInv, ObservationOwned, LiveTokens, Alive
  <2>2. sessions[t].idle \in Nat /\ age[sessions[t].observation] \in Nat
    BY <2>1 DEF TunnelInv, TunnelTypeOK, Tunnels
  <2> QED
    BY <2>1, <2>2, TunnelAssumption DEF Kept
<1> QED
  BY <1>1, <1>2, <1>3, <1>4, <1>5, <1>6, <1>7, <1>8 DEF LiveScopes

(* Sessions and observations that end, except those of live sessions.      *)
LEMMA EndingPreserves ==
    ASSUME TunnelInv, NEW T \in SUBSET DOMAIN sessions,
           sessions' = Restrict(sessions, T),
           observations' \in {observations, Restrict(observations, Kept)},
           age' = age, polling' = polling,
           Functional(opening', Slots, Scopes),
           \A o \in DOMAIN opening' : /\ o \notin DOMAIN sessions
                                      /\ \A p \in polling : p.token # o
    PROVE  TunnelInv'
<1>1. DOMAIN sessions' = T /\ \A t \in T : sessions'[t] = sessions[t]
  BY DEF Restrict
<1>2. /\ Kept \subseteq DOMAIN observations'
      /\ DOMAIN observations' \subseteq DOMAIN observations
      /\ \A s \in DOMAIN observations' : observations'[s] = observations[s]
  BY DEF Restrict, Kept
<1>3. \A t \in LiveTokens' : t \in LiveTokens /\ t \in T
  BY <1>1 DEF LiveTokens, Alive
<1>4. TunnelTypeOK'
  BY <1>1, <1>2 DEF TunnelInv, TunnelTypeOK, Functional
<1>5. LimitsInv'
  <2>1. Cardinality(T) <= Cardinality(DOMAIN sessions) /\ Cardinality(T) \in Nat
    BY KeptFacts, FS_Subset, FS_CardinalityType
  <2>2. /\ IsFiniteSet(DOMAIN observations') /\ Cardinality(DOMAIN observations') \in Nat
        /\ Cardinality(DOMAIN observations') <= Cardinality(DOMAIN observations)
    BY <1>2, FS_Subset, FS_CardinalityType DEF TunnelInv, LimitsInv
  <2>3. Cardinality(DOMAIN observations) \in Nat /\ Cardinality(DOMAIN sessions) \in Nat
        /\ Maximum \in Nat
    BY FS_CardinalityType, KeptFacts, TunnelAssumption DEF TunnelInv, LimitsInv
  <2> QED
    BY <1>1, <2>1, <2>2, <2>3 DEF TunnelInv, LimitsInv, HubWithinLimits
<1>6. OwnedInv'
  <2> SUFFICES ASSUME NEW t \in LiveTokens'
               PROVE  /\ sessions'[t].scope \in DOMAIN observations'
                      /\ observations'[sessions'[t].scope] = sessions'[t].observation
                      /\ age'[sessions'[t].observation] <= sessions'[t].idle
    BY DEF OwnedInv, ObservationOwned
  <2>1. t \in LiveTokens /\ sessions'[t] = sessions[t]
    BY <1>1, <1>3
  <2>2. sessions[t].scope \in Kept
    BY <2>1, KeptFacts DEF LiveScopes
  <2> QED
    BY <1>2, <2>1, <2>2 DEF TunnelInv, OwnedInv, ObservationOwned
<1>7. TokenInv'
  BY <1>1 DEF TunnelInv, TokenInv
<1> QED
  BY <1>4, <1>5, <1>6, <1>7 DEF TunnelInv

(* A live session is used: its clock and that of its observation restart.  *)
LEMMA TouchPreserves ==
    ASSUME TunnelInv, NEW t \in LiveTokens, Touched(t),
           opening' = opening, observations' = observations,
           \/ polling' = polling
           \/ /\ t \notin {p.token : p \in polling}
              /\ polling' = polling \cup {[token |-> t, observation |-> sessions[t].observation]}
    PROVE  TunnelInv'
<1>1. t \in DOMAIN sessions /\ t \in Slots /\ sessions[t] \in Tunnels
  BY DEF TunnelInv, TunnelTypeOK, Functional, LiveTokens
<1>2. /\ DOMAIN sessions' = DOMAIN sessions
      /\ \A u \in DOMAIN sessions : u # t => sessions'[u] = sessions[u]
      /\ sessions'[t] = [sessions[t] EXCEPT !.idle = 0]
  BY <1>1 DEF Touched
<1>3. /\ sessions'[t] \in Tunnels /\ sessions'[t].scope = sessions[t].scope
      /\ sessions'[t].idle = 0 /\ sessions'[t].observation = sessions[t].observation
      /\ sessions'[t].left = sessions[t].left
  BY <1>1, <1>2 DEF Tunnels
<1>4. /\ age' \in [Objects -> Nat] /\ age'[sessions[t].observation] = 0
      /\ \A x \in Objects : age'[x] = age[x] \/ age'[x] = 0
  BY <1>1 DEF Touched, TunnelInv, TunnelTypeOK, Tunnels
<1>5. \A u \in LiveTokens' : u \in LiveTokens
  BY <1>2, <1>3 DEF LiveTokens, Alive
<1>6. TunnelTypeOK'
  <2>1. polling' \in SUBSET [token : Slots, observation : Objects]
    BY <1>1 DEF TunnelInv, TunnelTypeOK, Tunnels
  <2> QED
    BY <1>2, <1>3, <1>4, <2>1 DEF TunnelInv, TunnelTypeOK, Functional
<1>7. LimitsInv'
  BY <1>2, <1>3 DEF TunnelInv, LimitsInv, HubWithinLimits
<1>8. OwnedInv'
  <2> SUFFICES ASSUME NEW u \in LiveTokens'
               PROVE  /\ sessions'[u].scope \in DOMAIN observations'
                      /\ observations'[sessions'[u].scope] = sessions'[u].observation
                      /\ age'[sessions'[u].observation] <= sessions'[u].idle
    BY DEF OwnedInv, ObservationOwned
  <2>1. u \in LiveTokens /\ u \in DOMAIN sessions
    BY <1>5 DEF LiveTokens
  <2>2. sessions[u] \in Tunnels /\ sessions[u].idle \in Nat /\ sessions[u].observation \in Objects
    BY <2>1 DEF TunnelInv, TunnelTypeOK, Functional, Tunnels
  <2>3. /\ sessions[u].scope \in DOMAIN observations
        /\ observations[sessions[u].scope] = sessions[u].observation
        /\ age[sessions[u].observation] <= sessions[u].idle
    BY <2>1 DEF TunnelInv, OwnedInv, ObservationOwned
  <2>4. CASE u = t
    BY <1>3, <1>4, <2>3, <2>4
  <2>5. CASE u # t
    <3>1. sessions'[u] = sessions[u]
      BY <1>2, <2>1, <2>5
    <3> QED
      BY <1>4, <2>2, <2>3, <3>1
  <2> QED
    BY <2>4, <2>5
<1>9. TokenInv'
  <2>1. \A u \in DOMAIN sessions : sessions'[u].observation = sessions[u].observation
    BY <1>2, <1>3
  <2>2. \A p \in polling' : \/ p \in polling
                            \/ /\ p.token = t /\ p.observation = sessions[t].observation
                               /\ t \notin {q.token : q \in polling}
                               /\ p = [token |-> t, observation |-> sessions[t].observation]
    OBVIOUS
  <2> QED
    BY <1>1, <1>2, <2>1, <2>2 DEF TunnelInv, TokenInv
<1> QED
  BY <1>6, <1>7, <1>8, <1>9 DEF TunnelInv

LEMMA ReceiveEndPreserves ==
    ASSUME TunnelInv, NEW p \in polling, ReceiveEnds(p)
    PROVE  TunnelInv'
<1>1. /\ polling' \subseteq polling
      /\ UNCHANGED <<opening, sessions, observations>>
      /\ p.observation \in Objects
  BY DEF ReceiveEnds, TunnelInv, TunnelTypeOK
<1>2. /\ age' \in [Objects -> Nat] /\ \A x \in Objects : age'[x] = age[x] \/ age'[x] = 0
  BY <1>1 DEF ReceiveEnds, TunnelInv, TunnelTypeOK
<1>3. LiveTokens' = LiveTokens
  BY <1>1 DEF LiveTokens, Alive
<1>4. TunnelTypeOK'
  BY <1>1, <1>2 DEF TunnelInv, TunnelTypeOK, Functional
<1>5. LimitsInv'
  BY <1>1 DEF TunnelInv, LimitsInv, HubWithinLimits
<1>6. OwnedInv'
  <2> SUFFICES ASSUME NEW u \in LiveTokens
               PROVE  /\ sessions[u].scope \in DOMAIN observations
                      /\ observations[sessions[u].scope] = sessions[u].observation
                      /\ age'[sessions[u].observation] <= sessions[u].idle
    BY <1>1, <1>3 DEF OwnedInv, ObservationOwned
  <2>1. sessions[u].idle \in Nat /\ sessions[u].observation \in Objects
    BY DEF TunnelInv, TunnelTypeOK, Functional, Tunnels, LiveTokens
  <2> QED
    BY <1>2, <2>1 DEF TunnelInv, OwnedInv, ObservationOwned
<1>7. TokenInv'
  BY <1>1 DEF TunnelInv, TokenInv
<1> QED
  BY <1>4, <1>5, <1>6, <1>7 DEF TunnelInv

(* A tick makes no session younger than its observation.                   *)
LEMMA TunnelTickPreserves ==
    ASSUME TunnelInv, TunnelTick
    PROVE  TunnelInv'
<1>1. UNCHANGED <<opening, observations, polling>> /\ DOMAIN sessions' = DOMAIN sessions
  BY DEF TunnelTick
<1>2. ASSUME NEW t \in DOMAIN sessions
      PROVE  LET s == sessions[t]
             IN  /\ s \in Tunnels
                 /\ sessions'[t] \in Tunnels /\ sessions'[t].scope = s.scope
                 /\ sessions'[t].observation = s.observation
                 /\ sessions'[t].idle = IF s.idle + 1 <= Idle THEN s.idle + 1 ELSE Idle
                 /\ sessions'[t].left = IF s.left - 1 <= 0 THEN 0 ELSE s.left - 1
  <2> DEFINE s == sessions[t]
  <2>1. s \in Tunnels
    BY DEF TunnelInv, TunnelTypeOK, Functional
  <2>2. s.idle \in Nat /\ s.left \in Nat /\ Idle \in Nat
    BY <2>1, TunnelAssumption DEF Tunnels
  <2>3. /\ Min({s.idle + 1, Idle}) = IF s.idle + 1 <= Idle THEN s.idle + 1 ELSE Idle
        /\ Max({s.left - 1, 0}) = IF s.left - 1 <= 0 THEN 0 ELSE s.left - 1
    <3>1. s.idle + 1 \in Int /\ s.left - 1 \in Int /\ Idle \in Int /\ 0 \in Int
      BY <2>2
    <3> HIDE DEF s
    <3>2. Min({s.idle + 1, Idle}) = IF s.idle + 1 <= Idle THEN s.idle + 1 ELSE Idle
      BY <3>1, MinMaxOfTwo
    <3>3. Max({s.left - 1, 0}) = IF s.left - 1 <= 0 THEN 0 ELSE s.left - 1
      BY <3>1, MinMaxOfTwo
    <3> QED
      BY <3>2, <3>3
  <2>4. sessions'[t] = [s EXCEPT !.idle = Min({@ + 1, Idle}), !.left = Max({@ - 1, 0})]
    BY DEF TunnelTick
  <2> DEFINE mi == Min({s.idle + 1, Idle})
             ma == Max({s.left - 1, 0})
  <2>5. sessions'[t] = [s EXCEPT !.idle = mi, !.left = ma] /\ mi \in Nat /\ ma \in Nat
    BY <2>2, <2>3, <2>4
  <2> HIDE DEF mi, ma, s
  <2>6. /\ sessions'[t] \in Tunnels /\ sessions'[t].scope = s.scope
        /\ sessions'[t].observation = s.observation
        /\ sessions'[t].idle = mi /\ sessions'[t].left = ma
    BY <2>1, <2>5 DEF Tunnels
  <2> QED
    BY <2>1, <2>3, <2>6 DEF mi, ma, s
<1>3. /\ age' \in [Objects -> Nat]
      /\ \A x \in Objects : age'[x] <= age[x] + 1
  <2>1. ASSUME NEW x \in Objects
        PROVE  Min({age[x] + 1, ObservedFor}) \in Nat /\ Min({age[x] + 1, ObservedFor}) <= age[x] + 1
    BY MinMaxOfTwo, TunnelAssumption DEF TunnelInv, TunnelTypeOK
  <2>2. age' = [x \in Objects |-> IF x \in Unused THEN 0 ELSE Min({age[x] + 1, ObservedFor})]
    BY DEF TunnelTick
  <2>3. \A x \in Objects : age[x] \in Nat
    BY DEF TunnelInv, TunnelTypeOK
  <2>4. \A x \in Objects : age'[x] \in Nat /\ age'[x] <= age[x] + 1
    BY <2>1, <2>2, <2>3
  <2> QED
    BY <2>2, <2>4
<1>4. ASSUME NEW u \in LiveTokens'
      PROVE  u \in LiveTokens /\ u \in DOMAIN sessions /\ sessions'[u].idle = sessions[u].idle + 1
  <2>1. u \in DOMAIN sessions /\ sessions'[u].left > 0 /\ sessions'[u].idle < Idle
    BY <1>1 DEF LiveTokens, Alive
  <2>2. sessions[u].idle \in Nat /\ sessions[u].left \in Nat /\ Idle \in Nat
    BY <2>1, <1>2, TunnelAssumption DEF Tunnels
  <2> QED
    BY <2>1, <2>2, <1>2 DEF LiveTokens, Alive
<1>5. TunnelTypeOK'
  BY <1>1, <1>2, <1>3 DEF TunnelInv, TunnelTypeOK, Functional
<1>6. LimitsInv'
  BY <1>1, <1>2 DEF TunnelInv, LimitsInv, HubWithinLimits
<1>7. OwnedInv'
  <2> SUFFICES ASSUME NEW u \in LiveTokens'
               PROVE  /\ sessions'[u].scope \in DOMAIN observations
                      /\ observations[sessions'[u].scope] = sessions'[u].observation
                      /\ age'[sessions'[u].observation] <= sessions'[u].idle
    BY <1>1 DEF OwnedInv, ObservationOwned
  <2>1. /\ u \in LiveTokens /\ u \in DOMAIN sessions
        /\ sessions'[u].idle = sessions[u].idle + 1
        /\ sessions'[u].scope = sessions[u].scope
        /\ sessions'[u].observation = sessions[u].observation
    BY <1>2, <1>4
  <2>2. /\ sessions[u].idle \in Nat /\ sessions[u].observation \in Objects
        /\ age[sessions[u].observation] \in Nat /\ age'[sessions[u].observation] \in Nat
        /\ age'[sessions[u].observation] <= age[sessions[u].observation] + 1
    BY <1>2, <1>3, <2>1 DEF Tunnels, TunnelInv, TunnelTypeOK
  <2>3. /\ sessions[u].scope \in DOMAIN observations
        /\ observations[sessions[u].scope] = sessions[u].observation
        /\ age[sessions[u].observation] <= sessions[u].idle
    BY <2>1 DEF TunnelInv, OwnedInv, ObservationOwned
  <2> QED
    BY <2>1, <2>2, <2>3
<1>8. TokenInv'
  BY <1>1, <1>2 DEF TunnelInv, TokenInv
<1> QED
  BY <1>5, <1>6, <1>7, <1>8 DEF TunnelInv

(* The commit: the new session replaces the one its scope had, if any, and *)
(* its observation replaces at most one that no live session owns.         *)
LEMMA CommitPreserves ==
    ASSUME TunnelInv, NEW o \in Slots, NEW life \in 1..Lifetime, OpenCommits(o, life)
    PROVE  TunnelInv'
<1> DEFINE scope == opening[o]
<1>1. /\ o \in DOMAIN opening /\ scope \in Scopes
      /\ o \notin DOMAIN sessions /\ \A p \in polling : p.token # o
      /\ polling' = polling /\ HasRoom(scope)
      /\ opening' = Restrict(opening, DOMAIN opening \ {o})
  BY DEF OpenCommits, TunnelInv, TunnelTypeOK, Functional, TokenInv
<1>2. PICK evicted \in Evictions(scope) : Commit(o, scope, life, evicted)
  BY DEF OpenCommits
<1> HIDE DEF scope
<1> DEFINE kept   == Kept \ evicted
           object == IF scope \in kept THEN observations[scope] ELSE CHOOSE x \in Unused : TRUE
           others == {t \in LiveTokens : sessions[t].scope # scope}
           tunnel == [scope |-> scope, idle |-> 0, left |-> life, observation |-> object]
<1>3. /\ observations' = Set(Restrict(observations, kept), scope, object)
      /\ age' = [age EXCEPT ![object] = 0]
      /\ sessions' = Set(Restrict(sessions, others), o, tunnel)
  BY <1>2 DEF Commit
<1>4. /\ evicted = {} \/ evicted \cap LiveScopes = {}
      /\ IsFiniteSet(kept \cup {scope}) /\ Cardinality(kept \cup {scope}) <= Maximum
  <2>1. /\ Kept \subseteq DOMAIN observations
        /\ IsFiniteSet(Kept) /\ Cardinality(Kept) \in Nat
        /\ Cardinality(Kept) <= Maximum /\ Maximum \in Nat
    BY KeptFacts, TunnelAssumption
  <2>2. CASE scope \in Kept \/ Cardinality(Kept) < Maximum
    <3>1. evicted = {} /\ kept = Kept
      BY <2>2, <1>2 DEF Evictions
    <3>2. IsFiniteSet(Kept \cup {scope})
          /\ Cardinality(Kept \cup {scope}) = IF scope \in Kept THEN Cardinality(Kept)
                                             ELSE Cardinality(Kept) + 1
      BY <2>1, FS_AddElement
    <3> QED
      BY <2>1, <2>2, <3>1, <3>2
  <2>3. CASE ~(scope \in Kept \/ Cardinality(Kept) < Maximum)
    <3>1. PICK s \in Oldest(Kept \ LiveScopes) : evicted = {s}
      BY <2>3, <1>2 DEF Evictions
    <3>2. s \in Kept /\ s \notin LiveScopes
      BY DEF Oldest
    <3>3. IsFiniteSet(Kept \ {s}) /\ Cardinality(Kept \ {s}) = Cardinality(Kept) - 1
      BY <2>1, <3>2, FS_RemoveElement
    <3>4. IsFiniteSet((Kept \ {s}) \cup {scope})
          /\ Cardinality((Kept \ {s}) \cup {scope}) = Cardinality(Kept)
      <4>1. scope \notin Kept \ {s}
        BY <2>3
      <4> HIDE DEF scope
      <4>2. Cardinality((Kept \ {s}) \cup {scope}) = Cardinality(Kept \ {s}) + 1
            /\ IsFiniteSet((Kept \ {s}) \cup {scope})
        BY <3>3, <4>1, FS_AddElement
      <4> QED
        BY <2>1, <3>3, <4>2
    <3> QED
      BY <2>1, <3>1, <3>2, <3>4
  <2> QED
    BY <2>2, <2>3
<1>5. object \in Objects /\ (scope \in kept => observations[scope] = object)
  <2>1. ASSUME scope \notin kept PROVE object \in Objects
    <3>1. (CHOOSE x \in Unused : TRUE) \in Unused
      BY ObjectIsFree
    <3> QED
      BY <2>1, <3>1 DEF Unused
  <2>2. ASSUME scope \in kept PROVE object = observations[scope] /\ scope \in DOMAIN observations
    BY <2>2, KeptFacts
  <2> QED
    BY <2>1, <2>2 DEF TunnelInv, TunnelTypeOK, Functional
<1> HIDE DEF object
<1>6. /\ DOMAIN observations' = kept \cup {scope}
      /\ observations'[scope] = object
      /\ \A s \in kept : s # scope => observations'[s] = observations[s]
      /\ kept \subseteq DOMAIN observations
  BY <1>3, KeptFacts DEF Set, Restrict
<1>7. /\ DOMAIN sessions' = others \cup {o}
      /\ sessions'[o] = tunnel
      /\ \A t \in others : t # o /\ sessions'[t] = sessions[t]
      /\ others \subseteq LiveTokens /\ LiveTokens \subseteq DOMAIN sessions
  BY <1>1, <1>3, KeptFacts DEF Set, Restrict
<1>8. /\ tunnel \in Tunnels
      /\ tunnel.scope = scope /\ tunnel.idle = 0 /\ tunnel.observation = object
  BY <1>1, <1>5, TunnelAssumption DEF Tunnels
<1> HIDE DEF tunnel
<1>9. /\ age' \in [Objects -> Nat] /\ age'[object] = 0
      /\ \A x \in Objects : age'[x] = age[x] \/ age'[x] = 0
  BY <1>3, <1>5 DEF TunnelInv, TunnelTypeOK
<1>10. TunnelTypeOK'
  <2>1. Functional(opening', Slots, Scopes)
    BY <1>1 DEF TunnelInv, TunnelTypeOK, Functional, Restrict
  <2>2. Functional(sessions', Slots, Tunnels)
    BY <1>7, <1>8 DEF TunnelInv, TunnelTypeOK, Functional
  <2>3. Functional(observations', Scopes, Objects)
    <3>1. \A s \in kept : s \in Scopes /\ observations[s] \in Objects
      BY <1>6 DEF TunnelInv, TunnelTypeOK, Functional
    <3> HIDE DEF kept
    <3> QED
      BY <1>1, <1>5, <1>6, <3>1 DEF Functional
  <2> QED
    BY <1>1, <1>9, <2>1, <2>2, <2>3 DEF TunnelInv, TunnelTypeOK
<1>11. LimitsInv'
  <2>1. IsFiniteSet(others) /\ Cardinality(others) \in Nat /\ Cardinality(others) < Maximum
    <3>1. /\ IsFiniteSet(LiveTokens) /\ Cardinality(LiveTokens) \in Nat
          /\ Cardinality(LiveTokens) <= Maximum /\ Maximum \in Nat
      BY KeptFacts, TunnelAssumption
    <3>2. /\ IsFiniteSet(others) /\ Cardinality(others) <= Cardinality(LiveTokens)
          /\ Cardinality(LiveTokens) = Cardinality(others) => LiveTokens = others
          /\ Cardinality(others) \in Nat
      BY <1>7, <3>1, FS_Subset, FS_CardinalityType
    <3>3. scope \in LiveScopes => LiveTokens # others
      BY DEF LiveScopes
    <3> HIDE DEF others
    <3> QED
      BY <1>1, <3>1, <3>2, <3>3 DEF HasRoom
  <2>2. Cardinality(others \cup {o}) <= Maximum
    <3>1. Cardinality(others \cup {o}) \in {Cardinality(others), Cardinality(others) + 1}
      BY <2>1, FS_AddElement
    <3> QED
      BY <2>1, <3>1, TunnelAssumption
  <2>3. \A t, u \in DOMAIN sessions' : sessions'[t].scope = sessions'[u].scope => t = u
    <3>1. \A t \in others : sessions'[t].scope # scope
      BY <1>7
    <3>2. \A t, u \in others : sessions'[t].scope = sessions'[u].scope => t = u
      BY <1>7 DEF TunnelInv, LimitsInv, HubWithinLimits
    <3> HIDE DEF others
    <3> QED
      BY <1>7, <1>8, <3>1, <3>2
  <2> QED
    BY <1>4, <1>6, <1>7, <2>2, <2>3 DEF LimitsInv, HubWithinLimits
<1>12. OwnedInv'
  <2> SUFFICES ASSUME NEW u \in LiveTokens'
               PROVE  /\ sessions'[u].scope \in DOMAIN observations'
                      /\ observations'[sessions'[u].scope] = sessions'[u].observation
                      /\ age'[sessions'[u].observation] <= sessions'[u].idle
    BY DEF OwnedInv, ObservationOwned
  <2>1. u \in DOMAIN sessions'
    BY DEF LiveTokens
  <2>2. CASE u = o
    BY <1>6, <1>7, <1>8, <1>9, <2>2
  <2>3. CASE u \in others
    <3>1. /\ sessions'[u] = sessions[u] /\ u \in LiveTokens /\ sessions[u].scope # scope
          /\ sessions[u].idle \in Nat /\ sessions[u].observation \in Objects
      BY <1>7, <2>3 DEF TunnelInv, TunnelTypeOK, Functional, Tunnels
    <3>2. /\ observations[sessions[u].scope] = sessions[u].observation
          /\ age[sessions[u].observation] <= sessions[u].idle
      BY <3>1 DEF TunnelInv, OwnedInv, ObservationOwned
    <3>3. sessions[u].scope \in LiveScopes /\ sessions[u].scope \in Kept
      BY <3>1, KeptFacts DEF LiveScopes
    <3>4. sessions[u].scope \in kept
      BY <1>4, <3>3
    <3> HIDE DEF kept, others
    <3> QED
      BY <1>6, <1>9, <3>1, <3>2, <3>4
  <2> QED
    BY <1>7, <2>1, <2>2, <2>3
<1>13. TokenInv'
  <2>1. \A x \in DOMAIN opening' : x \in DOMAIN opening /\ x # o
    BY <1>1 DEF Restrict
  <2>2. \A p \in polling : p.token \in DOMAIN sessions' =>
            p.token \in DOMAIN sessions /\ sessions'[p.token] = sessions[p.token]
    BY <1>1, <1>7
  <2>3. DOMAIN sessions' \subseteq DOMAIN sessions \cup {o}
    BY <1>7
  <2> HIDE DEF others, kept
  <2> QED
    BY <1>1, <2>1, <2>2, <2>3 DEF TunnelInv, TokenInv
<1> QED
  BY <1>10, <1>11, <1>12, <1>13 DEF TunnelInv

LEMMA TunnelInitially == TunnelInit => TunnelInv
<1> SUFFICES ASSUME TunnelInit PROVE TunnelInv
  OBVIOUS
<1>1. DOMAIN opening = {} /\ DOMAIN sessions = {} /\ DOMAIN observations = {} /\ polling = {}
  BY DEF TunnelInit
<1>2. TunnelTypeOK
  BY <1>1 DEF TunnelInit, TunnelTypeOK, Functional
<1>3. LimitsInv
  BY <1>1, FS_EmptySet, TunnelAssumption DEF LimitsInv, HubWithinLimits
<1> QED
  BY <1>1, <1>2, <1>3 DEF TunnelInv, OwnedInv, ObservationOwned, TokenInv, LiveTokens

LEMMA TunnelStep == TunnelInv /\ [TunnelNext]_tunnelVars => TunnelInv'
<1> SUFFICES ASSUME TunnelInv, [TunnelNext]_tunnelVars PROVE TunnelInv'
  OBVIOUS
<1>0. LiveTokens \subseteq DOMAIN sessions
  BY DEF LiveTokens
<1>1. ASSUME NEW o \in Slots, NEW s \in Scopes, OpenStarts(o, s) PROVE TunnelInv'
  <2>1. Functional(opening', Slots, Scopes)
    BY <1>1 DEF OpenStarts, Set, TunnelInv, TunnelTypeOK, Functional
  <2>2. \A x \in DOMAIN opening' : x \notin DOMAIN sessions /\ \A p \in polling : p.token # x
    BY <1>1 DEF OpenStarts, Set, FreeSlot, TunnelInv, TokenInv
  <2> QED
    BY <1>0, <1>1, <2>1, <2>2, EndingPreserves DEF OpenStarts
<1>2. ASSUME NEW o \in Slots, OpenFails(o) PROVE TunnelInv'
  <2>1. /\ UNCHANGED <<sessions, observations, age, polling>>
        /\ DOMAIN opening' \subseteq DOMAIN opening
        /\ \A x \in DOMAIN opening' : opening'[x] = opening[x]
    BY <1>2 DEF OpenFails, Restrict
  <2> QED
    BY <2>1 DEF TunnelInv, TunnelTypeOK, Functional, LimitsInv, HubWithinLimits, OwnedInv,
                ObservationOwned, LiveTokens, Alive, TokenInv
<1>3. ASSUME NEW o \in Slots, OpenRefused(o) PROVE TunnelInv'
  <2>1. /\ Functional(opening', Slots, Scopes) /\ DOMAIN opening' \subseteq DOMAIN opening
        /\ sessions' = Restrict(sessions, LiveTokens)
        /\ observations' \in {observations, Restrict(observations, Kept)}
        /\ age' = age /\ polling' = polling
    BY <1>3 DEF OpenRefused, Restrict, TunnelInv, TunnelTypeOK, Functional
  <2>2. \A x \in DOMAIN opening' : x \notin DOMAIN sessions /\ \A p \in polling : p.token # x
    BY <2>1 DEF TunnelInv, TokenInv
  <2> QED
    BY <1>0, <2>1, <2>2, EndingPreserves
<1>4. ASSUME NEW t \in Slots, SessionExpired(t) \/ Close(t) PROVE TunnelInv'
  <2>1. /\ sessions' = Restrict(sessions, DOMAIN sessions \ {t})
        /\ UNCHANGED <<opening, observations, age, polling>>
    BY <1>4 DEF SessionExpired, Close
  <2>2. \A x \in DOMAIN opening' : x \notin DOMAIN sessions /\ \A p \in polling : p.token # x
    BY <2>1 DEF TunnelInv, TokenInv
  <2>3. Functional(opening', Slots, Scopes)
    BY <2>1 DEF TunnelInv, TunnelTypeOK
  <2> QED
    BY <2>1, <2>2, <2>3, EndingPreserves
<1>5. ASSUME NEW t \in Slots, Touch(t) \/ ReceiveStarts(t) PROVE TunnelInv'
  BY <1>5, TouchPreserves DEF Touch, ReceiveStarts, Touched
<1>6. CASE UNCHANGED tunnelVars
  BY <1>6 DEF tunnelVars, TunnelInv, TunnelTypeOK, Functional, LimitsInv, HubWithinLimits,
              OwnedInv, ObservationOwned, LiveTokens, Alive, TokenInv
<1> QED
  BY <1>1, <1>2, <1>3, <1>4, <1>5, <1>6, CommitPreserves, ReceiveEndPreserves,
     TunnelTickPreserves DEF TunnelNext

(* TunnelHub::open counts the sessions before it asks the backend and      *)
(* again under the lock of its commit: for any number of requests that     *)
(* open at the same time the hub never holds more sessions or observations *)
(* than the maximum, nor two sessions of a scope.                          *)
THEOREM HubStaysWithinLimits == TunnelSpec => []HubWithinLimits
<1>1. TunnelInv => HubWithinLimits
  BY DEF TunnelInv, LimitsInv
<1> QED
  BY <1>1, TunnelInitially, TunnelStep, PTL DEF TunnelSpec

(* TunnelHub::open keeps the entry of a live session whatever else it      *)
(* drops by age or for room: a session never loses the observation it      *)
(* updates.                                                                *)
THEOREM SessionsOwnTheirObservations == TunnelSpec => []ObservationOwned
<1>1. TunnelInv => ObservationOwned
  BY DEF TunnelInv, OwnedInv
<1> QED
  BY <1>1, TunnelInitially, TunnelStep, PTL DEF TunnelSpec

---------------------------------------------------------------------------
(* The replay cache.                                                       *)

(* Every remembered key has a window that is exact for what was accepted   *)
(* since the key was inserted, and a forgotten key starts anew.            *)
WindowInv ==
    /\ IsCache(cache) /\ Keys(cache) \subseteq ReplayKeys
    /\ DOMAIN accepted = ReplayKeys
    /\ \A k \in Keys(cache) : Exact(cache.sequences[k], accepted[k])
    /\ \A k \in ReplayKeys \ Keys(cache) : accepted[k] = {}

LEMMA ObserveKeepsWindows ==
    ASSUME WindowInv, NEW k \in ReplayKeys, NEW n \in Numbers, ObserveSequence(k, n)
    PROVE  WindowInv'
<1> DEFINE history == [accepted EXCEPT ![k] = @ \cup {n}]
<1>1. /\ Accepts(cache, k, n) /\ cache' = Observe(cache, k, n)
      /\ accepted' = [x \in ReplayKeys |-> IF x \in Keys(cache') THEN history[x] ELSE {}]
  BY DEF ObserveSequence, Remember
<1>2. n \in Nat
  BY SequenceAssumption DEF Numbers
<1>3. /\ IsCache(cache') /\ Keys(cache') \subseteq Keys(cache) \cup {k}
      /\ \A x \in Keys(cache') : cache'.sequences[x] =
            IF x = k THEN NextWindow(cache, k, n) ELSE cache.sequences[x]
  BY <1>1, ObserveWindows DEF WindowInv
<1>4. Exact(NextWindow(cache, k, n), history[k])
  BY <1>1, <1>2, NextWindowExact DEF WindowInv
<1>5. ASSUME NEW x \in Keys(cache')
      PROVE  Exact(cache'.sequences[x], accepted'[x])
  <2>1. x \in ReplayKeys
    BY <1>3 DEF WindowInv
  <2>2. CASE x = k
    BY <1>1, <1>3, <1>4, <2>1, <2>2
  <2>3. CASE x # k
    <3>1. x \in Keys(cache) /\ cache'.sequences[x] = cache.sequences[x]
          /\ accepted'[x] = accepted[x]
      BY <1>1, <1>3, <2>1, <2>3 DEF WindowInv
    <3> QED
      BY <3>1 DEF WindowInv
  <2> QED
    BY <2>2, <2>3
<1> QED
  BY <1>1, <1>3, <1>5 DEF WindowInv

LEMMA DropKeepsWindows ==
    ASSUME WindowInv, NEW es, DropEpochs(es)
    PROVE  WindowInv'
<1>1. /\ IsCache(cache') /\ Keys(cache') \subseteq Keys(cache)
      /\ \A x \in Keys(cache') : cache'.sequences[x] = cache.sequences[x]
  BY RetainWindows DEF WindowInv, DropEpochs
<1>2. accepted' = [x \in ReplayKeys |-> IF x \in Keys(cache') THEN accepted[x] ELSE {}]
  BY DEF DropEpochs, Remember
<1>3. \A x \in Keys(cache') : accepted'[x] = accepted[x]
  BY <1>1, <1>2 DEF WindowInv
<1> QED
  BY <1>1, <1>2, <1>3 DEF WindowInv

(* ReplaySequenceWindow is an exact record of the last WindowBits          *)
(* sequences, whatever the number and the width of its words: bits that    *)
(* shift_older pushes out of a word arrive in the next.                    *)
THEOREM WindowsAreExact == Spec => []WindowExact
<1>1. Init => WindowInv
  BY DEF Init, WindowInv, EmptyCache, IsCache, Keys
<1>2. WindowInv /\ [Next]_vars => WindowInv'
  BY ObserveKeepsWindows, DropKeepsWindows DEF Next, vars, WindowInv
<1>3. WindowInv => WindowExact
  BY DEF WindowInv, WindowExact, Exact
<1> QED
  BY <1>1, <1>2, <1>3, PTL DEF Spec

(* The queue tracks the keys; the cache and the queue are bounded.         *)
CacheInv == WindowInv /\ Sound(cache, ReplayKeys) /\ Bounded(cache)

LEMMA CacheInitially == Init => CacheInv
<1> SUFFICES ASSUME Init PROVE CacheInv
  OBVIOUS
<1>1. Sound(cache, ReplayKeys) /\ Bounded(cache) /\ Keys(cache) = {}
  BY EmptySound DEF Init
<1>2. WindowInv
  BY <1>1 DEF Init, WindowInv, Sound
<1> QED
  BY <1>1, <1>2 DEF CacheInv

LEMMA CacheStep == CacheInv /\ [Next]_vars => CacheInv'
<1> SUFFICES ASSUME CacheInv, [Next]_vars PROVE CacheInv'
  OBVIOUS
<1>1. ASSUME NEW k \in ReplayKeys, NEW n \in Numbers, ObserveSequence(k, n)
      PROVE  CacheInv'
  <2>1. WindowInv'
    BY <1>1, ObserveKeepsWindows DEF CacheInv
  <2>2. n \in Nat
    BY SequenceAssumption DEF Numbers
  <2>3. Accepts(cache, k, n) /\ cache' = Observe(cache, k, n)
    BY <1>1 DEF ObserveSequence
  <2>4. k \in Keys(cache) => cache.sequences[k] \in WindowRecord
    BY DEF CacheInv, WindowInv, Exact
  <2>5. Sound(Observe(cache, k, n), ReplayKeys) /\ Bounded(Observe(cache, k, n))
    BY <2>2, <2>3, <2>4, ObserveSound DEF CacheInv
  <2> QED
    BY <2>1, <2>3, <2>5 DEF CacheInv
<1>2. ASSUME NEW es, DropEpochs(es)
      PROVE  CacheInv'
  <2>1. WindowInv'
    BY <1>2, DropKeepsWindows DEF CacheInv
  <2>2. cache' = RetainEpochs(cache, es)
    BY <1>2 DEF DropEpochs
  <2>3. Sound(RetainEpochs(cache, es), ReplayKeys) /\ Bounded(RetainEpochs(cache, es))
    BY RetainSound DEF CacheInv
  <2> QED
    BY <2>1, <2>2, <2>3 DEF CacheInv
<1>3. CASE UNCHANGED vars
  BY <1>3 DEF vars, CacheInv, WindowInv
<1> QED
  BY <1>1, <1>2, <1>3 DEF Next

(* The observations in the queue that are current for a key are one.       *)
LEMMA OneCurrent ==
    ASSUME NEW K, NEW q, NEW h, Tracked(q, h, K, DOMAIN h), NEW k \in DOMAIN h
    PROVE  Cardinality({j \in DOMAIN q : q[j] = <<k, h[k]>>}) = 1
<1> DEFINE S == {j \in DOMAIN q : q[j] = <<k, h[k]>>}
<1>1. PICK i \in DOMAIN q : q[i] = <<k, h[k]>>
  BY DEF Tracked, Covers
<1>2. \A j \in DOMAIN q : q[j] = <<k, h[k]>> => j = i
  BY <1>1, CurrentOnce DEF Tracked
<1>3. S = {i}
  BY <1>1, <1>2
<1> HIDE DEF S
<1>4. Cardinality(S) = 1
  BY <1>3, FS_Singleton
<1> QED
  BY <1>4 DEF S

(* The lazily cleaned queue of the replay window never loses a key and     *)
(* never grows beyond twice the capacity, for any capacity and any keys.   *)
THEOREM RecencyFollowsKeys == Spec => []RecencyTracksKeys
<1>1. ASSUME CacheInv
      PROVE  RecencyTracksKeys
  <2> DEFINE q == cache.recency
             h == Heights(cache)
  <2>1. DOMAIN h = Keys(cache) /\ \A k \in Keys(cache) : h[k] = cache.sequences[k].highest
    BY HeightsFacts
  <2>2. Tracked(q, h, ReplayKeys, DOMAIN h)
    BY <1>1, <2>1 DEF CacheInv, Sound
  <2>3. ASSUME NEW k \in Keys(cache)
        PROVE  Cardinality({j \in DOMAIN cache.recency :
                          cache.recency[j] = <<k, cache.sequences[k].highest>>}) = 1
    <3> HIDE DEF h
    <3>1. Cardinality({j \in DOMAIN q : q[j] = <<k, h[k]>>}) = 1
      BY <2>1, <2>2, OneCurrent
    <3>2. h[k] = cache.sequences[k].highest
      BY <2>1
    <3> QED
      BY <3>1, <3>2
  <2>4. \A j \in DOMAIN cache.recency : cache.recency[j][1] \in Keys(cache)
    BY <2>1, <2>2 DEF Tracked, Below
  <2> QED
    BY <1>1, <2>3, <2>4 DEF RecencyTracksKeys, CacheInv, Bounded
<1> QED
  BY <1>1, CacheInitially, CacheStep, PTL DEF Spec

(* The highest sequence of a window was accepted.                          *)
HighestInv == \A k \in Keys(cache) : cache.sequences[k].highest \in accepted[k]

LEMMA HighestStep ==
    ASSUME CacheInv, HighestInv, [Next]_vars
    PROVE  HighestInv'
<1>1. ASSUME NEW k \in ReplayKeys, NEW n \in Numbers, ObserveSequence(k, n)
      PROVE  HighestInv'
  <2> DEFINE history == [accepted EXCEPT ![k] = @ \cup {n}]
  <2>1. /\ Accepts(cache, k, n) /\ cache' = Observe(cache, k, n) /\ n \in Nat
        /\ accepted' = [x \in ReplayKeys |-> IF x \in Keys(cache') THEN history[x] ELSE {}]
    BY <1>1, SequenceAssumption DEF ObserveSequence, Remember, Numbers
  <2>2. /\ Keys(cache') \subseteq Keys(cache) \cup {k}
        /\ \A x \in Keys(cache') : cache'.sequences[x] =
              IF x = k THEN NextWindow(cache, k, n) ELSE cache.sequences[x]
    BY <2>1, ObserveWindows DEF CacheInv, WindowInv
  <2>3. NextWindow(cache, k, n).highest =
           IF Advances(cache, k, n) THEN n ELSE cache.sequences[k].highest
    <3>1. k \in Keys(cache) => cache.sequences[k] \in WindowRecord
      BY DEF CacheInv, WindowInv, Exact
    <3> QED
      BY <2>1, <3>1, NextHighest
  <2>4. DOMAIN accepted = ReplayKeys /\ Keys(cache) \subseteq ReplayKeys
    BY DEF CacheInv, WindowInv
  <2> SUFFICES ASSUME NEW x \in Keys(cache')
               PROVE  cache'.sequences[x].highest \in accepted'[x]
    BY DEF HighestInv
  <2>5. CASE x = k
    <3>1. accepted'[x] = accepted[k] \cup {n}
      BY <2>1, <2>4, <2>5
    <3>2. ~Advances(cache, k, n) => k \in Keys(cache)
      BY DEF Advances
    <3> QED
      BY <2>2, <2>3, <2>5, <3>1, <3>2 DEF HighestInv
  <2>6. CASE x # k
    BY <2>1, <2>2, <2>4, <2>6 DEF HighestInv
  <2> QED
    BY <2>5, <2>6
<1>2. ASSUME NEW es, DropEpochs(es)
      PROVE  HighestInv'
  <2>1. /\ Keys(cache') \subseteq Keys(cache)
        /\ \A x \in Keys(cache') : cache'.sequences[x] = cache.sequences[x]
    BY <1>2, RetainWindows DEF CacheInv, WindowInv, DropEpochs
  <2>2. accepted' = [x \in ReplayKeys |-> IF x \in Keys(cache') THEN accepted[x] ELSE {}]
    BY <1>2 DEF DropEpochs, Remember
  <2> QED
    BY <2>1, <2>2 DEF HighestInv, CacheInv, WindowInv
<1>3. CASE UNCHANGED vars
  BY <1>3 DEF vars, HighestInv
<1> QED
  BY <1>1, <1>2, <1>3 DEF Next

(* The operators of ReplayCache under the refinement mapping.              *)
LEMMA CacheOperators ==
    /\ \A o, ks : LRU!Among(o, ks) = Selected(o, ks)
    /\ \A o : LRU!Elements(o) = MembersOf(o)
<1>1. ASSUME NEW o, NEW ks PROVE LRU!Among(o, ks) = Selected(o, ks)
  <2> DEFINE I == {a \in DOMAIN o : o[a] \in ks}
  <2>1. LRU!Among(o, ks) = LRU!Pick(o, I) /\ Selected(o, ks) = Pick(o, I)
    BY DEF LRU!Among, Selected
  <2> HIDE DEF I
  <2>2. \A i : LRU!Rank(I, i) = Rank(I, i)
    BY DEF LRU!Rank, Rank, LRU!Cardinality, Cardinality
  <2>3. \A j : LRU!Nth(I, j) = Nth(I, j)
    BY <2>2 DEF LRU!Nth, Nth
  <2>4. LRU!Pick(o, I) = Pick(o, I)
    BY <2>3 DEF LRU!Pick, Pick, LRU!Cardinality, Cardinality
  <2> QED
    BY <2>1, <2>4
<1>2. \A o : LRU!Elements(o) = MembersOf(o)
  BY DEF LRU!Elements, MembersOf
<1> QED
  BY <1>1, <1>2

LEMMA CurrentOrderIs == IsCache(cache) => CurrentOrder = OrderIn(cache)
  BY CompactIs DEF CurrentOrder, OrderIn, OrderOf

LEMMA NextOrderIs == IsCache(cache') => CurrentOrder' = OrderIn(cache')
  BY CompactIs DEF CurrentOrder, OrderIn, OrderOf

(* What a window accepts is new, within reach, and the newest exactly when *)
(* it advances the window.                                                 *)
LEMMA AcceptedIsNew ==
    ASSUME CacheInv, HighestInv, NEW k \in ReplayKeys, NEW n \in Nat, Accepts(cache, k, n)
    PROVE  /\ n \notin accepted[k] /\ LRU!InWindow(k, n)
           /\ LRU!IsNewest(k, n) <=> Advances(cache, k, n)
<1>1. CASE k \notin Keys(cache)
  <2>1. accepted[k] = {}
    BY <1>1 DEF CacheInv, WindowInv
  <2> QED
    BY <1>1, <2>1 DEF LRU!InWindow, LRU!IsNewest, Advances
<1>2. CASE k \in Keys(cache)
  <2> DEFINE w == cache.sequences[k]
  <2>1. /\ Exact(w, accepted[k]) /\ w.highest \in Nat /\ accepted[k] \subseteq 0..w.highest
        /\ w.highest \in accepted[k] /\ WindowBits \in Nat /\ WindowBits > 0
    BY <1>2, WindowBitsPositive DEF CacheInv, WindowInv, HighestInv, Exact, WindowRecord
  <2>2. n \notin accepted[k]
    BY <1>2, <2>1, ExactRefuses
  <2>3. Advances(cache, k, n) <=> n > w.highest
    BY <1>2 DEF Advances
  <2>4. n > w.highest \/ w.highest - n < WindowBits
    BY <1>2, <2>3 DEF Accepts
  <2> HIDE DEF w
  <2>5. LRU!InWindow(k, n)
    BY <2>1, <2>4 DEF LRU!InWindow
  <2>6. LRU!IsNewest(k, n) <=> n > w.highest
    BY <2>1 DEF LRU!IsNewest
  <2> QED
    BY <2>2, <2>3, <2>5, <2>6
<1> QED
  BY <1>1, <1>2

LEMMA ObserveImplements ==
    ASSUME CacheInv, HighestInv, NEW k \in ReplayKeys, NEW n \in Numbers, ObserveSequence(k, n),
           IsCache(cache')
    PROVE  LRU!Accept(k, n)
<1> DEFINE history == [accepted EXCEPT ![k] = @ \cup {n}]
           newest == LRU!IsNewest(k, n)
           v == Moved(CurrentOrder, k, newest)
           ks == FittingKeys(v)
<1>1. /\ Accepts(cache, k, n) /\ cache' = Observe(cache, k, n) /\ n \in Nat
      /\ accepted' = [x \in ReplayKeys |-> IF x \in Keys(cache') THEN history[x] ELSE {}]
  BY SequenceAssumption DEF ObserveSequence, Remember, Numbers
<1>2. n \notin accepted[k] /\ LRU!InWindow(k, n) /\ (newest <=> Advances(cache, k, n))
  BY <1>1, AcceptedIsNew
<1>3. CurrentOrder = OrderIn(cache) /\ CurrentOrder' = OrderIn(cache')
  BY CurrentOrderIs, NextOrderIs DEF CacheInv, WindowInv
<1> HIDE DEF newest
<1>4. Keys(cache') = ks /\ CurrentOrder' = Selected(v, ks)
  <2>1. k \in Keys(cache) => cache.sequences[k] \in WindowRecord
    BY DEF CacheInv, WindowInv, Exact
  <2>2. Sound(cache, ReplayKeys) /\ Bounded(cache)
    BY DEF CacheInv
  <2> DEFINE d == Observe(cache, k, n)
             u == Moved(OrderIn(cache), k, Advances(cache, k, n))
  <2>3. Keys(d) = FittingKeys(u) /\ OrderIn(d) = Selected(u, FittingKeys(u))
    BY <1>1, <2>1, <2>2, ObserveOrder
  <2>4. u = v
    BY <1>2, <1>3 DEF Moved
  <2> HIDE DEF u, v, d
  <2> QED
    BY <1>1, <1>3, <2>3, <2>4 DEF d
<1>5. v = IF newest THEN Append(LRU!Among(CurrentOrder, LRU!Known \ {k}), k) ELSE CurrentOrder
  BY CacheOperators, Zenon DEF Moved, LRU!Known
<1>6. ks = IF Len(v) > Capacity THEN LRU!Elements(Tail(v)) ELSE LRU!Elements(v)
  BY CacheOperators, Zenon DEF FittingKeys
<1>7. CurrentOrder' = LRU!Among(v, ks)
  BY <1>4, CacheOperators, Zenon
<1> HIDE DEF v, ks
<1>8. LRU!Keep(v, history, ks)
  BY <1>1, <1>4, <1>7 DEF LRU!Keep
<1> QED
  BY <1>2, <1>5, <1>6, <1>8, Zenon DEF LRU!Accept, newest

LEMMA DropImplements ==
    ASSUME CacheInv, NEW es, DropEpochs(es), IsCache(cache')
    PROVE  LRU!Forget(es)
<1> DEFINE ks == {k \in Keys(cache) : k.topology_epoch \in es}
<1>1. /\ cache' = RetainEpochs(cache, es)
      /\ accepted' = [x \in ReplayKeys |-> IF x \in Keys(cache') THEN accepted[x] ELSE {}]
  BY DEF DropEpochs, Remember
<1>2. CurrentOrder = OrderIn(cache) /\ CurrentOrder' = OrderIn(cache')
  BY CurrentOrderIs, NextOrderIs DEF CacheInv, WindowInv
<1>3. Keys(cache') = ks
  BY <1>1, RetainWindows DEF CacheInv, WindowInv
<1>4. OrderIn(RetainEpochs(cache, es)) = Selected(OrderIn(cache), ks)
  BY RetainOrder DEF CacheInv, OrderIn
<1>5. MembersOf(OrderIn(cache)) = Keys(cache)
  BY OrderInFacts DEF CacheInv
<1>6. LRU!Known = Keys(cache)
  BY <1>2, <1>5, CacheOperators DEF LRU!Known
<1>7. ks = {k \in LRU!Known : k.topology_epoch \in es}
  BY <1>6
<1>8. CurrentOrder' = LRU!Among(CurrentOrder, ks)
  BY <1>1, <1>2, <1>4, CacheOperators, Zenon
<1> HIDE DEF ks
<1>9. LRU!Keep(CurrentOrder, accepted, ks)
  BY <1>1, <1>3, <1>8 DEF LRU!Keep
<1> QED
  BY <1>7, <1>9, Zenon DEF LRU!Forget

(* ReplayWindow implements the exact cache of ReplayCache, for any keys,   *)
(* capacity and window: eviction always takes the least recently advanced  *)
(* key, and a sequence of a remembered key is accepted once.               *)
THEOREM ReplayWindowImplementsCache == Spec => ImplementsReplayCache
<1>1. Init => HighestInv /\ LRU!Init
  <2> SUFFICES ASSUME Init PROVE HighestInv /\ LRU!Init
    OBVIOUS
  <2>1. CacheInv /\ Keys(cache) = {}
    BY CacheInitially DEF Init, EmptyCache, Keys
  <2>2. CurrentOrder = OrderIn(cache)
    BY <2>1, CurrentOrderIs DEF CacheInv, WindowInv
  <2> DEFINE o == OrderIn(cache)
  <2>3. /\ Along(o, cache.recency, Heights(cache)) /\ Queued(cache.recency, Heights(cache), ReplayKeys)
    BY <2>1, OrderInFacts DEF CacheInv
  <2>4. DOMAIN Heights(cache) = {}
    BY <2>1, HeightsFacts
  <2>5. o \in Seq({}) /\ Len(o) = 0
    <3>1. Len(o) = Cardinality({})
      BY <2>3, <2>4, AlongSize
    <3>2. o \in Seq({})
      BY <2>3, <2>4 DEF Along
    <3> QED
      BY <3>1, <3>2, FS_EmptySet
  <2>6. o = <<>>
    BY <2>5
  <2> QED
    BY <2>1, <2>2, <2>6 DEF HighestInv, LRU!Init, Init
<1>2. ASSUME CacheInv, HighestInv, [Next]_vars, CacheInv'
      PROVE  [LRU!Next]_LRU!vars
  <2>1. IsCache(cache')
    BY <1>2 DEF CacheInv, WindowInv
  <2>2. ASSUME NEW k \in ReplayKeys, NEW n \in Numbers, ObserveSequence(k, n)
        PROVE  LRU!Next
    BY <1>2, <2>1, <2>2, ObserveImplements DEF LRU!Next
  <2>3. ASSUME NEW es \in SUBSET Epochs, DropEpochs(es)
        PROVE  LRU!Next
    BY <1>2, <2>1, <2>3, DropImplements DEF LRU!Next
  <2>4. CASE UNCHANGED vars
    BY <2>4 DEF vars, LRU!vars, CurrentOrder
  <2> QED
    BY <1>2, <2>2, <2>3, <2>4 DEF Next
<1>3. ASSUME CacheInv, HighestInv, [Next]_vars
      PROVE  HighestInv'
  BY <1>3, HighestStep
<1> QED
  BY <1>1, <1>2, <1>3, CacheInitially, CacheStep, PTL DEF Spec, LRU!Spec, ImplementsReplayCache

---------------------------------------------------------------------------
(* The fragment reassembler.                                               *)

(* The bytes of frames f, as BytesOf counts them for the partial frames.   *)
Reserved(f, ks) == {b \in ks \X (1..FrameBytes) : b[2] <= f[b[1]].frame_len}

LEMMA ReservedOfOne ==
    ASSUME NEW f, NEW k, f[k].frame_len \in 0..FrameBytes
    PROVE  IsFiniteSet(Reserved(f, {k})) /\ Cardinality(Reserved(f, {k})) = f[k].frame_len
<1> DEFINE n == f[k].frame_len
           g == [i \in 1..n |-> <<k, i>>]
<1>1. n \in Nat /\ FrameBytes \in Nat /\ n <= FrameBytes
  BY FragmentsAssumption
<1>2. Reserved(f, {k}) = {<<k, i>> : i \in 1..n}
  <2> HIDE DEF g
  <2>1. \A b \in {k} \X (1..FrameBytes) : b[1] = k /\ b = <<k, b[2]>> /\ b[2] \in 1..FrameBytes
    OBVIOUS
  <2>2. \A i \in 1..n : <<k, i>> \in {k} \X (1..FrameBytes) /\ <<k, i>>[1] = k /\ <<k, i>>[2] = i
    BY <1>1
  <2>3. \A b \in Reserved(f, {k}) : b = <<k, b[2]>> /\ b[2] \in 1..n
    BY <1>1, <2>1 DEF Reserved
  <2>4. \A i \in 1..n : <<k, i>> \in Reserved(f, {k})
    BY <1>1, <2>2 DEF Reserved
  <2> QED
    BY <2>3, <2>4
<1> HIDE DEF n
<1>3. g \in Bijection(1..n, Reserved(f, {k}))
  <2>1. g \in [1..n -> Reserved(f, {k})]
    BY <1>2
  <2>2. \A i, j \in 1..n : g[i] = g[j] => i = j
    OBVIOUS
  <2>3. \A b \in Reserved(f, {k}) : \E i \in 1..n : g[i] = b
    BY <1>2
  <2> HIDE DEF g
  <2> QED
    BY <2>1, <2>2, <2>3 DEF Bijection, Injection, Surjection, IsInjective
<1>4. ExistsBijection(1..n, Reserved(f, {k}))
  BY <1>3 DEF ExistsBijection
<1>5. IsFiniteSet(1..n) /\ Cardinality(1..n) = n
  <2>1. 1 \in Int /\ n \in Int
    BY <1>1 DEF n
  <2>2. IsFiniteSet(1..n) /\ Cardinality(1..n) = IF 1 > n THEN 0 ELSE n - 1 + 1
    BY <2>1, FS_Interval
  <2> QED
    BY <1>1, <2>2 DEF n
<1> QED
  BY <1>4, <1>5, FS_Bijection DEF n

LEMMA ReservedFinite ==
    ASSUME NEW f, NEW ks, IsFiniteSet(ks)
    PROVE  IsFiniteSet(Reserved(f, ks)) /\ Cardinality(Reserved(f, ks)) \in Nat
<1>1. IsFiniteSet(1..FrameBytes)
  BY FS_Interval, FragmentsAssumption
<1>2. IsFiniteSet(ks \X (1..FrameBytes))
  BY <1>1, FS_Product
<1>3. Reserved(f, ks) \subseteq ks \X (1..FrameBytes)
  BY DEF Reserved
<1> QED
  BY <1>2, <1>3, FS_Subset, FS_CardinalityType

(* The reservations of two disjoint sets of frames add up.                 *)
LEMMA ReservedAdds ==
    ASSUME NEW f, NEW ks, NEW js, IsFiniteSet(ks), IsFiniteSet(js), ks \cap js = {}
    PROVE  Cardinality(Reserved(f, ks \cup js))
              = Cardinality(Reserved(f, ks)) + Cardinality(Reserved(f, js))
<1>1. Reserved(f, ks \cup js) = Reserved(f, ks) \cup Reserved(f, js)
  BY DEF Reserved
<1>2. Reserved(f, ks) \cap Reserved(f, js) = {}
  <2>1. \A b \in Reserved(f, ks) : b[1] \in ks
    BY DEF Reserved
  <2>2. \A b \in Reserved(f, js) : b[1] \in js
    BY DEF Reserved
  <2> QED
    BY <2>1, <2>2
<1>3. IsFiniteSet(Reserved(f, ks)) /\ IsFiniteSet(Reserved(f, js))
      /\ Cardinality(Reserved(f, ks)) \in Nat /\ Cardinality(Reserved(f, js)) \in Nat
  BY ReservedFinite
<1>4. Cardinality(Reserved(f, ks) \cup Reserved(f, js))
         = Cardinality(Reserved(f, ks)) + Cardinality(Reserved(f, js))
           - Cardinality(Reserved(f, ks) \cap Reserved(f, js))
  BY <1>3, FS_Union
<1>5. Cardinality(Reserved(f, ks) \cap Reserved(f, js)) = 0
  BY <1>2, FS_EmptySet
<1> DEFINE A == Reserved(f, ks)
           B == Reserved(f, js)
<1>6. Cardinality(A \cup B) = Cardinality(A) + Cardinality(B) - 0
      /\ Cardinality(A) \in Nat /\ Cardinality(B) \in Nat
  BY <1>3, <1>4, <1>5
<1> HIDE DEF A, B
<1>7. Cardinality(A \cup B) = Cardinality(A) + Cardinality(B)
  BY <1>6
<1> QED
  BY <1>1, <1>7 DEF A, B

LEMMA ReservedAgrees ==
    ASSUME NEW f, NEW g, NEW ks, \A k \in ks : f[k].frame_len = g[k].frame_len
    PROVE  Reserved(f, ks) = Reserved(g, ks)
<1>1. \A b \in ks \X (1..FrameBytes) : f[b[1]].frame_len = g[b[1]].frame_len
  OBVIOUS
<1> QED
  BY <1>1 DEF Reserved

(* A partial frame has the fields of a place; ReservationExact.            *)
FragmentsInv ==
    /\ IsFiniteSet(DOMAIN partial)
    /\ \A k \in DOMAIN partial :
          /\ DOMAIN partial[k] = {"ticks_left", "frame_len", "count", "fragments"}
          /\ partial[k].frame_len \in 1..FrameBytes
    /\ reserved_bytes = Cardinality(Reserved(partial, DOMAIN partial))
    /\ Cardinality(DOMAIN partial) <= MaxFrames

LEMMA LiveFacts ==
    ASSUME FragmentsInv
    PROVE  /\ IsFiniteSet(Live) /\ Live \subseteq DOMAIN partial
           /\ Cardinality(Live) \in Nat /\ Cardinality(Live) <= MaxFrames
           /\ LiveReserved = Cardinality(Reserved(partial, Live))
           /\ LiveReserved \in Nat
           /\ \A ks : ReservedBy(ks) = Cardinality(Reserved(partial, ks))
<1>1. Live \subseteq DOMAIN partial /\ Expired \subseteq DOMAIN partial
      /\ Live \cap Expired = {} /\ Live \cup Expired = DOMAIN partial
  BY DEF Live, Expired, PartialKeys
<1>2. IsFiniteSet(Live) /\ IsFiniteSet(Expired) /\ Cardinality(Live) <= Cardinality(DOMAIN partial)
  BY <1>1, FS_Subset DEF FragmentsInv
<1>3. Cardinality(Live) \in Nat /\ Cardinality(DOMAIN partial) \in Nat /\ MaxFrames \in Nat
      /\ Cardinality(DOMAIN partial) <= MaxFrames
  BY <1>2, FS_CardinalityType, FragmentsAssumption DEF FragmentsInv
<1>4. \A ks : ReservedBy(ks) = Cardinality(Reserved(partial, ks))
  BY DEF ReservedBy, BytesOf, Reserved
<1>5. Cardinality(Reserved(partial, Live \cup Expired))
         = Cardinality(Reserved(partial, Live)) + Cardinality(Reserved(partial, Expired))
  BY <1>1, <1>2, ReservedAdds
<1>6. Cardinality(Reserved(partial, Live)) \in Nat /\ Cardinality(Reserved(partial, Expired)) \in Nat
  BY <1>2, ReservedFinite
<1>7. LiveReserved = reserved_bytes - Cardinality(Reserved(partial, Expired))
      /\ reserved_bytes = Cardinality(Reserved(partial, Live \cup Expired))
  BY <1>1, <1>4 DEF LiveReserved, FragmentsInv
<1> QED
  BY <1>1, <1>2, <1>3, <1>4, <1>5, <1>6, <1>7

(* Frames that end, with their reservations.                               *)
LEMMA RestPreserves ==
    ASSUME FragmentsInv, NEW ks \in SUBSET Live, Rest(ks)
    PROVE  FragmentsInv'
<1>1. partial' = [k \in ks |-> partial[k]]
      /\ reserved_bytes' = LiveReserved - ReservedBy(Live \ ks)
  BY DEF Rest, Keep
<1>2. IsFiniteSet(ks) /\ IsFiniteSet(Live \ ks) /\ Cardinality(ks) <= Cardinality(Live)
  BY LiveFacts, FS_Subset
<1>3. Cardinality(ks) \in Nat /\ Cardinality(ks) <= MaxFrames
  BY <1>2, LiveFacts, FS_CardinalityType, FragmentsAssumption
<1>4. Cardinality(Reserved(partial, ks \cup (Live \ ks)))
         = Cardinality(Reserved(partial, ks)) + Cardinality(Reserved(partial, Live \ ks))
  BY <1>2, ReservedAdds
<1>5. Cardinality(Reserved(partial, ks)) \in Nat /\ Cardinality(Reserved(partial, Live \ ks)) \in Nat
  BY <1>2, ReservedFinite
<1>6. ks \cup (Live \ ks) = Live
  OBVIOUS
<1>7. reserved_bytes' = Cardinality(Reserved(partial, ks))
  BY <1>1, <1>4, <1>5, <1>6, LiveFacts
<1>8. Reserved(partial', ks) = Reserved(partial, ks)
  BY <1>1, ReservedAgrees
<1>9. DOMAIN partial' = ks /\ \A k \in ks : k \in DOMAIN partial /\ partial'[k] = partial[k]
  BY <1>1, LiveFacts
<1> QED
  BY <1>2, <1>3, <1>7, <1>8, <1>9 DEF FragmentsInv

LEMMA PlacePreserves ==
    ASSUME FragmentsInv, NEW source, NEW d, d.frame_len \in Nat, PushNew(source, d)
    PROVE  FragmentsInv'
<1> DEFINE key       == <<source, d.digest>>
           place     == PlaceOf(source, d)
           fragments == [i \in DOMAIN place.fragments \cup {d.index} |->
                            IF i = d.index THEN d.payload ELSE place.fragments[i]]
           complete  == Cardinality(DOMAIN fragments) = d.count
           filled    == [place EXCEPT !.fragments = fragments]
           n         == d.frame_len
<1>1. /\ WellFormed(d)
      /\ key \in Live \/ Cardinality(Live) < MaxFrames
      /\ ~Conflicts(place, d)
      /\ partial' = IF complete THEN [k \in Live \ {key} |-> partial[k]]
                    ELSE [k \in Live \cup {key} |-> IF k = key THEN filled ELSE partial[k]]
      /\ reserved_bytes' = LiveReserved + (IF key \in Live THEN 0 ELSE n)
                           - (IF complete THEN n ELSE 0)
  BY DEF PushNew, Admitted, Keep
<1>2. n \in 1..FrameBytes /\ n \in Nat
  <2>1. n > DatagramBytes /\ n <= FrameBytes
    BY <1>1 DEF WellFormed
  <2>2. DatagramBytes \in Nat /\ FrameBytes \in Nat /\ n \in Nat
    BY FragmentsAssumption
  <2> HIDE DEF n
  <2> QED
    BY <2>1, <2>2
<1>3. DOMAIN place = {"ticks_left", "frame_len", "count", "fragments"} /\ place.frame_len = n
  <2>1. place.frame_len = n
    BY <1>1 DEF Conflicts
  <2>2. CASE key \in Live
    <3>1. place = partial[key] /\ key \in DOMAIN partial
      BY <2>2, LiveFacts DEF PlaceOf
    <3> HIDE DEF place, key
    <3> QED
      BY <2>1, <3>1 DEF FragmentsInv
  <2>3. CASE key \notin Live
    <3>1. place = Place(d)
      BY <2>3 DEF PlaceOf
    <3> QED
      BY <2>1, <3>1 DEF Place
  <2> QED
    BY <2>2, <2>3
<1>4. key \in Live => partial[key].frame_len = n
  BY <1>3 DEF PlaceOf
<1> HIDE DEF place, fragments, complete, key, n
<1>5. filled.frame_len = n /\ DOMAIN filled = {"ticks_left", "frame_len", "count", "fragments"}
  BY <1>3
<1> HIDE DEF filled
<1> DEFINE others == Live \ {key}
<1>6. /\ IsFiniteSet(others) /\ key \notin others
      /\ Cardinality(Reserved(partial, others)) \in Nat
      /\ LiveReserved = Cardinality(Reserved(partial, others)) + (IF key \in Live THEN n ELSE 0)
  <2>1. IsFiniteSet(others) /\ IsFiniteSet({key}) /\ others \cap {key} = {}
    BY LiveFacts, FS_Subset, FS_Singleton
  <2>2. Cardinality(Reserved(partial, others)) \in Nat
    BY <2>1, ReservedFinite
  <2>3. CASE key \in Live
    <3>1. others \cup {key} = Live
      BY <2>3
    <3>2. Cardinality(Reserved(partial, others \cup {key}))
             = Cardinality(Reserved(partial, others)) + Cardinality(Reserved(partial, {key}))
      BY <2>1, ReservedAdds
    <3>3. Cardinality(Reserved(partial, {key})) = n
      <4>1. partial[key].frame_len \in 0..FrameBytes /\ partial[key].frame_len = n
        BY <1>2, <1>4, <2>3
      <4> QED
        BY <4>1, ReservedOfOne
    <3> QED
      BY <1>2, <2>1, <2>2, <2>3, <3>1, <3>2, <3>3, LiveFacts
  <2>4. CASE key \notin Live
    <3>1. others = Live
      BY <2>4
    <3> QED
      BY <2>1, <2>2, <2>4, <3>1, LiveFacts
  <2> QED
    BY <2>3, <2>4
<1>7. \A k \in others : k \in DOMAIN partial
  BY LiveFacts
<1>8. CASE complete
  <2>1. DOMAIN partial' = others /\ \A k \in others : partial'[k] = partial[k]
    BY <1>1, <1>8
  <2>2. reserved_bytes' = Cardinality(Reserved(partial, others))
    BY <1>1, <1>2, <1>6, <1>8
  <2>3. Reserved(partial', others) = Reserved(partial, others)
    BY <2>1, ReservedAgrees
  <2>4. Cardinality(others) <= MaxFrames
    <3>1. Cardinality(others) <= Cardinality(Live) /\ Cardinality(others) \in Nat
      BY <1>6, LiveFacts, FS_Subset, FS_CardinalityType
    <3> QED
      BY <3>1, LiveFacts, FragmentsAssumption
  <2> QED
    BY <1>6, <1>7, <2>1, <2>2, <2>3, <2>4 DEF FragmentsInv
<1>9. CASE ~complete
  <2>1. /\ DOMAIN partial' = others \cup {key}
        /\ \A k \in others : partial'[k] = partial[k]
        /\ partial'[key] = filled
    BY <1>1, <1>6, <1>9
  <2>2. reserved_bytes' = Cardinality(Reserved(partial, others)) + n
    BY <1>1, <1>2, <1>6, <1>9
  <2>3. Reserved(partial', others) = Reserved(partial, others)
    BY <2>1, ReservedAgrees
  <2>4. Cardinality(Reserved(partial', {key})) = n
    <3>1. partial'[key].frame_len \in 0..FrameBytes /\ partial'[key].frame_len = n
      BY <1>2, <1>5, <2>1
    <3> QED
      BY <3>1, ReservedOfOne
  <2>5. Cardinality(Reserved(partial', others \cup {key}))
           = Cardinality(Reserved(partial', others)) + Cardinality(Reserved(partial', {key}))
    <3>1. IsFiniteSet({key}) /\ others \cap {key} = {}
      BY FS_Singleton
    <3> QED
      BY <1>6, <3>1, ReservedAdds
  <2>6. IsFiniteSet(others \cup {key}) /\ Cardinality(others \cup {key}) <= MaxFrames
    <3>1. CASE key \in Live
      <4>1. others \cup {key} = Live
        BY <3>1
      <4> QED
        BY <4>1, LiveFacts
    <3>2. CASE key \notin Live
      <4>1. others = Live
        BY <3>2
      <4>2. IsFiniteSet(Live \cup {key}) /\ Cardinality(Live \cup {key}) = Cardinality(Live) + 1
        BY <3>2, LiveFacts, FS_AddElement
      <4>3. Cardinality(Live) < MaxFrames /\ Cardinality(Live) \in Nat /\ MaxFrames \in Nat
        BY <1>1, <3>2, LiveFacts, FragmentsAssumption
      <4> HIDE DEF others
      <4> QED
        BY <4>1, <4>2, <4>3
    <3> QED
      BY <3>1, <3>2
  <2>7. \A k \in others \cup {key} :
            /\ DOMAIN partial'[k] = {"ticks_left", "frame_len", "count", "fragments"}
            /\ partial'[k].frame_len \in 1..FrameBytes
    <3>1. \A k \in others : /\ DOMAIN partial'[k] = {"ticks_left", "frame_len", "count", "fragments"}
                            /\ partial'[k].frame_len \in 1..FrameBytes
      BY <1>7, <2>1 DEF FragmentsInv
    <3>2. /\ DOMAIN partial'[key] = {"ticks_left", "frame_len", "count", "fragments"}
          /\ partial'[key].frame_len \in 1..FrameBytes
      BY <1>2, <1>5, <2>1
    <3> QED
      BY <3>1, <3>2
  <2> QED
    BY <2>1, <2>2, <2>3, <2>4, <2>5, <2>6, <2>7 DEF FragmentsInv
<1> QED
  BY <1>8, <1>9

LEMMA FragmentsTickPreserves ==
    ASSUME FragmentsInv, FragmentsTick
    PROVE  FragmentsInv'
<1>1. /\ DOMAIN partial' = DOMAIN partial /\ reserved_bytes' = reserved_bytes
      /\ \A k \in DOMAIN partial : partial'[k] =
            [partial[k] EXCEPT !.ticks_left = IF @ > 0 THEN @ - 1 ELSE 0]
  BY DEF FragmentsTick, PartialKeys
<1>2. ASSUME NEW k \in DOMAIN partial
      PROVE  DOMAIN partial'[k] = DOMAIN partial[k] /\ partial'[k].frame_len = partial[k].frame_len
  BY <1>1 DEF FragmentsInv
<1>3. Reserved(partial', DOMAIN partial) = Reserved(partial, DOMAIN partial)
  BY <1>2, ReservedAgrees
<1> QED
  BY <1>1, <1>2, <1>3 DEF FragmentsInv

LEMMA FragmentsStep ==
    ASSUME FragmentsInv, [FragmentsNext]_fragmentVars
    PROVE  FragmentsInv'
<1>1. \A d \in Datagrams : d.frame_len \in Nat
  <2>1. \A f \in Frames : \A d \in Cut(f) : d.frame_len \in Nat
    <3>1. \A f \in Frames : Len(f) \in Nat
      BY FragmentsAssumption
    <3>2. \A f, i : Fragment(f, i).frame_len = Len(f)
      BY DEF Fragment
    <3> QED
      BY <3>1, <3>2, Zenon DEF Cut
  <2> QED
    BY <2>1, FragmentsAssumption DEF Datagrams
<1>2. ASSUME NEW source \in Sources, NEW d \in Datagrams, Push(source, d) PROVE FragmentsInv'
  <2>1. CASE \E ks \in SUBSET Live : Rest(ks)
    BY <2>1, RestPreserves
  <2>2. CASE PushNew(source, d)
    BY <1>1, <2>2, PlacePreserves
  <2> QED
    BY <1>2, <2>1, <2>2 DEF Push, PushMalformed, PushRefused, PushConflict, PushRepeated
<1>3. CASE UNCHANGED fragmentVars
  BY <1>3 DEF fragmentVars, FragmentsInv
<1> QED
  BY <1>2, <1>3, FragmentsTickPreserves DEF FragmentsNext

LEMMA FragmentsInitially == FragmentsInit => FragmentsInv
<1> SUFFICES ASSUME FragmentsInit PROVE FragmentsInv
  OBVIOUS
<1>1. DOMAIN partial = {} /\ reserved_bytes = 0
  BY DEF FragmentsInit
<1>2. Reserved(partial, {}) = {}
  BY DEF Reserved
<1>3. IsFiniteSet(DOMAIN partial) /\ Cardinality(DOMAIN partial) = 0
      /\ Cardinality(Reserved(partial, DOMAIN partial)) = 0 /\ MaxFrames \in Nat
  BY <1>1, <1>2, FS_EmptySet, FragmentsAssumption
<1> QED
  BY <1>1, <1>3 DEF FragmentsInv

(* OverlayFragmentReassembler accounts for its memory exactly through      *)
(* completion, conflict and expiry, for any frames and any damage: the     *)
(* reservation is the sum of the lengths of the partial frames and cannot  *)
(* leak.                                                                   *)
THEOREM ReservationsAreExact == FragmentsSpec => []ReservationExact
<1>1. FragmentsInv => ReservationExact
  BY DEF FragmentsInv, ReservationExact, ReservedBy, BytesOf, Reserved, PartialKeys
<1> QED
  BY <1>1, FragmentsInitially, FragmentsStep, PTL DEF FragmentsSpec

---------------------------------------------------------------------------
(* Frames and their fragments.                                             *)

Count(n) == DivCeil(n, FragmentBytes)

(* The length of fragment i of a frame of n bytes, and its bytes.          *)
Extent(n, i) == IF i + 1 = Count(n) THEN n - FragmentBytes * (Count(n) - 1) ELSE FragmentBytes

Chunk(f, i) == SubSeq(f, FragmentBytes * i + 1, Min({FragmentBytes * (i + 1), Len(f)}))

Places(n) == 0..(Count(n) - 1)

LEMMA CountFacts ==
    ASSUME NEW n \in Nat, n > 0
    PROVE  /\ FragmentBytes \in Nat /\ FragmentBytes > 0
           /\ Count(n) \in Nat /\ Count(n) >= 1
           /\ FragmentBytes * (Count(n) - 1) \in Nat /\ FragmentBytes * Count(n) \in Nat
           /\ FragmentBytes * Count(n) = FragmentBytes * (Count(n) - 1) + FragmentBytes
           /\ FragmentBytes * (Count(n) - 1) < n /\ n <= FragmentBytes * Count(n)
<1> DEFINE c == Count(n)
           r == (n + FragmentBytes - 1) % FragmentBytes
<1>1. FragmentBytes \in Nat /\ FragmentBytes > 0
  BY FragmentsAssumption
<1>2. c \in Nat /\ r \in 0..(FragmentBytes - 1) /\ n + FragmentBytes - 1 = c * FragmentBytes + r
  <2>1. n + FragmentBytes - 1 \in Nat
    BY <1>1
  <2>2. c = (n + FragmentBytes - 1) \div FragmentBytes
    BY DEF Count, DivCeil
  <2> QED
    BY <1>1, <2>1, <2>2, DivMod
<1> HIDE DEF c, r
<1>3. c * FragmentBytes = FragmentBytes * c /\ FragmentBytes * c \in Int
      /\ FragmentBytes * (c - 1) = FragmentBytes * c - FragmentBytes
  BY <1>1, <1>2
<1>4. n <= FragmentBytes * c /\ FragmentBytes * (c - 1) < n
  BY <1>1, <1>2, <1>3
<1>5. c # 0
  <2> SUFFICES ASSUME c = 0 PROVE FALSE
    OBVIOUS
  <2>1. FragmentBytes * c = 0
    BY <1>1
  <2> QED
    BY <1>4, <2>1
<1>6. FragmentBytes * (c - 1) \in Nat
  <2>1. c - 1 \in Nat
    BY <1>2, <1>5
  <2> QED
    BY <1>1, <2>1
<1> QED
  BY <1>1, <1>2, <1>3, <1>4, <1>5, <1>6 DEF c

LEMMA ExtentFacts ==
    ASSUME NEW n \in Nat, n > 0, NEW i \in Places(n)
    PROVE  /\ i \in Nat /\ FragmentBytes * i \in Nat
           /\ Extent(n, i) \in Nat /\ Extent(n, i) >= 1 /\ Extent(n, i) <= FragmentBytes
           /\ FragmentBytes * i + Extent(n, i) <= n
           /\ FragmentBytes * (i + 1) = FragmentBytes * i + FragmentBytes
           /\ i + 1 = Count(n) => Extent(n, i) = n - FragmentBytes * i
           /\ i + 1 # Count(n) => Extent(n, i) = FragmentBytes
<1> DEFINE c == Count(n)
<1>1. /\ FragmentBytes \in Nat /\ FragmentBytes > 0 /\ c \in Nat /\ c >= 1
      /\ FragmentBytes * (c - 1) \in Nat
      /\ FragmentBytes * c = FragmentBytes * (c - 1) + FragmentBytes
      /\ FragmentBytes * (c - 1) < n /\ n <= FragmentBytes * c
  BY CountFacts
<1>2. i \in Nat /\ i <= c - 1 /\ (i + 1 = c => i = c - 1)
  BY <1>1 DEF Places
<1>3. Extent(n, i) = IF i + 1 = c THEN n - FragmentBytes * (c - 1) ELSE FragmentBytes
  BY DEF Extent
<1> HIDE DEF c
<1>4. FragmentBytes * i \in Nat /\ FragmentBytes * (i + 1) = FragmentBytes * i + FragmentBytes
  BY <1>1, <1>2
<1>5. i + 1 # c => FragmentBytes * (i + 1) <= FragmentBytes * (c - 1)
  <2> SUFFICES ASSUME i + 1 # c PROVE FragmentBytes * (i + 1) <= FragmentBytes * (c - 1)
    OBVIOUS
  <2>1. (c - 1) - (i + 1) \in Nat
    BY <1>1, <1>2
  <2>2. FragmentBytes * ((c - 1) - (i + 1)) \in Nat
    BY <1>1, <2>1
  <2>3. FragmentBytes * ((c - 1) - (i + 1)) = FragmentBytes * (c - 1) - FragmentBytes * (i + 1)
    BY <1>1, <1>2
  <2>4. FragmentBytes * (i + 1) \in Nat
    BY <1>1, <1>2
  <2> QED
    BY <1>1, <2>2, <2>3, <2>4
<1>6. CASE i + 1 = c
  <2>1. FragmentBytes * (c - 1) = FragmentBytes * i
    BY <1>2, <1>6
  <2> QED
    BY <1>1, <1>2, <1>3, <1>4, <1>6, <2>1 DEF c
<1>7. CASE i + 1 # c
  <2>1. FragmentBytes * i + FragmentBytes <= n
    BY <1>1, <1>4, <1>5, <1>7
  <2> QED
    BY <1>1, <1>2, <1>3, <1>4, <1>7, <2>1 DEF c
<1> QED
  BY <1>6, <1>7

(* Byte b of a frame is in one fragment, and byte j of fragment i is one   *)
(* byte of the frame.                                                      *)
LEMMA ByteInFragment ==
    ASSUME NEW n \in Nat, n > 0, NEW b \in 1..n
    PROVE  /\ (b - 1) \div FragmentBytes \in Places(n)
           /\ ((b - 1) % FragmentBytes) + 1 \in 1..Extent(n, (b - 1) \div FragmentBytes)
           /\ FragmentBytes * ((b - 1) \div FragmentBytes) + ((b - 1) % FragmentBytes) + 1 = b
<1> DEFINE c == Count(n)
           q == (b - 1) \div FragmentBytes
           r == (b - 1) % FragmentBytes
<1>1. /\ FragmentBytes \in Nat /\ FragmentBytes > 0 /\ c \in Nat /\ c >= 1
      /\ FragmentBytes * c \in Nat /\ n <= FragmentBytes * c
  BY CountFacts
<1>2. q \in Nat /\ r \in 0..(FragmentBytes - 1) /\ b - 1 = q * FragmentBytes + r
  <2>1. b - 1 \in Nat
    OBVIOUS
  <2> QED
    BY <1>1, <2>1, DivMod
<1> HIDE DEF c, q, r
<1>3. q * FragmentBytes = FragmentBytes * q /\ FragmentBytes * q \in Nat
  BY <1>1, <1>2
<1>4. q < c
  <2> SUFFICES ASSUME q >= c PROVE FALSE
    BY <1>1, <1>2
  <2>1. q - c \in Nat
    BY <1>1, <1>2
  <2>2. FragmentBytes * (q - c) \in Nat
    BY <1>1, <2>1
  <2>3. FragmentBytes * (q - c) = FragmentBytes * q - FragmentBytes * c
    BY <1>1, <1>2
  <2> QED
    BY <1>1, <1>2, <1>3, <2>2, <2>3
<1>5. q \in Places(n)
  BY <1>1, <1>2, <1>4 DEF Places, c
<1>6. /\ Extent(n, q) \in Nat
      /\ q + 1 = c => Extent(n, q) = n - FragmentBytes * q
      /\ q + 1 # c => Extent(n, q) = FragmentBytes
  BY <1>5, ExtentFacts DEF c
<1>7. FragmentBytes * q + r + 1 = b
  BY <1>2, <1>3
<1>8. r + 1 \in 1..Extent(n, q)
  BY <1>1, <1>2, <1>3, <1>6, <1>7
<1> QED
  BY <1>5, <1>7, <1>8 DEF q, r

LEMMA FragmentInFrame ==
    ASSUME NEW n \in Nat, n > 0, NEW i \in Places(n), NEW j \in 1..Extent(n, i),
           NEW b, b = FragmentBytes * i + j
    PROVE  b \in 1..n /\ (b - 1) \div FragmentBytes = i /\ ((b - 1) % FragmentBytes) + 1 = j
<1>1. /\ FragmentBytes \in Nat /\ FragmentBytes > 0
      /\ i \in Nat /\ FragmentBytes * i \in Nat
      /\ Extent(n, i) \in Nat /\ Extent(n, i) <= FragmentBytes
      /\ FragmentBytes * i + Extent(n, i) <= n
  BY CountFacts, ExtentFacts
<1>2. j \in Nat /\ j >= 1 /\ j <= Extent(n, i)
  BY <1>1
<1>3. FragmentBytes * i = i * FragmentBytes
  BY <1>1
<1> DEFINE m == b - 1
<1>4. m \in Nat /\ j - 1 \in 0..(FragmentBytes - 1) /\ m = i * FragmentBytes + (j - 1)
  BY <1>1, <1>2, <1>3
<1>5. m \div FragmentBytes = i /\ m % FragmentBytes = j - 1
  <2> HIDE DEF m
  <2> QED
    BY <1>1, <1>4, DivModUnique
<1>6. b \in 1..n
  BY <1>1, <1>2
<1> HIDE DEF m
<1> QED
  BY <1>2, <1>5, <1>6 DEF m

LEMMA ChunkFacts ==
    ASSUME NEW f \in Seq(Nat), Len(f) > 0, NEW i \in Places(Len(f))
    PROVE  /\ Chunk(f, i) \in Seq(Nat) /\ Len(Chunk(f, i)) = Extent(Len(f), i)
           /\ \A j \in 1..Extent(Len(f), i) : Chunk(f, i)[j] = f[FragmentBytes * i + j]
<1> DEFINE n == Len(f)
           lo == FragmentBytes * i + 1
           hi == Min({FragmentBytes * (i + 1), n})
<1>1. /\ n \in Nat /\ n > 0 /\ FragmentBytes \in Nat /\ FragmentBytes > 0
      /\ i \in Nat /\ FragmentBytes * i \in Nat /\ Extent(n, i) \in Nat /\ Extent(n, i) >= 1
      /\ FragmentBytes * i + Extent(n, i) <= n
      /\ FragmentBytes * (i + 1) = FragmentBytes * i + FragmentBytes
      /\ i + 1 = Count(n) => Extent(n, i) = n - FragmentBytes * i
      /\ i + 1 # Count(n) => Extent(n, i) = FragmentBytes
      /\ Extent(n, i) <= FragmentBytes
  <2>1. n \in Nat /\ n > 0
    OBVIOUS
  <2> QED
    BY <2>1, CountFacts, ExtentFacts
<1>2. hi = IF FragmentBytes * (i + 1) <= n THEN FragmentBytes * (i + 1) ELSE n
  <2>1. FragmentBytes * (i + 1) \in Int /\ n \in Int
    BY <1>1
  <2> HIDE DEF n
  <2> QED
    BY <2>1, MinMaxOfTwo
<1>3. hi = FragmentBytes * i + Extent(n, i)
  <2> HIDE DEF n, hi
  <2> QED
    BY <1>1, <1>2
<1>4. hi \in Nat /\ hi <= n /\ lo \in Nat /\ lo >= 1 /\ lo <= hi
  <2> HIDE DEF n, hi
  <2> QED
    BY <1>1, <1>3
<1>5. hi - lo + 1 = Extent(n, i) /\ \A j \in 1..Extent(n, i) : lo + j - 1 = FragmentBytes * i + j
  <2> HIDE DEF n, hi
  <2> QED
    BY <1>1, <1>3
<1>6. Chunk(f, i) = SubSeq(f, lo, hi)
  BY DEF Chunk
<1> HIDE DEF lo, hi, n
<1>7. /\ SubSeq(f, lo, hi) \in Seq(Nat) /\ Len(SubSeq(f, lo, hi)) = hi - lo + 1
      /\ \A j \in 1..(hi - lo + 1) : SubSeq(f, lo, hi)[j] = f[lo + j - 1]
  <2>1. lo \in 1..(n + 1) /\ hi \in (lo - 1)..n
    BY <1>1, <1>4
  <2> QED
    BY <1>4, <2>1 DEF n
<1> QED
  BY <1>5, <1>6, <1>7 DEF n

(* Put together, the fragments of a frame are the frame, and nothing else  *)
(* put together is.                                                        *)
LEMMA JoinedIsFrame ==
    ASSUME NEW f \in Seq(Nat), Len(f) > 0, NEW g,
           \A i \in Places(Len(f)) : g[i] = Chunk(f, i)
    PROVE  Joined(g, Len(f)) = f
<1> DEFINE n == Len(f)
           J == Joined(g, n)
<1>1. n \in Nat /\ n > 0 /\ DOMAIN f = 1..n
  OBVIOUS
<1>2. ASSUME NEW b \in 1..n PROVE J[b] = f[b]
  <2> DEFINE q == (b - 1) \div FragmentBytes
             r == ((b - 1) % FragmentBytes) + 1
  <2>1. J[b] = g[q][r]
    BY DEF Joined
  <2>2. q \in Places(n) /\ r \in 1..Extent(n, q) /\ FragmentBytes * q + r = b
    <3>1. /\ q \in Places(n) /\ r \in 1..Extent(n, q)
          /\ FragmentBytes * q + ((b - 1) % FragmentBytes) + 1 = b
      BY <1>1, ByteInFragment
    <3>2. q \in Nat /\ FragmentBytes * q \in Nat
      BY <1>1, <3>1, ExtentFacts
    <3>3. (b - 1) % FragmentBytes \in Int
      BY <1>1, CountFacts
    <3> QED
      BY <3>1, <3>2, <3>3
  <2> HIDE DEF q, r, J, n
  <2>3. g[q][r] = f[FragmentBytes * q + r]
    BY <2>2, ChunkFacts DEF n
  <2> QED
    BY <2>1, <2>2, <2>3
<1>3. J = [b \in 1..n |-> J[b]]
  BY DEF Joined
<1>4. f = [b \in 1..n |-> f[b]]
  BY <1>1
<1> HIDE DEF J, n
<1> QED
  BY <1>2, <1>3, <1>4 DEF J, n

LEMMA JoinedIsUnique ==
    ASSUME NEW f \in Seq(Nat), NEW n \in Nat, n > 0, NEW g, Joined(g, n) = f,
           NEW i \in Places(n), g[i] \in Seq(Nat), Len(g[i]) = Extent(n, i)
    PROVE  n = Len(f) /\ g[i] = Chunk(f, i)
<1>1. DOMAIN f = 1..n
  BY DEF Joined
<1>2. n = Len(f)
  BY <1>1
<1>3. /\ Chunk(f, i) \in Seq(Nat) /\ Len(Chunk(f, i)) = Extent(n, i)
      /\ \A j \in 1..Extent(n, i) : Chunk(f, i)[j] = f[FragmentBytes * i + j]
  <2>1. f \in Seq(Nat) /\ Len(f) > 0 /\ i \in Places(Len(f))
    BY <1>2
  <2> QED
    BY <1>2, <2>1, ChunkFacts, Zenon
<1>4. ASSUME NEW j \in 1..Extent(n, i) PROVE g[i][j] = Chunk(f, i)[j]
  <2> DEFINE b == FragmentBytes * i + j
  <2>1. b = FragmentBytes * i + j
    OBVIOUS
  <2> HIDE DEF b
  <2>2. b \in 1..n /\ (b - 1) \div FragmentBytes = i /\ ((b - 1) % FragmentBytes) + 1 = j
    BY <2>1, FragmentInFrame
  <2>3. f[b] = g[(b - 1) \div FragmentBytes][((b - 1) % FragmentBytes) + 1]
    BY <2>2 DEF Joined
  <2>4. f[b] = g[i][j]
    BY <2>2, <2>3
  <2> QED
    BY <1>3, <2>1, <2>4
<1> QED
  BY <1>2, <1>3, <1>4

FragmentRecords ==
    [digest : Seq(Nat), index : Nat, count : Nat, frame_len : Nat, payload : Seq(Nat)]

LEMMA FrameFacts ==
    ASSUME NEW f \in Frames
    PROVE  /\ f \in Seq(Nat) /\ Len(f) \in Nat /\ Len(f) > 0
           /\ Len(f) > DatagramBytes /\ Len(f) <= FrameBytes
           /\ f # NoFrame
           /\ Count(Len(f)) >= 2 /\ Count(Len(f)) \in Nat
<1>1. /\ f \in Seq(Nat) /\ Len(f) \in Nat /\ Len(f) > 0
      /\ Len(f) > DatagramBytes /\ Len(f) <= FrameBytes /\ Len(f) > FragmentBytes
  BY FragmentsAssumption
<1>2. f # NoFrame
  BY <1>1 DEF NoFrame
<1>3. Count(Len(f)) >= 2 /\ Count(Len(f)) \in Nat
  <2> DEFINE n == Len(f)
             c == Count(n)
  <2>1. /\ FragmentBytes \in Nat /\ c \in Nat /\ c >= 1 /\ n <= FragmentBytes * c /\ n > FragmentBytes
    BY <1>1, CountFacts
  <2> HIDE DEF c, n
  <2>2. c # 1
    <3> SUFFICES ASSUME c = 1 PROVE FALSE
      OBVIOUS
    <3>1. FragmentBytes * c = FragmentBytes /\ n \in Nat
      BY <1>1, <2>1 DEF n
    <3> QED
      BY <2>1, <3>1
  <2> QED
    BY <2>1, <2>2 DEF c, n
<1> QED
  BY <1>1, <1>2, <1>3

LEMMA CutFacts ==
    ASSUME NEW f \in Frames, NEW d \in Cut(f)
    PROVE  /\ d \in FragmentRecords /\ WellFormed(d)
           /\ d.digest = f /\ d.index \in Places(Len(f)) /\ d.count = Count(Len(f))
           /\ d.frame_len = Len(f) /\ d.payload = Chunk(f, d.index)
<1> DEFINE n == Len(f)
<1>1. PICK i \in Places(n) : d = Fragment(f, i)
  BY DEF Cut, Places, Count
<1>2. d = [digest |-> f, index |-> i, count |-> Count(n), frame_len |-> n, payload |-> Chunk(f, i)]
  BY <1>1 DEF Fragment, Count, Chunk
<1>3. /\ f \in Seq(Nat) /\ n \in Nat /\ n > 0 /\ n > DatagramBytes /\ n <= FrameBytes
      /\ Count(n) >= 2 /\ Count(n) \in Nat
  BY FrameFacts
<1>4. Chunk(f, i) \in Seq(Nat) /\ Len(Chunk(f, i)) = Extent(n, i)
  BY <1>3, ChunkFacts
<1>5. i \in Nat /\ Extent(n, i) >= 1 /\ Extent(n, i) <= FragmentBytes
  BY <1>3, ExtentFacts
<1>6. i < Count(n)
  BY <1>3, <1>5 DEF Places
<1> HIDE DEF n
<1>7. d \in FragmentRecords
  BY <1>2, <1>3, <1>4, <1>5 DEF FragmentRecords
<1>8. WellFormed(d)
  <2>1. d.payload # <<>>
    BY <1>2, <1>4, <1>5
  <2>2. Len(d.payload) = IF d.index + 1 = d.count
                         THEN d.frame_len - FragmentBytes * (d.count - 1) ELSE FragmentBytes
    BY <1>2, <1>4 DEF Extent
  <2>3. d.count = DivCeil(d.frame_len, FragmentBytes)
    BY <1>2 DEF Count
  <2> QED
    BY <1>2, <1>3, <1>4, <1>5, <1>6, <2>1, <2>2, <2>3 DEF WellFormed
<1> QED
  BY <1>1, <1>2, <1>7, <1>8 DEF n

LEMMA InCut ==
    ASSUME NEW f \in Frames, NEW d \in FragmentRecords, d.digest = f, d.index \in Places(Len(f)),
           d.count = Count(Len(f)), d.frame_len = Len(f), d.payload = Chunk(f, d.index)
    PROVE  d \in Cut(f)
<1>1. d = [digest |-> f, index |-> d.index, count |-> Count(Len(f)), frame_len |-> Len(f),
           payload |-> Chunk(f, d.index)]
  BY DEF FragmentRecords
<1>2. d = Fragment(f, d.index)
  BY <1>1 DEF Fragment, Count, Chunk
<1> QED
  BY <1>2 DEF Cut, Places, Count

LEMMA DatagramsTyped == Datagrams \subseteq FragmentRecords
<1>1. \A f \in Frames : \A d \in Cut(f) : d \in FragmentRecords
  BY CutFacts
<1>2. \A d \in Damaged : d \in FragmentRecords
  BY FragmentsAssumption DEF FragmentRecords
<1> QED
  BY <1>1, <1>2 DEF Datagrams

(* What passes the checks of push.                                         *)
LEMMA WellFormedFacts ==
    ASSUME NEW d \in FragmentRecords, WellFormed(d)
    PROVE  /\ d.frame_len \in Nat /\ d.frame_len > 0 /\ d.frame_len > DatagramBytes
           /\ d.count = Count(d.frame_len) /\ d.count \in Nat
           /\ d.index \in Places(d.frame_len)
           /\ d.payload \in Seq(Nat) /\ Len(d.payload) = Extent(d.frame_len, d.index)
<1>1. /\ d.frame_len \in Nat /\ d.index \in Nat /\ d.count \in Nat /\ d.payload \in Seq(Nat)
      /\ d.frame_len > DatagramBytes /\ DatagramBytes \in Nat /\ d.index < d.count
      /\ d.count = DivCeil(d.frame_len, FragmentBytes)
      /\ Len(d.payload) = IF d.index + 1 = d.count
                          THEN d.frame_len - FragmentBytes * (d.count - 1) ELSE FragmentBytes
  BY FragmentsAssumption DEF FragmentRecords, WellFormed
<1>2. d.count = Count(d.frame_len)
  BY <1>1 DEF Count
<1>3. Len(d.payload) = Extent(d.frame_len, d.index)
  BY <1>1, <1>2 DEF Extent
<1>4. d.frame_len > 0
  BY <1>1
<1>5. d.index \in Places(d.frame_len)
  BY <1>1, <1>2 DEF Places
<1> QED
  BY <1>1, <1>2, <1>3, <1>4, <1>5

---------------------------------------------------------------------------
(* The watched frame.                                                      *)

WatchedKey == <<watch.source, watch.frame>>

(* The place of a frame holds payloads of the lengths it calls for, and    *)
(* the fragments of the watched frame w among them were received.          *)
Placed(p, w) ==
    /\ p.frame_len \in Nat /\ p.frame_len > 0 /\ p.count = Count(p.frame_len)
    /\ \A i \in DOMAIN p.fragments :
          /\ i \in Places(p.frame_len)
          /\ p.fragments[i] \in Seq(Nat) /\ Len(p.fragments[i]) = Extent(p.frame_len, i)
          /\ p.frame_len = Len(w.frame) /\ p.fragments[i] = Chunk(w.frame, i) => i \in w.got

(* The place of the watched frame while nothing stood in its way.          *)
Awaited(w) ==
    [ticks_left |-> w.left, frame_len |-> Len(w.frame), count |-> Count(Len(w.frame)),
     fragments |-> [i \in w.got |-> Chunk(w.frame, i)]]

WatchType(w) ==
    /\ DOMAIN w = {"source", "frame", "got", "left", "spoiled", "out"}
    /\ w.frame \in Frames
    /\ w.got \subseteq Places(Len(w.frame))
    /\ w.left \in Nat

(* What came out is the frame, received as a whole.                        *)
OutWhole(w) == w.out # NoFrame => w.out = w.frame /\ w.got = Places(Len(w.frame))

(* Until it comes out or is spoiled, the watched frame, whose key is k, is *)
(* incomplete and the table t holds its place exactly as received.         *)
Pending(t, k, w) ==
    w.spoiled = FALSE /\ w.out = NoFrame =>
        /\ w.got # Places(Len(w.frame))
        /\ w.got = {} => k \notin DOMAIN t /\ w.left = Timeout
        /\ w.got # {} /\ w.left > 0 => k \in DOMAIN t /\ t[k] = Awaited(w)

WatchInv ==
    /\ WatchType(watch)
    /\ WatchedKey \in DOMAIN partial => Placed(partial[WatchedKey], watch)
    /\ OutWhole(watch)
    /\ Pending(partial, WatchedKey, watch)

(* What a push does to the other frames: those that expired are gone.      *)
LEMMA PushElsewhere ==
    ASSUME NEW source, NEW d, Push(source, d), NEW k, k # <<source, d.digest>>
    PROVE  /\ k \in DOMAIN partial' <=> k \in Live
           /\ k \in Live => partial'[k] = partial[k]
<1> DEFINE key == <<source, d.digest>>
<1>1. CASE PushNew(source, d)
  BY <1>1 DEF PushNew, Keep
<1>2. ASSUME NEW ks, Rest(ks), k \in ks <=> k \in Live
      PROVE  /\ k \in DOMAIN partial' <=> k \in Live
             /\ k \in Live => partial'[k] = partial[k]
  BY <1>2 DEF Rest, Keep
<1>3. Rest(Live) \/ Rest(Live \ {key}) \/ PushNew(source, d)
  BY DEF Push, PushMalformed, PushRefused, PushConflict, PushRepeated
<1> QED
  BY <1>1, <1>2, <1>3

(* Pruning takes no place that the watched frame still waits in.           *)
LEMMA LiveAwaited ==
    ASSUME NEW k, NEW w, WatchType(w), Pending(partial, k, w),
           w.spoiled = FALSE, w.out = NoFrame
    PROVE  /\ w.got = {} => k \notin Live
           /\ w.got # {} /\ w.left > 0 => k \in Live /\ partial[k] = Awaited(w)
<1>1. Awaited(w).ticks_left = w.left
  BY DEF Awaited
<1>2. w.left > 0 => w.left # 0
  BY DEF WatchType
<1>3. /\ w.got = {} => k \notin DOMAIN partial
      /\ w.got # {} /\ w.left > 0 => k \in DOMAIN partial /\ partial[k] = Awaited(w)
  BY DEF Pending
<1> QED
  BY <1>1, <1>2, <1>3 DEF Live, Expired, PartialKeys

(* Steps that leave the place of the watched frame alone.                  *)
LEMMA WatchKept ==
    ASSUME WatchInv, WatchType(watch'),
           watch'.source = watch.source, watch'.frame = watch.frame, watch'.left = watch.left,
           watch.got \subseteq watch'.got, watch'.out = watch.out,
           watch'.spoiled = FALSE /\ watch.out = NoFrame
              => watch.spoiled = FALSE /\ watch'.got = watch.got,
           WatchedKey \in DOMAIN partial' <=> WatchedKey \in Live,
           WatchedKey \in Live => partial'[WatchedKey] = partial[WatchedKey]
    PROVE  WatchInv'
<1>1. WatchedKey' = WatchedKey
  BY DEF WatchedKey
<1>2. Live \subseteq DOMAIN partial
  BY DEF Live, PartialKeys
<1>3. OutWhole(watch')
  BY DEF OutWhole, WatchInv, WatchType
<1>4. Pending(partial', WatchedKey, watch')
  <2> SUFFICES ASSUME watch'.spoiled = FALSE, watch'.out = NoFrame
               PROVE  /\ watch'.got # Places(Len(watch'.frame))
                      /\ watch'.got = {} => WatchedKey \notin DOMAIN partial' /\ watch'.left = Timeout
                      /\ watch'.got # {} /\ watch'.left > 0 =>
                            WatchedKey \in DOMAIN partial' /\ partial'[WatchedKey] = Awaited(watch')
    BY DEF Pending
  <2>1. watch.spoiled = FALSE /\ watch.out = NoFrame /\ watch'.got = watch.got
    OBVIOUS
  <2>2. /\ watch.got = {} => WatchedKey \notin Live
        /\ watch.got # {} /\ watch.left > 0 => WatchedKey \in Live /\ partial[WatchedKey] = Awaited(watch)
    BY <2>1, LiveAwaited DEF WatchInv
  <2>3. /\ watch.got # Places(Len(watch.frame))
        /\ watch.got = {} => watch.left = Timeout
    BY <2>1 DEF WatchInv, Pending
  <2>4. Awaited(watch') = Awaited(watch)
    BY <2>1 DEF Awaited
  <2> QED
    BY <2>1, <2>2, <2>3, <2>4
<1>5. WatchedKey \in DOMAIN partial' => Placed(partial'[WatchedKey], watch')
  BY <1>2 DEF Placed, WatchInv
<1> QED
  BY <1>1, <1>3, <1>4, <1>5 DEF WatchInv

(* Datagrams of other frames and neighbours.                               *)
LEMMA WatchElsewhere ==
    ASSUME WatchInv, NEW source, NEW d, Push(source, d), <<source, d.digest>> # WatchedKey
    PROVE  WatchInv'
<1>1. watch' = watch
  BY DEF Push, WatchPush, WatchedKey
<1>2. /\ WatchedKey \in DOMAIN partial' <=> WatchedKey \in Live
      /\ WatchedKey \in Live => partial'[WatchedKey] = partial[WatchedKey]
  BY PushElsewhere
<1>3. WatchType(watch)
  BY DEF WatchInv
<1> QED
  BY <1>1, <1>2, <1>3, WatchKept

(* What a datagram with the watched digest adds to the history.            *)
LEMMA WatchedPush ==
    ASSUME FragmentsInv, WatchInv, NEW source, NEW d \in Datagrams, Push(source, d),
           <<source, d.digest>> = WatchedKey
    PROVE  /\ WatchType(watch')
           /\ watch'.source = watch.source /\ watch'.frame = watch.frame /\ watch'.left = watch.left
           /\ watch'.got = IF d \in Cut(watch.frame) THEN watch.got \cup {d.index} ELSE watch.got
           /\ watch'.out = IF output' = NoFrame THEN watch.out ELSE output'
           /\ watch'.spoiled = FALSE => watch.spoiled = FALSE
           /\ watch'.spoiled = FALSE /\ WellFormed(d)
                 => d \in Cut(watch.frame) /\ Admitted(source, d) /\ watch.left # 0
<1> DEFINE genuine == d \in Cut(watch.frame)
           spoils  == WellFormed(d) /\ (~genuine \/ ~Admitted(source, d) \/ watch.left = 0)
<1>1. watch' = [watch EXCEPT !.got = IF genuine THEN @ \cup {d.index} ELSE @,
                             !.spoiled = IF spoils THEN TRUE ELSE @,
                             !.out = IF output' = NoFrame THEN @ ELSE output']
  BY DEF Push, WatchPush, WatchedKey
<1>2. /\ DOMAIN watch = {"source", "frame", "got", "left", "spoiled", "out"}
      /\ watch.frame \in Frames /\ watch.got \subseteq Places(Len(watch.frame)) /\ watch.left \in Nat
  BY DEF WatchInv, WatchType
<1>3. genuine => d.index \in Places(Len(watch.frame))
  BY <1>2, CutFacts
<1> HIDE DEF genuine, spoils
<1>4. /\ DOMAIN watch' = {"source", "frame", "got", "left", "spoiled", "out"}
      /\ watch'.source = watch.source /\ watch'.frame = watch.frame /\ watch'.left = watch.left
      /\ watch'.got = IF genuine THEN watch.got \cup {d.index} ELSE watch.got
      /\ watch'.spoiled = IF spoils THEN TRUE ELSE watch.spoiled
      /\ watch'.out = IF output' = NoFrame THEN watch.out ELSE output'
  BY <1>1, <1>2
<1>5. WatchType(watch')
  BY <1>2, <1>3, <1>4 DEF WatchType
<1>6. watch'.spoiled = FALSE => watch.spoiled = FALSE /\ ~spoils
  BY <1>4
<1>7. ~spoils /\ WellFormed(d) => genuine /\ Admitted(source, d) /\ watch.left # 0
  BY Zenon DEF spoils
<1> QED
  BY <1>4, <1>5, <1>6, <1>7, Zenon DEF genuine

(* While nothing stands in its way, a fragment of the watched frame finds  *)
(* the place it expects.                                                   *)
LEMMA WatchedPlace ==
    ASSUME WatchInv, NEW source, NEW d \in Cut(watch.frame), <<source, d.digest>> = WatchedKey,
           watch.spoiled = FALSE, watch.out = NoFrame, watch.left # 0
    PROVE  PlaceOf(source, d) = Awaited(watch)
<1>1. watch.frame \in Frames /\ watch.left \in Nat
  BY DEF WatchInv, WatchType
<1>2. d.frame_len = Len(watch.frame) /\ d.count = Count(Len(watch.frame))
  BY <1>1, CutFacts
<1>3. CASE watch.got = {}
  <2>1. WatchedKey \notin Live /\ watch.left = Timeout
    BY <1>3, LiveAwaited DEF WatchInv, Pending
  <2>2. PlaceOf(source, d) = Place(d)
    BY <2>1 DEF PlaceOf
  <2>3. [i \in watch.got |-> Chunk(watch.frame, i)] = <<>>
    BY <1>3
  <2> QED
    BY <1>2, <2>1, <2>2, <2>3 DEF Place, Awaited
<1>4. CASE watch.got # {}
  <2>1. watch.left > 0
    BY <1>1
  <2>2. WatchedKey \in Live /\ partial[WatchedKey] = Awaited(watch)
    BY <1>4, <2>1, LiveAwaited DEF WatchInv
  <2> QED
    BY <2>2 DEF PlaceOf
<1> QED
  BY <1>3, <1>4

(* A push that gives nothing out and keeps every live place.               *)
LEMMA WatchRests ==
    ASSUME FragmentsInv, WatchInv, NEW source, NEW d \in Datagrams, Push(source, d),
           <<source, d.digest>> = WatchedKey, Rest(Live),
           watch'.spoiled = FALSE /\ watch.out = NoFrame => watch'.got = watch.got
    PROVE  WatchInv'
<1>1. partial' = [k \in Live |-> partial[k]] /\ output' = NoFrame
  BY DEF Rest, Keep
<1>2. /\ WatchType(watch')
      /\ watch'.source = watch.source /\ watch'.frame = watch.frame /\ watch'.left = watch.left
      /\ watch.got \subseteq watch'.got /\ watch'.out = watch.out
      /\ watch'.spoiled = FALSE => watch.spoiled = FALSE
  BY <1>1, WatchedPush
<1>3. /\ WatchedKey \in DOMAIN partial' <=> WatchedKey \in Live
      /\ WatchedKey \in Live => partial'[WatchedKey] = partial[WatchedKey]
  BY <1>1
<1> QED
  BY <1>2, <1>3, WatchKept

LEMMA WatchMalformed ==
    ASSUME FragmentsInv, WatchInv, NEW source, NEW d \in Datagrams, Push(source, d),
           <<source, d.digest>> = WatchedKey, PushMalformed(source, d)
    PROVE  WatchInv'
<1>1. d \notin Cut(watch.frame)
  BY CutFacts DEF PushMalformed, WatchInv, WatchType
<1>2. watch'.got = watch.got
  BY <1>1, WatchedPush
<1>3. Rest(Live)
  BY DEF PushMalformed
<1> QED
  BY <1>2, <1>3, WatchRests

LEMMA WatchRefused ==
    ASSUME FragmentsInv, WatchInv, NEW source, NEW d \in Datagrams, Push(source, d),
           <<source, d.digest>> = WatchedKey, PushRefused(source, d)
    PROVE  WatchInv'
<1>1. ~Admitted(source, d) /\ WellFormed(d) /\ Rest(Live)
  <2>1. Cardinality(Live) \in Nat /\ LiveReserved \in Nat
    BY LiveFacts
  <2>2. d.frame_len \in Nat
    BY DatagramsTyped DEF FragmentRecords
  <2>3. MaxFrames \in Nat /\ MaxBytes \in Nat
    BY FragmentsAssumption DEF MaxBytes
  <2> QED
    BY <2>1, <2>2, <2>3 DEF PushRefused, Admitted
<1>2. watch'.spoiled # FALSE
  BY <1>1, WatchedPush
<1> QED
  BY <1>1, <1>2, WatchRests

LEMMA WatchRepeated ==
    ASSUME FragmentsInv, WatchInv, NEW source, NEW d \in Datagrams, Push(source, d),
           <<source, d.digest>> = WatchedKey, PushRepeated(source, d)
    PROVE  WatchInv'
<1>1. Rest(Live) /\ WellFormed(d) /\ d.index \in DOMAIN PlaceOf(source, d).fragments
  BY DEF PushRepeated, Admitted
<1>2. ASSUME watch'.spoiled = FALSE, watch.out = NoFrame PROVE watch'.got = watch.got
  <2>1. watch.spoiled = FALSE /\ d \in Cut(watch.frame) /\ watch.left # 0
    BY <1>1, <1>2, WatchedPush
  <2>2. PlaceOf(source, d) = Awaited(watch)
    BY <1>2, <2>1, WatchedPlace
  <2>3. DOMAIN Awaited(watch).fragments = watch.got
    BY DEF Awaited
  <2>4. watch'.got = watch.got \cup {d.index}
    BY <2>1, WatchedPush
  <2> QED
    BY <1>1, <2>2, <2>3, <2>4
<1> QED
  BY <1>1, <1>2, WatchRests

(* A fragment of the watched frame does not conflict with the place it     *)
(* expects.                                                                *)
LEMMA AwaitedAgrees ==
    ASSUME NEW w, w.frame \in Frames, NEW d \in Cut(w.frame)
    PROVE  ~Conflicts(Awaited(w), d)
<1>1. /\ d.frame_len = Len(w.frame) /\ d.count = Count(Len(w.frame))
      /\ d.payload = Chunk(w.frame, d.index)
  BY CutFacts
<1>2. /\ Awaited(w).frame_len = Len(w.frame) /\ Awaited(w).count = Count(Len(w.frame))
      /\ DOMAIN Awaited(w).fragments = w.got
      /\ \A i \in w.got : Awaited(w).fragments[i] = Chunk(w.frame, i)
  BY DEF Awaited
<1> QED
  BY <1>1, <1>2 DEF Conflicts

LEMMA WatchConflict ==
    ASSUME FragmentsInv, WatchInv, NEW source, NEW d \in Datagrams, Push(source, d),
           <<source, d.digest>> = WatchedKey, PushConflict(source, d)
    PROVE  WatchInv'
<1>1. /\ WellFormed(d) /\ Conflicts(PlaceOf(source, d), d)
      /\ WatchedKey \notin DOMAIN partial' /\ output' = NoFrame
  BY DEF PushConflict, Admitted, Rest, Keep
<1>2. /\ WatchType(watch')
      /\ watch'.source = watch.source /\ watch'.frame = watch.frame
      /\ watch.got \subseteq watch'.got /\ watch'.out = watch.out
  BY <1>1, WatchedPush
<1>3. ~(watch'.spoiled = FALSE /\ watch.out = NoFrame)
  <2> SUFFICES ASSUME watch'.spoiled = FALSE, watch.out = NoFrame PROVE FALSE
    OBVIOUS
  <2>1. watch.spoiled = FALSE /\ d \in Cut(watch.frame) /\ watch.left # 0
    BY <1>1, WatchedPush
  <2>2. PlaceOf(source, d) = Awaited(watch)
    BY <2>1, WatchedPlace
  <2>3. watch.frame \in Frames
    BY DEF WatchInv, WatchType
  <2> QED
    BY <1>1, <2>1, <2>2, <2>3, AwaitedAgrees
<1>4. Pending(partial', WatchedKey, watch')
  BY <1>2, <1>3 DEF Pending
<1>5. OutWhole(watch')
  BY <1>2 DEF OutWhole, WatchInv, WatchType
<1>6. WatchedKey' = WatchedKey
  BY <1>2 DEF WatchedKey
<1> QED
  BY <1>1, <1>2, <1>4, <1>5, <1>6 DEF WatchInv

LEMMA PlacesCount ==
    ASSUME NEW n \in Nat, n > 0, NEW S \in SUBSET Places(n)
    PROVE  Cardinality(S) = Count(n) <=> S = Places(n)
<1>1. Count(n) \in Nat /\ Count(n) >= 1
  BY CountFacts
<1> DEFINE c == Count(n) - 1
<1>2. 0 \in Int /\ c \in Int /\ c >= 0 /\ c + 1 = Count(n)
  BY <1>1
<1> HIDE DEF c
<1>3. IsFiniteSet(0..c) /\ Cardinality(0..c) = c + 1
  <2>1. IsFiniteSet(0..c) /\ Cardinality(0..c) = IF 0 > c THEN 0 ELSE c - 0 + 1
    BY <1>2, FS_Interval
  <2> QED
    BY <1>2, <2>1
<1>4. IsFiniteSet(Places(n)) /\ Cardinality(Places(n)) = Count(n)
  BY <1>2, <1>3 DEF Places, c
<1>5. Cardinality(Places(n)) = Cardinality(S) => Places(n) = S
  BY <1>4, FS_Subset
<1> QED
  BY <1>4, <1>5

(* A fragment that was missing: the frame waits on or comes out.           *)
LEMMA WatchNew ==
    ASSUME FragmentsInv, WatchInv, NEW source, NEW d \in Datagrams, Push(source, d),
           <<source, d.digest>> = WatchedKey, PushNew(source, d)
    PROVE  WatchInv'
<1> DEFINE x         == watch.frame
           n         == d.frame_len
           place     == PlaceOf(source, d)
           fragments == [i \in DOMAIN place.fragments \cup {d.index} |->
                            IF i = d.index THEN d.payload ELSE place.fragments[i]]
           complete  == Cardinality(DOMAIN fragments) = d.count
           filled    == [place EXCEPT !.fragments = fragments]
<1>1. /\ WellFormed(d) /\ ~Conflicts(place, d) /\ d.index \notin DOMAIN place.fragments
      /\ complete => WatchedKey \notin DOMAIN partial' /\ output' = Reassembled(fragments, d)
      /\ ~complete => WatchedKey \in DOMAIN partial' /\ partial'[WatchedKey] = filled
                      /\ output' = NoFrame
  BY DEF PushNew, Admitted, Keep
<1>2. /\ d \in FragmentRecords /\ n \in Nat /\ n > 0 /\ d.count = Count(n) /\ d.index \in Places(n)
      /\ d.payload \in Seq(Nat) /\ Len(d.payload) = Extent(n, d.index)
  BY <1>1, DatagramsTyped, WellFormedFacts
<1>3. /\ WatchType(watch')
      /\ watch'.source = watch.source /\ watch'.frame = x /\ watch'.left = watch.left
      /\ watch'.got = IF d \in Cut(x) THEN watch.got \cup {d.index} ELSE watch.got
      /\ watch'.out = IF output' = NoFrame THEN watch.out ELSE output'
      /\ watch'.spoiled = FALSE => watch.spoiled = FALSE /\ d \in Cut(x) /\ watch.left # 0
  BY <1>1, WatchedPush
<1>4. x \in Frames /\ d.digest = x /\ watch.got \subseteq Places(Len(x)) /\ OutWhole(watch)
  BY DEF WatchInv, WatchType, WatchedKey
<1>5. place.frame_len = n /\ place.count = Count(n)
      /\ DOMAIN place = {"ticks_left", "frame_len", "count", "fragments"}
  <2>1. place.frame_len = n /\ place.count = d.count
    BY <1>1 DEF Conflicts
  <2>2. DOMAIN place = {"ticks_left", "frame_len", "count", "fragments"}
    <3>1. CASE WatchedKey \in Live
      BY <3>1, LiveFacts DEF PlaceOf, FragmentsInv
    <3>2. CASE WatchedKey \notin Live
      BY <3>2 DEF PlaceOf, Place
    <3> QED
      BY <3>1, <3>2
  <2> QED
    BY <1>2, <2>1, <2>2
<1>6. \A i \in DOMAIN place.fragments :
         /\ i \in Places(n) /\ place.fragments[i] \in Seq(Nat)
         /\ Len(place.fragments[i]) = Extent(n, i)
         /\ n = Len(x) /\ place.fragments[i] = Chunk(x, i) => i \in watch.got
  <2>1. CASE WatchedKey \in Live
    <3>1. place = partial[WatchedKey] /\ WatchedKey \in DOMAIN partial
      BY <2>1, LiveFacts DEF PlaceOf
    <3> HIDE DEF place
    <3>2. Placed(place, watch)
      BY <3>1 DEF WatchInv
    <3> QED
      BY <1>5, <3>2 DEF Placed
  <2>2. CASE WatchedKey \notin Live
    <3>1. place.fragments = <<>>
      BY <2>2 DEF PlaceOf, Place
    <3> HIDE DEF place
    <3> QED
      BY <3>1
  <2> QED
    BY <2>1, <2>2
<1> HIDE DEF place
<1>7. \A i \in DOMAIN fragments :
         /\ i \in Places(n) /\ fragments[i] \in Seq(Nat) /\ Len(fragments[i]) = Extent(n, i)
         /\ n = Len(x) /\ fragments[i] = Chunk(x, i) => i \in watch'.got
  <2> SUFFICES ASSUME NEW i \in DOMAIN fragments
               PROVE  /\ i \in Places(n) /\ fragments[i] \in Seq(Nat) /\ Len(fragments[i]) = Extent(n, i)
                      /\ n = Len(x) /\ fragments[i] = Chunk(x, i) => i \in watch'.got
    OBVIOUS
  <2>1. CASE i = d.index
    <3>1. fragments[i] = d.payload
      BY <2>1
    <3>2. n = Len(x) /\ d.payload = Chunk(x, d.index) => d \in Cut(x)
      BY <1>2, <1>4, InCut
    <3> QED
      BY <1>2, <1>3, <2>1, <3>1, <3>2
  <2>2. CASE i # d.index
    <3>1. i \in DOMAIN place.fragments /\ fragments[i] = place.fragments[i]
      BY <2>2
    <3> QED
      BY <1>3, <1>6, <3>1
  <2> QED
    BY <2>1, <2>2
<1>8. DOMAIN fragments = DOMAIN place.fragments \cup {d.index}
  OBVIOUS
<1>9. ASSUME watch'.spoiled = FALSE, watch.out = NoFrame
      PROVE  /\ n = Len(x) /\ place = Awaited(watch)
             /\ fragments = [i \in watch'.got |-> Chunk(x, i)]
  <2>1. watch.spoiled = FALSE /\ d \in Cut(x) /\ watch.left # 0
    BY <1>3, <1>9
  <2>2. place = Awaited(watch)
    BY <1>9, <2>1, WatchedPlace DEF place
  <2>3. n = Len(x) /\ d.payload = Chunk(x, d.index)
    BY <1>4, <2>1, CutFacts
  <2>4. DOMAIN place.fragments = watch.got /\ \A i \in watch.got : place.fragments[i] = Chunk(x, i)
    BY <2>2 DEF Awaited
  <2>5. watch'.got = watch.got \cup {d.index}
    BY <1>3, <2>1
  <2> QED
    BY <2>2, <2>3, <2>4, <2>5
<1>10. complete <=> DOMAIN fragments = Places(n)
  <2>1. DOMAIN fragments \in SUBSET Places(n)
    BY <1>7
  <2> HIDE DEF fragments
  <2> QED
    BY <1>2, <2>1, PlacesCount
<1>11. WatchedKey' = WatchedKey
  BY <1>3 DEF WatchedKey
<1>12. x \in Seq(Nat) /\ Len(x) > 0 /\ x # NoFrame
  BY <1>4, FrameFacts
<1> HIDE DEF fragments, complete
<1>13. watch'.got \subseteq Places(Len(x)) /\ watch.got \subseteq watch'.got
  BY <1>3 DEF WatchType
<1>14. CASE complete
  <2>1. \A i \in Places(n) : i \in DOMAIN fragments
    BY <1>10, <1>14
  <2>2. output' = IF Joined(fragments, n) = x THEN x ELSE NoFrame
    BY <1>1, <1>4, <1>14 DEF Reassembled
  <2>3. ASSUME Joined(fragments, n) = x PROVE watch'.got = Places(Len(x))
    <3>1. \A i \in Places(n) : n = Len(x) /\ fragments[i] = Chunk(x, i)
      BY <1>2, <1>7, <1>12, <2>1, <2>3, JoinedIsUnique
    <3>2. n = Len(x)
      BY <1>2, <3>1
    <3> QED
      BY <1>7, <1>13, <2>1, <3>1, <3>2
  <2>4. OutWhole(watch')
    <3>1. CASE output' = NoFrame
      BY <1>3, <1>4, <1>13, <3>1 DEF OutWhole
    <3>2. CASE output' # NoFrame
      BY <1>3, <2>2, <2>3, <3>2 DEF OutWhole
    <3> QED
      BY <3>1, <3>2
  <2>5. Pending(partial', WatchedKey, watch')
    <3> SUFFICES ASSUME watch'.spoiled = FALSE, watch'.out = NoFrame PROVE FALSE
      BY DEF Pending
    <3>1. output' = NoFrame /\ watch.out = NoFrame
      BY <1>3
    <3>2. n = Len(x) /\ fragments = [i \in watch'.got |-> Chunk(x, i)]
      BY <1>9, <3>1
    <3>3. \A i \in Places(Len(x)) : fragments[i] = Chunk(x, i)
      BY <2>1, <3>2
    <3>4. Joined(fragments, n) = x
      BY <1>12, <3>2, <3>3, JoinedIsFrame
    <3> QED
      BY <1>12, <2>2, <3>1, <3>4
  <2> QED
    BY <1>1, <1>3, <1>11, <1>14, <2>4, <2>5 DEF WatchInv
<1>15. CASE ~complete
  <2>1. /\ WatchedKey \in DOMAIN partial' /\ partial'[WatchedKey] = filled
        /\ output' = NoFrame /\ watch'.out = watch.out
    BY <1>1, <1>3, <1>15
  <2>2. filled = [ticks_left |-> place.ticks_left, frame_len |-> n, count |-> Count(n),
                  fragments |-> fragments]
    BY <1>5
  <2>3. OutWhole(watch')
    BY <1>3, <1>4, <1>13, <2>1 DEF OutWhole
  <2>4. Placed(filled, watch')
    BY <1>2, <1>3, <1>7, <2>2 DEF Placed
  <2>5. Pending(partial', WatchedKey, watch')
    <3> SUFFICES ASSUME watch'.spoiled = FALSE, watch'.out = NoFrame
                 PROVE  /\ watch'.got # Places(Len(watch'.frame))
                        /\ watch'.got # {} /\ WatchedKey \in DOMAIN partial'
                        /\ partial'[WatchedKey] = Awaited(watch')
      BY DEF Pending
    <3>1. /\ n = Len(x) /\ place = Awaited(watch) /\ fragments = [i \in watch'.got |-> Chunk(x, i)]
      BY <1>9, <2>1
    <3>2. DOMAIN fragments = watch'.got
      BY <3>1
    <3>3. place.ticks_left = watch'.left
      BY <1>3, <3>1 DEF Awaited
    <3>4. filled = Awaited(watch')
      BY <1>3, <2>2, <3>1, <3>3 DEF Awaited
    <3>5. watch'.got # {}
      BY <1>8, <3>2
    <3> QED
      BY <1>3, <1>10, <1>15, <2>1, <3>1, <3>2, <3>4, <3>5
  <2> QED
    BY <1>3, <1>11, <2>1, <2>3, <2>4, <2>5 DEF WatchInv
<1> QED
  BY <1>14, <1>15

LEMMA WatchTicks ==
    ASSUME WatchInv, FragmentsInv, FragmentsTick
    PROVE  WatchInv'
<1>1. /\ DOMAIN partial' = DOMAIN partial
      /\ \A k \in DOMAIN partial : partial'[k] =
            [partial[k] EXCEPT !.ticks_left = IF @ > 0 THEN @ - 1 ELSE 0]
      /\ watch' = [watch EXCEPT !.left = IF watch.got # {} /\ @ > 0 THEN @ - 1 ELSE @]
  BY DEF FragmentsTick, PartialKeys
<1>2. /\ DOMAIN watch = {"source", "frame", "got", "left", "spoiled", "out"} /\ watch.left \in Nat
  BY DEF WatchInv, WatchType
<1>3. /\ DOMAIN watch' = DOMAIN watch
      /\ watch'.source = watch.source /\ watch'.frame = watch.frame /\ watch'.got = watch.got
      /\ watch'.spoiled = watch.spoiled /\ watch'.out = watch.out
      /\ watch'.left = IF watch.got # {} /\ watch.left > 0 THEN watch.left - 1 ELSE watch.left
  BY <1>1, <1>2
<1>4. WatchType(watch') /\ OutWhole(watch') /\ WatchedKey' = WatchedKey
  BY <1>2, <1>3 DEF WatchInv, WatchType, OutWhole, WatchedKey
<1>5. ASSUME WatchedKey \in DOMAIN partial PROVE Placed(partial'[WatchedKey], watch')
  <2> DEFINE p == partial[WatchedKey]
             q == partial'[WatchedKey]
  <2>1. DOMAIN p = {"ticks_left", "frame_len", "count", "fragments"} /\ Placed(p, watch)
    BY <1>5 DEF FragmentsInv, WatchInv
  <2>2. q = [p EXCEPT !.ticks_left = IF @ > 0 THEN @ - 1 ELSE 0]
    BY <1>1, <1>5
  <2> HIDE DEF p, q
  <2>3. q.frame_len = p.frame_len /\ q.count = p.count /\ q.fragments = p.fragments
    BY <2>1, <2>2
  <2>4. Placed(q, watch')
    BY <1>3, <2>1, <2>3 DEF Placed
  <2> QED
    BY <2>4 DEF q
<1>6. Pending(partial', WatchedKey, watch')
  <2> SUFFICES ASSUME watch.spoiled = FALSE, watch.out = NoFrame
               PROVE  /\ watch.got # Places(Len(watch.frame))
                      /\ watch.got = {} => WatchedKey \notin DOMAIN partial /\ watch'.left = Timeout
                      /\ watch.got # {} /\ watch'.left > 0 =>
                            WatchedKey \in DOMAIN partial /\ partial'[WatchedKey] = Awaited(watch')
    BY <1>1, <1>3 DEF Pending
  <2>1. /\ watch.got # Places(Len(watch.frame))
        /\ watch.got = {} => WatchedKey \notin DOMAIN partial /\ watch.left = Timeout
        /\ watch.got # {} /\ watch.left > 0 =>
              WatchedKey \in DOMAIN partial /\ partial[WatchedKey] = Awaited(watch)
    BY DEF WatchInv, Pending
  <2>2. ASSUME watch.got # {}, watch'.left > 0
        PROVE  WatchedKey \in DOMAIN partial /\ partial'[WatchedKey] = Awaited(watch')
    <3>1. watch.left > 0 /\ watch'.left = watch.left - 1
      BY <1>2, <1>3, <2>2
    <3>2. WatchedKey \in DOMAIN partial /\ partial[WatchedKey] = Awaited(watch)
      BY <2>1, <2>2, <3>1
    <3>3. partial'[WatchedKey] = [Awaited(watch) EXCEPT !.ticks_left = IF @ > 0 THEN @ - 1 ELSE 0]
      BY <1>1, <3>2
    <3> QED
      BY <1>3, <3>1, <3>2, <3>3 DEF Awaited
  <2> QED
    BY <1>3, <2>1, <2>2
<1> QED
  BY <1>1, <1>4, <1>5, <1>6 DEF WatchInv

LEMMA WatchStep ==
    ASSUME FragmentsInv, WatchInv, [FragmentsNext]_fragmentVars
    PROVE  WatchInv'
<1>1. ASSUME NEW source \in Sources, NEW d \in Datagrams, Push(source, d) PROVE WatchInv'
  <2>1. CASE <<source, d.digest>> # WatchedKey
    BY <1>1, <2>1, WatchElsewhere
  <2>2. CASE <<source, d.digest>> = WatchedKey
    <3>1. \/ PushMalformed(source, d) \/ PushRefused(source, d) \/ PushConflict(source, d)
          \/ PushRepeated(source, d) \/ PushNew(source, d)
      BY <1>1 DEF Push
    <3> QED
      BY <1>1, <2>2, <3>1, WatchMalformed, WatchRefused, WatchConflict, WatchRepeated, WatchNew
  <2> QED
    BY <2>1, <2>2
<1>2. CASE UNCHANGED fragmentVars
  <2>1. watch' = watch /\ partial' = partial
    BY <1>2 DEF fragmentVars
  <2> QED
    BY <2>1 DEF WatchInv, WatchedKey
<1> QED
  BY <1>1, <1>2, WatchTicks DEF FragmentsNext

(* push gives out the frame a digest is of, once the neighbour has sent    *)
(* every fragment of it, and gives it out whenever they arrive in time and *)
(* neither damage nor a limit interferes: for any frames, fragment sizes,  *)
(* limits and neighbours, any damage, and any order of arrival.            *)
THEOREM FramesComeThrough == FragmentsSpec => []ReassemblyFaithful
<1>1. FragmentsInit => WatchInv
  <2> SUFFICES ASSUME FragmentsInit PROVE WatchInv
    OBVIOUS
  <2>1. PICK source \in Sources, frame \in Frames : watch = Watched(source, frame)
    BY DEF FragmentsInit
  <2>2. /\ DOMAIN watch = {"source", "frame", "got", "left", "spoiled", "out"}
        /\ watch.frame = frame /\ watch.got = {} /\ watch.left = Timeout /\ watch.out = NoFrame
    BY <2>1 DEF Watched
  <2>3. DOMAIN partial = {}
    BY DEF FragmentsInit
  <2>4. {} # Places(Len(frame))
    <3>1. Count(Len(frame)) \in Nat /\ Count(Len(frame)) >= 2
      BY FrameFacts
    <3>2. 0 \in Places(Len(frame))
      BY <3>1 DEF Places
    <3> QED
      BY <3>2
  <2> QED
    BY <2>2, <2>3, <2>4, FragmentsAssumption DEF WatchInv, WatchType, OutWhole, Pending
<1>2. WatchInv => ReassemblyFaithful
  <2> SUFFICES ASSUME WatchInv PROVE ReassemblyFaithful
    OBVIOUS
  <2>1. OutWhole(watch) /\ Pending(partial, WatchedKey, watch)
    BY DEF WatchInv
  <2>2. Places(Len(watch.frame)) = 0..(DivCeil(Len(watch.frame), FragmentBytes) - 1)
    BY DEF Places, Count
  <2> QED
    BY <2>1, <2>2 DEF OutWhole, Pending, ReassemblyFaithful
<1> QED
  BY <1>1, <1>2, FragmentsInitially, FragmentsStep, WatchStep, PTL DEF FragmentsSpec

===========================================================================
