---------------------------- MODULE HttpTunnel ----------------------------
(***************************************************************************)
(* The gateway side of the HTTP transport: TunnelHub of                    *)
(* crates/ipars-http-tunnel/src/lib.rs.  An open request awaits the        *)
(* backend between its first look at the sessions and its commit, and a    *)
(* receive request keeps its tunnel while it polls; any other request may  *)
(* run in between.  Times are ages in ticks, counted up to the age that    *)
(* matters.  Packets and counters are left out.                            *)
(***************************************************************************)
EXTENDS Integers, FiniteSetsExt

CONSTANTS
    Slots,       \* open requests; a slot is also the token it hands out
    Scopes,      \* scopes of sessions: one peer over one transport
    Objects,     \* shared TransportObservation objects
    Maximum,     \* maximum
    Permits,     \* permits of the opening semaphore
    Idle,        \* IDLE_TIMEOUT
    Lifetime,    \* the longest lifetime of a session
    ObservedFor  \* how long an observation outlives its last update

ASSUME TunnelAssumption ==
    /\ {Maximum, Permits, Idle, Lifetime, ObservedFor} \subseteq Nat \ {0}
    /\ Idle < ObservedFor
    /\ IsFiniteSet(Slots) /\ IsFiniteSet(Objects)
    /\ Cardinality(Objects) > Maximum + Cardinality(Slots)

VARIABLES
    opening,       \* open requests that await the backend, with their scope
    sessions,      \* tunnels by token
    observations,  \* the object that describes a scope
    age,           \* time since each object's updated_at
    polling        \* receive requests under way, with the tunnel they hold

tunnelVars == <<opening, sessions, observations, age, polling>>

TunnelInit ==
    /\ opening = <<>> /\ sessions = <<>> /\ observations = <<>>
    /\ age = [o \in Objects |-> 0]
    /\ polling = {}

Set(f, k, v) == [x \in DOMAIN f \cup {k} |-> IF x = k THEN v ELSE f[x]]

(* Tunnel::alive.                                                          *)
Alive(tunnel) == tunnel.left > 0 /\ tunnel.idle < Idle
LiveTokens == {t \in DOMAIN sessions : Alive(sessions[t])}
LiveScopes == {sessions[t].scope : t \in LiveTokens}

(* Room for one more session, or a session of the scope to replace.        *)
HasRoom(scope) == Cardinality(LiveTokens) < Maximum \/ scope \in LiveScopes

---------------------------------------------------------------------------
(* A slot whose token nobody holds any more.                               *)
FreeSlot(o) == o \notin DOMAIN opening \cup DOMAIN sessions \cup {p.token : p \in polling}

OpenStarts(o, scope) ==
    /\ FreeSlot(o)
    /\ Cardinality(DOMAIN opening) < Permits
    /\ sessions' = Restrict(sessions, LiveTokens)
    /\ opening' = IF HasRoom(scope) THEN Set(opening, o, scope) ELSE opening
    /\ UNCHANGED <<observations, age, polling>>

(* The backend does not answer, or answers with something else.            *)
OpenFails(o) ==
    /\ o \in DOMAIN opening
    /\ opening' = Restrict(opening, DOMAIN opening \ {o})
    /\ UNCHANGED <<sessions, observations, age, polling>>

Kept == {s \in DOMAIN observations : age[observations[s]] < ObservedFor}
Oldest(S) == {s \in S : \A q \in S : age[observations[s]] >= age[observations[q]]}

(* Mutant: the oldest observation makes room, in use or not.               *)
EvictionsAny(scope) ==
    IF scope \in Kept \/ Cardinality(Kept) < Maximum THEN {{}}
    ELSE {{s} : s \in Oldest(Kept)}

(* What may make room for the scope's observation: nothing, or an oldest   *)
(* one without a session.  No choice at all: the open is refused.          *)
Evictions(scope) ==
    IF scope \in Kept \/ Cardinality(Kept) < Maximum THEN {{}}
    ELSE {{s} : s \in Oldest(Kept \ LiveScopes)}

Unused == Objects \ ({observations[s] : s \in DOMAIN observations}
                     \cup {sessions[t].observation : t \in DOMAIN sessions}
                     \cup {p.observation : p \in polling})

(* Mutant: the session the scope had stays.                                *)
CommitBeside(o, scope, life, evicted) ==
    LET kept   == Kept \ evicted
        object == IF scope \in kept THEN observations[scope] ELSE CHOOSE x \in Unused : TRUE
    IN  /\ observations' = Set(Restrict(observations, kept), scope, object)
        /\ age' = [age EXCEPT ![object] = 0]
        /\ sessions' = Set(Restrict(sessions, LiveTokens), o,
                           [scope |-> scope, idle |-> 0, left |-> life, observation |-> object])

(* The commit under the session lock: the observation, then the session    *)
(* in the place of the one its scope had.  With that one gone there is     *)
(* room, so the last check of the code cannot refuse.                      *)
Commit(o, scope, life, evicted) ==
    LET kept   == Kept \ evicted
        object == IF scope \in kept THEN observations[scope] ELSE CHOOSE x \in Unused : TRUE
        others == {t \in LiveTokens : sessions[t].scope # scope}
    IN  /\ observations' = Set(Restrict(observations, kept), scope, object)
        /\ age' = [age EXCEPT ![object] = 0]
        /\ sessions' = Set(Restrict(sessions, others), o,
                           [scope |-> scope, idle |-> 0, left |-> life, observation |-> object])

(* The limits are checked again under the lock of the commit.              *)
OpenCommits(o, life) ==
    /\ o \in DOMAIN opening
    /\ HasRoom(opening[o])
    /\ opening' = Restrict(opening, DOMAIN opening \ {o})
    /\ \E evicted \in Evictions(opening[o]) : Commit(o, opening[o], life, evicted)
    /\ UNCHANGED polling

(* No room any more, for the session or for its observation.               *)
OpenRefused(o) ==
    LET full == ~HasRoom(opening[o])
    IN  /\ o \in DOMAIN opening
        /\ ~full => Evictions(opening[o]) = {}
        /\ opening' = Restrict(opening, DOMAIN opening \ {o})
        /\ sessions' = Restrict(sessions, LiveTokens)
        /\ observations' = IF full THEN observations ELSE Restrict(observations, Kept)
        /\ UNCHANGED <<age, polling>>

---------------------------------------------------------------------------
(* session(): send, receive, touch and diagnostics begin with it.  A dead  *)
(* session is removed, a live one touched with its observation.            *)
SessionExpired(t) ==
    /\ t \in DOMAIN sessions \ LiveTokens
    /\ sessions' = Restrict(sessions, DOMAIN sessions \ {t})
    /\ UNCHANGED <<opening, observations, age, polling>>

Touched(t) ==
    /\ t \in LiveTokens
    /\ sessions' = [sessions EXCEPT ![t].idle = 0]
    /\ age' = [age EXCEPT ![sessions[t].observation] = 0]

(* send, touch, diagnostics.                                               *)
Touch(t) == Touched(t) /\ UNCHANGED <<opening, observations, polling>>

(* receive holds the tunnel; a second one is turned away after the touch.  *)
ReceiveStarts(t) ==
    /\ Touched(t)
    /\ t \notin {p.token : p \in polling}
    /\ polling' = polling \cup {[token |-> t, observation |-> sessions[t].observation]}
    /\ UNCHANGED <<opening, observations>>

ReceiveEnds(p) ==
    /\ polling' = polling \ {p}
    /\ \/ age' = [age EXCEPT ![p.observation] = 0]     \* packets came
       \/ UNCHANGED age                                \* POLL_TIMEOUT
    /\ UNCHANGED <<opening, sessions, observations>>

Close(t) ==
    /\ t \in DOMAIN sessions
    /\ sessions' = Restrict(sessions, DOMAIN sessions \ {t})
    /\ UNCHANGED <<opening, observations, age, polling>>

TunnelTick ==
    /\ sessions' = [t \in DOMAIN sessions |->
          [sessions[t] EXCEPT !.idle = Min({@ + 1, Idle}), !.left = Max({@ - 1, 0})]]
    /\ age' = [o \in Objects |-> IF o \in Unused THEN 0 ELSE Min({age[o] + 1, ObservedFor})]
    /\ UNCHANGED <<opening, observations, polling>>

TunnelNext ==
    \/ \E o \in Slots, s \in Scopes : OpenStarts(o, s)
    \/ \E o \in Slots : OpenFails(o) \/ OpenRefused(o)
    \/ \E o \in Slots, life \in 1..Lifetime : OpenCommits(o, life)
    \/ \E t \in Slots : SessionExpired(t) \/ Touch(t) \/ ReceiveStarts(t) \/ Close(t)
    \/ \E p \in polling : ReceiveEnds(p)
    \/ TunnelTick

TunnelSpec == TunnelInit /\ [][TunnelNext]_tunnelVars

---------------------------------------------------------------------------
(* Properties.                                                             *)

(* Opens that all found room before they asked the backend do not exceed   *)
(* the limit together, and a scope never has two sessions; nor do the      *)
(* observations, which outlive their sessions, grow past the limit.        *)
HubWithinLimits ==
    /\ Cardinality(DOMAIN sessions) <= Maximum
    /\ \A t, u \in DOMAIN sessions : sessions[t].scope = sessions[u].scope => t = u
    /\ Cardinality(DOMAIN observations) <= Maximum

(* What observations() reports of a scope is what its session updates:     *)
(* neither the age limit nor the eviction ever separates a live session    *)
(* from its entry.                                                         *)
ObservationOwned ==
    \A t \in LiveTokens : /\ sessions[t].scope \in DOMAIN observations
                          /\ observations[sessions[t].scope] = sessions[t].observation

===========================================================================
