--------------------------- MODULE RelayService ---------------------------
(***************************************************************************)
(* Admission to the relay (crates/ipars-relay/src/lib.rs, RelayService, as *)
(* called by the HTTP handler of crates/ipars-relay-http/src/lib.rs).      *)
(* Admission calls run concurrently: between counting an attempt, passing  *)
(* the admission rate limit (a Mutex of its own) and taking the capability *)
(* and table write locks, other calls and datagrams run.  From there to    *)
(* the answer one call holds both locks, so that part is one action.       *)
(***************************************************************************)
EXTENDS RelayTable, FiniteSetsExt

CONSTANTS
    Calls,           \* admission calls that may be in progress at once
    Eligible,        \* RelayCapability::is_eligible_relay
    MaxSessions,     \* capability.max_sessions
    NodeLimit,       \* max_sessions_per_node, 0 when there is no limit
    AttemptLimit,    \* admission_rate_limit.max_attempts, 0 for none
    AttemptWindow,   \* admission_rate_limit.window
    MaxAttempts      \* bound: number of admission attempts

ASSUME ServiceConstants ==
    /\ Eligible \in BOOLEAN
    /\ MaxSessions \in Nat
    /\ NodeLimit \in Nat
    /\ AttemptLimit \in Nat
    /\ AttemptWindow \in Nat \ {0}
    /\ MaxAttempts \in Nat

ASSUME FiniteNodes == IsFiniteSet(Nodes) /\ IsFiniteSet(Calls)

VARIABLES
    active_sessions, \* capability.active_sessions
    rate_window,     \* admission_rate_window
    calls,           \* how far each call has come
    attempts, successes, failures,  \* the admission counters
    passed           \* history: attempts the rate limit let through

serviceVars == <<active_sessions, rate_window, calls, attempts, successes,
                 failures, passed>>

(* relay_error_admission_failure_reason, over the errors admission meets.  *)
Reasons == {"Unauthorized", "RateLimited", "AdmissionDenied",
            "NodeSessionLimitExceeded"}

CallState == {"idle", "counted", "unauthorized", "limited", "admitted"} \cup Reasons

ServiceTypeOK ==
    /\ TableTypeOK
    /\ active_sessions \in Nat
    /\ rate_window \in [started_at : Nat, attempts : Nat]
    /\ calls \in [Calls -> CallState]
    /\ attempts \in Nat
    /\ successes \in Nat
    /\ failures \in [Reasons -> Nat]
    /\ passed \in Nat

ServiceInit ==
    /\ TableInit
    /\ active_sessions = 0
    /\ rate_window = [started_at |-> 0, attempts |-> 0]
    /\ calls = [c \in Calls |-> "idle"]
    /\ attempts = 0
    /\ successes = 0
    /\ failures = [reason \in Reasons |-> 0]
    /\ passed = 0

---------------------------------------------------------------------------
(* admit and record_unauthorized_admission_attempt count first; which of   *)
(* the two runs depends on the bearer token of the HTTP request.           *)
Count(c, authorized) ==
    /\ calls[c] = "idle"
    /\ attempts < MaxAttempts
    /\ attempts' = attempts + 1
    /\ calls' = [calls EXCEPT ![c] = IF authorized THEN "counted" ELSE "unauthorized"]
    /\ UNCHANGED <<active_sessions, rate_window, successes, failures, passed>>
    /\ UNCHANGED tableVars

(* record_admission_attempt_for_limit.                                     *)
RateWindow ==
    IF now - rate_window.started_at >= AttemptWindow
    THEN [started_at |-> now, attempts |-> 0]
    ELSE rate_window

(* Mutant: an attempt that passes is not counted in the window.            *)
CheckLimitUncounted(c) ==
    LET exceeded == AttemptLimit # 0 /\ RateWindow.attempts >= AttemptLimit
    IN  /\ calls[c] \in {"counted", "unauthorized"}
        /\ rate_window' = IF AttemptLimit = 0 THEN rate_window ELSE RateWindow
        /\ passed' = IF exceeded THEN passed ELSE passed + 1
        /\ calls' = [calls EXCEPT ![c] =
              IF exceeded THEN "RateLimited"
              ELSE IF @ = "counted" THEN "limited" ELSE "Unauthorized"]
        /\ UNCHANGED <<active_sessions, attempts, successes, failures>>
        /\ UNCHANGED tableVars

CheckLimit(c) ==
    LET exceeded == AttemptLimit # 0 /\ RateWindow.attempts >= AttemptLimit
    IN  /\ calls[c] \in {"counted", "unauthorized"}
        /\ rate_window' =
              IF AttemptLimit = 0 THEN rate_window
              ELSE IF exceeded THEN RateWindow
              ELSE [RateWindow EXCEPT !.attempts = @ + 1]
        /\ passed' = IF exceeded THEN passed ELSE passed + 1
        /\ calls' = [calls EXCEPT ![c] =
              IF exceeded THEN "RateLimited"
              ELSE IF @ = "counted" THEN "limited" ELSE "Unauthorized"]
        /\ UNCHANGED <<active_sessions, attempts, successes, failures>>
        /\ UNCHANGED tableVars

LiveSessions(ss) == {id \in SessionId : ss[id] # NoSession}

SessionsOf(ss, node) == {id \in LiveSessions(ss) : node \in id}

(* node_session_limit_exceeded, asked of the purged table.                 *)
NodeFull(node) ==
    NodeLimit # 0 /\ Cardinality(SessionsOf(PurgedSessions, node)) >= NodeLimit

(* Mutant: a full relay admits one more session.                           *)
CanAdmitOneMore(l, r) ==
    PurgedSessions[{l, r}] = NoSession
        => Eligible /\ Cardinality(LiveSessions(PurgedSessions)) <= MaxSessions

(* RelayCapability::can_admit, which an existing session does not need.    *)
CanAdmit(l, r) ==
    PurgedSessions[{l, r}] = NoSession
        => Eligible /\ Cardinality(LiveSessions(PurgedSessions)) < MaxSessions

(* Mutant: only the left node's sessions are counted.                     *)
AdmitCheckingLeft(c, l, r, la, ra) ==
    /\ calls[c] = "limited"
    /\ l # r
    /\ PurgedSessions[{l, r}] = NoSession => ~NodeFull(l)
    /\ CanAdmit(l, r)
    /\ AdmitExisting(l, r, la, ra) \/ AdmitNew(l, r, la, ra)
    /\ active_sessions' = Cardinality(LiveSessions(sessions'))
    /\ calls' = [calls EXCEPT ![c] = "admitted"]
    /\ UNCHANGED <<rate_window, attempts, successes, failures, passed>>

(* Mutant: the recount after the admission is missing.                     *)
AdmitWithoutRecount(c, l, r, la, ra) ==
    /\ calls[c] = "limited"
    /\ l # r
    /\ PurgedSessions[{l, r}] = NoSession => ~NodeFull(l) /\ ~NodeFull(r)
    /\ CanAdmit(l, r)
    /\ AdmitExisting(l, r, la, ra) \/ AdmitNew(l, r, la, ra)
    /\ active_sessions' = Cardinality(LiveSessions(PurgedSessions))
    /\ calls' = [calls EXCEPT ![c] = "admitted"]
    /\ UNCHANGED <<rate_window, attempts, successes, failures, passed>>

(* admit_inner, accepted: table.admit_with_options under both locks.       *)
Admit(c, l, r, la, ra) ==
    /\ calls[c] = "limited"
    /\ l # r
    /\ PurgedSessions[{l, r}] = NoSession => ~NodeFull(l) /\ ~NodeFull(r)
    /\ CanAdmit(l, r)
    /\ AdmitExisting(l, r, la, ra) \/ AdmitNew(l, r, la, ra)
    /\ active_sessions' = Cardinality(LiveSessions(sessions'))
    /\ calls' = [calls EXCEPT ![c] = "admitted"]
    /\ UNCHANGED <<rate_window, attempts, successes, failures, passed>>

(* admit_inner, refused before the locks because the request names the     *)
(* relay itself (which is no member of Nodes): the table is not touched.   *)
RefuseRelayNode(c) ==
    /\ calls[c] = "limited"
    /\ calls' = [calls EXCEPT ![c] = "AdmissionDenied"]
    /\ UNCHANGED <<active_sessions, rate_window, attempts, successes, failures, passed>>
    /\ UNCHANGED tableVars

(* admit_inner, refused under the locks: the purge and the recount stay.   *)
Refuse(c, l, r, la, ra) ==
    /\ calls[c] = "limited"
    /\ \/ /\ ~ValidAdmission(l, r, la, ra)
          /\ calls' = [calls EXCEPT ![c] = "AdmissionDenied"]
       \/ /\ ValidAdmission(l, r, la, ra)
          /\ PurgedSessions[{l, r}] = NoSession
          /\ NodeFull(l) \/ NodeFull(r)
          /\ calls' = [calls EXCEPT ![c] = "NodeSessionLimitExceeded"]
       \/ /\ ValidAdmission(l, r, la, ra)
          /\ ~NodeFull(l) /\ ~NodeFull(r)
          /\ ~CanAdmit(l, r)
          /\ calls' = [calls EXCEPT ![c] = "AdmissionDenied"]
    /\ sessions' = PurgedSessions
    /\ return_routes' = PurgedRoutes
    /\ active_sessions' = Cardinality(LiveSessions(PurgedSessions))
    /\ UNCHANGED <<now, tokens, issued, bound>>
    /\ UNCHANGED <<rate_window, attempts, successes, failures, passed>>

(* The result is counted after the locks are released.                     *)
Finish(c) ==
    /\ \/ /\ calls[c] = "admitted"
          /\ successes' = successes + 1
          /\ UNCHANGED failures
       \/ /\ calls[c] \in Reasons
          /\ failures' = [failures EXCEPT ![calls[c]] = @ + 1]
          /\ UNCHANGED successes
    /\ calls' = [calls EXCEPT ![c] = "idle"]
    /\ UNCHANGED <<active_sessions, rate_window, attempts, passed>>
    /\ UNCHANGED tableVars

(* status: purge and recount.                                              *)
Status ==
    /\ sessions' = PurgedSessions
    /\ return_routes' = PurgedRoutes
    /\ active_sessions' = Cardinality(LiveSessions(PurgedSessions))
    /\ UNCHANGED <<now, tokens, issued, bound>>
    /\ UNCHANGED <<rate_window, calls, attempts, successes, failures, passed>>

ServiceNext ==
    \/ \E c \in Calls :
          \/ \E authorized \in BOOLEAN : Count(c, authorized)
          \/ CheckLimit(c)
          \/ RefuseRelayNode(c)
          \/ \E l, r \in Nodes, la, ra \in Addrs :
                Admit(c, l, r, la, ra) \/ Refuse(c, l, r, la, ra)
          \/ Finish(c)
    \/ Status
    \/ Dataplane /\ UNCHANGED serviceVars

ServiceSpec == ServiceInit /\ [][ServiceNext]_<<tableVars, serviceVars>>

---------------------------------------------------------------------------
(* Properties.                                                             *)

(* However admissions, expiries and refreshes interleave, the relay never  *)
(* holds more sessions than capability.max_sessions.                       *)
CapacityRespected == Cardinality(LiveSessions(sessions)) <= MaxSessions

(* ... and no node more than max_sessions_per_node, counted on both sides. *)
NodeLimitRespected ==
    NodeLimit # 0 => \A n \in Nodes : Cardinality(SessionsOf(sessions, n)) <= NodeLimit

(* capability.active_sessions goes stale whenever a datagram purges a      *)
(* session, but only upwards: the load the relay reports never hides a     *)
(* session it still holds.                                                 *)
ReportedLoadCovers == Cardinality(LiveSessions(sessions)) <= active_sessions

(* The admission limiter over the relay's whole life: at most AttemptLimit *)
(* calls per elapsed window, plus one window's worth, get past it.         *)
AdmissionRateBound ==
    AttemptLimit # 0 => AttemptWindow * passed <= AttemptLimit * (now + AttemptWindow)

===========================================================================
