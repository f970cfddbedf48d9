----------------------- MODULE OverlayTransit_proofs -----------------------
(***************************************************************************)
(* Proofs about the overlay transit client, for any number of datagrams,   *)
(* peers and paths and any limits: success means injection, and a send is  *)
(* refused for capacity only when the table is really full.                *)
(***************************************************************************)
EXTENDS OverlayTransit, FiniteSetTheorems, TLAPS

TaskFields == {"stage", "path", "session", "attempt", "sequence", "permit", "limiter",
               "timer", "result"}

KeySet == [topology_epoch : {p.topology_epoch : p \in Paths}, peer : Peers,
           session : Nat, sequence : Nat]
FrameSet == [key : KeySet, send : Sends]

(* The sequences a task may still use: a primary attempt has its retry's   *)
(* in reserve.                                                             *)
Reserved(c) == IF c.attempt = "primary" THEN {c.sequence, c.sequence + 1} ELSE {c.sequence}

Owns(c, k) ==
    /\ k.peer = c.path.target /\ k.session = c.session
    /\ k.sequence \in Reserved(c)

(* A proxy that can still spawn has given out lower sequences only.        *)
Taken(next, n) == next + 1 <= MaxU64 => n < next

(* A key that was used is of an earlier session, or of a sequence that is  *)
(* not still to come.                                                      *)
Known(k, ses, next) ==
    /\ k.session <= ses[k.peer]
    /\ k.session = ses[k.peer] => Taken(next[k.peer], k.sequence)

(* A task that runs is of its proxy's current session.                     *)
TaskOK(c, ses, next) ==
    /\ DOMAIN c = TaskFields
    /\ c.path \in Paths /\ c.sequence \in Nat
    /\ c.session = ses[c.path.target]
    /\ \A n \in Reserved(c) : Taken(next[c.path.target], n)
    /\ c.stage = "fail" => c.attempt = "primary"

Runs(c) == c.stage \notin {"idle", "done"}

Queued == {queue[j] : j \in 1..Len(queue)}

TypeOK ==
    /\ DOMAIN send = Sends
    /\ session \in [Peers -> Nat] /\ next_sequence \in [Peers -> Nat]
    /\ frames \subseteq FrameSet /\ acks \subseteq KeySet
    /\ pending \subseteq FrameSet
    /\ queue \in Seq(FrameSet)

(* No two tasks own the same key.                                          *)
TasksOK ==
    /\ \A i \in Sends : Runs(send[i]) => TaskOK(send[i], session, next_sequence)
    /\ \A i, j \in Sends : Runs(send[i]) /\ Runs(send[j]) =>
          \A k \in KeySet : Owns(send[i], k) /\ Owns(send[j], k) => i = j

(* What is in the network for a key is its owner's, if it has one.         *)
NetworkOK ==
    /\ \A f \in frames \cup Queued :
          /\ Known(f.key, session, next_sequence)
          /\ \A i \in Sends : Runs(send[i]) /\ Owns(send[i], f.key) => i = f.send
    /\ \A k \in acks :
          /\ Known(k, session, next_sequence)
          /\ \A i \in Sends : Runs(send[i]) /\ Owns(send[i], k) => i \in injected

SettledOK ==
    \A i \in Sends :
        \/ send[i].stage = "acknowledged"
        \/ send[i].stage = "done" /\ send[i].result = "delivered"
        => i \in injected

TransitInv == TypeOK /\ TasksOK /\ NetworkOK /\ SettledOK

---------------------------------------------------------------------------
LEMMA KeyFacts ==
    ASSUME TypeOK, NEW i \in Sends, TaskOK(send[i], session, next_sequence)
    PROVE  /\ Key(i) \in KeySet /\ Owns(send[i], Key(i))
           /\ Known(Key(i), session, next_sequence)
<1>1. /\ send[i].path.target \in Peers /\ send[i].session \in Nat /\ send[i].sequence \in Nat
      /\ send[i].path.topology_epoch \in {p.topology_epoch : p \in Paths}
  BY TransitAssumption DEF TaskOK, TypeOK
<1>2. send[i].sequence \in Reserved(send[i])
  BY DEF Reserved
<1>3. Key(i) \in KeySet
  BY <1>1 DEF Key, KeySet
<1>4. Owns(send[i], Key(i))
  BY <1>2 DEF Owns, Key
<1>5. Known(Key(i), session, next_sequence)
  BY <1>1, <1>2 DEF Known, Key, TaskOK
<1> QED
  BY <1>3, <1>4, <1>5

(* The queue as a set.                                                     *)
LEMMA QueueFacts ==
    ASSUME TypeOK
    PROVE  /\ Queued \subseteq FrameSet
           /\ \A f \in FrameSet : queue' = Append(queue, f) =>
                 queue' \in Seq(FrameSet) /\ Queued' = Queued \cup {f}
           /\ queue # <<>> => Head(queue) \in Queued
           /\ queue # <<>> /\ queue' = Tail(queue) =>
                 queue' \in Seq(FrameSet) /\ Queued' \subseteq Queued
<1> USE DEF TypeOK, Queued
<1>1. Queued \subseteq FrameSet
  OBVIOUS
<1>2. ASSUME NEW f \in FrameSet, queue' = Append(queue, f)
      PROVE  queue' \in Seq(FrameSet) /\ Queued' = Queued \cup {f}
  BY <1>2
<1>3. ASSUME queue # <<>> PROVE Head(queue) \in Queued
  BY <1>3
<1>4. ASSUME queue # <<>>, queue' = Tail(queue)
      PROVE  queue' \in Seq(FrameSet) /\ Queued' \subseteq Queued
  BY <1>4
<1> QED
  BY <1>1, <1>2, <1>3, <1>4

(* A task's own steps: it ends, or goes on with no more than it owned.     *)
Continues(c, d) ==
    \/ d.stage = "done" /\ d.result # "delivered"
    \/ /\ DOMAIN d = TaskFields /\ d.path = c.path /\ d.session = c.session
       /\ d.sequence \in Nat /\ Reserved(d) \subseteq Reserved(c)
       /\ d.stage = "fail" => d.attempt = "primary"
       /\ d.stage \notin {"done", "acknowledged"}

(* Such steps keep the invariant as long as the network is left alone.     *)
LEMMA ContinuesKeeps ==
    ASSUME TransitInv, DOMAIN send' = Sends,
           \A i \in Sends : send'[i] = send[i] \/ (Runs(send[i]) /\ Continues(send[i], send'[i])),
           pending' \subseteq FrameSet,
           UNCHANGED <<session, next_sequence, frames, acks, queue, injected>>
    PROVE  TransitInv'
<1>1. \A i \in Sends : Runs(send'[i]) =>
         /\ Runs(send[i]) /\ TaskOK(send'[i], session, next_sequence)
         /\ \A k \in KeySet : Owns(send'[i], k) => Owns(send[i], k)
  BY DEF TransitInv, TasksOK, TaskOK, Runs, Continues, Owns
<1>2. TypeOK'
  BY DEF TransitInv, TypeOK
<1>3. TasksOK'
  BY <1>1 DEF TransitInv, TasksOK
<1>4. frames \subseteq FrameSet /\ Queued \subseteq FrameSet /\ acks \subseteq KeySet
      /\ Queued' = Queued
  BY QueueFacts DEF TransitInv, TypeOK, Queued
<1>5. \A f \in FrameSet : f.key \in KeySet
  BY DEF FrameSet
<1>6. NetworkOK'
  BY <1>1, <1>4, <1>5 DEF TransitInv, NetworkOK
<1>7. SettledOK'
  BY DEF TransitInv, SettledOK, Continues, Runs
<1> QED
  BY <1>2, <1>3, <1>6, <1>7 DEF TransitInv

(* The steps of a task that touch nothing but its own state, the table of  *)
(* waiters and the suppressions.                                           *)
LEMMA TaskContinues ==
    ASSUME TransitInv, NEW i \in Sends,
           \/ CheckSuppressed(i) \/ AcquirePermit(i) \/ Recheck(i) \/ Encapsulate(i)
           \/ Register(i) \/ TransmitFails(i) \/ AcknowledgementTimeout(i) \/ Failover(i)
    PROVE  TransitInv'
<1> DEFINE c == send[i]
<1>1. Runs(c) /\ DOMAIN send = Sends /\ UNCHANGED <<session, next_sequence, frames, acks, queue, injected>>
  BY DEF CheckSuppressed, AcquirePermit, Recheck, Encapsulate, Register, TransmitFails,
         AcknowledgementTimeout, Failover, Step, Runs, clientVars, networkVars, TransitInv, TypeOK
<1>2. TaskOK(c, session, next_sequence)
  BY <1>1 DEF TransitInv, TasksOK
<1>3. /\ Continues(c, [c EXCEPT !.stage = "encapsulate", !.attempt = "secondary"])
      /\ Continues(c, [c EXCEPT !.stage = "encapsulate", !.attempt = "secondary",
                                !.permit = FALSE])
      /\ Continues(c, [c EXCEPT !.stage = "acquire", !.limiter = generation])
      /\ Continues(c, [c EXCEPT !.stage = "recheck", !.permit = TRUE])
      /\ Continues(c, [c EXCEPT !.stage = "encapsulate"])
      /\ Continues(c, [c EXCEPT !.stage = "register"])
      /\ Continues(c, [c EXCEPT !.stage = "transmit"])
  BY <1>2 DEF TaskOK, TaskFields, Continues, Reserved
<1>4. \A r \in {"failed", "capacity"} : Continues(c, Done(r))
  BY DEF Continues, Done
<1>5. \A r \in {"capacity", "duplicate", "send", "timeout"} : Continues(c, Failed(i, r))
  <2> TAKE r \in {"capacity", "duplicate", "send", "timeout"}
  <2>1. CASE c.attempt = "primary"
    <3> DEFINE d == [c EXCEPT !.stage = "fail", !.permit = FALSE, !.result = r]
    <3>1. Continues(c, d)
      BY <1>2, <2>1 DEF TaskOK, TaskFields, Continues, Reserved
    <3> QED
      BY <2>1, <3>1 DEF Failed
  <2>2. CASE c.attempt # "primary"
    BY <1>4, <2>2 DEF Failed, Outcome
  <2> QED
    BY <2>1, <2>2
<1>6. ASSUME CheckSuppressed(i) PROVE \E d : send' = [send EXCEPT ![i] = d] /\ Continues(c, d)
  <2>1. \/ send' = [send EXCEPT ![i] = [c EXCEPT !.stage = "encapsulate", !.attempt = "secondary"]]
        \/ send' = [send EXCEPT ![i] = [c EXCEPT !.stage = "acquire", !.limiter = generation]]
    BY <1>6 DEF CheckSuppressed, Step
  <2> QED
    BY <1>3, <2>1, Zenon
<1>7. ASSUME AcquirePermit(i) PROVE \E d : send' = [send EXCEPT ![i] = d] /\ Continues(c, d)
  BY <1>3, <1>7, Zenon DEF AcquirePermit, Step
<1>8. ASSUME Recheck(i) PROVE \E d : send' = [send EXCEPT ![i] = d] /\ Continues(c, d)
  <2>1. \/ send' = [send EXCEPT ![i] = [c EXCEPT !.stage = "encapsulate", !.attempt = "secondary",
                                                 !.permit = FALSE]]
        \/ send' = [send EXCEPT ![i] = [c EXCEPT !.stage = "encapsulate"]]
    BY <1>8 DEF Recheck, Step
  <2> QED
    BY <1>3, <2>1, Zenon
<1>9. ASSUME Encapsulate(i) PROVE \E d : send' = [send EXCEPT ![i] = d] /\ Continues(c, d)
  BY <1>3, <1>4, <1>9 DEF Encapsulate, Step
<1>10. ASSUME Register(i) PROVE \E d : send' = [send EXCEPT ![i] = d] /\ Continues(c, d)
  BY <1>3, <1>5, <1>10 DEF Register, Step
<1>11. ASSUME TransmitFails(i) PROVE \E d : send' = [send EXCEPT ![i] = d] /\ Continues(c, d)
  BY <1>5, <1>11 DEF TransmitFails, Step
<1>12. ASSUME AcknowledgementTimeout(i)
       PROVE  \E d : send' = [send EXCEPT ![i] = d] /\ Continues(c, d)
  BY <1>5, <1>12 DEF AcknowledgementTimeout, Step
<1>13. ASSUME Failover(i) PROVE \E d : send' = [send EXCEPT ![i] = d] /\ Continues(c, d)
  <2> DEFINE d == [c EXCEPT !.stage = "encapsulate", !.attempt = "secondary", !.sequence = c.sequence + 1]
  <2>1. Continues(c, d)
    BY <1>2, <1>13 DEF TaskOK, TaskFields, Continues, Reserved, Failover, Step
  <2>2. Continues(c, Done(Outcome(c.result)))
    BY <1>4 DEF Outcome
  <2>3. send' = [send EXCEPT ![i] = d] \/ send' = [send EXCEPT ![i] = Done(Outcome(c.result))]
    BY <1>13 DEF Failover, Step
  <2> QED
    BY <2>1, <2>2, <2>3
<1>14. \E d : send' = [send EXCEPT ![i] = d] /\ Continues(c, d)
  BY <1>6, <1>7, <1>8, <1>9, <1>10, <1>11, <1>12, <1>13
<1>15. pending' \subseteq FrameSet
  <2>1. pending \subseteq FrameSet
    BY DEF TransitInv, TypeOK
  <2>2. [key |-> Key(i), send |-> i] \in FrameSet
    BY <1>2, KeyFacts DEF TransitInv, FrameSet
  <2> QED
    BY <2>1, <2>2 DEF CheckSuppressed, AcquirePermit, Recheck, Encapsulate, Register,
       TransmitFails, AcknowledgementTimeout, Failover, Forget, OpenWaiters
<1> QED
  BY <1>1, <1>14, <1>15, ContinuesKeeps

(* A new task's sequences are ones nobody has used.                        *)
LEMMA SpawnKeeps ==
    ASSUME TransitInv, NEW i \in Sends, NEW path \in Paths, Spawn(i, path)
    PROVE  TransitInv'
<1> DEFINE p == path.target
           n == next_sequence[p]
           c == send'[i]
<1>1. /\ p \in Peers /\ n \in Nat /\ n + 1 <= MaxU64 /\ session[p] \in Nat /\ MaxU64 \in Nat
      /\ DOMAIN send = Sends
  BY TransitAssumption DEF TransitInv, TypeOK, Spawn
<1>2. /\ c = [stage |-> "check", path |-> path, session |-> session[p],
              attempt |-> "primary", sequence |-> n,
              permit |-> FALSE, limiter |-> 0, timer |-> 0, result |-> "none"]
      /\ \A j \in Sends \ {i} : send'[j] = send[j]
      /\ DOMAIN send' = Sends
  BY <1>1 DEF Spawn
<1>3. /\ DOMAIN c = TaskFields /\ c.stage = "check" /\ c.path = path /\ c.session = session[p]
      /\ c.attempt = "primary" /\ c.sequence = n
  BY <1>2 DEF TaskFields
<1>4. /\ next_sequence' = [next_sequence EXCEPT ![p] = AfterReserved(n)]
      /\ UNCHANGED <<session, pending, frames, acks, queue, injected>>
  BY DEF Spawn, networkVars
<1>5. /\ AfterReserved(n) \in Nat /\ AfterReserved(n) > n
      /\ Taken(AfterReserved(n), n) /\ Taken(AfterReserved(n), n + 1)
  BY <1>1 DEF AfterReserved, Taken
<1>6. \A q \in Peers : \A m \in Nat : Taken(next_sequence[q], m) => Taken(next_sequence'[q], m)
  BY <1>1, <1>4, <1>5 DEF Taken, TransitInv, TypeOK
<1>7. \A m \in Nat : Taken(n, m) => m \notin {n, n + 1}
  BY <1>1 DEF Taken
<1>8. TypeOK'
  BY <1>1, <1>2, <1>4, <1>5 DEF TransitInv, TypeOK
<1>9. TaskOK(c, session', next_sequence')
  BY <1>1, <1>3, <1>4, <1>5 DEF TaskOK, Reserved, TransitInv, TypeOK
<1>10. \A k \in KeySet : /\ k.peer \in Peers /\ k.session \in Nat /\ k.sequence \in Nat
  BY DEF KeySet
<1>11. \A k \in KeySet : Known(k, session, next_sequence) =>
          Known(k, session', next_sequence') /\ ~Owns(c, k)
  BY <1>1, <1>3, <1>4, <1>6, <1>7, <1>10 DEF Known, Owns, Reserved
<1>12. \A j \in Sends : Runs(send[j]) =>
          /\ TaskOK(send[j], session', next_sequence')
          /\ \A k \in KeySet : Owns(send[j], k) => ~Owns(c, k)
  <2> TAKE j \in Sends
  <2> HAVE Runs(send[j])
  <2> DEFINE d == send[j]
  <2>1. TaskOK(d, session, next_sequence) /\ d.path.target \in Peers
    BY TransitAssumption DEF TransitInv, TasksOK, TaskOK
  <2>2. \A m \in Reserved(d) : m \in Nat
    BY <2>1 DEF TaskOK, Reserved
  <2>3. TaskOK(d, session', next_sequence')
    BY <1>4, <1>6, <2>1, <2>2 DEF TaskOK
  <2>4. \A k \in KeySet : Owns(d, k) => ~Owns(c, k)
    BY <1>3, <1>7, <2>1, <2>2 DEF TaskOK, Owns, Reserved
  <2> QED
    BY <2>3, <2>4
<1>13. TasksOK'
  BY <1>2, <1>9, <1>12 DEF TransitInv, TasksOK
<1>14. frames \subseteq FrameSet /\ Queued \subseteq FrameSet /\ acks \subseteq KeySet
      /\ Queued' = Queued /\ \A f \in FrameSet : f.key \in KeySet
  BY <1>4, QueueFacts DEF TransitInv, TypeOK, Queued, FrameSet
<1>15. NetworkOK'
  BY <1>2, <1>4, <1>11, <1>14 DEF TransitInv, NetworkOK
<1>16. SettledOK'
  BY <1>2, <1>3, <1>4 DEF TransitInv, SettledOK
<1> QED
  BY <1>8, <1>13, <1>15, <1>16 DEF TransitInv

(* A restart ends the proxy's tasks and leaves its keys to the past.       *)
LEMMA RestartKeeps ==
    ASSUME TransitInv, NEW p \in Peers, Restart(p)
    PROVE  TransitInv'
<1>1. PICK n \in FirstSequences : next_sequence' = [next_sequence EXCEPT ![p] = n]
  BY DEF Restart
<1>2. /\ n \in Nat /\ session[p] \in Nat
      /\ session' = [session EXCEPT ![p] = session[p] + 1]
      /\ UNCHANGED <<pending, frames, acks, queue, injected>>
  BY <1>1, TransitAssumption DEF Restart, networkVars, TransitInv, TypeOK
<1>3. DOMAIN send' = Sends /\ \A i \in Sends :
         send'[i] = IF Runs(send[i]) /\ send[i].path.target = p THEN Done("failed") ELSE send[i]
  BY DEF Restart, SendsOf, Running, Runs
<1>4. Done("failed").stage = "done" /\ Done("failed").result = "failed"
  BY DEF Done
<1>5. \A i \in Sends : Runs(send'[i]) =>
         send'[i] = send[i] /\ Runs(send[i]) /\ send[i].path.target # p
  BY <1>3, <1>4 DEF Runs
<1>6. TypeOK'
  BY <1>1, <1>2, <1>3 DEF TransitInv, TypeOK
<1>7. \A c : TaskOK(c, session, next_sequence) /\ c.path.target # p
              => TaskOK(c, session', next_sequence')
  BY <1>1, <1>2 DEF TaskOK, TransitInv, TypeOK
<1>8. TasksOK'
  BY <1>5, <1>7 DEF TransitInv, TasksOK
<1>9. \A k \in KeySet : Known(k, session, next_sequence) => Known(k, session', next_sequence')
  <2> TAKE k \in KeySet
  <2> HAVE Known(k, session, next_sequence)
  <2>1. k.peer \in Peers /\ k.session \in Nat
    BY DEF KeySet
  <2> QED
    BY <1>1, <1>2, <2>1 DEF Known, TransitInv, TypeOK
<1>10. frames \subseteq FrameSet /\ Queued \subseteq FrameSet /\ acks \subseteq KeySet
      /\ Queued' = Queued /\ \A f \in FrameSet : f.key \in KeySet
  BY <1>2, QueueFacts DEF TransitInv, TypeOK, Queued, FrameSet
<1>11. NetworkOK'
  BY <1>2, <1>5, <1>9, <1>10 DEF TransitInv, NetworkOK
<1>12. SettledOK'
  BY <1>2, <1>3, <1>4 DEF TransitInv, SettledOK
<1> QED
  BY <1>6, <1>8, <1>11, <1>12 DEF TransitInv

(* The frame of a task's key is the task's.                                *)
LEMMA TransmitKeeps ==
    ASSUME TransitInv, NEW i \in Sends, Transmit(i)
    PROVE  TransitInv'
<1> DEFINE c == send[i]
           d == [c EXCEPT !.stage = "await", !.timer = AckTimeoutOf(c.path[c.attempt])]
           f == [key |-> Key(i), send |-> i]
<1>1. /\ Runs(c) /\ DOMAIN send = Sends /\ send' = [send EXCEPT ![i] = d]
      /\ frames' = frames \cup {f}
      /\ UNCHANGED <<session, next_sequence, pending, acks, queue, injected>>
  BY DEF Transmit, Step, Runs, clientVars, TransitInv, TypeOK
<1>2. TaskOK(c, session, next_sequence)
  BY <1>1 DEF TransitInv, TasksOK
<1>3. /\ Key(i) \in KeySet /\ Owns(c, Key(i)) /\ Known(Key(i), session, next_sequence)
      /\ f.key = Key(i) /\ f.send = i
  BY <1>2, KeyFacts DEF TransitInv
<1>4. /\ DOMAIN d = TaskFields /\ d.stage = "await" /\ d.path = c.path /\ d.session = c.session
      /\ d.sequence = c.sequence /\ d.attempt = c.attempt
  BY <1>2 DEF TaskOK, TaskFields
<1> HIDE DEF d, f
<1>5. TaskOK(d, session, next_sequence) /\ Runs(d) /\ \A k : Owns(d, k) <=> Owns(c, k)
  BY <1>2, <1>4 DEF TaskOK, Reserved, Owns, Runs
<1>6. f \in FrameSet
  BY <1>3 DEF f, FrameSet
<1>7. TypeOK'
  BY <1>1, <1>6 DEF TransitInv, TypeOK
<1>8. TasksOK'
  BY <1>1, <1>5 DEF TransitInv, TasksOK
<1>9. \A j \in Sends : Runs(send'[j]) => Runs(send[j])
                          /\ \A k : Owns(send'[j], k) <=> Owns(send[j], k)
  BY <1>1, <1>5
<1>10. \A j \in Sends : Runs(send'[j]) /\ Owns(send'[j], f.key) => j = f.send
  BY <1>1, <1>3, <1>9 DEF TransitInv, TasksOK
<1>11. Queued' = Queued
  BY <1>1 DEF Queued
<1>12. NetworkOK'
  BY <1>1, <1>3, <1>9, <1>10, <1>11 DEF TransitInv, NetworkOK
<1>13. SettledOK'
  BY <1>1, <1>4 DEF TransitInv, SettledOK
<1> QED
  BY <1>7, <1>8, <1>12, <1>13 DEF TransitInv

LEMMA AcknowledgedKeeps ==
    ASSUME TransitInv, NEW i \in Sends, Acknowledged(i)
    PROVE  TransitInv'
<1>1. /\ send[i].stage = "acknowledged" /\ DOMAIN send = Sends
      /\ send' = [send EXCEPT ![i] = Done("delivered")]
      /\ UNCHANGED <<session, next_sequence, pending, frames, acks, queue, injected>>
  BY DEF Acknowledged, Step, clientVars, networkVars, TransitInv, TypeOK
<1>2. Done("delivered").stage = "done"
  BY DEF Done
<1>3. \A j \in Sends : Runs(send'[j]) => send'[j] = send[j]
  BY <1>1, <1>2 DEF Runs
<1>4. Queued' = Queued
  BY <1>1 DEF Queued
<1>5. TypeOK' /\ TasksOK' /\ NetworkOK'
  BY <1>1, <1>3, <1>4 DEF TransitInv, TypeOK, TasksOK, NetworkOK
<1>6. SettledOK'
  BY <1>1 DEF TransitInv, SettledOK
<1> QED
  BY <1>5, <1>6 DEF TransitInv

LEMMA ReceiveDataKeeps ==
    ASSUME TransitInv, NEW f \in frames, ReceiveData(f)
    PROVE  TransitInv'
<1>1. /\ frames' \subseteq frames /\ (queue' = Append(queue, f) \/ queue' = queue)
      /\ UNCHANGED <<send, session, next_sequence, pending, acks, injected>>
  BY DEF ReceiveData, clientVars
<1>2. f \in FrameSet /\ TypeOK
  BY DEF TransitInv, TypeOK
<1>3. queue' \in Seq(FrameSet) /\ Queued' \subseteq Queued \cup {f}
  <2>1. CASE queue' = queue
    BY <1>2, <2>1 DEF Queued, TypeOK
  <2>2. CASE queue' = Append(queue, f)
    BY <1>2, <2>2, QueueFacts
  <2> QED
    BY <1>1, <2>1, <2>2
<1>4. TypeOK' /\ TasksOK' /\ SettledOK'
  BY <1>1, <1>3 DEF TransitInv, TypeOK, TasksOK, SettledOK
<1>5. NetworkOK'
  BY <1>1, <1>3 DEF TransitInv, NetworkOK
<1> QED
  BY <1>4, <1>5 DEF TransitInv

(* Injecting a delivery is what entitles its sender to an acknowledgement. *)
LEMMA DeliveryKeeps ==
    ASSUME TransitInv, DropDelivery \/ Inject
    PROVE  TransitInv'
<1> DEFINE f == Head(queue)
<1>1. /\ queue # <<>> /\ queue' = Tail(queue)
      /\ UNCHANGED <<send, session, next_sequence, pending, frames>>
      /\ injected \subseteq injected'
      /\ acks' = acks \/ (acks' = acks \cup {f.key} /\ injected' = injected \cup {f.send})
  BY DEF DropDelivery, Inject, clientVars
<1>2. f \in Queued /\ f \in FrameSet /\ f.key \in KeySet
  BY <1>1, QueueFacts DEF TransitInv, FrameSet
<1>3. queue' \in Seq(FrameSet) /\ Queued' \subseteq Queued
  BY <1>1, QueueFacts DEF TransitInv
<1> HIDE DEF f
<1>4. TypeOK' /\ TasksOK' /\ SettledOK'
  BY <1>1, <1>2, <1>3 DEF TransitInv, TypeOK, TasksOK, SettledOK
<1>5. NetworkOK'
  BY <1>1, <1>2, <1>3 DEF TransitInv, NetworkOK
<1> QED
  BY <1>4, <1>5 DEF TransitInv

(* The waiter an acknowledgement wakes owns its key.                       *)
LEMMA ReceiveAcknowledgementKeeps ==
    ASSUME TransitInv, NEW k \in acks, ReceiveAcknowledgement(k)
    PROVE  TransitInv'
<1> DEFINE woken(i) == [key |-> k, send |-> i] \in OpenWaiters
           d(i) == [send[i] EXCEPT !.stage = "acknowledged", !.result = "none"]
<1>1. /\ acks' \subseteq acks /\ pending' \subseteq pending
      /\ DOMAIN send' = Sends
      /\ \A i \in Sends : send'[i] = IF woken(i) THEN d(i) ELSE send[i]
      /\ UNCHANGED <<session, next_sequence, frames, queue, injected>>
  BY DEF ReceiveAcknowledgement, clientVars
<1>2. ASSUME NEW i \in Sends, woken(i)
      PROVE  /\ Runs(send[i]) /\ TaskOK(send[i], session, next_sequence) /\ i \in injected
             /\ send[i].stage # "fail"
  <2>1. send[i].stage \in {"transmit", "await"} /\ Key(i) = k
    BY <1>2 DEF OpenWaiters, IsOpen
  <2>2. TaskOK(send[i], session, next_sequence) /\ Runs(send[i])
    BY <2>1 DEF TransitInv, TasksOK, Runs
  <2>3. Owns(send[i], k)
    BY <2>1, <2>2, KeyFacts DEF TransitInv
  <2> QED
    BY <2>1, <2>2, <2>3 DEF TransitInv, NetworkOK
<1>3. ASSUME NEW i \in Sends, woken(i)
      PROVE  /\ d(i).stage = "acknowledged" /\ TaskOK(d(i), session, next_sequence)
             /\ \A q : Owns(d(i), q) <=> Owns(send[i], q)
  <2>1. DOMAIN send[i] = TaskFields
    BY <1>2, <1>3 DEF TaskOK
  <2>2. /\ DOMAIN d(i) = TaskFields /\ d(i).stage = "acknowledged" /\ d(i).path = send[i].path
        /\ d(i).session = send[i].session /\ d(i).sequence = send[i].sequence
        /\ d(i).attempt = send[i].attempt
    BY <2>1 DEF TaskFields
  <2> HIDE DEF d
  <2> QED
    BY <1>2, <1>3, <2>2 DEF TaskOK, Reserved, Owns
<1> HIDE DEF woken, d
<1>4. \A i \in Sends : Runs(send'[i]) =>
         /\ Runs(send[i]) /\ TaskOK(send'[i], session, next_sequence)
         /\ \A q : Owns(send'[i], q) <=> Owns(send[i], q)
  BY <1>1, <1>2, <1>3 DEF TransitInv, TasksOK
<1>5. Queued' = Queued
  BY <1>1 DEF Queued
<1>6. TypeOK'
  BY <1>1 DEF TransitInv, TypeOK
<1>7. TasksOK'
  BY <1>1, <1>4 DEF TransitInv, TasksOK
<1>8. NetworkOK'
  BY <1>1, <1>4, <1>5 DEF TransitInv, NetworkOK
<1>9. SettledOK'
  BY <1>1, <1>2, <1>3 DEF TransitInv, SettledOK
<1> QED
  BY <1>6, <1>7, <1>8, <1>9 DEF TransitInv

LEMMA TickKeeps ==
    ASSUME TransitInv, Tick
    PROVE  TransitInv'
<1>1. /\ UNCHANGED <<session, next_sequence, pending, frames, acks, queue, injected>>
      /\ DOMAIN send' = Sends
      /\ \A i \in Sends : send'[i] = IF i \in Waiting
            THEN [send[i] EXCEPT !.timer = Countdown(send[i].timer)] ELSE send[i]
  BY DEF Tick, clientVars, networkVars
<1>2. ASSUME NEW i \in Sends
      PROVE  send'[i] = send[i] \/ (Runs(send[i]) /\ Continues(send[i], send'[i]))
  <2>1. CASE i \in Waiting
    <3>1. send[i].stage = "await" /\ Runs(send[i])
      BY <2>1 DEF Waiting, Runs
    <3>2. TaskOK(send[i], session, next_sequence)
      BY <3>1 DEF TransitInv, TasksOK
    <3> DEFINE d == [send[i] EXCEPT !.timer = Countdown(send[i].timer)]
    <3>3. /\ DOMAIN d = TaskFields /\ d.stage = "await" /\ d.path = send[i].path
          /\ d.session = send[i].session /\ d.sequence = send[i].sequence
          /\ d.attempt = send[i].attempt
      BY <3>1, <3>2 DEF TaskOK, TaskFields
    <3> HIDE DEF d
    <3>4. Continues(send[i], d)
      BY <3>2, <3>3 DEF Continues, TaskOK, Reserved
    <3> QED
      BY <1>1, <2>1, <3>1, <3>4 DEF d
  <2>2. CASE i \notin Waiting
    BY <1>1, <2>2
  <2> QED
    BY <2>1, <2>2
<1> QED
  BY <1>1, <1>2, ContinuesKeeps DEF TransitInv, TypeOK

LEMMA TransitStep == TransitInv /\ [Next]_vars => TransitInv'
<1> SUFFICES ASSUME TransitInv, [Next]_vars PROVE TransitInv'
  OBVIOUS
<1>1. ASSUME NEW i \in Sends, TaskStep(i) PROVE TransitInv'
  BY <1>1, TaskContinues, TransmitKeeps, AcknowledgedKeeps DEF TaskStep
<1>2. CASE UNCHANGED <<send, session, next_sequence, pending, frames, acks, queue, injected>>
  BY <1>2, ContinuesKeeps DEF TransitInv, TypeOK
<1>3. CASE UpdateNeighborMap \/ ClearSuppressed \/ ClearLimiters
  BY <1>2, <1>3 DEF UpdateNeighborMap, ClearSuppressed, ClearLimiters, networkVars
<1>4. CASE UNCHANGED vars
  BY <1>2, <1>4 DEF vars
<1> QED
  BY <1>1, <1>3, <1>4, SpawnKeeps, RestartKeeps, ReceiveDataKeeps, DeliveryKeeps,
     ReceiveAcknowledgementKeeps, TickKeeps DEF Next

LEMMA TransitInit == Init => TransitInv
<1> SUFFICES ASSUME Init PROVE TransitInv
  OBVIOUS
<1>1. \A i \in Sends : send[i].stage = "idle"
  BY DEF Init, Idle
<1>2. Queued = {}
  BY DEF Init, Queued
<1>3. FirstSequences \subseteq Nat
  BY TransitAssumption
<1>4. TypeOK
  <2>1. session \in [Peers -> Nat] /\ next_sequence \in [Peers -> Nat]
    BY <1>3 DEF Init
  <2>2. queue \in Seq(FrameSet)
    BY DEF Init
  <2> QED
    BY <2>1, <2>2 DEF Init, TypeOK
<1>5. TasksOK /\ NetworkOK /\ SettledOK
  BY <1>1, <1>2 DEF Init, TasksOK, NetworkOK, SettledOK, Runs
<1> QED
  BY <1>4, <1>5 DEF TransitInv

(* A send that reports success was injected at its destination, whichever  *)
(* path it took, whatever acknowledgements are late, lost or of an earlier *)
(* session.                                                                *)
THEOREM SuccessIsInjection == Spec => []SuccessMeansInjected
<1>1. TransitInv => SuccessMeansInjected
  BY DEF TransitInv, SettledOK, SuccessMeansInjected
<1> QED
  BY <1>1, TransitInit, TransitStep, PTL DEF Spec

---------------------------------------------------------------------------
(* Only a full table refuses a send for its capacity.                      *)
LEMMA RefusedByFullTable ==
    ASSUME TransitInv, [Next]_vars, NEW i \in Sends, send[i].stage = "register",
           send'[i].stage \in {"fail", "done"}, send'[i].result = "capacity"
    PROVE  Cardinality(OpenWaiters) >= MaxPending
<1>0. DOMAIN send = Sends
  BY DEF TransitInv, TypeOK
<1>1. CASE Register(i)
  <2>1. CASE Cardinality(OpenWaiters) >= MaxPending
    BY <2>1
  <2>2. CASE ~(Cardinality(OpenWaiters) >= MaxPending)
    <3>1. \/ send'[i] = Failed(i, "duplicate")
          \/ send'[i] = [send[i] EXCEPT !.stage = "transmit"]
      BY <1>0, <1>1, <2>2 DEF Register, Step
    <3>2. DOMAIN send[i] = TaskFields
      BY DEF TransitInv, TasksOK, TaskOK, Runs
    <3>3. [send[i] EXCEPT !.stage = "transmit"].stage = "transmit"
      BY <3>2 DEF TaskFields
    <3>4. Failed(i, "duplicate").result # "capacity"
      <4>1. [send[i] EXCEPT !.stage = "fail", !.permit = FALSE, !.result = "duplicate"].result
               = "duplicate"
        BY <3>2 DEF TaskFields
      <4>2. Done(Outcome("duplicate")).result = "failed"
        BY DEF Done, Outcome
      <4> QED
        BY <4>1, <4>2 DEF Failed
    <3> QED
      BY <3>1, <3>3, <3>4
  <2> QED
    BY <2>1, <2>2
<1>2. CASE send'[i] = send[i]
  BY <1>2
<1>3. ASSUME NEW j \in Sends, TaskStep(j) PROVE Register(i) \/ send'[i] = send[i]
  <2>1. CASE j = i
    BY <1>3, <2>1 DEF TaskStep, Step, CheckSuppressed, AcquirePermit, Recheck, Encapsulate,
       Transmit, TransmitFails, AcknowledgementTimeout, Acknowledged, Failover
  <2>2. CASE j # i
    <3>1. \E d : send' = [send EXCEPT ![j] = d]
      BY <1>3 DEF TaskStep, Step, CheckSuppressed, AcquirePermit, Recheck, Encapsulate,
         Register, Transmit, TransmitFails, AcknowledgementTimeout, Acknowledged, Failover
    <3> QED
      BY <1>0, <2>2, <3>1
  <2> QED
    BY <2>1, <2>2
<1>4. ASSUME NEW j \in Sends, NEW path \in Paths, Spawn(j, path) PROVE send'[i] = send[i]
  BY <1>0, <1>4 DEF Spawn
<1>5. ASSUME NEW p \in Peers, Restart(p) PROVE send'[i] = send[i]
  <2>1. Done("failed").result = "failed"
    BY DEF Done
  <2> QED
    BY <1>5, <2>1 DEF Restart
<1>6. ASSUME NEW k \in acks, ReceiveAcknowledgement(k) PROVE send'[i] = send[i]
  BY <1>6 DEF ReceiveAcknowledgement, OpenWaiters, IsOpen
<1>7. CASE Tick
  BY <1>7 DEF Tick, Waiting
<1>8. CASE UNCHANGED send
  BY <1>8
<1> QED
  BY <1>1, <1>2, <1>3, <1>4, <1>5, <1>6, <1>7, <1>8
     DEF Next, UpdateNeighborMap, ClearSuppressed, ClearLimiters, ReceiveData, DropDelivery,
         Inject, vars

(* Each open waiter is a task that waits.                                  *)
LEMMA OpenWaitersAreTasks ==
    ASSUME TransitInv
    PROVE  /\ Cardinality(OpenWaiters) \in Nat
           /\ Cardinality({j \in Sends : send[j].stage \in {"transmit", "await"}}) \in Nat
           /\ Cardinality(OpenWaiters)
                <= Cardinality({j \in Sends : send[j].stage \in {"transmit", "await"}})
<1> DEFINE T == {j \in Sends : send[j].stage \in {"transmit", "await"}}
           f == [w \in OpenWaiters |-> w.send]
<1>1. IsFiniteSet(T)
  <2>1. IsFiniteSet(Sends)
    BY TransitAssumption, FS_Interval DEF Sends
  <2>2. T \subseteq Sends
    OBVIOUS
  <2> QED
    BY <2>1, <2>2, FS_Subset, Zenon
<1>2. ASSUME NEW w \in OpenWaiters
      PROVE  w.send \in T /\ w = [key |-> Key(w.send), send |-> w.send]
  <2>1. w \in FrameSet /\ IsOpen(w)
    BY DEF OpenWaiters, TransitInv, TypeOK
  <2> QED
    BY <2>1 DEF IsOpen, FrameSet
<1>3. f \in Injection(OpenWaiters, T)
  BY <1>2 DEF Injection, IsInjective
<1> HIDE DEF f, T
<1>4. IsFiniteSet(OpenWaiters) /\ Cardinality(OpenWaiters) <= Cardinality(T)
  BY <1>1, <1>3, FS_Injection
<1>5. Cardinality(OpenWaiters) \in Nat /\ Cardinality(T) \in Nat
  BY <1>1, <1>4, FS_CardinalityType
<1> QED
  BY <1>4, <1>5 DEF T

(* Cancelled tasks leave waiters behind, but a send is refused for         *)
(* capacity only while MaxPending tasks are really waiting.                *)
THEOREM RefusalsAreGenuine == Spec => CapacityRefusalsGenuine
<1> DEFINE T == {j \in Sends : send[j].stage \in {"transmit", "await"}}
<1>1. TransitInv /\ [Next]_vars =>
        [\A i \in Sends :
          send[i].stage = "register" /\ send'[i].stage \in {"fail", "done"}
             /\ send'[i].result = "capacity"
          => Cardinality(T) >= MaxPending]_vars
  <2> SUFFICES ASSUME TransitInv, [Next]_vars, NEW i \in Sends, send[i].stage = "register",
                      send'[i].stage \in {"fail", "done"}, send'[i].result = "capacity"
               PROVE  Cardinality(T) >= MaxPending
    BY Zenon
  <2>1. Cardinality(OpenWaiters) >= MaxPending /\ MaxPending \in Nat
    BY RefusedByFullTable, TransitAssumption
  <2>2. /\ Cardinality(OpenWaiters) \in Nat /\ Cardinality(T) \in Nat
        /\ Cardinality(OpenWaiters) <= Cardinality(T)
    BY OpenWaitersAreTasks
  <2> HIDE DEF T
  <2> QED
    BY <2>1, <2>2
<1> QED
  BY <1>1, TransitInit, TransitStep, PTL DEF Spec, CapacityRefusalsGenuine

============================================================================
