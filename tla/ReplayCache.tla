---------------------------- MODULE ReplayCache ----------------------------
(***************************************************************************)
(* What the overlay forwarder's replay window promises: a cache of bounded *)
(* size that remembers, for each key, which sequences it accepted, forgets *)
(* the least recently advanced key first, and accepts a sequence of a      *)
(* remembered key at most once.                                            *)
(***************************************************************************)
EXTENDS Integers, Sequences, FiniteSets, Subsequence

CONSTANTS ReplayKeys, Numbers, Epochs, Capacity, WindowBits

VARIABLES
    order,           \* remembered keys, least recently advanced first
    accepted         \* accepted[k]: sequences accepted since k is remembered

vars == <<order, accepted>>

Elements(s) == {s[i] : i \in DOMAIN s}

Known == Elements(order)

Init == order = <<>> /\ accepted = [k \in ReplayKeys |-> {}]

IsNewest(k, n) == \A m \in accepted[k] : m < n

InWindow(k, n) == \A m \in accepted[k] : m < n + WindowBits

Among(keys, ks) == Pick(keys, {i \in DOMAIN keys : keys[i] \in ks})

(* Keep the keys in ks; what is forgotten is accepted anew.                *)
Keep(newOrder, newAccepted, ks) ==
    /\ order' = Among(newOrder, ks)
    /\ accepted' = [k \in ReplayKeys |-> IF k \in ks THEN newAccepted[k] ELSE {}]

Accept(k, n) ==
    LET moved == IF IsNewest(k, n) THEN Append(Among(order, Known \ {k}), k) ELSE order
    IN  /\ n \notin accepted[k]
        /\ InWindow(k, n)
        /\ Keep(moved, [accepted EXCEPT ![k] = @ \cup {n}],
                IF Len(moved) > Capacity THEN Elements(Tail(moved)) ELSE Elements(moved))

Forget(es) == Keep(order, accepted, {k \in Known : k.topology_epoch \in es})

Next ==
    \/ \E es \in SUBSET Epochs : Forget(es)
    \/ \E k \in ReplayKeys, n \in Numbers : Accept(k, n)

Spec == Init /\ [][Next]_vars

============================================================================
