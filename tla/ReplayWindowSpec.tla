------------------------- MODULE ReplayWindowSpec -------------------------
(***************************************************************************)
(* One replay cache as the forwarder drives it: observe for every frame    *)
(* that passed the other checks, in whatever order frames arrive, and      *)
(* retain_epochs whenever a topology epoch is dropped.                     *)
(***************************************************************************)
EXTENDS ReplayWindow

CONSTANTS
    ReplayKeys,      \* ReplayPathKey: records with a field topology_epoch
    MaxSequence      \* bound: highest sequence number

ASSUME SequenceAssumption == MaxSequence \in Nat

Numbers == 0..MaxSequence
Epochs == {k.topology_epoch : k \in ReplayKeys}

VARIABLES
    cache,           \* the ReplayWindow
    accepted         \* history: accepted[k] since k was last inserted

vars == <<cache, accepted>>

Init == cache = EmptyCache /\ accepted = [k \in ReplayKeys |-> {}]

Remember(history) ==
    accepted' = [k \in ReplayKeys |-> IF k \in Keys(cache') THEN history[k] ELSE {}]

ObserveSequence(k, n) ==
    /\ Accepts(cache, k, n)
    /\ cache' = Observe(cache, k, n)
    /\ Remember([accepted EXCEPT ![k] = @ \cup {n}])

DropEpochs(es) ==
    /\ cache' = RetainEpochs(cache, es)
    /\ Remember(accepted)

Next ==
    \/ \E k \in ReplayKeys, n \in Numbers : ObserveSequence(k, n)
    \/ \E es \in SUBSET Epochs : DropEpochs(es)

Spec == Init /\ [][Next]_vars

---------------------------------------------------------------------------
(* Properties.                                                             *)

(* The word-wise shifts of advance_to and shift_older move the bitmap so   *)
(* that bit d says whether highest - d was accepted: no accepted sequence  *)
(* in the window is lost at a word boundary, none is invented.             *)
WindowExact ==
    \A k \in Keys(cache) :
        LET window == cache.sequences[k]
        IN  \A d \in 0..(WindowBits - 1) :
               ContainsBit(window, d) <=> window.highest - d \in accepted[k]

(* The lazily cleaned queue never loses a key: each remembered key has     *)
(* exactly one current observation, and no observation outlives its key,   *)
(* so that evict_to_capacity always finds something to evict and the cache *)
(* and its queue stay within the configured capacity.                      *)
RecencyTracksKeys ==
    /\ \A k \in Keys(cache) :
          Cardinality({j \in DOMAIN cache.recency :
                          cache.recency[j] = <<k, cache.sequences[k].highest>>}) = 1
    /\ \A j \in DOMAIN cache.recency : cache.recency[j][1] \in Keys(cache)
    /\ Cardinality(Keys(cache)) <= Capacity
    /\ Len(cache.recency) <= 2 * Capacity

(* Refinement: the keys in the order of their current observations.        *)
CurrentOrder == [j \in DOMAIN CompactRecency(cache).recency |-> CompactRecency(cache).recency[j][1]]

LRU == INSTANCE ReplayCache WITH order <- CurrentOrder

(* The bitmaps and the queue together implement the exact cache: eviction  *)
(* always takes the least recently advanced key, and the window never      *)
(* accepts what it accepted before.                                        *)
ImplementsReplayCache == LRU!Spec

===========================================================================
