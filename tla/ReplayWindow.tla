--------------------------- MODULE ReplayWindow ---------------------------
(***************************************************************************)
(* The replay window of the overlay forwarder                              *)
(* (crates/ipars-agent/src/overlay_forwarder.rs, ReplayWindow and          *)
(* ReplaySequenceWindow) as operators on a cache value.  A cache holds one *)
(* sliding bitmap per (epoch, source, path id) and a queue of observations *)
(* from which the least recently advanced key is evicted; the queue is     *)
(* cleaned lazily.                                                         *)
(*                                                                         *)
(* A word of the bitmap is the set of its bits that are one, so word << b  *)
(* and word >> b shift the members and lose those that leave the word.     *)
(***************************************************************************)
EXTENDS Integers, Sequences, FiniteSets, Subsequence

CONSTANTS
    Capacity,        \* replay_cache_capacity
    Words,           \* OVERLAY_REPLAY_SEQUENCE_WINDOW_WORDS
    WordBits         \* u64::BITS

ASSUME WindowAssumption ==
    /\ Capacity \in Nat \ {0}
    /\ Words \in Nat \ {0}
    /\ WordBits \in Nat \ {0}

WindowBits == Words * WordBits
Bits == 0..(WordBits - 1)
Bitmap == [0..(Words - 1) -> SUBSET Bits]

EmptyCache == [sequences |-> <<>>, recency |-> <<>>]

---------------------------------------------------------------------------
(* ReplaySequenceWindow.                                                   *)

NewWindow(highest) ==
    [highest |-> highest, seen |-> [w \in 0..(Words - 1) |-> IF w = 0 THEN {0} ELSE {}]]

ShiftLeft(word, n) == {b + n : b \in {x \in word : x + n < WordBits}}
ShiftRight(word, n) == {b - n : b \in {x \in word : x >= n}}

(* Mutant: the bits pushed out of a word do not enter the next older one.  *)
ShiftOlderNoCarry(seen, distance) ==
    LET words == distance \div WordBits
        Word(i) == IF i \in DOMAIN seen THEN seen[i] ELSE {}
    IN  [w \in DOMAIN seen |-> ShiftLeft(Word(w - words), distance % WordBits)]

(* shift_older: every word moves by whole words and by a rest of bits; the *)
(* bits pushed out of a word enter the next older one.                     *)
ShiftOlder(seen, distance) ==
    LET words == distance \div WordBits
        bits  == distance % WordBits
        Word(i) == IF i \in DOMAIN seen THEN seen[i] ELSE {}
    IN  [w \in DOMAIN seen |->
            ShiftLeft(Word(w - words), bits)
            \cup (IF bits > 0 THEN ShiftRight(Word(w - words - 1), WordBits - bits) ELSE {})]

AdvanceTo(window, sequence) ==
    LET advance == sequence - window.highest
        older   == IF advance >= WindowBits
                   THEN [w \in DOMAIN window.seen |-> {}]
                   ELSE ShiftOlder(window.seen, advance)
    IN  [highest |-> sequence, seen |-> [older EXCEPT ![0] = @ \cup {0}]]

ContainsBit(window, distance) ==
    distance % WordBits \in window.seen[distance \div WordBits]

(* Mutant: a late sequence is accepted without leaving its mark.           *)
InsertNothing(window, distance) == window

Insert(window, distance) ==
    [window EXCEPT !.seen[distance \div WordBits] = @ \cup {distance % WordBits}]

---------------------------------------------------------------------------
(* ReplayWindow.                                                           *)

Keys(cache) == DOMAIN cache.sequences

KeepOnly(sequences, keys) == [k \in DOMAIN sequences \cap keys |-> sequences[k]]

(* An observation is current while no later one advanced the same key.     *)
Current(cache, entry) ==
    entry[1] \in Keys(cache) /\ cache.sequences[entry[1]].highest = entry[2]

CompactRecency(cache) ==
    [cache EXCEPT !.recency = Pick(@, {j \in DOMAIN @ : Current(cache, @[j])})]

(* Mutant: a popped observation drops its key even when it is stale.       *)
PoppedStale(cache, n) == {cache.recency[k][1] : k \in 1..n}

(* evict_to_capacity: pop observations, oldest first, dropping the key of  *)
(* each current one, until the cache fits or the queue is empty.           *)
Popped(cache, n) == {cache.recency[k][1] : k \in {j \in 1..n : Current(cache, cache.recency[j])}}

Fits(cache, n) ==
    n = Len(cache.recency) \/ Cardinality(Keys(cache) \ Popped(cache, n)) <= Capacity

EvictToCapacity(cache) ==
    LET n == CHOOSE k \in 0..Len(cache.recency) :
                Fits(cache, k) /\ \A j \in 0..(k - 1) : ~Fits(cache, j)
    IN  [sequences |-> KeepOnly(cache.sequences, Keys(cache) \ Popped(cache, n)),
         recency   |-> SubSeq(cache.recency, n + 1, Len(cache.recency))]

(* observe fails with ReplayRejected unless the sequence is new.           *)
Advances(cache, key, sequence) ==
    key \in Keys(cache) => sequence > cache.sequences[key].highest

Accepts(cache, key, sequence) ==
    \/ Advances(cache, key, sequence)
    \/ /\ key \in Keys(cache)
       /\ LET distance == cache.sequences[key].highest - sequence
          IN  /\ distance >= 0
              /\ distance < WindowBits
              /\ ~ContainsBit(cache.sequences[key], distance)

NextWindow(cache, key, sequence) ==
    IF key \notin Keys(cache) THEN NewWindow(sequence)
    ELSE LET window == cache.sequences[key]
         IN  IF sequence > window.highest THEN AdvanceTo(window, sequence)
             ELSE Insert(window, window.highest - sequence)

Stored(cache, key, window) ==
    [cache EXCEPT !.sequences = [k \in DOMAIN @ \cup {key} |-> IF k = key THEN window ELSE @[k]]]

(* The queue is compacted when it is twice as long as the capacity.        *)
Enqueued(cache, key, sequence) ==
    LET room == IF Len(cache.recency) >= 2 * Capacity THEN CompactRecency(cache) ELSE cache
    IN  [room EXCEPT !.recency = Append(@, <<key, sequence>>)]

(* observe, accepted: a late sequence only sets its bit, a new highest one *)
(* also renews the key's place in the queue.                               *)
Observe(cache, key, sequence) ==
    LET stored == Stored(cache, key, NextWindow(cache, key, sequence))
    IN  EvictToCapacity(IF Advances(cache, key, sequence)
                        THEN Enqueued(stored, key, sequence) ELSE stored)

(* Mutant: the queue keeps the observations of the dropped epochs.         *)
RetainEpochsOnly(cache, epochs) ==
    [cache EXCEPT !.sequences = KeepOnly(@, {k \in DOMAIN @ : k.topology_epoch \in epochs})]

RetainEpochs(cache, epochs) ==
    CompactRecency([cache EXCEPT !.sequences =
        KeepOnly(@, {k \in DOMAIN @ : k.topology_epoch \in epochs})])

===========================================================================
