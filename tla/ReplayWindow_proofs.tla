------------------------ MODULE ReplayWindow_proofs ------------------------
(***************************************************************************)
(* What the replay window's operators return, for any number and width of  *)
(* the words of its bitmap and for any capacity: the lemmas on which the   *)
(* proofs about one cache (NodeStructures_proofs) and about the caches of  *)
(* the forwarding engines (OverlayAgent_proofs) rest.                      *)
(***************************************************************************)
EXTENDS ReplayWindow, FiniteSetTheorems, TLAPS

---------------------------------------------------------------------------
(* Quotients and remainders.                                               *)

LEMMA TimesGrows ==
    ASSUME NEW b \in Nat, b > 0, NEW k \in Int, k >= 1
    PROVE  k * b >= b
<1>1. k * b = (k - 1) * b + b
  OBVIOUS
<1>2. (k - 1) * b >= 0
  OBVIOUS
<1> QED
  BY <1>1, <1>2

LEMMA DivMod ==
    ASSUME NEW n \in Nat, NEW b \in Nat, b > 0
    PROVE  /\ n \div b \in Nat /\ n % b \in 0..(b - 1)
           /\ n = (n \div b) * b + (n % b)
<1>1. n \div b \in Int /\ n % b \in 0..(b - 1)
  OBVIOUS
<1>2. n = b * (n \div b) + (n % b)
  OBVIOUS
<1>3. n \div b >= 0
  OBVIOUS
<1>4. b * (n \div b) = (n \div b) * b
  BY <1>1
<1> QED
  BY <1>1, <1>2, <1>3, <1>4

LEMMA DivModUnique ==
    ASSUME NEW b \in Nat, b > 0, NEW q \in Nat, NEW r \in 0..(b - 1), NEW n \in Nat, n = q * b + r
    PROVE  n \div b = q /\ n % b = r
<1> DEFINE Q == n \div b
           R == n % b
<1>1. Q \in Nat /\ R \in 0..(b - 1) /\ n = Q * b + R
  BY DivMod
<1> HIDE DEF Q, R
<1>2. (q - Q) * b = R - r
  BY <1>1
<1>3. (Q - q) * b = r - R
  BY <1>1
<1>4. ~(q - Q >= 1)
  <2> SUFFICES ASSUME q - Q >= 1 PROVE FALSE
    OBVIOUS
  <2>1. (q - Q) * b >= b
    BY <1>1, TimesGrows
  <2> QED
    BY <1>1, <1>2, <2>1
<1>5. ~(Q - q >= 1)
  <2> SUFFICES ASSUME Q - q >= 1 PROVE FALSE
    OBVIOUS
  <2>1. (Q - q) * b >= b
    BY <1>1, TimesGrows
  <2> QED
    BY <1>1, <1>3, <2>1
<1>6. Q = q
  BY <1>1, <1>4, <1>5
<1>7. R = r
  BY <1>1, <1>6
<1> QED
  BY <1>6, <1>7 DEF Q, R

(* A distance within the window is a bit of one of its words.              *)
LEMMA Position ==
    ASSUME NEW d \in 0..(WindowBits - 1)
    PROVE  /\ d \div WordBits \in 0..(Words - 1) /\ d % WordBits \in Bits
           /\ d = (d \div WordBits) * WordBits + (d % WordBits)
<1>1. WordBits \in Nat /\ WordBits > 0 /\ Words \in Nat /\ d \in Nat /\ d < Words * WordBits
  BY WindowAssumption DEF WindowBits
<1> DEFINE q == d \div WordBits
           r == d % WordBits
<1>2. q \in Nat /\ r \in 0..(WordBits - 1) /\ d = q * WordBits + r
  BY <1>1, DivMod
<1> HIDE DEF q, r
<1>3. q < Words
  <2> SUFFICES ASSUME q >= Words PROVE FALSE
    BY <1>1, <1>2
  <2>1. (q - Words) * WordBits >= 0
    BY <1>1, <1>2
  <2>2. q * WordBits = (q - Words) * WordBits + Words * WordBits
    BY <1>1, <1>2
  <2>3. q * WordBits \in Int /\ Words * WordBits \in Int /\ (q - Words) * WordBits \in Int
    BY <1>1, <1>2
  <2> QED
    BY <1>1, <1>2, <2>1, <2>2, <2>3
<1> QED
  BY <1>1, <1>2, <1>3 DEF q, r, Bits

Marked(seen, d) == d % WordBits \in seen[d \div WordBits]

(* shift_older moves every mark by the distance, across word boundaries.   *)
LEMMA ShiftMoves ==
    ASSUME NEW seen \in Bitmap, NEW a \in 0..(WindowBits - 1), NEW d \in 0..(WindowBits - 1)
    PROVE  Marked(ShiftOlder(seen, a), d) <=> d >= a /\ Marked(seen, d - a)
<1> DEFINE w == d \div WordBits
           b == d % WordBits
           words == a \div WordBits
           bits == a % WordBits
           Word(i) == IF i \in DOMAIN seen THEN seen[i] ELSE {}
           carried == IF bits > 0 THEN ShiftRight(Word(w - words - 1), WordBits - bits) ELSE {}
<1>1. /\ w \in 0..(Words - 1) /\ b \in Bits /\ d = w * WordBits + b
      /\ words \in 0..(Words - 1) /\ bits \in Bits /\ a = words * WordBits + bits
  BY Position
<1>2. WordBits \in Nat /\ WordBits > 0 /\ Words \in Nat /\ d \in Nat /\ a \in Nat
  BY WindowAssumption DEF WindowBits
<1>3. DOMAIN seen = 0..(Words - 1) /\ \A i \in 0..(Words - 1) : seen[i] \subseteq Bits
  BY DEF Bitmap
<1>4. Marked(ShiftOlder(seen, a), d) <=> b \in ShiftLeft(Word(w - words), bits) \cup carried
  BY <1>1, <1>3 DEF ShiftOlder, Marked
<1> HIDE DEF w, b, words, bits
<1>5. d - a = (w - words) * WordBits + (b - bits)
  BY <1>1, <1>2 DEF Bits
<1>6. CASE b >= bits
  <2>1. b \notin carried
    BY <1>1, <1>2, <1>3, <1>6 DEF ShiftRight, Bits
  <2>2. b \in ShiftLeft(Word(w - words), bits) <=> b - bits \in Word(w - words)
    BY <1>1, <1>2, <1>3, <1>6 DEF ShiftLeft, Bits
  <2>3. CASE w >= words
    <3>1. /\ w - words \in Nat /\ b - bits \in 0..(WordBits - 1) /\ d - a \in Nat
      <4>1. (w - words) * WordBits \in Nat
        BY <1>1, <1>2, <2>3
      <4> QED
        BY <1>1, <1>2, <1>5, <1>6, <2>3, <4>1 DEF Bits
    <3>2. (d - a) \div WordBits = w - words /\ (d - a) % WordBits = b - bits
      BY <1>2, <1>5, <3>1, DivModUnique
    <3>3. Word(w - words) = seen[w - words]
      BY <1>1, <1>2, <1>3, <2>3
    <3> QED
      BY <1>2, <1>4, <2>1, <2>2, <3>1, <3>2, <3>3 DEF Marked
  <2>4. CASE w < words
    <3>1. (words - w) * WordBits >= WordBits
      BY <1>1, <1>2, <2>4, TimesGrows
    <3>2. (w - words) * WordBits = -((words - w) * WordBits) /\ (words - w) * WordBits \in Int
      BY <1>1, <1>2
    <3>3. d < a
      BY <1>1, <1>2, <1>5, <3>1, <3>2 DEF Bits
    <3>4. Word(w - words) = {}
      BY <1>1, <1>2, <1>3, <2>4
    <3> QED
      BY <1>2, <1>4, <2>1, <2>2, <3>3, <3>4
  <2> QED
    BY <1>1, <1>2, <2>3, <2>4
<1>7. CASE b < bits
  <2>1. b \notin ShiftLeft(Word(w - words), bits)
    BY <1>1, <1>2, <1>3, <1>7 DEF ShiftLeft, Bits
  <2>2. b \in carried <=> b + WordBits - bits \in Word(w - words - 1)
    BY <1>1, <1>2, <1>3, <1>7 DEF ShiftRight, Bits
  <2>3. d - a = (w - words - 1) * WordBits + (b + WordBits - bits)
    BY <1>1, <1>2, <1>5 DEF Bits
  <2>4. CASE w > words
    <3>1. /\ w - words - 1 \in Nat /\ b + WordBits - bits \in 0..(WordBits - 1) /\ d - a \in Nat
      <4>1. (w - words - 1) * WordBits \in Nat
        BY <1>1, <1>2, <2>4
      <4> QED
        BY <1>1, <1>2, <2>3, <1>7, <2>4, <4>1 DEF Bits
    <3>2. (d - a) \div WordBits = w - words - 1 /\ (d - a) % WordBits = b + WordBits - bits
      BY <1>2, <2>3, <3>1, DivModUnique
    <3>3. Word(w - words - 1) = seen[w - words - 1]
      BY <1>1, <1>2, <1>3, <2>4
    <3> QED
      BY <1>2, <1>4, <2>1, <2>2, <3>1, <3>2, <3>3 DEF Marked
  <2>5. CASE w <= words
    <3>1. (words - w) * WordBits >= 0 /\ (words - w) * WordBits \in Int
      BY <1>1, <1>2, <2>5
    <3>2. (w - words) * WordBits = -((words - w) * WordBits)
      BY <1>1, <1>2
    <3>3. d < a
      BY <1>1, <1>2, <1>5, <1>7, <3>1, <3>2 DEF Bits
    <3>4. Word(w - words - 1) = {}
      BY <1>1, <1>2, <1>3, <2>5
    <3> QED
      BY <1>2, <1>4, <2>1, <2>2, <3>3, <3>4
  <2> QED
    BY <1>1, <1>2, <2>4, <2>5
<1> QED
  BY <1>1, <1>2, <1>6, <1>7 DEF Bits

LEMMA ShiftType ==
    ASSUME NEW seen \in Bitmap, NEW a \in 0..(WindowBits - 1)
    PROVE  ShiftOlder(seen, a) \in Bitmap
<1> DEFINE bits == a % WordBits
<1>1. WordBits \in Nat /\ WordBits > 0 /\ bits \in 0..(WordBits - 1)
  BY WindowAssumption, Position DEF Bits
<1>2. \A word \in SUBSET Bits : ShiftLeft(word, bits) \subseteq Bits
  BY <1>1 DEF ShiftLeft, Bits
<1>3. \A word \in SUBSET Bits : bits > 0 => ShiftRight(word, WordBits - bits) \subseteq Bits
  BY <1>1 DEF ShiftRight, Bits
<1> HIDE DEF bits
<1>4. DOMAIN seen = 0..(Words - 1) /\ \A i \in DOMAIN seen : seen[i] \in SUBSET Bits
  BY DEF Bitmap
<1> QED
  BY <1>2, <1>3, <1>4 DEF ShiftOlder, Bitmap, bits

---------------------------------------------------------------------------
(* One window.                                                             *)

WindowRecord == [highest : Nat, seen : Bitmap]

(* Bit d of the window says whether highest - d is in the history, and     *)
(* nothing in the history is above highest.                                *)
Exact(window, history) ==
    /\ window \in WindowRecord
    /\ history \subseteq 0..window.highest
    /\ \A d \in 0..(WindowBits - 1) : ContainsBit(window, d) <=> window.highest - d \in history

LEMMA WindowBitsPositive == WindowBits \in Nat /\ WindowBits > 0 /\ WordBits \in Nat /\ WordBits > 0
                            /\ Words \in Nat /\ 0 \in 0..(Words - 1) /\ 0 \in Bits
<1>1. WordBits \in Nat /\ WordBits >= 1 /\ Words \in Nat /\ Words >= 1
  BY WindowAssumption
<1>2. Words * WordBits >= WordBits /\ Words * WordBits \in Nat
  BY <1>1, TimesGrows
<1> QED
  BY <1>1, <1>2 DEF WindowBits, Bits

(* Only distance 0 is bit 0 of word 0.                                     *)
LEMMA FirstPosition ==
    ASSUME NEW d \in 0..(WindowBits - 1)
    PROVE  d \div WordBits = 0 /\ d % WordBits = 0 <=> d = 0
<1>1. d = (d \div WordBits) * WordBits + (d % WordBits)
  BY Position
<1>2. WordBits \in Nat /\ WordBits > 0 /\ 0 = 0 * WordBits + 0
  BY WindowBitsPositive
<1>3. 0 \div WordBits = 0 /\ 0 % WordBits = 0
  BY <1>2, DivModUnique
<1> QED
  BY <1>1, <1>2, <1>3

LEMMA NewWindowExact ==
    ASSUME NEW n \in Nat
    PROVE  Exact(NewWindow(n), {n})
<1>1. NewWindow(n) \in WindowRecord /\ NewWindow(n).highest = n
  BY WindowBitsPositive DEF NewWindow, WindowRecord, Bitmap
<1>2. ASSUME NEW d \in 0..(WindowBits - 1)
      PROVE  ContainsBit(NewWindow(n), d) <=> d = 0
  <2>1. d \div WordBits \in 0..(Words - 1)
    BY Position
  <2>2. NewWindow(n).seen[d \div WordBits] = IF d \div WordBits = 0 THEN {0} ELSE {}
    BY <2>1 DEF NewWindow
  <2> QED
    BY <2>2, FirstPosition DEF ContainsBit
<1>3. \A d \in 0..(WindowBits - 1) : d = 0 <=> n - d \in {n}
  OBVIOUS
<1> QED
  BY <1>1, <1>2, <1>3 DEF Exact

(* advance_to: marks move with the window, and none is invented between    *)
(* the old highest sequence and the new one.                               *)
LEMMA AdvanceExact ==
    ASSUME NEW window, NEW history, Exact(window, history),
           NEW n \in Nat, n > window.highest
    PROVE  Exact(AdvanceTo(window, n), history \cup {n})
<1> DEFINE advance == n - window.highest
           older   == IF advance >= WindowBits
                      THEN [w \in DOMAIN window.seen |-> {}]
                      ELSE ShiftOlder(window.seen, advance)
           seen    == [older EXCEPT ![0] = @ \cup {0}]
<1>1. /\ window \in WindowRecord /\ window.highest \in Nat /\ window.seen \in Bitmap
      /\ history \subseteq 0..window.highest
  BY DEF Exact, WindowRecord
<1>2. AdvanceTo(window, n) = [highest |-> n, seen |-> seen]
  BY DEF AdvanceTo
<1>3. older \in Bitmap
  <2>1. advance < WindowBits => advance \in 0..(WindowBits - 1)
    BY <1>1, WindowBitsPositive
  <2>2. [w \in DOMAIN window.seen |-> {}] \in Bitmap
    BY <1>1 DEF Bitmap
  <2> QED
    BY <1>1, <2>1, <2>2, ShiftType, WindowBitsPositive
<1>4. ASSUME NEW d \in 0..(WindowBits - 1)
      PROVE  Marked(older, d) <=> n - d \in history
  <2>1. CASE advance >= WindowBits
    <3>1. ~Marked(older, d)
      BY <1>1, <2>1, Position DEF Marked, Bitmap
    <3>2. n - d > window.highest
      BY <1>1, <2>1, WindowBitsPositive
    <3> QED
      BY <1>1, <3>1, <3>2
  <2>2. CASE advance < WindowBits
    <3>1. advance \in 0..(WindowBits - 1) /\ older = ShiftOlder(window.seen, advance)
      BY <1>1, <2>2, WindowBitsPositive
    <3>2. Marked(older, d) <=> d >= advance /\ Marked(window.seen, d - advance)
      BY <1>1, <3>1, ShiftMoves
    <3>3. CASE d >= advance
      <4>1. d - advance \in 0..(WindowBits - 1) /\ window.highest - (d - advance) = n - d
        BY <1>1, <3>1, <3>3, WindowBitsPositive
      <4>2. Marked(window.seen, d - advance) <=> window.highest - (d - advance) \in history
        BY <4>1 DEF Exact, ContainsBit, Marked
      <4> QED
        BY <3>2, <3>3, <4>1, <4>2
    <3>4. CASE d < advance
      <4>1. n - d > window.highest
        BY <1>1, <3>4
      <4> QED
        BY <1>1, <3>1, <3>2, <3>4, <4>1
    <3> QED
      BY <1>1, <3>1, <3>3, <3>4
  <2> QED
    BY <1>1, <2>1, <2>2, WindowBitsPositive
<1> HIDE DEF older
<1>5. seen \in Bitmap /\ DOMAIN older = 0..(Words - 1)
  BY <1>3, WindowBitsPositive DEF Bitmap
<1>6. ASSUME NEW d \in 0..(WindowBits - 1)
      PROVE  Marked(seen, d) <=> Marked(older, d) \/ d = 0
  <2>1. d \div WordBits \in 0..(Words - 1)
    BY Position
  <2>2. seen[d \div WordBits] = IF d \div WordBits = 0 THEN older[d \div WordBits] \cup {0}
                                ELSE older[d \div WordBits]
    BY <1>5, <2>1, WindowBitsPositive
  <2>3. d \div WordBits = 0 /\ d % WordBits = 0 <=> d = 0
    BY FirstPosition
  <2> HIDE DEF seen
  <2> QED
    BY <2>2, <2>3 DEF Marked
<1> HIDE DEF seen, advance
<1>7. [highest |-> n, seen |-> seen] \in WindowRecord
  BY <1>5 DEF WindowRecord
<1>8. history \cup {n} \subseteq 0..n
  BY <1>1
<1>9. \A d \in 0..(WindowBits - 1) : n - d \in history \cup {n} <=> n - d \in history \/ d = 0
  OBVIOUS
<1> QED
  BY <1>2, <1>4, <1>6, <1>7, <1>8, <1>9 DEF Exact, ContainsBit, Marked

(* insert: a late sequence leaves its mark and no other.                   *)
LEMMA InsertExact ==
    ASSUME NEW window, NEW history, Exact(window, history),
           NEW n \in Nat, n <= window.highest, window.highest - n < WindowBits
    PROVE  Exact(Insert(window, window.highest - n), history \cup {n})
<1> DEFINE e == window.highest - n
           q == e \div WordBits
           r == e % WordBits
           result == Insert(window, e)
<1>1. /\ window \in WindowRecord /\ window.highest \in Nat /\ window.seen \in Bitmap
      /\ history \subseteq 0..window.highest
      /\ e \in 0..(WindowBits - 1)
  BY WindowBitsPositive DEF Exact, WindowRecord
<1> HIDE DEF e
<1>2. q \in 0..(Words - 1) /\ r \in Bits /\ e = q * WordBits + r
  BY <1>1, Position
<1>3. result = [window EXCEPT !.seen = [window.seen EXCEPT ![q] = @ \cup {r}]]
  BY DEF Insert
<1> HIDE DEF q, r, result
<1> DEFINE seen == [window.seen EXCEPT ![q] = @ \cup {r}]
<1>4. seen \in Bitmap
  BY <1>1, <1>2 DEF Bitmap
<1>5. ASSUME NEW d \in 0..(WindowBits - 1)
      PROVE  Marked(seen, d) <=> Marked(window.seen, d) \/ d = e
  <2>1. d \div WordBits \in 0..(Words - 1) /\ d = (d \div WordBits) * WordBits + (d % WordBits)
    BY Position
  <2>2. seen[d \div WordBits] = IF d \div WordBits = q THEN window.seen[d \div WordBits] \cup {r}
                                ELSE window.seen[d \div WordBits]
    BY <1>1, <1>2, <2>1 DEF Bitmap
  <2>3. d \div WordBits = q /\ d % WordBits = r <=> d = e
    BY <1>2, <2>1 DEF q, r
  <2> HIDE DEF seen
  <2> QED
    BY <2>2, <2>3 DEF Marked
<1> HIDE DEF seen
<1>6. result \in WindowRecord /\ result.highest = window.highest /\ result.seen = seen
  BY <1>1, <1>3, <1>4 DEF WindowRecord, seen
<1>7. history \cup {n} \subseteq 0..window.highest
  BY <1>1
<1>8. \A d \in 0..(WindowBits - 1) :
          window.highest - d \in history \cup {n} <=> window.highest - d \in history \/ d = e
  BY <1>1 DEF e
<1>9. \A d \in 0..(WindowBits - 1) : Marked(window.seen, d) <=> window.highest - d \in history
  BY DEF Exact, ContainsBit, Marked
<1> QED
  BY <1>5, <1>6, <1>7, <1>8, <1>9 DEF Exact, ContainsBit, Marked, e, result

---------------------------------------------------------------------------
(* The windows of a cache.                                                 *)

IsCache(c) == DOMAIN c = {"sequences", "recency"}

(* What observe leaves of the windows, whatever it evicts.                 *)
LEMMA ObserveWindows ==
    ASSUME NEW c, IsCache(c), NEW key, NEW n
    PROVE  /\ IsCache(Observe(c, key, n))
           /\ Keys(Observe(c, key, n)) \subseteq Keys(c) \cup {key}
           /\ \A k \in Keys(Observe(c, key, n)) :
                 Observe(c, key, n).sequences[k] =
                    IF k = key THEN NextWindow(c, key, n) ELSE c.sequences[k]
<1> DEFINE window == NextWindow(c, key, n)
           stored == Stored(c, key, window)
           queued == IF Advances(c, key, n) THEN Enqueued(stored, key, n) ELSE stored
<1>1. Observe(c, key, n) = EvictToCapacity(queued)
  BY DEF Observe
<1> HIDE DEF window
<1>2. /\ IsCache(stored) /\ Keys(stored) = Keys(c) \cup {key}
      /\ \A k \in Keys(stored) : stored.sequences[k] = IF k = key THEN window ELSE c.sequences[k]
  BY DEF Stored, IsCache, Keys
<1> HIDE DEF stored
<1>3. IsCache(queued) /\ queued.sequences = stored.sequences
  <2>1. IsCache(CompactRecency(stored)) /\ CompactRecency(stored).sequences = stored.sequences
    BY <1>2 DEF CompactRecency, IsCache
  <2>2. IsCache(Enqueued(stored, key, n)) /\ Enqueued(stored, key, n).sequences = stored.sequences
    <3> DEFINE room == IF Len(stored.recency) >= 2 * Capacity THEN CompactRecency(stored)
                       ELSE stored
    <3>1. IsCache(room) /\ room.sequences = stored.sequences
      BY <1>2, <2>1
    <3>2. Enqueued(stored, key, n) = [room EXCEPT !.recency = Append(@, <<key, n>>)]
      BY DEF Enqueued
    <3> HIDE DEF room
    <3> QED
      BY <3>1, <3>2 DEF IsCache
  <2> QED
    BY <1>2, <2>2
<1> HIDE DEF queued
<1>4. /\ IsCache(EvictToCapacity(queued))
      /\ Keys(EvictToCapacity(queued)) \subseteq Keys(queued)
      /\ \A k \in Keys(EvictToCapacity(queued)) :
            EvictToCapacity(queued).sequences[k] = queued.sequences[k]
  BY DEF EvictToCapacity, KeepOnly, Keys, IsCache
<1>5. Keys(queued) = Keys(stored)
  BY <1>3 DEF Keys
<1> QED
  BY <1>1, <1>2, <1>3, <1>4, <1>5 DEF window

(* retain_epochs keeps the windows of the epochs it is given.              *)
LEMMA RetainWindows ==
    ASSUME NEW c, IsCache(c), NEW es
    PROVE  /\ IsCache(RetainEpochs(c, es))
           /\ Keys(RetainEpochs(c, es)) = {k \in Keys(c) : k.topology_epoch \in es}
           /\ \A k \in Keys(RetainEpochs(c, es)) :
                 RetainEpochs(c, es).sequences[k] = c.sequences[k]
<1> DEFINE kept == [c EXCEPT !.sequences = KeepOnly(@, {k \in DOMAIN @ : k.topology_epoch \in es})]
<1>1. RetainEpochs(c, es) = CompactRecency(kept)
  BY DEF RetainEpochs
<1>2. /\ IsCache(kept) /\ Keys(kept) = {k \in Keys(c) : k.topology_epoch \in es}
      /\ \A k \in Keys(kept) : kept.sequences[k] = c.sequences[k]
  BY DEF IsCache, Keys, KeepOnly
<1> HIDE DEF kept
<1>3. IsCache(CompactRecency(kept)) /\ CompactRecency(kept).sequences = kept.sequences
  BY <1>2 DEF CompactRecency, IsCache
<1>4. Keys(CompactRecency(kept)) = Keys(kept)
  BY <1>3 DEF Keys
<1> QED
  BY <1>1, <1>2, <1>3, <1>4

(* An accepted sequence is remembered, and what was remembered stays so.   *)
LEMMA NextWindowExact ==
    ASSUME NEW c, NEW key, NEW n \in Nat, Accepts(c, key, n), NEW history,
           key \in Keys(c) => Exact(c.sequences[key], history),
           key \notin Keys(c) => history = {}
    PROVE  Exact(NextWindow(c, key, n), history \cup {n})
<1>1. CASE key \notin Keys(c)
  BY <1>1, NewWindowExact DEF NextWindow
<1>2. CASE key \in Keys(c) /\ n > c.sequences[key].highest
  BY <1>2, AdvanceExact DEF NextWindow
<1>3. CASE key \in Keys(c) /\ ~(n > c.sequences[key].highest)
  <2>1. c.sequences[key].highest \in Nat
    BY <1>3 DEF Exact, WindowRecord
  <2>2. n <= c.sequences[key].highest /\ c.sequences[key].highest - n < WindowBits
    BY <1>3, <2>1 DEF Accepts, Advances
  <2> QED
    BY <1>3, <2>2, InsertExact DEF NextWindow
<1> QED
  BY <1>1, <1>2, <1>3

(* A window refuses what is in its history.                                *)
LEMMA ExactRefuses ==
    ASSUME NEW c, NEW key \in Keys(c), NEW history, Exact(c.sequences[key], history),
           NEW n \in history
    PROVE  ~Accepts(c, key, n)
<1> DEFINE window == c.sequences[key]
<1>1. window.highest \in Nat /\ n \in 0..window.highest
  BY DEF Exact, WindowRecord
<1>2. ASSUME window.highest - n < WindowBits
      PROVE  ContainsBit(window, window.highest - n)
  <2>1. window.highest - n \in 0..(WindowBits - 1) /\ window.highest - (window.highest - n) = n
    BY <1>1, <1>2, WindowBitsPositive
  <2> QED
    BY <2>1 DEF Exact
<1> QED
  BY <1>1, <1>2 DEF Accepts, Advances

---------------------------------------------------------------------------
(* What Pick leaves of a sequence.                                         *)

(* The ranks in a finite set of numbers are 1, 2, ... in increasing order. *)
LEMMA RankFacts ==
    ASSUME NEW I \in SUBSET Nat, IsFiniteSet(I)
    PROVE  /\ Cardinality(I) \in Nat
           /\ \A i \in I : Rank(I, i) \in 1..Cardinality(I)
           /\ \A i, j \in I : i < j => Rank(I, i) < Rank(I, j)
           /\ \A r \in 1..Cardinality(I) : \E i \in I : Rank(I, i) = r
<1> DEFINE B(i) == {k \in I : k <= i}
           n == Cardinality(I)
<1>1. n \in Nat
  BY FS_CardinalityType
<1>2. ASSUME NEW i \in I
      PROVE  /\ IsFiniteSet(B(i)) /\ Cardinality(B(i)) \in Nat /\ Cardinality(B(i)) <= n
             /\ Cardinality(B(i)) # 0
  <2>1. B(i) \in SUBSET I /\ i \in B(i)
    OBVIOUS
  <2> DEFINE S == B(i)
  <2> HIDE DEF S
  <2>2. IsFiniteSet(S) /\ Cardinality(S) <= n
    BY <2>1, FS_Subset DEF S
  <2>3. Cardinality(S) \in Nat
    BY <2>2, FS_CardinalityType
  <2>4. Cardinality(S) # 0
    BY <2>1, <2>2, FS_EmptySet DEF S
  <2> QED BY <2>2, <2>3, <2>4 DEF S
<1>3. \A i \in I : Rank(I, i) \in 1..n
  BY <1>1, <1>2 DEF Rank
<1>4. ASSUME NEW i \in I, NEW j \in I, i < j
      PROVE  Rank(I, i) < Rank(I, j)
  <2> DEFINE S == B(i)
             T == B(j)
  <2>1. S \in SUBSET T /\ j \in T /\ j \notin S
    <3>1. \A k \in I : k <= i => k <= j
      BY <1>4
    <3>2. ~(j <= i) /\ j <= j
      BY <1>4
    <3>3. S \subseteq T
      BY <3>1
    <3> QED BY <3>2, <3>3
  <2>2. IsFiniteSet(T) /\ Cardinality(T) \in Nat /\ Cardinality(S) \in Nat
    BY <1>2
  <2> HIDE DEF S, T
  <2>3. Cardinality(S) <= Cardinality(T) /\ (Cardinality(T) = Cardinality(S) => T = S)
    BY <2>1, <2>2, FS_Subset
  <2>4. Cardinality(S) < Cardinality(T)
    BY <2>1, <2>2, <2>3
  <2> QED BY <2>4 DEF S, T, Rank
<1>5. ASSUME NEW r \in 1..n
      PROVE  \E i \in I : Rank(I, i) = r
  <2> DEFINE f == [i \in I |-> Rank(I, i)]
  <2>1. f \in [I -> 1..n]
    BY <1>3
  <2>2. \A i, j \in I : f[i] = f[j] => i = j
    <3> SUFFICES ASSUME NEW i \in I, NEW j \in I, i # j
                 PROVE  f[i] # f[j]
      OBVIOUS
    <3>1. i < j \/ j < i
      OBVIOUS
    <3>2. Rank(I, i) \in Int /\ Rank(I, j) \in Int
      BY <1>3
    <3> QED BY <1>4, <3>1, <3>2
  <2>3. f \in Injection(I, 1..n)
    <3> HIDE DEF f
    <3> QED BY <2>1, <2>2 DEF Injection, IsInjective
  <2>4. IsFiniteSet(1..n) /\ Cardinality(1..n) = n
    <3>1. 1 \in Int /\ n \in Int
      BY <1>1
    <3>2. IsFiniteSet(1..n) /\ Cardinality(1..n) = IF 1 > n THEN 0 ELSE n - 1 + 1
      BY <3>1, FS_Interval
    <3> QED BY <1>1, <3>2
  <2> HIDE DEF f
  <2>5. f \in Surjection(I, 1..n)
    BY <2>3, <2>4, FS_Injection
  <2>6. \E i \in I : f[i] = r
    BY <2>5 DEF Surjection
  <2> QED BY <2>6 DEF f
<1> QED BY <1>1, <1>3, <1>4, <1>5

(* Nth lists the members of I in increasing order.                         *)
LEMMA NthFacts ==
    ASSUME NEW I \in SUBSET Nat, IsFiniteSet(I)
    PROVE  /\ \A j \in 1..Cardinality(I) : Nth(I, j) \in I /\ Rank(I, Nth(I, j)) = j
           /\ \A i \in I : Nth(I, Rank(I, i)) = i
           /\ \A j, k \in 1..Cardinality(I) : j < k <=> Nth(I, j) < Nth(I, k)
<1>1. ASSUME NEW j \in 1..Cardinality(I)
      PROVE  Nth(I, j) \in I /\ Rank(I, Nth(I, j)) = j
  <2>1. \E i \in I : Rank(I, i) = j
    BY RankFacts
  <2> QED BY <2>1 DEF Nth
<1>2. \A i, j \in I : Rank(I, i) = Rank(I, j) => i = j
  <2> SUFFICES ASSUME NEW i \in I, NEW j \in I, i # j
               PROVE  Rank(I, i) # Rank(I, j)
    OBVIOUS
  <2>1. i < j \/ j < i
    OBVIOUS
  <2>2. Rank(I, i) \in 1..Cardinality(I) /\ Rank(I, j) \in 1..Cardinality(I)
    BY RankFacts
  <2>3. Rank(I, i) < Rank(I, j) \/ Rank(I, j) < Rank(I, i)
    BY <2>1, RankFacts
  <2> QED BY <2>2, <2>3
<1>3. \A i \in I : Rank(I, i) \in 1..Cardinality(I)
  BY RankFacts
<1>4. \A i \in I : Nth(I, Rank(I, i)) = i
  BY <1>1, <1>2, <1>3
<1>5. ASSUME NEW j \in 1..Cardinality(I), NEW k \in 1..Cardinality(I)
      PROVE  j < k <=> Nth(I, j) < Nth(I, k)
  <2> DEFINE a == Nth(I, j)
             b == Nth(I, k)
  <2>1. a \in I /\ b \in I /\ Rank(I, a) = j /\ Rank(I, b) = k
    BY <1>1
  <2>2. (a < b => j < k) /\ (b < a => k < j)
    BY <2>1, RankFacts
  <2>3. a = b => j = k
    BY <2>1
  <2>4. Cardinality(I) \in Nat /\ a \in Nat /\ b \in Nat
    BY <2>1, RankFacts
  <2> HIDE DEF a, b
  <2>5. j < k <=> a < b
    BY <2>2, <2>3, <2>4
  <2> QED BY <2>5 DEF a, b
<1> QED BY <1>1, <1>4, <1>5

(* What a queue is after the elements outside the positions I left it.     *)
LEMMA PickFacts ==
    ASSUME NEW T, NEW s \in Seq(T), NEW I \in SUBSET DOMAIN s
    PROVE  /\ I \in SUBSET Nat /\ IsFiniteSet(I)
           /\ Pick(s, I) \in Seq(T)
           /\ Len(Pick(s, I)) = Cardinality(I)
           /\ Cardinality(I) \in Nat /\ Cardinality(I) <= Len(s)
           /\ \A j \in 1..Cardinality(I) : Pick(s, I)[j] = s[Nth(I, j)] /\ Nth(I, j) \in I
           /\ \A j, k \in 1..Cardinality(I) : j < k <=> Nth(I, j) < Nth(I, k)
           /\ \A i \in I : \E j \in 1..Cardinality(I) : Nth(I, j) = i /\ Pick(s, I)[j] = s[i]
<1>1. I \in SUBSET Nat /\ DOMAIN s = 1..Len(s) /\ Len(s) \in Nat
  OBVIOUS
<1>2. IsFiniteSet(1..Len(s)) /\ Cardinality(1..Len(s)) = Len(s)
  <2>1. 1 \in Int /\ Len(s) \in Int
    BY <1>1
  <2>2. IsFiniteSet(1..Len(s)) /\ Cardinality(1..Len(s)) = IF 1 > Len(s) THEN 0 ELSE Len(s) - 1 + 1
    BY <2>1, FS_Interval
  <2> QED BY <1>1, <2>2
<1>3. IsFiniteSet(I) /\ Cardinality(I) <= Len(s)
  BY <1>1, <1>2, FS_Subset
<1> DEFINE n == Cardinality(I)
<1>4. n \in Nat
  BY <1>1, <1>3, RankFacts
<1>5. \A j \in 1..n : Nth(I, j) \in I
  BY <1>1, <1>3, NthFacts
<1>6. \A j, k \in 1..n : j < k <=> Nth(I, j) < Nth(I, k)
  BY <1>1, <1>3, NthFacts
<1>7. \A i \in I : Rank(I, i) \in 1..n /\ Nth(I, Rank(I, i)) = i
  BY <1>1, <1>3, NthFacts, RankFacts
<1> HIDE DEF n
<1>8. Pick(s, I) = [j \in 1..n |-> s[Nth(I, j)]]
  BY DEF Pick, n
<1>9. \A j \in 1..n : s[Nth(I, j)] \in T
  BY <1>1, <1>5
<1>10. Pick(s, I) \in Seq(T) /\ Len(Pick(s, I)) = n
  BY <1>4, <1>8, <1>9
<1> QED BY <1>1, <1>3, <1>4, <1>5, <1>6, <1>7, <1>8, <1>10 DEF n

---------------------------------------------------------------------------
(* The queue of observations.  Its lemmas speak of a queue q and of the    *)
(* highest sequence h[k] of every remembered key k.                        *)

Heights(c) == [k \in Keys(c) |-> c.sequences[k].highest]

Recent(q, h) == {j \in DOMAIN q : q[j][1] \in DOMAIN h /\ h[q[j][1]] = q[j][2]}

Ordered(q) == \A i, j \in DOMAIN q : i < j /\ q[i][1] = q[j][1] => q[i][2] < q[j][2]

Below(q, h) == \A j \in DOMAIN q : q[j][1] \in DOMAIN h /\ q[j][2] <= h[q[j][1]]

Covers(q, h, D) == \A k \in D : \E j \in DOMAIN q : q[j] = <<k, h[k]>>

Queued(q, h, K) ==
    /\ q \in Seq(K \X Nat)
    /\ IsFiniteSet(DOMAIN h) /\ DOMAIN h \subseteq K
    /\ \A k \in DOMAIN h : h[k] \in Nat
    /\ Ordered(q)

(* Each key of D has a current observation, no observation outlives its    *)
(* key, and those of one key are in the order of their sequences.          *)
Tracked(q, h, K, D) == Queued(q, h, K) /\ Below(q, h) /\ Covers(q, h, D)

LEMMA QueueElements ==
    ASSUME NEW K, NEW q \in Seq(K \X Nat)
    PROVE  /\ DOMAIN q = 1..Len(q) /\ Len(q) \in Nat
           /\ \A j \in DOMAIN q : /\ q[j][1] \in K /\ q[j][2] \in Nat
                                  /\ q[j] = <<q[j][1], q[j][2]>>
OBVIOUS

(* compact_recency keeps every current observation.                        *)
LEMMA CompactTracked ==
    ASSUME NEW K, NEW q, NEW h, Queued(q, h, K), NEW D \in SUBSET DOMAIN h, Covers(q, h, D)
    PROVE  Tracked(Pick(q, Recent(q, h)), h, K, D)
<1> DEFINE I == Recent(q, h)
           p == Pick(q, I)
           n == Cardinality(I)
<1>1. q \in Seq(K \X Nat) /\ I \in SUBSET DOMAIN q
  BY DEF Queued, Recent
<1>2. /\ p \in Seq(K \X Nat) /\ Len(p) = n /\ n \in Nat
      /\ \A j \in 1..n : p[j] = q[Nth(I, j)] /\ Nth(I, j) \in I
      /\ \A j, k \in 1..n : j < k <=> Nth(I, j) < Nth(I, k)
      /\ \A i \in I : \E j \in 1..n : p[j] = q[i]
  BY <1>1, PickFacts
<1>3. DOMAIN p = 1..n
  BY <1>2
<1>4. \A j \in I : j \in DOMAIN q /\ q[j][1] \in DOMAIN h /\ h[q[j][1]] = q[j][2]
  BY DEF Recent
<1> HIDE DEF p, n, I
<1>5. Ordered(p)
  <2> SUFFICES ASSUME NEW i \in 1..n, NEW j \in 1..n, i < j, p[i][1] = p[j][1]
               PROVE  p[i][2] < p[j][2]
    BY <1>3 DEF Ordered
  <2>1. Nth(I, i) < Nth(I, j) /\ Nth(I, i) \in DOMAIN q /\ Nth(I, j) \in DOMAIN q
    BY <1>2, <1>4
  <2>2. q[Nth(I, i)][1] = q[Nth(I, j)][1]
    BY <1>2
  <2>3. q[Nth(I, i)][2] < q[Nth(I, j)][2]
    BY <2>1, <2>2 DEF Queued, Ordered
  <2> QED BY <1>2, <2>3
<1>6. Below(p, h)
  <2> SUFFICES ASSUME NEW j \in 1..n
               PROVE  p[j][1] \in DOMAIN h /\ p[j][2] <= h[p[j][1]]
    BY <1>3 DEF Below
  <2>1. p[j][1] \in DOMAIN h /\ p[j][2] = h[p[j][1]]
    BY <1>2, <1>4
  <2>2. h[p[j][1]] \in Nat
    BY <2>1 DEF Queued
  <2> QED BY <2>1, <2>2
<1>7. Covers(p, h, D)
  <2> SUFFICES ASSUME NEW k \in D
               PROVE  \E j \in 1..n : p[j] = <<k, h[k]>>
    BY <1>3 DEF Covers
  <2>1. PICK i \in DOMAIN q : q[i] = <<k, h[k]>>
    BY DEF Covers
  <2>2. i \in I
    BY <2>1 DEF I, Recent
  <2> QED BY <1>2, <2>1, <2>2
<1>8. Queued(p, h, K)
  BY <1>2, <1>5 DEF Queued
<1> QED BY <1>6, <1>7, <1>8 DEF Tracked, p, I

(* There are no more current observations than keys they are of.           *)
LEMMA RecentCount ==
    ASSUME NEW K, NEW q, NEW h, Queued(q, h, K), NEW D, IsFiniteSet(D),
           \A j \in Recent(q, h) : q[j][1] \in D
    PROVE  Cardinality(Recent(q, h)) <= Cardinality(D)
<1> DEFINE I == Recent(q, h)
           f == [j \in I |-> q[j][1]]
<1>1. \A j \in I : j \in DOMAIN q /\ j \in Nat /\ q[j][2] = h[q[j][1]] /\ q[j][2] \in Nat
  BY QueueElements DEF Queued, Recent
<1>2. \A i, j \in I : f[i] = f[j] => i = j
  <2> SUFFICES ASSUME NEW i \in I, NEW j \in I, q[i][1] = q[j][1], i # j
               PROVE  FALSE
    OBVIOUS
  <2>1. i < j \/ j < i
    BY <1>1
  <2>2. q[i][2] < q[j][2] \/ q[j][2] < q[i][2]
    BY <1>1, <2>1 DEF Queued, Ordered
  <2> QED BY <1>1, <2>2
<1>3. f \in [I -> D]
  OBVIOUS
<1> HIDE DEF f, I
<1>4. f \in Injection(I, D)
  <2>1. DOMAIN f = I
    BY <1>3
  <2> QED BY <1>2, <1>3, <2>1 DEF Injection, IsInjective
<1>5. Cardinality(I) <= Cardinality(D)
  BY <1>4, FS_Injection
<1> QED BY <1>5 DEF I

(* A new highest sequence of a key goes to the end of the queue.           *)
LEMMA AppendTracked ==
    ASSUME NEW K, NEW q, NEW h, NEW key \in DOMAIN h, Tracked(q, h, K, DOMAIN h \ {key}),
           \A j \in DOMAIN q : q[j][1] = key => q[j][2] < h[key]
    PROVE  Tracked(Append(q, <<key, h[key]>>), h, K, DOMAIN h)
<1> DEFINE p == Append(q, <<key, h[key]>>)
           n == Len(q)
<1>1. /\ q \in Seq(K \X Nat) /\ DOMAIN q = 1..n /\ n \in Nat
      /\ key \in K /\ h[key] \in Nat
  BY QueueElements DEF Tracked, Queued
<1>2. <<key, h[key]>> \in K \X Nat
  BY <1>1
<1>3. p \in Seq(K \X Nat) /\ Len(p) = n + 1
  BY <1>1, <1>2
<1>4. \A j \in 1..n : p[j] = q[j]
  BY <1>1
<1>5. p[n + 1] = <<key, h[key]>>
  BY <1>1
<1>6. DOMAIN p = 1..(n + 1)
  BY <1>1, <1>3
<1>7. \A j \in 1..(n + 1) : j \in 1..n \/ j = n + 1
  BY <1>1
<1>11. \A j \in 1..n : j \in 1..(n + 1) /\ j < n + 1
  BY <1>1
<1> HIDE DEF p, n
<1>8. Ordered(p)
  <2> SUFFICES ASSUME NEW i \in 1..(n + 1), NEW j \in 1..(n + 1), i < j, p[i][1] = p[j][1]
               PROVE  p[i][2] < p[j][2]
    BY <1>6 DEF Ordered
  <2>1. i \in 1..n
    BY <1>1, <1>7
  <2>2. CASE j \in 1..n
    <3>1. q[i][1] = q[j][1]
      BY <1>4, <2>1, <2>2
    <3>2. q[i][2] < q[j][2]
      BY <1>1, <2>1, <2>2, <3>1 DEF Tracked, Queued, Ordered
    <3> QED BY <1>4, <2>1, <2>2, <3>2
  <2>3. CASE j = n + 1
    BY <1>1, <1>4, <1>5, <2>1, <2>3
  <2> QED BY <1>7, <2>2, <2>3
<1>9. Below(p, h)
  BY <1>1, <1>4, <1>5, <1>6, <1>7 DEF Tracked, Below
<1>10. Covers(p, h, DOMAIN h)
  <2> SUFFICES ASSUME NEW k \in DOMAIN h
               PROVE  \E j \in DOMAIN p : p[j] = <<k, h[k]>>
    BY DEF Covers
  <2>1. CASE k = key
    <3>1. n + 1 \in 1..(n + 1)
      BY <1>1
    <3> QED BY <1>5, <1>6, <2>1, <3>1
  <2>2. CASE k # key
    BY <1>1, <1>4, <1>6, <1>11, <2>2 DEF Tracked, Covers
  <2> QED BY <2>1, <2>2
<1> QED BY <1>3, <1>8, <1>9, <1>10 DEF Tracked, Queued, p

(* What is left of a sequence without its first n elements.                *)
LEMMA DropFacts ==
    ASSUME NEW T, NEW s \in Seq(T), NEW n \in 0..Len(s)
    PROVE  /\ SubSeq(s, n + 1, Len(s)) \in Seq(T)
           /\ Len(SubSeq(s, n + 1, Len(s))) = Len(s) - n
           /\ \A j \in 1..(Len(s) - n) : SubSeq(s, n + 1, Len(s))[j] = s[j + n]
<1> DEFINE m == Len(s)
<1>1. m \in Nat /\ n \in Nat /\ n <= m
  OBVIOUS
<1>2. SubSeq(s, n + 1, m) = [i \in 1..(m - n) |-> s[i + n]]
  OBVIOUS
<1>3. \A i \in 1..(m - n) : i + n \in 1..m
  BY <1>1
<1>4. \A i \in 1..(m - n) : s[i + n] \in T
  BY <1>3
<1> HIDE DEF m
<1> QED BY <1>1, <1>2, <1>4 DEF m

(* Observations popped from the front leave a tracked queue, if the keys   *)
(* of the current ones among them leave with them.                         *)
LEMMA PopTracked ==
    ASSUME NEW K, NEW q, NEW h, Tracked(q, h, K, DOMAIN h), NEW n \in 0..Len(q), NEW g,
           DOMAIN g = DOMAIN h \ {q[i][1] : i \in {j \in 1..n : j \in Recent(q, h)}},
           \A k \in DOMAIN g : g[k] = h[k]
    PROVE  Tracked(SubSeq(q, n + 1, Len(q)), g, K, DOMAIN g)
<1> DEFINE p == SubSeq(q, n + 1, Len(q))
           m == Len(q) - n
<1>1. /\ q \in Seq(K \X Nat) /\ DOMAIN q = 1..Len(q) /\ Len(q) \in Nat
      /\ \A j \in DOMAIN q : q[j][1] \in DOMAIN h /\ q[j][2] \in Nat
                             /\ q[j][2] <= h[q[j][1]] /\ h[q[j][1]] \in Nat
  BY QueueElements DEF Tracked, Queued, Below
<1>2. p \in Seq(K \X Nat) /\ Len(p) = m /\ \A j \in 1..m : p[j] = q[j + n]
  <2> DEFINE T == K \X Nat
  <2>1. q \in Seq(T)
    BY <1>1
  <2> HIDE DEF T
  <2>2. /\ SubSeq(q, n + 1, Len(q)) \in Seq(T)
        /\ Len(SubSeq(q, n + 1, Len(q))) = Len(q) - n
        /\ \A j \in 1..(Len(q) - n) : SubSeq(q, n + 1, Len(q))[j] = q[j + n]
    BY <2>1, DropFacts, Zenon
  <2> QED BY <2>2 DEF T
<1> HIDE DEF p
<1>3. DOMAIN p = 1..m /\ m \in Nat
  BY <1>1, <1>2
<1>4. \A j \in 1..m : j + n \in DOMAIN q /\ j + n > n /\ j + n \in Nat
  BY <1>1
<1>5. \A j \in DOMAIN q : j > n => j - n \in 1..m /\ (j - n) + n = j
  BY <1>1
<1> HIDE DEF m
<1>6. IsFiniteSet(DOMAIN g) /\ DOMAIN g \subseteq K /\ \A k \in DOMAIN g : g[k] \in Nat
  <2>1. DOMAIN g \in SUBSET DOMAIN h /\ IsFiniteSet(DOMAIN h)
    BY DEF Tracked, Queued
  <2>2. IsFiniteSet(DOMAIN g)
    BY <2>1, FS_Subset
  <2> QED BY <2>1, <2>2 DEF Tracked, Queued
<1>7. Ordered(p)
  <2> SUFFICES ASSUME NEW i \in 1..m, NEW j \in 1..m, i < j, p[i][1] = p[j][1]
               PROVE  p[i][2] < p[j][2]
    BY <1>3 DEF Ordered
  <2>1. i + n < j + n /\ q[i + n][1] = q[j + n][1]
    BY <1>2, <1>3
  <2>2. q[i + n][2] < q[j + n][2]
    BY <1>4, <2>1 DEF Tracked, Queued, Ordered
  <2> QED BY <1>2, <2>2
<1>8. ASSUME NEW j \in DOMAIN q, j > n
      PROVE  q[j][1] \in DOMAIN g
  <2> SUFFICES ASSUME NEW i \in 1..n, i \in Recent(q, h), q[i][1] = q[j][1]
               PROVE  FALSE
    BY <1>1, <1>8
  <2>1. i < j /\ i \in DOMAIN q
    BY <1>1, <1>8
  <2>2. q[i][2] < q[j][2]
    BY <2>1 DEF Tracked, Queued, Ordered
  <2>3. q[i][2] = h[q[j][1]]
    BY DEF Recent
  <2> QED BY <1>1, <2>1, <2>2, <2>3
<1>9. Below(p, g)
  <2> SUFFICES ASSUME NEW j \in 1..m
               PROVE  p[j][1] \in DOMAIN g /\ p[j][2] <= g[p[j][1]]
    BY <1>3 DEF Below
  <2> QED BY <1>1, <1>2, <1>4, <1>8
<1>10. Covers(p, g, DOMAIN g)
  <2> SUFFICES ASSUME NEW k \in DOMAIN g
               PROVE  \E j \in 1..m : p[j] = <<k, g[k]>>
    BY <1>3 DEF Covers
  <2>1. PICK j \in DOMAIN q : q[j] = <<k, h[k]>>
    BY DEF Tracked, Covers
  <2>2. j \in Recent(q, h)
    BY <2>1 DEF Recent
  <2>3. j > n
    BY <1>1, <2>1, <2>2
  <2> QED BY <1>2, <1>5, <2>1, <2>3
<1> QED BY <1>2, <1>6, <1>7, <1>9, <1>10 DEF Tracked, Queued, p

(* The least member of a finite set of numbers.                            *)
LEMMA LeastNumber ==
    ASSUME NEW S \in SUBSET Nat, IsFiniteSet(S), S # {}
    PROVE  \E m \in S : \A x \in S : m <= x
<1>1. Cardinality(S) \in Nat /\ Cardinality(S) # 0
  BY FS_CardinalityType, FS_EmptySet
<1>2. 1 \in 1..Cardinality(S)
  BY <1>1
<1> DEFINE m == Nth(S, 1)
<1>3. m \in S /\ Rank(S, m) = 1
  BY <1>2, NthFacts
<1>4. \A x \in S : Rank(S, x) \in 1..Cardinality(S) /\ (x < m => Rank(S, x) < Rank(S, m))
  BY <1>3, RankFacts
<1> HIDE DEF m
<1>5. \A x \in S : ~(x < m)
  BY <1>1, <1>3, <1>4
<1> QED BY <1>3, <1>5

(* A cache whose queue tracks its keys, all of them in K.                  *)
Sound(c, K) == IsCache(c) /\ Tracked(c.recency, Heights(c), K, Keys(c))

Bounded(c) == Cardinality(Keys(c)) <= Capacity /\ Len(c.recency) <= 2 * Capacity

LEMMA HeightsFacts ==
    ASSUME NEW c
    PROVE  DOMAIN Heights(c) = Keys(c) /\ \A k \in Keys(c) : Heights(c)[k] = c.sequences[k].highest
BY DEF Heights

LEMMA CompactIs ==
    ASSUME NEW c, IsCache(c)
    PROVE  /\ IsCache(CompactRecency(c)) /\ CompactRecency(c).sequences = c.sequences
           /\ Heights(CompactRecency(c)) = Heights(c)
           /\ CompactRecency(c).recency = Pick(c.recency, Recent(c.recency, Heights(c)))
<1> DEFINE I == {j \in DOMAIN c.recency : Current(c, c.recency[j])}
<1>1. I = Recent(c.recency, Heights(c))
  BY HeightsFacts DEF Current, Recent
<1>2. CompactRecency(c) = [c EXCEPT !.recency = Pick(c.recency, I)]
  BY DEF CompactRecency
<1> HIDE DEF I
<1>3. /\ IsCache(CompactRecency(c)) /\ CompactRecency(c).sequences = c.sequences
      /\ CompactRecency(c).recency = Pick(c.recency, I)
  BY <1>2 DEF IsCache
<1>4. Heights(CompactRecency(c)) = Heights(c)
  BY <1>3 DEF Heights, Keys
<1> QED BY <1>1, <1>3, <1>4

(* evict_to_capacity pops the fewest observations after which the rest     *)
(* fits.                                                                   *)
Evicts(c, n) ==
    /\ n \in 0..Len(c.recency) /\ Fits(c, n) /\ \A j \in 0..(n - 1) : ~Fits(c, j)
    /\ EvictToCapacity(c) =
          [sequences |-> KeepOnly(c.sequences, Keys(c) \ Popped(c, n)),
           recency   |-> SubSeq(c.recency, n + 1, Len(c.recency))]

LEMMA EvictsSome ==
    ASSUME NEW c, Len(c.recency) \in Nat
    PROVE  \E n \in 0..Len(c.recency) : Evicts(c, n)
<1> DEFINE L == Len(c.recency)
           S == {k \in 0..L : Fits(c, k)}
           P(k) == Fits(c, k) /\ \A j \in 0..(k - 1) : ~Fits(c, j)
           n == CHOOSE k \in 0..L : P(k)
<1>1. L \in S
  BY DEF Fits
<1>2. S \in SUBSET Nat /\ IsFiniteSet(S)
  <2>1. S \in SUBSET (0..L)
    OBVIOUS
  <2>2. IsFiniteSet(0..L)
    BY FS_Interval
  <2> QED BY <2>1, <2>2, FS_Subset
<1>3. PICK m \in S : \A x \in S : m <= x
  BY <1>1, <1>2, LeastNumber
<1>4. m \in 0..L /\ P(m)
  <2>1. ASSUME NEW j \in 0..(m - 1), Fits(c, j)
        PROVE  FALSE
    BY <1>3, <2>1
  <2> QED BY <1>3, <2>1
<1>5. n \in 0..L /\ P(n)
  BY <1>4
<1>6. EvictToCapacity(c) = [sequences |-> KeepOnly(c.sequences, Keys(c) \ Popped(c, n)),
                            recency   |-> SubSeq(c.recency, n + 1, Len(c.recency))]
  BY DEF EvictToCapacity
<1> HIDE DEF n
<1> QED BY <1>5, <1>6 DEF Evicts

LEMMA EvictIs ==
    ASSUME NEW c, NEW n, Evicts(c, n)
    PROVE  LET d == EvictToCapacity(c)
           IN  /\ IsCache(d) /\ Keys(d) = Keys(c) \ Popped(c, n)
               /\ \A k \in Keys(d) : d.sequences[k] = c.sequences[k] /\ Heights(d)[k] = Heights(c)[k]
               /\ d.recency = SubSeq(c.recency, n + 1, Len(c.recency))
<1> DEFINE d == EvictToCapacity(c)
<1>1. d = [sequences |-> KeepOnly(c.sequences, Keys(c) \ Popped(c, n)),
           recency   |-> SubSeq(c.recency, n + 1, Len(c.recency))]
  BY DEF Evicts
<1> HIDE DEF d
<1>2. /\ d.sequences = KeepOnly(c.sequences, Keys(c) \ Popped(c, n)) /\ IsCache(d)
      /\ d.recency = SubSeq(c.recency, n + 1, Len(c.recency))
  BY <1>1 DEF IsCache
<1>3. Keys(d) = Keys(c) \ Popped(c, n) /\ \A k \in Keys(d) : d.sequences[k] = c.sequences[k]
  BY <1>2 DEF Keys, KeepOnly
<1>4. \A k \in Keys(d) : Heights(d)[k] = Heights(c)[k]
  BY <1>3, HeightsFacts
<1> QED BY <1>2, <1>3, <1>4 DEF d

LEMMA PoppedIs ==
    ASSUME NEW c, NEW n \in 0..Len(c.recency), Len(c.recency) \in Nat,
           DOMAIN c.recency = 1..Len(c.recency)
    PROVE  Popped(c, n) = {c.recency[i][1] : i \in {j \in 1..n : j \in Recent(c.recency, Heights(c))}}
<1>1. \A j \in 1..n : Current(c, c.recency[j]) <=> j \in Recent(c.recency, Heights(c))
  BY HeightsFacts DEF Current, Recent
<1> QED BY <1>1 DEF Popped

(* evict_to_capacity always finds enough to evict, and keeps the queue in  *)
(* step with the keys.                                                     *)
LEMMA EvictSound ==
    ASSUME NEW c, NEW K, Sound(c, K)
    PROVE  /\ Sound(EvictToCapacity(c), K)
           /\ Cardinality(Keys(EvictToCapacity(c))) <= Capacity
           /\ Len(EvictToCapacity(c).recency) <= Len(c.recency)
<1> DEFINE q == c.recency
           h == Heights(c)
           d == EvictToCapacity(c)
<1>1. q \in Seq(K \X Nat) /\ Len(q) \in Nat /\ DOMAIN q = 1..Len(q)
  BY QueueElements DEF Sound, Tracked, Queued
<1>2. PICK n \in 0..Len(q) : Evicts(c, n)
  BY <1>1, EvictsSome
<1>3. /\ IsCache(d) /\ Keys(d) = Keys(c) \ Popped(c, n)
      /\ \A k \in Keys(d) : Heights(d)[k] = Heights(c)[k]
      /\ d.recency = SubSeq(q, n + 1, Len(q))
  BY <1>2, EvictIs
<1>4. Popped(c, n) = {q[i][1] : i \in {j \in 1..n : j \in Recent(q, h)}}
  BY <1>1, PoppedIs
<1>5. DOMAIN h = Keys(c) /\ DOMAIN Heights(d) = Keys(d)
  BY HeightsFacts
<1>6. Tracked(q, h, K, DOMAIN h)
  BY <1>5 DEF Sound
<1> HIDE DEF h, q, d
<1>7. Tracked(SubSeq(q, n + 1, Len(q)), Heights(d), K, DOMAIN Heights(d))
  <2> DEFINE g == Heights(d)
  <2>1. DOMAIN g = DOMAIN h \ {q[i][1] : i \in {j \in 1..n : j \in Recent(q, h)}}
    BY <1>3, <1>4, <1>5
  <2>2. \A k \in DOMAIN g : g[k] = h[k]
    BY <1>3, <1>5 DEF h
  <2> HIDE DEF g
  <2>3. Tracked(SubSeq(q, n + 1, Len(q)), g, K, DOMAIN g)
    BY <1>6, <2>1, <2>2, PopTracked, Zenon
  <2> QED BY <2>3 DEF g
<1>8. Sound(d, K)
  BY <1>3, <1>5, <1>7 DEF Sound
<1>9. Cardinality(Keys(d)) <= Capacity
  <2>1. Fits(c, n)
    BY <1>2 DEF Evicts
  <2>2. CASE Cardinality(Keys(c) \ Popped(c, n)) <= Capacity
    BY <1>3, <2>2
  <2>3. CASE n = Len(q)
    <3>1. \A k \in Keys(c) : k \in Popped(c, n)
      <4> TAKE k \in Keys(c)
      <4>1. PICK j \in DOMAIN q : q[j] = <<k, h[k]>>
        BY <1>5, <1>6 DEF Tracked, Covers
      <4>2. j \in Recent(q, h) /\ q[j][1] = k
        BY <1>5, <4>1 DEF Recent
      <4> QED BY <1>1, <1>4, <2>3, <4>2
    <3>2. Keys(d) = {}
      BY <1>3, <3>1
    <3>3. Cardinality({}) = 0
      BY FS_EmptySet
    <3> QED BY <3>2, <3>3, WindowAssumption
  <2> QED BY <2>1, <2>2, <2>3 DEF Fits, q
<1>10. Len(d.recency) <= Len(q)
  <2>1. Len(SubSeq(q, n + 1, Len(q))) = Len(q) - n
    <3> DEFINE T == K \X Nat
    <3>1. q \in Seq(T)
      BY <1>1
    <3> HIDE DEF T
    <3> QED BY <3>1, DropFacts, Zenon
  <2>2. Len(d.recency) = Len(q) - n
    BY <1>3, <2>1, Zenon
  <2>3. Len(q) \in Nat /\ n \in Nat
    BY <1>1
  <2> QED BY <2>2, <2>3
<1> QED BY <1>8, <1>9, <1>10 DEF d, q

(* A new cache.                                                            *)
LEMMA EmptySound ==
    ASSUME NEW K
    PROVE  Sound(EmptyCache, K) /\ Bounded(EmptyCache) /\ Keys(EmptyCache) = {}
<1> DEFINE c == EmptyCache
<1>1. c.sequences = <<>> /\ c.recency = <<>> /\ IsCache(c)
  BY DEF EmptyCache, IsCache
<1> HIDE DEF c
<1>2. Keys(c) = {} /\ DOMAIN c.recency = {} /\ Len(c.recency) = 0 /\ c.recency \in Seq(K \X Nat)
  BY <1>1 DEF Keys
<1>3. IsFiniteSet({}) /\ Cardinality({}) = 0
  BY FS_EmptySet
<1>4. Tracked(c.recency, Heights(c), K, Keys(c))
  BY <1>2, <1>3, HeightsFacts DEF Tracked, Queued, Ordered, Below, Covers
<1>5. Sound(c, K) /\ Bounded(c) /\ Keys(c) = {}
  BY <1>1, <1>2, <1>3, <1>4, WindowAssumption DEF Sound, Bounded
<1> QED
  BY <1>5 DEF c

(* An accepted sequence becomes the highest of its key or leaves it.       *)
LEMMA NextHighest ==
    ASSUME NEW c, NEW key, NEW n \in Nat, Accepts(c, key, n),
           key \in Keys(c) => c.sequences[key] \in WindowRecord
    PROVE  NextWindow(c, key, n).highest =
              IF Advances(c, key, n) THEN n ELSE c.sequences[key].highest
<1>1. CASE key \notin Keys(c)
  BY <1>1 DEF NextWindow, NewWindow, Advances
<1>2. CASE key \in Keys(c) /\ n > c.sequences[key].highest
  BY <1>2 DEF NextWindow, AdvanceTo, Advances
<1>3. CASE key \in Keys(c) /\ ~(n > c.sequences[key].highest)
  <2> DEFINE w == c.sequences[key]
             e == w.highest - n
  <2>1. NextWindow(c, key, n) = Insert(w, e) /\ ~Advances(c, key, n)
    BY <1>3 DEF NextWindow, Advances
  <2>2. w \in WindowRecord
    BY <1>3
  <2> HIDE DEF w, e
  <2>3. Insert(w, e).highest = w.highest
    BY <2>2 DEF Insert, WindowRecord
  <2> QED BY <2>1, <2>3 DEF w
<1> QED BY <1>1, <1>2, <1>3

(* The cache observe hands to evict_to_capacity.                           *)
BeforeEviction(c, key, n) ==
    LET stored == Stored(c, key, NextWindow(c, key, n))
    IN  IF Advances(c, key, n) THEN Enqueued(stored, key, n) ELSE stored

(* Its queue, given the highest sequences after the observation.           *)
Room(q, h) == IF Len(q) >= 2 * Capacity THEN Pick(q, Recent(q, h)) ELSE q

NextHeights(h, key, n) == [k \in DOMAIN h \cup {key} |-> IF k = key THEN n ELSE h[k]]

LEMMA BeforeEvictionIs ==
    ASSUME NEW c, IsCache(c), NEW key, NEW n \in Nat, Accepts(c, key, n),
           key \in Keys(c) => c.sequences[key] \in WindowRecord
    PROVE  LET b == BeforeEviction(c, key, n)
               h == NextHeights(Heights(c), key, n)
           IN  /\ Observe(c, key, n) = EvictToCapacity(b)
               /\ IsCache(b) /\ Keys(b) = Keys(c) \cup {key}
               /\ Advances(c, key, n) =>
                     /\ Heights(b) = h
                     /\ b.recency = Append(Room(c.recency, h), <<key, n>>)
               /\ ~Advances(c, key, n) =>
                     key \in Keys(c) /\ Heights(b) = Heights(c) /\ b.recency = c.recency
<1> DEFINE w == NextWindow(c, key, n)
           s == Stored(c, key, w)
           b == BeforeEviction(c, key, n)
           h == NextHeights(Heights(c), key, n)
<1>1. Observe(c, key, n) = EvictToCapacity(b)
  BY DEF Observe, BeforeEviction
<1>2. w.highest = IF Advances(c, key, n) THEN n ELSE c.sequences[key].highest
  BY NextHighest
<1> HIDE DEF w
<1>3. /\ IsCache(s) /\ Keys(s) = Keys(c) \cup {key} /\ s.recency = c.recency
      /\ \A k \in Keys(s) : s.sequences[k] = IF k = key THEN w ELSE c.sequences[k]
  BY DEF Stored, IsCache, Keys
<1> HIDE DEF s
<1>4. DOMAIN Heights(s) = Keys(c) \cup {key} /\ DOMAIN Heights(c) = Keys(c)
  BY <1>3, HeightsFacts
<1>5. \A k \in Keys(c) \cup {key} :
          Heights(s)[k] = IF k = key THEN w.highest ELSE Heights(c)[k]
  BY <1>3, HeightsFacts
<1>6. ASSUME Advances(c, key, n)
      PROVE  /\ IsCache(b) /\ Keys(b) = Keys(c) \cup {key} /\ Heights(b) = h
             /\ b.recency = Append(Room(c.recency, h), <<key, n>>)
  <2>1. Heights(s) = h
    <3>1. Heights(s) = [k \in DOMAIN Heights(s) |-> Heights(s)[k]]
      BY DEF Heights
    <3> QED BY <1>2, <1>4, <1>5, <1>6, <3>1 DEF NextHeights
  <2> DEFINE r == IF Len(s.recency) >= 2 * Capacity THEN CompactRecency(s) ELSE s
  <2>2. IsCache(r) /\ r.sequences = s.sequences /\ r.recency = Room(c.recency, h)
    BY <1>3, <2>1, CompactIs DEF Room
  <2>3. b = [r EXCEPT !.recency = Append(@, <<key, n>>)]
    BY <1>6 DEF BeforeEviction, Enqueued, s, w
  <2> HIDE DEF r, b
  <2>4. IsCache(b) /\ b.sequences = s.sequences /\ b.recency = Append(Room(c.recency, h), <<key, n>>)
    BY <2>2, <2>3 DEF IsCache
  <2>5. Keys(b) = Keys(s) /\ Heights(b) = Heights(s)
    BY <2>4 DEF Keys, Heights
  <2> QED BY <1>3, <2>1, <2>4, <2>5
<1>7. ASSUME ~Advances(c, key, n)
      PROVE  /\ IsCache(b) /\ Keys(b) = Keys(c) \cup {key} /\ key \in Keys(c)
             /\ Heights(b) = Heights(c) /\ b.recency = c.recency
  <2>1. b = s /\ key \in Keys(c)
    BY <1>7 DEF BeforeEviction, Advances, s, w
  <2>2. Heights(c)[key] = w.highest
    BY <1>2, <1>7, <2>1, HeightsFacts
  <2>3. Keys(c) \cup {key} = Keys(c)
    BY <2>1
  <2>4. Heights(s) = Heights(c)
    <3>1. /\ Heights(s) = [k \in DOMAIN Heights(s) |-> Heights(s)[k]]
          /\ Heights(c) = [k \in DOMAIN Heights(c) |-> Heights(c)[k]]
      BY DEF Heights
    <3>2. \A k \in Keys(c) : Heights(s)[k] = Heights(c)[k]
      BY <1>5, <2>2
    <3> QED BY <1>4, <2>3, <3>1, <3>2
  <2> QED BY <1>3, <2>1, <2>4
<1> QED BY <1>1, <1>6, <1>7

(* Making room and queueing a new highest sequence keeps the queue in step *)
(* with the keys and within twice the capacity.                            *)
LEMMA EnqueueTracked ==
    ASSUME NEW K, NEW q, NEW h, Tracked(q, h, K, DOMAIN h), NEW key \in K, NEW n \in Nat,
           key \in DOMAIN h => n > h[key],
           Cardinality(DOMAIN h) <= Capacity, Len(q) <= 2 * Capacity
    PROVE  LET g == NextHeights(h, key, n)
           IN  /\ Tracked(Room(q, g), g, K, DOMAIN g \ {key})
               /\ Tracked(Append(Room(q, g), <<key, n>>), g, K, DOMAIN g)
               /\ Len(Append(Room(q, g), <<key, n>>)) <= 2 * Capacity
<1> DEFINE g == NextHeights(h, key, n)
           p == Room(q, g)
<1>1. /\ q \in Seq(K \X Nat) /\ DOMAIN q = 1..Len(q) /\ Len(q) \in Nat
      /\ \A j \in DOMAIN q : q[j][1] \in DOMAIN h /\ q[j][2] \in Nat
                             /\ q[j][2] <= h[q[j][1]] /\ h[q[j][1]] \in Nat
  BY QueueElements DEF Tracked, Queued, Below
<1>2. /\ DOMAIN g = DOMAIN h \cup {key}
      /\ \A k \in DOMAIN g : g[k] = IF k = key THEN n ELSE h[k]
  BY DEF NextHeights
<1> HIDE DEF g
<1>3. IsFiniteSet(DOMAIN h) /\ IsFiniteSet(DOMAIN g) /\ DOMAIN h \subseteq K
      /\ \A k \in DOMAIN h : h[k] \in Nat
  <2>1. IsFiniteSet(DOMAIN h) /\ DOMAIN h \subseteq K /\ \A k \in DOMAIN h : h[k] \in Nat
    BY DEF Tracked, Queued
  <2>2. IsFiniteSet(DOMAIN h \cup {key})
    BY <2>1, FS_AddElement
  <2> QED BY <1>2, <2>1, <2>2
<1>4. key \in DOMAIN g /\ g[key] = n
  BY <1>2
<1>5. Queued(q, g, K)
  <2>1. Ordered(q)
    BY DEF Tracked, Queued
  <2> QED BY <1>1, <1>2, <1>3, <2>1 DEF Queued
<1>6. \A j \in DOMAIN q : q[j][1] = key => q[j][2] < n
  BY <1>1
<1>7. Below(q, g)
  <2> SUFFICES ASSUME NEW j \in DOMAIN q
               PROVE  q[j][1] \in DOMAIN g /\ q[j][2] <= g[q[j][1]]
    BY DEF Below
  <2>1. q[j][1] \in DOMAIN g /\ g[q[j][1]] = IF q[j][1] = key THEN n ELSE h[q[j][1]]
    BY <1>1, <1>2
  <2> QED BY <1>1, <1>6, <2>1
<1>8. Covers(q, g, DOMAIN g \ {key})
  BY <1>2 DEF Tracked, Covers
<1>9. /\ Tracked(p, g, K, DOMAIN g \ {key})
      /\ \A j \in DOMAIN p : \E i \in DOMAIN q : p[j] = q[i]
      /\ Len(p) < 2 * Capacity
  <2>1. CASE Len(q) >= 2 * Capacity
    <3> DEFINE I == Recent(q, g)
    <3>1. p = Pick(q, I)
      BY <2>1 DEF Room
    <3>2. Tracked(p, g, K, DOMAIN g \ {key})
      BY <1>5, <1>8, <3>1, CompactTracked
    <3>3. I \in SUBSET DOMAIN q
      BY DEF Recent
    <3>4. /\ Len(Pick(q, I)) = Cardinality(I) /\ Cardinality(I) \in Nat
          /\ Pick(q, I) \in Seq(K \X Nat)
          /\ \A j \in 1..Cardinality(I) : Pick(q, I)[j] = q[Nth(I, j)] /\ Nth(I, j) \in I
      BY <1>1, <3>3, PickFacts
    <3>5. \A j \in DOMAIN p : \E i \in DOMAIN q : p[j] = q[i]
      <4>1. DOMAIN p = 1..Cardinality(I)
        BY <3>1, <3>4
      <4> HIDE DEF I, p
      <4> QED BY <3>1, <3>3, <3>4, <4>1
    <3> DEFINE D == DOMAIN g \ {key}
    <3>6. IsFiniteSet(D) /\ Cardinality(D) <= Cardinality(DOMAIN h)
      <4>1. D \in SUBSET DOMAIN h
        BY <1>2
      <4> QED BY <1>3, <4>1, FS_Subset
    <3>7. \A j \in I : q[j][1] \in D
      <4> TAKE j \in I
      <4>1. j \in DOMAIN q /\ q[j][1] \in DOMAIN g /\ g[q[j][1]] = q[j][2]
        BY DEF Recent
      <4>2. q[j][1] # key
        BY <1>1, <1>4, <1>6, <4>1
      <4> QED BY <4>1, <4>2
    <3>8. Cardinality(I) <= Cardinality(D)
      BY <1>5, <3>6, <3>7, RecentCount
    <3>9. Cardinality(D) \in Nat /\ Cardinality(DOMAIN h) \in Nat
      BY <1>3, <3>6, FS_CardinalityType
    <3>10. Len(p) = Cardinality(I)
      BY <3>1, <3>4
    <3> HIDE DEF I, D, p
    <3>11. Len(p) < 2 * Capacity
      BY <3>4, <3>6, <3>8, <3>9, <3>10, WindowAssumption
    <3> QED BY <3>2, <3>5, <3>11
  <2>2. CASE ~(Len(q) >= 2 * Capacity)
    <3>1. p = q
      BY <2>2 DEF Room
    <3>2. Tracked(q, g, K, DOMAIN g \ {key})
      BY <1>5, <1>7, <1>8 DEF Tracked
    <3>3. Len(q) < 2 * Capacity
      BY <1>1, <2>2, WindowAssumption
    <3> QED BY <3>1, <3>2, <3>3
  <2> QED BY <2>1, <2>2
<1> HIDE DEF p
<1>10. \A j \in DOMAIN p : p[j][1] = key => p[j][2] < g[key]
  BY <1>4, <1>6, <1>9
<1>11. Tracked(Append(p, <<key, n>>), g, K, DOMAIN g)
  BY <1>4, <1>9, <1>10, AppendTracked
<1>12. Len(Append(p, <<key, n>>)) <= 2 * Capacity
  <2>1. p \in Seq(K \X Nat) /\ <<key, n>> \in K \X Nat
    BY <1>9 DEF Tracked, Queued
  <2>2. Len(Append(p, <<key, n>>)) = Len(p) + 1 /\ Len(p) \in Nat
    BY <2>1
  <2> QED BY <1>9, <2>2, WindowAssumption
<1> QED BY <1>9, <1>11, <1>12 DEF g, p

(* observe keeps the queue in step with the keys, and both bounded.        *)
LEMMA ObserveSound ==
    ASSUME NEW c, NEW K, Sound(c, K), Bounded(c), NEW key \in K, NEW n \in Nat,
           Accepts(c, key, n), key \in Keys(c) => c.sequences[key] \in WindowRecord
    PROVE  /\ Sound(BeforeEviction(c, key, n), K)
           /\ Sound(Observe(c, key, n), K) /\ Bounded(Observe(c, key, n))
<1> DEFINE b == BeforeEviction(c, key, n)
           h == Heights(c)
           g == NextHeights(h, key, n)
           q == c.recency
<1>1. /\ Observe(c, key, n) = EvictToCapacity(b)
      /\ IsCache(b) /\ Keys(b) = Keys(c) \cup {key}
      /\ Advances(c, key, n) => Heights(b) = g /\ b.recency = Append(Room(q, g), <<key, n>>)
      /\ ~Advances(c, key, n) => key \in Keys(c) /\ Heights(b) = h /\ b.recency = q
  BY BeforeEvictionIs DEF Sound
<1>2. /\ DOMAIN h = Keys(c) /\ DOMAIN Heights(b) = Keys(b)
      /\ \A k \in Keys(c) : h[k] = c.sequences[k].highest
  BY HeightsFacts
<1>3. Tracked(q, h, K, DOMAIN h)
  BY <1>2 DEF Sound
<1> HIDE DEF b, h, q
<1>4. Sound(b, K) /\ Len(b.recency) <= 2 * Capacity
  <2>1. CASE Advances(c, key, n)
    <3>1. key \in DOMAIN h => n > h[key]
      BY <1>2, <2>1 DEF Advances
    <3>2. Cardinality(DOMAIN h) <= Capacity /\ Len(q) <= 2 * Capacity
      BY <1>2 DEF Bounded, q
    <3>3. /\ Tracked(Append(Room(q, g), <<key, n>>), g, K, DOMAIN g)
          /\ Len(Append(Room(q, g), <<key, n>>)) <= 2 * Capacity
      BY <1>3, <3>1, <3>2, EnqueueTracked
    <3> HIDE DEF g
    <3> QED BY <1>1, <1>2, <2>1, <3>3 DEF Sound
  <2>2. CASE ~Advances(c, key, n)
    BY <1>1, <1>2, <1>3, <2>2 DEF Sound, Bounded, q
  <2> QED BY <2>1, <2>2
<1> DEFINE d == EvictToCapacity(b)
<1>5. Sound(d, K) /\ Cardinality(Keys(d)) <= Capacity /\ Len(d.recency) <= Len(b.recency)
  BY <1>4, EvictSound
<1>6. Len(d.recency) \in Nat /\ Len(b.recency) \in Nat
  BY <1>4, <1>5, QueueElements DEF Sound, Tracked, Queued
<1> HIDE DEF d
<1>7. Bounded(d)
  BY <1>4, <1>5, <1>6, WindowAssumption DEF Bounded
<1> QED BY <1>1, <1>4, <1>5, <1>7 DEF b, d

(* retain_epochs keeps the queue in step with the keys, and both bounded.  *)
LEMMA RetainSound ==
    ASSUME NEW c, NEW K, Sound(c, K), Bounded(c), NEW es
    PROVE  LET d == RetainEpochs(c, es)
           IN  /\ Sound(d, K) /\ Bounded(d)
               /\ d.recency = Pick(c.recency, Recent(c.recency, Heights(d)))
               /\ \A k \in Keys(d) : Heights(d)[k] = Heights(c)[k]
<1> DEFINE kept == [c EXCEPT !.sequences = KeepOnly(@, {k \in DOMAIN @ : k.topology_epoch \in es})]
           d    == RetainEpochs(c, es)
           q    == c.recency
           g    == Heights(d)
<1>1. d = CompactRecency(kept)
  BY DEF RetainEpochs
<1>2. IsCache(c) /\ IsCache(kept) /\ kept.recency = q
  BY DEF Sound, IsCache
<1>3. /\ IsCache(d) /\ Keys(d) = {k \in Keys(c) : k.topology_epoch \in es}
      /\ \A k \in Keys(d) : d.sequences[k] = c.sequences[k]
  BY <1>2, RetainWindows
<1> HIDE DEF kept
<1>4. g = Heights(kept) /\ d.recency = Pick(q, Recent(q, g))
  BY <1>1, <1>2, CompactIs
<1>5. /\ DOMAIN g = Keys(d) /\ Keys(d) \in SUBSET Keys(c) /\ DOMAIN Heights(c) = Keys(c)
      /\ \A k \in Keys(d) : g[k] = Heights(c)[k]
  BY <1>3, HeightsFacts
<1> HIDE DEF d, g
<1>6. Tracked(q, Heights(c), K, Keys(c)) /\ IsFiniteSet(Keys(c))
  BY <1>5 DEF Sound, Tracked, Queued
<1>7. IsFiniteSet(Keys(d)) /\ Cardinality(Keys(d)) <= Cardinality(Keys(c))
      /\ Cardinality(Keys(d)) \in Nat /\ Cardinality(Keys(c)) \in Nat
  BY <1>5, <1>6, FS_Subset, FS_CardinalityType
<1>8. Queued(q, g, K) /\ Covers(q, g, DOMAIN g)
  <2>1. Queued(q, g, K)
    BY <1>5, <1>6, <1>7 DEF Tracked, Queued
  <2>2. Covers(q, g, DOMAIN g)
    BY <1>5, <1>6 DEF Tracked, Covers
  <2> QED BY <2>1, <2>2
<1>9. Tracked(Pick(q, Recent(q, g)), g, K, DOMAIN g)
  BY <1>8, CompactTracked
<1>10. Sound(d, K)
  BY <1>3, <1>4, <1>5, <1>9 DEF Sound, g
<1>11. Bounded(d)
  <2>1. q \in Seq(K \X Nat) /\ Recent(q, g) \in SUBSET DOMAIN q
    BY <1>8 DEF Queued, Recent
  <2>2. Len(d.recency) <= Len(q) /\ Len(d.recency) \in Nat /\ Len(q) \in Nat
    <3>1. /\ Len(Pick(q, Recent(q, g))) = Cardinality(Recent(q, g))
          /\ Cardinality(Recent(q, g)) \in Nat /\ Cardinality(Recent(q, g)) <= Len(q)
      BY <2>1, PickFacts
    <3>2. Len(q) \in Nat
      BY <2>1
    <3> QED BY <1>4, <3>1, <3>2
  <2> HIDE DEF q
  <2> QED BY <1>7, <2>2, WindowAssumption DEF Bounded, q
<1> QED BY <1>4, <1>5, <1>10, <1>11 DEF d, g, q

---------------------------------------------------------------------------
(* The order of the keys: that of their current observations.              *)

Before(q, h, x, y) ==
    \E i, j \in DOMAIN q : i < j /\ q[i] = <<x, h[x]>> /\ q[j] = <<y, h[y]>>

(* o lists the keys in the order of their current observations.            *)
Along(o, q, h) ==
    /\ o \in Seq(DOMAIN h)
    /\ \A k \in DOMAIN h : \E a \in DOMAIN o : o[a] = k
    /\ \A a, b \in DOMAIN o : a < b => Before(q, h, o[a], o[b])

OrderOf(q, h) ==
    LET p == Pick(q, Recent(q, h)) IN [j \in DOMAIN p |-> p[j][1]]

(* A key has one current observation.                                      *)
LEMMA CurrentOnce ==
    ASSUME NEW K, NEW q, NEW h, Queued(q, h, K), NEW k \in DOMAIN h,
           NEW i \in DOMAIN q, NEW j \in DOMAIN q, q[i] = <<k, h[k]>>, q[j] = <<k, h[k]>>
    PROVE  i = j
<1>1. DOMAIN q \subseteq Nat /\ h[k] \in Nat
  BY QueueElements DEF Queued
<1>2. q[i][1] = k /\ q[j][1] = k /\ q[i][2] = h[k] /\ q[j][2] = h[k]
  OBVIOUS
<1>3. ASSUME i # j PROVE FALSE
  <2>1. i < j \/ j < i
    BY <1>1, <1>3
  <2>2. q[i][2] < q[j][2] \/ q[j][2] < q[i][2]
    BY <1>2, <2>1 DEF Queued, Ordered
  <2> QED
    BY <1>1, <1>2, <2>2
<1> QED
  BY <1>3

LEMMA BeforeAsymmetric ==
    ASSUME NEW K, NEW q, NEW h, Queued(q, h, K), NEW x \in DOMAIN h, NEW y \in DOMAIN h,
           Before(q, h, x, y)
    PROVE  ~Before(q, h, y, x)
<1> SUFFICES ASSUME Before(q, h, y, x) PROVE FALSE
  OBVIOUS
<1>1. PICK i \in DOMAIN q, j \in DOMAIN q : i < j /\ q[i] = <<x, h[x]>> /\ q[j] = <<y, h[y]>>
  BY DEF Before
<1>2. PICK k \in DOMAIN q, l \in DOMAIN q : k < l /\ q[k] = <<y, h[y]>> /\ q[l] = <<x, h[x]>>
  BY DEF Before
<1>3. i = l
  BY <1>1, <1>2, CurrentOnce
<1>4. j = k
  BY <1>1, <1>2, CurrentOnce
<1>5. i \in Nat /\ j \in Nat
  BY QueueElements DEF Queued
<1> QED
  BY <1>1, <1>2, <1>3, <1>4, <1>5

LEMMA AlongInjective ==
    ASSUME NEW K, NEW q, NEW h, Queued(q, h, K), NEW o, Along(o, q, h),
           NEW a \in DOMAIN o, NEW b \in DOMAIN o, o[a] = o[b]
    PROVE  a = b
<1>1. DOMAIN o \subseteq Nat /\ o[a] \in DOMAIN h
  BY DEF Along
<1>2. ASSUME a # b PROVE FALSE
  <2>1. a < b \/ b < a
    BY <1>1, <1>2
  <2>2. Before(q, h, o[a], o[a])
    BY <2>1 DEF Along
  <2> QED
    BY <1>1, <2>2, BeforeAsymmetric
<1> QED
  BY <1>2

LEMMA SizeOfInitial == ASSUME NEW a \in Nat PROVE IsFiniteSet(1..a) /\ Cardinality(1..a) = a
<1>1. 1 \in Int /\ a \in Int
  OBVIOUS
<1>2. IsFiniteSet(1..a) /\ Cardinality(1..a) = IF 1 > a THEN 0 ELSE a - 1 + 1
  BY <1>1, FS_Interval
<1> QED
  BY <1>2

LEMMA AlongNoLater ==
    ASSUME NEW K, NEW q, NEW h, Queued(q, h, K), NEW o, Along(o, q, h), NEW p, Along(p, q, h),
           NEW a \in DOMAIN o, NEW c \in DOMAIN p, o[a] = p[c]
    PROVE  a <= c
<1> DEFINE P(b, d) == d \in DOMAIN p /\ p[d] = o[b]
           f == [b \in 1..a |-> CHOOSE d : P(b, d)]
<1>1. /\ DOMAIN o = 1..Len(o) /\ Len(o) \in Nat /\ DOMAIN p = 1..Len(p) /\ Len(p) \in Nat
      /\ a \in Nat /\ c \in Nat /\ \A b \in 1..a : b \in DOMAIN o
      /\ \A b \in DOMAIN o : o[b] \in DOMAIN h
      /\ \A b \in DOMAIN p : p[b] \in DOMAIN h
  BY DEF Along
<1>2. \A b \in 1..a : P(b, f[b])
  <2> TAKE b \in 1..a
  <2>1. \E d : P(b, d)
    BY <1>1 DEF Along
  <2> QED
    BY <2>1
<1> HIDE DEF f
<1>3. ASSUME NEW b \in 1..a PROVE f[b] \in 1..c
  <2>1. f[b] \in DOMAIN p /\ p[f[b]] = o[b] /\ b \in DOMAIN o
    BY <1>1, <1>2
  <2>2. CASE b = a
    <3>1. f[b] = c
      BY <2>1, <2>2, AlongInjective
    <3> QED
      BY <1>1, <3>1
  <2>3. CASE b # a
    <3>1. b < a
      BY <1>1, <2>3
    <3>2. Before(q, h, o[b], o[a])
      BY <2>1, <3>1 DEF Along
    <3>3. ~Before(q, h, o[a], o[b])
      BY <1>1, <2>1, <3>2, BeforeAsymmetric
    <3>4. ~(c < f[b])
      BY <2>1, <3>3 DEF Along
    <3> QED
      BY <1>1, <2>1, <3>4
  <2> QED
    BY <2>2, <2>3
<1>4. ASSUME NEW b \in 1..a, NEW d \in 1..a, f[b] = f[d] PROVE b = d
  <2>1. o[b] = o[d] /\ b \in DOMAIN o /\ d \in DOMAIN o
    BY <1>1, <1>2, <1>4
  <2> QED
    BY <2>1, AlongInjective
<1>5. f \in Injection(1..a, 1..c)
  <2>1. f \in [1..a -> 1..c] /\ DOMAIN f = 1..a
    BY <1>3 DEF f
  <2> QED
    BY <1>4, <2>1 DEF Injection, IsInjective
<1>6. Cardinality(1..a) <= Cardinality(1..c)
  BY <1>1, <1>5, SizeOfInitial, FS_Injection
<1> QED
  BY <1>1, <1>6, SizeOfInitial

(* There is only one such order.                                           *)
LEMMA AlongUnique ==
    ASSUME NEW K, NEW q, NEW h, Queued(q, h, K), NEW o, Along(o, q, h), NEW p, Along(p, q, h)
    PROVE  o = p
<1>1. /\ DOMAIN o = 1..Len(o) /\ Len(o) \in Nat /\ DOMAIN p = 1..Len(p) /\ Len(p) \in Nat
      /\ o \in Seq(DOMAIN h) /\ p \in Seq(DOMAIN h)
  BY DEF Along
<1>2. ASSUME NEW a \in DOMAIN o PROVE a \in DOMAIN p /\ o[a] = p[a]
  <2>1. o[a] \in DOMAIN h
    BY <1>1
  <2>2. PICK c \in DOMAIN p : p[c] = o[a]
    BY <2>1 DEF Along
  <2>3. a <= c /\ c <= a
    BY <2>2, AlongNoLater
  <2>4. a = c
    BY <1>1, <2>2, <2>3
  <2> QED
    BY <2>2, <2>4
<1>3. ASSUME NEW a \in DOMAIN p PROVE a \in DOMAIN o
  <2>1. p[a] \in DOMAIN h
    BY <1>1
  <2>2. PICK c \in DOMAIN o : o[c] = p[a]
    BY <2>1 DEF Along
  <2>3. a <= c /\ c <= a
    BY <2>2, AlongNoLater
  <2>4. a = c
    BY <1>1, <2>2, <2>3
  <2> QED
    BY <2>2, <2>4
<1>4. DOMAIN o = DOMAIN p
  BY <1>2, <1>3
<1> QED
  BY <1>1, <1>2, <1>4

(* Compaction keeps the order of what stays current.                       *)
LEMMA PickBefore ==
    ASSUME NEW K, NEW q \in Seq(K \X Nat), NEW h, NEW g, NEW x \in DOMAIN g, NEW y \in DOMAIN g,
           g[x] = h[x], g[y] = h[y], Before(q, h, x, y)
    PROVE  Before(Pick(q, Recent(q, g)), g, x, y)
<1> DEFINE I == Recent(q, g)
           p == Pick(q, I)
           n == Cardinality(I)
<1>1. I \in SUBSET DOMAIN q
  BY DEF Recent
<1>2. /\ p \in Seq(K \X Nat) /\ Len(p) = n /\ n \in Nat
      /\ \A j, k \in 1..n : j < k <=> Nth(I, j) < Nth(I, k)
      /\ \A i \in I : \E j \in 1..n : Nth(I, j) = i /\ p[j] = q[i]
  BY <1>1, PickFacts
<1>3. DOMAIN p = 1..n
  BY <1>2
<1>4. PICK i \in DOMAIN q, j \in DOMAIN q : i < j /\ q[i] = <<x, g[x]>> /\ q[j] = <<y, g[y]>>
  BY DEF Before
<1>5. i \in I /\ j \in I
  BY <1>4 DEF Recent
<1> HIDE DEF I, p, n
<1>6. PICK a \in 1..n : Nth(I, a) = i /\ p[a] = q[i]
  BY <1>2, <1>5
<1>7. PICK b \in 1..n : Nth(I, b) = j /\ p[b] = q[j]
  BY <1>2, <1>5
<1>8. a < b
  BY <1>2, <1>4, <1>6, <1>7
<1>9. Before(p, g, x, y)
  BY <1>3, <1>4, <1>6, <1>7, <1>8 DEF Before
<1> QED
  BY <1>9 DEF p, I

(* The compacted queue lists the keys in their order.                      *)
LEMMA OrderAlong ==
    ASSUME NEW K, NEW q, NEW h, Tracked(q, h, K, DOMAIN h)
    PROVE  Along(OrderOf(q, h), q, h)
<1> DEFINE I == Recent(q, h)
           p == Pick(q, I)
           n == Cardinality(I)
           o == OrderOf(q, h)
<1>1. q \in Seq(K \X Nat) /\ I \in SUBSET DOMAIN q
  BY DEF Tracked, Queued, Recent
<1>2. /\ p \in Seq(K \X Nat) /\ Len(p) = n /\ n \in Nat
      /\ \A j \in 1..n : p[j] = q[Nth(I, j)] /\ Nth(I, j) \in I
      /\ \A j, k \in 1..n : j < k <=> Nth(I, j) < Nth(I, k)
      /\ \A i \in I : \E j \in 1..n : p[j] = q[i]
  BY <1>1, PickFacts
<1>3. DOMAIN p = 1..n
  BY <1>2
<1>4. \A i \in I : i \in DOMAIN q /\ q[i][1] \in DOMAIN h /\ q[i] = <<q[i][1], h[q[i][1]]>>
  BY <1>1, QueueElements DEF Recent
<1>5. o = [j \in 1..n |-> p[j][1]]
  BY <1>3 DEF OrderOf
<1> HIDE DEF I, p, n, o
<1>6. \A j \in 1..n : o[j] = q[Nth(I, j)][1] /\ o[j] \in DOMAIN h
  BY <1>2, <1>4, <1>5
<1>7. o \in Seq(DOMAIN h) /\ DOMAIN o = 1..n
  BY <1>2, <1>5, <1>6
<1>8. ASSUME NEW k \in DOMAIN h PROVE \E a \in DOMAIN o : o[a] = k
  <2>1. PICK i \in DOMAIN q : q[i] = <<k, h[k]>>
    BY DEF Tracked, Covers
  <2>2. i \in I
    BY <2>1 DEF I, Recent
  <2>3. PICK j \in 1..n : p[j] = q[i]
    BY <1>2, <2>2
  <2> QED
    BY <1>5, <1>7, <2>1, <2>3
<1>9. ASSUME NEW a \in DOMAIN o, NEW b \in DOMAIN o, a < b PROVE Before(q, h, o[a], o[b])
  <2>1. Nth(I, a) \in I /\ Nth(I, b) \in I /\ Nth(I, a) < Nth(I, b)
    BY <1>2, <1>7, <1>9
  <2>2. q[Nth(I, a)] = <<o[a], h[o[a]]>> /\ q[Nth(I, b)] = <<o[b], h[o[b]]>>
    BY <1>4, <1>6, <1>7, <2>1
  <2> QED
    BY <1>4, <2>1, <2>2 DEF Before
<1> QED
  BY <1>7, <1>8, <1>9 DEF Along, o

Selected(o, ks) == Pick(o, {a \in DOMAIN o : o[a] \in ks})

(* What is left of an order when only the keys in ks stay.                 *)
LEMMA SelectedFacts ==
    ASSUME NEW o, NEW q, NEW h, Along(o, q, h), NEW ks
    PROVE  LET w == Selected(o, ks)
           IN  /\ w \in Seq(DOMAIN h \cap ks)
               /\ \A k \in DOMAIN h \cap ks : \E a \in DOMAIN w : w[a] = k
               /\ \A a, b \in DOMAIN w : a < b => Before(q, h, w[a], w[b])
<1> DEFINE I == {a \in DOMAIN o : o[a] \in ks}
           D == DOMAIN h \cap ks
           n == Cardinality(I)
           w == Pick(o, I)
<1>1. o \in Seq(DOMAIN h) /\ I \in SUBSET DOMAIN o /\ \A a \in I : o[a] \in D
  <2>1. o \in Seq(DOMAIN h)
    BY DEF Along
  <2> QED
    BY <2>1
<1>2. \A a \in DOMAIN o : o[a] \in ks => a \in I
  OBVIOUS
<1> HIDE DEF I
<1>3. /\ w \in Seq(DOMAIN h) /\ Len(w) = n /\ n \in Nat
      /\ \A j \in 1..n : w[j] = o[Nth(I, j)] /\ Nth(I, j) \in I
      /\ \A j, k \in 1..n : j < k <=> Nth(I, j) < Nth(I, k)
      /\ \A a \in I : \E j \in 1..n : w[j] = o[a]
  BY <1>1, PickFacts
<1>4. DOMAIN w = 1..n /\ \A j \in 1..n : w[j] \in D
  BY <1>1, <1>3
<1> HIDE DEF w, n, D
<1>5. w \in Seq(D)
  BY <1>3, <1>4
<1>6. ASSUME NEW k \in D PROVE \E a \in DOMAIN w : w[a] = k
  <2>1. PICK a \in DOMAIN o : o[a] = k
    BY DEF Along, D
  <2>2. a \in I
    BY <1>2, <2>1 DEF D
  <2> QED
    BY <1>3, <1>4, <2>1, <2>2
<1>7. ASSUME NEW a \in DOMAIN w, NEW b \in DOMAIN w, a < b PROVE Before(q, h, w[a], w[b])
  <2>1. Nth(I, a) \in DOMAIN o /\ Nth(I, b) \in DOMAIN o /\ Nth(I, a) < Nth(I, b)
        /\ w[a] = o[Nth(I, a)] /\ w[b] = o[Nth(I, b)]
    BY <1>1, <1>3, <1>4, <1>7
  <2> QED
    BY <2>1 DEF Along
<1>8. Selected(o, ks) = w
  BY DEF Selected, w, I
<1> QED
  BY <1>5, <1>6, <1>7, <1>8 DEF D

LEMMA SelectedAlong ==
    ASSUME NEW o, NEW q, NEW h, Along(o, q, h), NEW ks, NEW p, NEW g, DOMAIN g = DOMAIN h \cap ks,
           \A x, y \in DOMAIN g : Before(q, h, x, y) => Before(p, g, x, y)
    PROVE  Along(Selected(o, ks), p, g)
<1> DEFINE w == Selected(o, ks)
<1>1. /\ w \in Seq(DOMAIN g)
      /\ \A k \in DOMAIN g : \E a \in DOMAIN w : w[a] = k
      /\ \A a, b \in DOMAIN w : a < b => Before(q, h, w[a], w[b])
  <2>1. /\ w \in Seq(DOMAIN h \cap ks)
        /\ \A k \in DOMAIN h \cap ks : \E a \in DOMAIN w : w[a] = k
        /\ \A a, b \in DOMAIN w : a < b => Before(q, h, w[a], w[b])
    BY SelectedFacts, Zenon
  <2> HIDE DEF w
  <2> QED
    BY <2>1
<1> HIDE DEF w
<1>2. \A a \in DOMAIN w : w[a] \in DOMAIN g
  BY <1>1
<1>3. Along(w, p, g)
  BY <1>1, <1>2 DEF Along
<1> QED
  BY <1>3 DEF w

(* retain_epochs takes the keys it drops out of the order.                 *)
LEMMA RetainOrder ==
    ASSUME NEW c, NEW K, Sound(c, K), Bounded(c), NEW es
    PROVE  LET d == RetainEpochs(c, es)
           IN  OrderOf(d.recency, Heights(d)) =
                  Selected(OrderOf(c.recency, Heights(c)), {k \in Keys(c) : k.topology_epoch \in es})
<1> DEFINE d == RetainEpochs(c, es)
           q == c.recency
           h == Heights(c)
           p == d.recency
           g == Heights(d)
           ks == {k \in Keys(c) : k.topology_epoch \in es}
<1>1. /\ Sound(d, K) /\ p = Pick(q, Recent(q, g))
      /\ \A k \in Keys(d) : g[k] = h[k]
  BY RetainSound
<1>2. Keys(d) = ks
  BY RetainWindows DEF Sound
<1>3. DOMAIN g = Keys(d) /\ DOMAIN h = Keys(c)
  BY HeightsFacts
<1>4. Tracked(q, h, K, DOMAIN h) /\ Tracked(p, g, K, DOMAIN g)
  BY <1>1, <1>3 DEF Sound
<1>5. DOMAIN g = DOMAIN h \cap ks
  BY <1>2, <1>3
<1> HIDE DEF d, q, h, p, g, ks
<1>6. \A x, y \in DOMAIN g : Before(q, h, x, y) => Before(p, g, x, y)
  <2> SUFFICES ASSUME NEW x \in DOMAIN g, NEW y \in DOMAIN g, Before(q, h, x, y)
               PROVE  Before(p, g, x, y)
    OBVIOUS
  <2>1. q \in Seq(K \X Nat) /\ g[x] = h[x] /\ g[y] = h[y]
    BY <1>1, <1>3, <1>4 DEF Tracked, Queued
  <2>2. Before(Pick(q, Recent(q, g)), g, x, y)
    BY <2>1, PickBefore
  <2> QED
    BY <1>1, <2>2
<1>7. Along(Selected(OrderOf(q, h), ks), p, g)
  BY <1>4, <1>5, <1>6, OrderAlong, SelectedAlong
<1>8. Along(OrderOf(p, g), p, g) /\ Queued(p, g, K)
  BY <1>4, OrderAlong DEF Tracked
<1>9. OrderOf(p, g) = Selected(OrderOf(q, h), ks)
  BY <1>7, <1>8, AlongUnique
<1> QED
  BY <1>9 DEF d, q, h, p, g, ks

(* A new highest sequence moves its key to the end of the order.           *)
LEMMA EnqueueOrder ==
    ASSUME NEW K, NEW q, NEW h, Queued(q, h, K), NEW o, Along(o, q, h), NEW key, NEW n \in Nat,
           Tracked(Room(q, NextHeights(h, key, n)), NextHeights(h, key, n), K,
                   DOMAIN NextHeights(h, key, n) \ {key})
    PROVE  Along(Append(Selected(o, DOMAIN h \ {key}), key),
                 Append(Room(q, NextHeights(h, key, n)), <<key, n>>), NextHeights(h, key, n))
<1> DEFINE g == NextHeights(h, key, n)
           p == Room(q, g)
           r == Append(p, <<key, n>>)
           w == Selected(o, DOMAIN h \ {key})
           v == Append(w, key)
           D == DOMAIN g \ {key}
           L == Len(p)
           M == Len(w)
<1>1. /\ DOMAIN g = DOMAIN h \cup {key} /\ g[key] = n
      /\ \A k \in DOMAIN g : k # key => g[k] = h[k] /\ k \in DOMAIN h
  BY DEF NextHeights
<1>2. D = DOMAIN h \cap (DOMAIN h \ {key})
  BY <1>1
<1>3. /\ w \in Seq(D) /\ \A k \in D : \E a \in DOMAIN w : w[a] = k
      /\ \A a, b \in DOMAIN w : a < b => Before(q, h, w[a], w[b])
  <2> DEFINE ks == DOMAIN h \ {key}
             u  == Selected(o, ks)
  <2> HIDE DEF ks
  <2>1. /\ u \in Seq(DOMAIN h \cap ks) /\ \A k \in DOMAIN h \cap ks : \E a \in DOMAIN u : u[a] = k
        /\ \A a, b \in DOMAIN u : a < b => Before(q, h, u[a], u[b])
    BY SelectedFacts
  <2>2. DOMAIN h \cap ks = D /\ w = u
    BY <1>2 DEF ks
  <2> HIDE DEF w, u, D
  <2> QED
    BY <2>1, <2>2
<1>4. Tracked(p, g, K, D) /\ p \in Seq(K \X Nat) /\ q \in Seq(K \X Nat)
  BY DEF Tracked, Queued
<1> HIDE DEF g, w, D
<1>5. ASSUME NEW x \in D, NEW y \in D, Before(q, h, x, y) PROVE Before(p, g, x, y)
  <2>1. x \in DOMAIN g /\ y \in DOMAIN g /\ g[x] = h[x] /\ g[y] = h[y]
    BY <1>1 DEF D
  <2>2. Before(Pick(q, Recent(q, g)), g, x, y)
    BY <1>4, <1>5, <2>1, PickBefore
  <2>3. Before(q, g, x, y)
    BY <1>5, <2>1 DEF Before
  <2> QED
    BY <2>2, <2>3 DEF Room
<1> HIDE DEF p
<1>6. /\ L \in Nat /\ DOMAIN p = 1..L /\ Len(r) = L + 1 /\ DOMAIN r = 1..(L + 1)
      /\ r[L + 1] = <<key, n>> /\ \A i \in 1..L : r[i] = p[i] /\ i \in 1..(L + 1) /\ i < L + 1
      /\ L + 1 \in 1..(L + 1)
  <2>1. L \in Nat /\ DOMAIN p = 1..L
    BY <1>4
  <2>2. Len(r) = L + 1 /\ r[L + 1] = <<key, n>> /\ \A i \in 1..L : r[i] = p[i]
    BY <1>4
  <2>3. DOMAIN r = 1..(L + 1)
    BY <1>4
  <2> QED
    BY <2>1, <2>2, <2>3
<1>7. /\ M \in Nat /\ DOMAIN w = 1..M /\ v[M + 1] = key /\ DOMAIN v = 1..(M + 1)
      /\ \A a \in 1..M : v[a] = w[a] /\ w[a] \in D /\ a < M + 1
      /\ 1..(M + 1) = 1..M \cup {M + 1}
  <2>1. M \in Nat /\ DOMAIN w = 1..M /\ v[M + 1] = key /\ DOMAIN v = 1..(M + 1)
    BY <1>3
  <2>2. \A a \in 1..M : v[a] = w[a] /\ w[a] \in D
    BY <1>3
  <2> QED
    BY <2>1, <2>2
<1>8. v \in Seq(DOMAIN g)
  <2>1. key \in DOMAIN g /\ w \in Seq(DOMAIN g)
    BY <1>1, <1>3 DEF D
  <2> QED
    BY <2>1
<1> HIDE DEF r, v, L, M
<1>9. ASSUME NEW k \in DOMAIN g PROVE \E a \in DOMAIN v : v[a] = k
  <2>1. CASE k = key
    BY <1>7, <2>1
  <2>2. CASE k # key
    BY <1>3, <1>7, <2>2 DEF D
  <2> QED
    BY <2>1, <2>2
<1>10. ASSUME NEW a \in DOMAIN v, NEW b \in DOMAIN v, a < b PROVE Before(r, g, v[a], v[b])
  <2>1. a \in 1..M
    BY <1>7, <1>10
  <2>2. CASE b = M + 1
    <3>1. v[a] \in D /\ v[b] = key
      BY <1>7, <2>1, <2>2
    <3>2. PICK i \in DOMAIN p : p[i] = <<v[a], g[v[a]]>>
      BY <1>4, <3>1 DEF Tracked, Covers
    <3> QED
      BY <1>1, <1>6, <3>1, <3>2 DEF Before
  <2>3. CASE b # M + 1
    <3>1. b \in 1..M
      BY <1>7, <2>3
    <3>2. v[a] = w[a] /\ v[b] = w[b] /\ w[a] \in D /\ w[b] \in D
      BY <1>7, <2>1, <3>1
    <3>3. Before(q, h, w[a], w[b])
      BY <1>3, <1>7, <1>10, <2>1, <3>1
    <3>4. Before(p, g, w[a], w[b])
      BY <1>5, <3>2, <3>3
    <3>5. PICK i \in DOMAIN p, j \in DOMAIN p :
             i < j /\ p[i] = <<w[a], g[w[a]]>> /\ p[j] = <<w[b], g[w[b]]>>
      BY <3>4 DEF Before
    <3> QED
      BY <1>6, <3>2, <3>5 DEF Before
  <2> QED
    BY <2>2, <2>3
<1>11. Along(v, r, g)
  BY <1>8, <1>9, <1>10 DEF Along
<1> QED
  BY <1>11 DEF v, w, r, p, g

MembersOf(s) == {s[i] : i \in DOMAIN s}

LEMMA AlongSize ==
    ASSUME NEW K, NEW q, NEW h, Queued(q, h, K), NEW o, Along(o, q, h)
    PROVE  /\ Len(o) \in Nat /\ Len(o) = Cardinality(DOMAIN h)
           /\ MembersOf(o) = DOMAIN h
<1> DEFINE D == DOMAIN h
<1>1. /\ o \in Seq(D) /\ Len(o) \in Nat /\ DOMAIN o = 1..Len(o)
      /\ \A k \in D : \E a \in DOMAIN o : o[a] = k
      /\ \A a \in DOMAIN o : o[a] \in D
  BY DEF Along
<1>2. \A a, b \in DOMAIN o : o[a] = o[b] => a = b
  BY AlongInjective
<1>3. IsFiniteSet(D)
  BY DEF Queued
<1> HIDE DEF D
<1>4. o \in [1..Len(o) -> D]
  BY <1>1
<1>5. o \in Injection(1..Len(o), D) /\ o \in Surjection(1..Len(o), D)
  BY <1>1, <1>2, <1>4 DEF Injection, IsInjective, Surjection
<1>6. IsFiniteSet(1..Len(o)) /\ Cardinality(1..Len(o)) = Len(o)
  BY <1>1, SizeOfInitial
<1>7. Cardinality(1..Len(o)) <= Cardinality(D)
  BY <1>3, <1>5, FS_Injection
<1>8. Cardinality(D) <= Cardinality(1..Len(o))
  BY <1>5, <1>6, FS_Surjection
<1>9. Cardinality(D) \in Nat
  BY <1>3, FS_CardinalityType
<1>10. MembersOf(o) = D
  BY <1>1 DEF MembersOf
<1> QED
  BY <1>1, <1>6, <1>7, <1>8, <1>9, <1>10 DEF D

(* The first current observation is that of the first key of the order.    *)
LEMMA FirstCurrent ==
    ASSUME NEW K, NEW q, NEW h, Tracked(q, h, K, DOMAIN h), NEW o, Along(o, q, h), Len(o) >= 1
    PROVE  \E i \in DOMAIN q :
              /\ i \in Recent(q, h) /\ q[i][1] = o[1] /\ o[1] \in DOMAIN h
              /\ \A j \in Recent(q, h) : j # i => i < j
<1>1. Len(o) \in Nat /\ DOMAIN o = 1..Len(o) /\ o \in Seq(DOMAIN h) /\ Queued(q, h, K)
  BY DEF Along, Tracked
<1>2. 1 \in DOMAIN o /\ o[1] \in DOMAIN h
  BY <1>1
<1>3. PICK i \in DOMAIN q : q[i] = <<o[1], h[o[1]]>>
  BY <1>2 DEF Tracked, Covers
<1>4. i \in Recent(q, h) /\ q[i][1] = o[1]
  BY <1>2, <1>3 DEF Recent
<1>5. ASSUME NEW j \in Recent(q, h), j # i PROVE i < j
  <2>1. j \in DOMAIN q /\ q[j][1] \in DOMAIN h /\ q[j] = <<q[j][1], h[q[j][1]]>>
    BY QueueElements DEF Recent, Tracked, Queued
  <2>2. PICK a \in DOMAIN o : o[a] = q[j][1]
    BY <2>1 DEF Along
  <2>3. a # 1
    <3>1. ASSUME a = 1 PROVE FALSE
      <4>1. q[j] = <<o[1], h[o[1]]>>
        BY <2>1, <2>2, <3>1
      <4> QED
        BY <1>1, <1>2, <1>3, <1>5, <2>1, <4>1, CurrentOnce
    <3> QED
      BY <3>1
  <2>4. Before(q, h, o[1], o[a])
    BY <1>1, <1>2, <2>3 DEF Along
  <2>5. PICK k \in DOMAIN q, l \in DOMAIN q :
           k < l /\ q[k] = <<o[1], h[o[1]]>> /\ q[l] = <<o[a], h[o[a]]>>
    BY <2>4 DEF Before
  <2>6. k = i
    BY <1>1, <1>2, <1>3, <2>5, CurrentOnce
  <2>7. l = j
    <3>1. o[a] \in DOMAIN h /\ q[j] = <<o[a], h[o[a]]>>
      BY <2>1, <2>2
    <3> QED
      BY <1>1, <2>1, <2>5, <3>1, CurrentOnce
  <2> QED
    BY <2>5, <2>6, <2>7
<1> QED
  BY <1>2, <1>4, <1>5

(* evict_to_capacity, with one key too many at most: nothing is dropped,   *)
(* or the first key of the order.                                          *)
LEMMA EvictsFirst ==
    ASSUME NEW c, NEW K, Sound(c, K), Cardinality(Keys(c)) <= Capacity + 1,
           NEW o, Along(o, c.recency, Heights(c)), NEW n \in 0..Len(c.recency), Evicts(c, n)
    PROVE  /\ Len(o) <= Capacity => Popped(c, n) = {}
           /\ Len(o) > Capacity => Popped(c, n) = {o[1]}
<1> DEFINE q == c.recency
           h == Heights(c)
           R == Recent(q, h)
           L == Len(q)
<1>1. DOMAIN h = Keys(c)
  BY HeightsFacts
<1>2. Tracked(q, h, K, DOMAIN h) /\ Queued(q, h, K)
  BY <1>1 DEF Sound, Tracked
<1>3. L \in Nat /\ DOMAIN q = 1..L /\ R \in SUBSET DOMAIN q /\ IsFiniteSet(Keys(c))
  BY <1>1, <1>2, QueueElements DEF Queued, Recent
<1>4. \A m \in 0..L : Popped(c, m) = {q[i][1] : i \in {j \in 1..m : j \in R}}
  BY <1>3, PoppedIs
<1>5. Len(o) \in Nat /\ Len(o) = Cardinality(Keys(c)) /\ Capacity \in Nat /\ Capacity >= 1
  BY <1>1, <1>2, AlongSize, WindowAssumption
<1>6. /\ \A m \in 0..L : Fits(c, m) <=> m = L \/ Cardinality(Keys(c) \ Popped(c, m)) <= Capacity
      /\ Fits(c, n) /\ \A j \in 0..(n - 1) : ~Fits(c, j)
  BY DEF Fits, Evicts
<1> HIDE DEF q, h, R, L
<1>7. n \in 0..L /\ n \in Nat
  BY <1>3 DEF L, q
<1>8. ASSUME Len(o) <= Capacity PROVE Popped(c, n) = {}
  <2>1. 0 \in 0..L
    BY <1>3
  <2>2. Popped(c, 0) = {}
    BY <1>4, <2>1
  <2>3. Keys(c) \ Popped(c, 0) = Keys(c)
    BY <2>2
  <2>4. Fits(c, 0)
    BY <1>5, <1>6, <1>8, <2>1, <2>3
  <2>5. n = 0
    <3>1. ASSUME n # 0 PROVE FALSE
      <4>1. 0 \in 0..(n - 1)
        BY <1>7, <3>1
      <4> QED
        BY <1>6, <2>4, <4>1
    <3> QED
      BY <3>1
  <2> QED
    BY <2>2, <2>5
<1>9. ASSUME Len(o) > Capacity PROVE Popped(c, n) = {o[1]}
  <2>1. Len(o) >= 1
    BY <1>5, <1>9
  <2>2. PICK i \in DOMAIN q : /\ i \in R /\ q[i][1] = o[1] /\ o[1] \in DOMAIN h
                              /\ \A j \in R : j # i => i < j
    <3>1. Along(o, q, h)
      BY DEF q, h
    <3> QED
      BY <1>2, <2>1, <3>1, FirstCurrent DEF R
  <2>3. i \in 1..L /\ i \in 0..L /\ i \in Nat
    BY <1>3
  <2>4. ASSUME NEW m \in 0..L, m < i PROVE ~Fits(c, m)
    <3>1. \A j \in 1..m : j \notin R
      BY <1>3, <2>2, <2>3, <2>4
    <3>2. Popped(c, m) = {}
      BY <1>4, <3>1
    <3>3. Keys(c) \ Popped(c, m) = Keys(c)
      BY <3>2
    <3>4. m # L
      BY <1>3, <2>3, <2>4
    <3>5. ~(Cardinality(Keys(c)) <= Capacity)
      BY <1>5, <1>9
    <3> QED
      BY <1>6, <3>3, <3>4, <3>5
  <2>5. Popped(c, i) = {o[1]}
    <3>1. \A j \in 1..i : j \in R <=> j = i
      BY <1>3, <2>2, <2>3
    <3>2. i \in 1..i
      BY <2>3
    <3> QED
      BY <1>4, <2>2, <2>3, <3>1, <3>2
  <2>6. Fits(c, i)
    <3>1. o[1] \in Keys(c)
      BY <1>1, <2>2
    <3>2. Cardinality(Keys(c) \ {o[1]}) = Cardinality(Keys(c)) - 1
      BY <1>3, <3>1, FS_RemoveElement
    <3>3. Cardinality(Keys(c) \ {o[1]}) <= Capacity
      BY <1>5, <3>2
    <3> QED
      BY <1>6, <2>3, <2>5, <3>3
  <2>7. n = i
    <3>1. ~(n < i)
      BY <1>6, <1>7, <2>4
    <3>2. ~(i < n)
      <4>1. ASSUME i < n PROVE FALSE
        <5>1. i \in 0..(n - 1)
          BY <1>7, <2>3, <4>1
        <5> QED
          BY <1>6, <2>6, <5>1
      <4> QED
        BY <4>1
    <3> QED
      BY <1>7, <2>3, <3>1, <3>2
  <2> QED
    BY <2>5, <2>7
<1> QED
  BY <1>8, <1>9

(* Observations popped from the front leave the order of the rest.         *)
LEMMA PopBefore ==
    ASSUME NEW K, NEW q, NEW h, Queued(q, h, K), NEW n \in 0..Len(q), NEW g,
           DOMAIN g = DOMAIN h \ {q[i][1] : i \in {j \in 1..n : j \in Recent(q, h)}},
           \A k \in DOMAIN g : g[k] = h[k],
           NEW x \in DOMAIN g, NEW y \in DOMAIN g, Before(q, h, x, y)
    PROVE  Before(SubSeq(q, n + 1, Len(q)), g, x, y)
<1> DEFINE p == SubSeq(q, n + 1, Len(q))
           m == Len(q) - n
<1>1. q \in Seq(K \X Nat) /\ DOMAIN q = 1..Len(q) /\ Len(q) \in Nat
  BY QueueElements DEF Queued
<1>2. p \in Seq(K \X Nat) /\ Len(p) = m /\ \A j \in 1..m : p[j] = q[j + n]
  <2> DEFINE T == K \X Nat
  <2>1. q \in Seq(T)
    BY <1>1
  <2> HIDE DEF T
  <2>2. /\ SubSeq(q, n + 1, Len(q)) \in Seq(T)
        /\ Len(SubSeq(q, n + 1, Len(q))) = Len(q) - n
        /\ \A j \in 1..(Len(q) - n) : SubSeq(q, n + 1, Len(q))[j] = q[j + n]
    BY <2>1, DropFacts, Zenon
  <2> QED
    BY <2>2 DEF T
<1> HIDE DEF p
<1>3. DOMAIN p = 1..m /\ m \in Nat
  BY <1>1, <1>2
<1>4. \A j \in DOMAIN q : j > n => j - n \in 1..m /\ (j - n) + n = j
  BY <1>1
<1> HIDE DEF m
<1>5. PICK i \in DOMAIN q, j \in DOMAIN q : i < j /\ q[i] = <<x, h[x]>> /\ q[j] = <<y, h[y]>>
  BY DEF Before
<1>6. i \in Recent(q, h) /\ q[i][1] = x
  BY <1>5 DEF Recent
<1>7. i > n
  <2>1. ASSUME ~(i > n) PROVE FALSE
    <3>1. i \in 1..n
      BY <1>1, <2>1
    <3> QED
      BY <1>6, <3>1
  <2> QED
    BY <2>1
<1>8. j > n
  BY <1>1, <1>5, <1>7
<1>9. /\ i - n \in DOMAIN p /\ j - n \in DOMAIN p /\ p[i - n] = q[i] /\ p[j - n] = q[j]
  BY <1>2, <1>3, <1>4, <1>7, <1>8
<1>10. i - n < j - n
  BY <1>1, <1>5
<1>11. Before(p, g, x, y)
  BY <1>5, <1>9, <1>10 DEF Before
<1> QED
  BY <1>11 DEF p

(* evict_to_capacity takes the least recently advanced key.                *)
LEMMA EvictOrder ==
    ASSUME NEW c, NEW K, Sound(c, K), Cardinality(Keys(c)) <= Capacity + 1,
           NEW o, Along(o, c.recency, Heights(c))
    PROVE  LET d  == EvictToCapacity(c)
               ks == IF Len(o) > Capacity THEN MembersOf(Tail(o)) ELSE MembersOf(o)
           IN  Keys(d) = ks /\ OrderOf(d.recency, Heights(d)) = Selected(o, ks)
<1> DEFINE d == EvictToCapacity(c)
           q == c.recency
           h == Heights(c)
           p == d.recency
           g == Heights(d)
           ks == IF Len(o) > Capacity THEN MembersOf(Tail(o)) ELSE MembersOf(o)
<1>1. DOMAIN h = Keys(c) /\ DOMAIN g = Keys(d)
  BY HeightsFacts
<1>2. Tracked(q, h, K, DOMAIN h) /\ Queued(q, h, K)
  BY <1>1 DEF Sound, Tracked
<1>3. Len(q) \in Nat /\ DOMAIN q = 1..Len(q)
  BY <1>2, QueueElements DEF Queued
<1>4. PICK n \in 0..Len(q) : Evicts(c, n)
  BY <1>3, EvictsSome
<1>5. /\ Keys(d) = Keys(c) \ Popped(c, n) /\ p = SubSeq(q, n + 1, Len(q))
      /\ \A k \in Keys(d) : g[k] = h[k]
  BY <1>4, EvictIs
<1>6. Popped(c, n) = {q[i][1] : i \in {j \in 1..n : j \in Recent(q, h)}}
  BY <1>3, PoppedIs
<1>7. Sound(d, K)
  BY EvictSound
<1>8. Tracked(p, g, K, DOMAIN g) /\ Queued(p, g, K)
  BY <1>1, <1>7 DEF Sound, Tracked
<1>9. /\ Len(o) <= Capacity => Popped(c, n) = {}
      /\ Len(o) > Capacity => Popped(c, n) = {o[1]}
  BY <1>4, EvictsFirst
<1> HIDE DEF d, p, g
<1>10. Along(o, q, h)
  OBVIOUS
<1> HIDE DEF q, h
<1>11. /\ Len(o) \in Nat /\ MembersOf(o) = Keys(c) /\ Capacity \in Nat /\ Capacity >= 1
       /\ \A a, b \in DOMAIN o : o[a] = o[b] => a = b
       /\ o \in Seq(DOMAIN h)
  BY <1>1, <1>2, <1>10, AlongSize, AlongInjective, WindowAssumption DEF Along
<1>12. Keys(d) = ks
  <2>1. CASE Len(o) > Capacity
    <3>1. DOMAIN o = 1..Len(o) /\ 1 \in DOMAIN o /\ Len(o) - 1 \in Nat
      BY <1>11, <2>1
    <3> DEFINE s == Tail(o)
    <3>2. DOMAIN s = 1..(Len(o) - 1) /\ \A a \in 1..(Len(o) - 1) : s[a] = o[a + 1]
      BY <1>11, <3>1
    <3>3. /\ \A a \in 1..(Len(o) - 1) : a + 1 \in DOMAIN o /\ a + 1 # 1
          /\ \A a \in DOMAIN o : a # 1 => a - 1 \in 1..(Len(o) - 1) /\ (a - 1) + 1 = a
      BY <1>11, <3>1
    <3> HIDE DEF s
    <3>4. MembersOf(s) = MembersOf(o) \ {o[1]}
      <4>1. ASSUME NEW k \in MembersOf(s) PROVE k \in MembersOf(o) /\ k # o[1]
        <5>1. PICK a \in 1..(Len(o) - 1) : s[a] = k
          BY <3>2 DEF MembersOf
        <5>2. k = o[a + 1] /\ a + 1 \in DOMAIN o /\ a + 1 # 1
          BY <3>2, <3>3, <5>1
        <5> QED
          BY <1>11, <3>1, <5>2 DEF MembersOf
      <4>2. ASSUME NEW k \in MembersOf(o), k # o[1] PROVE k \in MembersOf(s)
        <5>1. PICK a \in DOMAIN o : o[a] = k
          BY DEF MembersOf
        <5>2. a # 1
          BY <4>2, <5>1
        <5>3. a - 1 \in DOMAIN s /\ s[a - 1] = k
          BY <3>2, <3>3, <5>1, <5>2
        <5> QED
          BY <5>3 DEF MembersOf
      <4> QED
        BY <4>1, <4>2
    <3> QED
      BY <1>5, <1>9, <1>11, <2>1, <3>4 DEF s
  <2>2. CASE ~(Len(o) > Capacity)
    BY <1>5, <1>9, <1>11, <2>2
  <2> QED
    BY <2>1, <2>2
<1>13. DOMAIN g = DOMAIN h \cap ks
  BY <1>1, <1>5, <1>12
<1> HIDE DEF ks
<1>14. ASSUME NEW x \in DOMAIN g, NEW y \in DOMAIN g, Before(q, h, x, y)
       PROVE  Before(p, g, x, y)
  <2>1. DOMAIN g = DOMAIN h \ {q[i][1] : i \in {j \in 1..n : j \in Recent(q, h)}}
    BY <1>1, <1>5, <1>6
  <2>2. \A k \in DOMAIN g : g[k] = h[k]
    BY <1>1, <1>5
  <2>3. n \in 0..Len(q)
    OBVIOUS
  <2>4. Before(SubSeq(q, n + 1, Len(q)), g, x, y)
    BY <1>2, <1>14, <2>1, <2>2, <2>3, PopBefore, Zenon
  <2> QED
    BY <1>5, <2>4, Zenon
<1>15. Along(Selected(o, ks), p, g)
  BY <1>10, <1>13, <1>14, SelectedAlong
<1>16. Along(OrderOf(p, g), p, g)
  BY <1>8, OrderAlong
<1>17. OrderOf(p, g) = Selected(o, ks)
  BY <1>8, <1>15, <1>16, AlongUnique
<1> QED
  BY <1>12, <1>17 DEF d, p, g, ks

OrderIn(c) == OrderOf(c.recency, Heights(c))

LEMMA OrderInFacts ==
    ASSUME NEW c, NEW K, Sound(c, K)
    PROVE  /\ Along(OrderIn(c), c.recency, Heights(c)) /\ Queued(c.recency, Heights(c), K)
           /\ MembersOf(OrderIn(c)) = Keys(c) /\ IsFiniteSet(Keys(c))
<1> DEFINE q == c.recency
           h == Heights(c)
<1>1. DOMAIN h = Keys(c)
  BY HeightsFacts
<1>2. Tracked(q, h, K, DOMAIN h) /\ Queued(q, h, K)
  BY <1>1 DEF Sound, Tracked
<1>3. IsFiniteSet(Keys(c))
  BY <1>1, <1>2 DEF Queued
<1> HIDE DEF q, h
<1>4. Along(OrderOf(q, h), q, h)
  BY <1>2, OrderAlong
<1>5. MembersOf(OrderOf(q, h)) = DOMAIN h
  BY <1>2, <1>4, AlongSize
<1> QED
  BY <1>1, <1>2, <1>3, <1>4, <1>5 DEF OrderIn, q, h

Moved(o, key, newest) == IF newest THEN Append(Selected(o, MembersOf(o) \ {key}), key) ELSE o

FittingKeys(o) == IF Len(o) > Capacity THEN MembersOf(Tail(o)) ELSE MembersOf(o)

(* observe moves the key it advances to the end of the order and evicts    *)
(* the first key when there is one too many.                               *)
LEMMA ObserveOrder ==
    ASSUME NEW c, NEW K, Sound(c, K), Bounded(c), NEW key \in K, NEW n \in Nat,
           Accepts(c, key, n), key \in Keys(c) => c.sequences[key] \in WindowRecord
    PROVE  LET d == Observe(c, key, n)
               v == Moved(OrderIn(c), key, Advances(c, key, n))
           IN  Keys(d) = FittingKeys(v) /\ OrderIn(d) = Selected(v, FittingKeys(v))
<1> DEFINE b == BeforeEviction(c, key, n)
           d == EvictToCapacity(b)
           q == c.recency
           h == Heights(c)
           g == NextHeights(h, key, n)
           o == OrderOf(q, h)
           v == Moved(o, key, Advances(c, key, n))
<1>1. /\ Observe(c, key, n) = d
      /\ IsCache(b) /\ Keys(b) = Keys(c) \cup {key}
      /\ Advances(c, key, n) => Heights(b) = g /\ b.recency = Append(Room(q, g), <<key, n>>)
      /\ ~Advances(c, key, n) => key \in Keys(c) /\ Heights(b) = h /\ b.recency = q
  BY BeforeEvictionIs DEF Sound
<1>2. Sound(b, K)
  BY ObserveSound
<1>3. DOMAIN h = Keys(c) /\ \A k \in Keys(c) : h[k] = c.sequences[k].highest
  BY HeightsFacts
<1>4. /\ Along(o, q, h) /\ Queued(q, h, K) /\ MembersOf(o) = DOMAIN h /\ IsFiniteSet(Keys(c))
  BY <1>3, OrderInFacts DEF OrderIn
<1>5. Tracked(q, h, K, DOMAIN h) /\ Cardinality(DOMAIN h) <= Capacity /\ Len(q) <= 2 * Capacity
  BY <1>3 DEF Sound, Bounded
<1> HIDE DEF b, q, h, o
<1>6. Cardinality(Keys(b)) <= Capacity + 1
  <2>1. Cardinality(Keys(c)) \in Nat /\ Cardinality(Keys(c)) <= Capacity /\ Capacity \in Nat
    BY <1>3, <1>4, <1>5, FS_CardinalityType, WindowAssumption
  <2>2. Cardinality(Keys(c) \cup {key}) =
           IF key \in Keys(c) THEN Cardinality(Keys(c)) ELSE Cardinality(Keys(c)) + 1
    BY <1>4, FS_AddElement
  <2> QED
    BY <1>1, <2>1, <2>2
<1>7. Along(v, b.recency, Heights(b))
  <2>1. CASE Advances(c, key, n)
    <3>1. key \in DOMAIN h => n > h[key]
      BY <1>3, <2>1 DEF Advances
    <3>2. Tracked(Room(q, g), g, K, DOMAIN g \ {key})
      BY <1>5, <3>1, EnqueueTracked
    <3>3. Along(Append(Selected(o, DOMAIN h \ {key}), key), Append(Room(q, g), <<key, n>>), g)
      BY <1>4, <3>2, EnqueueOrder
    <3>4. v = Append(Selected(o, DOMAIN h \ {key}), key)
      BY <1>4, <2>1 DEF Moved
    <3> HIDE DEF v, g
    <3> QED
      BY <1>1, <2>1, <3>3, <3>4, Zenon
  <2>2. CASE ~Advances(c, key, n)
    BY <1>1, <1>4, <2>2 DEF Moved
  <2> QED
    BY <2>1, <2>2
<1> HIDE DEF v, d
<1>8. Keys(d) = FittingKeys(v) /\ OrderOf(d.recency, Heights(d)) = Selected(v, FittingKeys(v))
  BY <1>2, <1>6, <1>7, EvictOrder DEF FittingKeys, d
<1> QED
  BY <1>1, <1>8 DEF OrderIn, v, o, q, h

===========================================================================
