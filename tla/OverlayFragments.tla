------------------------- MODULE OverlayFragments -------------------------
(***************************************************************************)
(* Overlay frames that do not fit a hop datagram: the fragments            *)
(* UdpOverlayNeighborSender cuts and the OverlayFragmentReassembler of the *)
(* receive loop (crates/ipars-agent/src/overlay_transit.rs).  The receive  *)
(* loop owns the reassembler, so one datagram is one action; datagrams of  *)
(* several neighbours arrive interleaved, lost, repeated, reordered or     *)
(* damaged.                                                                *)
(*                                                                         *)
(* A frame is the sequence of its bytes, and its truncated SHA-256 stands  *)
(* for it exactly: fragments carry the frame itself as their digest.       *)
(***************************************************************************)
EXTENDS Integers, Sequences, FiniteSetsExt

CONSTANTS
    Sources,         \* endpoints of neighbours
    Frames,          \* frames, sequences of bytes
    Damaged,         \* datagrams that no sender cut: any fragment records
    FragmentBytes,   \* OVERLAY_FRAGMENT_PAYLOAD_BYTES
    DatagramBytes,   \* MAX_OVERLAY_TRANSIT_DATAGRAM_BYTES
    FrameBytes,      \* MAX_MULTIHOP_FRAME_BYTES
    MaxFrames,       \* MAX_PENDING_FRAGMENTED_FRAMES
    Timeout          \* OVERLAY_FRAGMENT_REASSEMBLY_TIMEOUT, in ticks

ASSUME FragmentsAssumption ==
    /\ \A f \in Frames : f \in Seq(Nat) /\ Len(f) \in (DatagramBytes + 1)..FrameBytes
    /\ \A d \in Damaged : d \in [digest : Seq(Nat), index : Nat, count : Nat,
                               frame_len : Nat, payload : Seq(Nat)]
    /\ {FragmentBytes, DatagramBytes, FrameBytes, MaxFrames, Timeout} \subseteq Nat \ {0}
    /\ FragmentBytes < DatagramBytes

MaxBytes == MaxFrames * FrameBytes   \* MAX_PENDING_FRAGMENTED_FRAME_BYTES

VARIABLES
    partial,         \* pending: frames being put together, by (source, digest)
    reserved_bytes,
    output,          \* what the last push returned
    watch            \* history: what became of some frame of some neighbour

fragmentVars == <<partial, reserved_bytes, output, watch>>

NoFrame == <<>>

(* Any one frame of any one neighbour is watched: which of its fragments   *)
(* arrived, how long the first of them may wait for the others, whether    *)
(* anything stood in the way, and what came out for it.                    *)
Watched(source, frame) ==
    [source |-> source, frame |-> frame, got |-> {}, left |-> Timeout,
     spoiled |-> FALSE, out |-> NoFrame]

FragmentsInit ==
    /\ partial = <<>>
    /\ reserved_bytes = 0
    /\ output = NoFrame
    /\ \E source \in Sources, frame \in Frames : watch = Watched(source, frame)

---------------------------------------------------------------------------
(* The sender.                                                             *)

DivCeil(n, d) == (n + d - 1) \div d

(* frame.chunks and encode_overlay_fragment.                               *)
Fragment(frame, i) ==
    [digest |-> frame, index |-> i, count |-> DivCeil(Len(frame), FragmentBytes),
     frame_len |-> Len(frame),
     payload |-> SubSeq(frame, FragmentBytes * i + 1,
                        Min({FragmentBytes * (i + 1), Len(frame)}))]

Cut(frame) == {Fragment(frame, i) : i \in 0..(DivCeil(Len(frame), FragmentBytes) - 1)}

Datagrams == (UNION {Cut(f) : f \in Frames}) \cup Damaged

---------------------------------------------------------------------------
(* The receiver.                                                           *)

PartialKeys == DOMAIN partial

(* prune_expired, the first thing push does.                               *)
Expired == {k \in PartialKeys : partial[k].ticks_left = 0}
Live == PartialKeys \ Expired

(* The bytes reserved for the frames ks, frame_len for each, and their     *)
(* number.                                                                 *)
BytesOf(ks) == {b \in ks \X (1..FrameBytes) : b[2] <= partial[b[1]].frame_len}
ReservedBy(ks) == Cardinality(BytesOf(ks))
LiveReserved == reserved_bytes - ReservedBy(Expired)

Keep(ks) == [k \in ks |-> partial[k]]

(* The checks of push on one datagram.  The code subtracts before it has   *)
(* compared the count; where the difference would be negative it wraps     *)
(* around in a release build, and no payload has such a length.            *)
WellFormed(d) ==
    /\ d.payload # <<>> /\ Len(d.payload) <= FragmentBytes
    /\ d.frame_len > DatagramBytes /\ d.frame_len <= FrameBytes
    /\ d.count >= 2 /\ d.index < d.count
    /\ d.count = DivCeil(d.frame_len, FragmentBytes)
    /\ Len(d.payload) = IF d.index + 1 = d.count
                        THEN d.frame_len - FragmentBytes * (d.count - 1)
                        ELSE FragmentBytes

(* Nothing comes out; the frames ks stay.                                  *)
Rest(ks) ==
    /\ partial' = Keep(ks)
    /\ reserved_bytes' = LiveReserved - ReservedBy(Live \ ks)
    /\ output' = NoFrame

PushMalformed(source, d) == ~WellFormed(d) /\ Rest(Live)

(* The first fragment of a frame at the limit.                             *)
PushRefused(source, d) ==
    /\ WellFormed(d)
    /\ <<source, d.digest>> \notin Live
    /\ Cardinality(Live) >= MaxFrames \/ LiveReserved + d.frame_len > MaxBytes
    /\ Rest(Live)

(* A place is reserved for a new frame, for the whole of it.               *)
Place(d) == [ticks_left |-> Timeout, frame_len |-> d.frame_len, count |-> d.count,
             fragments |-> <<>>]

PlaceOf(source, d) ==
    IF <<source, d.digest>> \in Live THEN partial[<<source, d.digest>>] ELSE Place(d)

Admitted(source, d) ==
    /\ WellFormed(d)
    /\ \/ <<source, d.digest>> \in Live
       \/ /\ Cardinality(Live) < MaxFrames
          /\ LiveReserved + d.frame_len <= MaxBytes

(* Mutant: a repeated fragment counts as a conflicting one.                *)
ConflictsOnRepeat(frame, d) ==
    \/ frame.frame_len # d.frame_len \/ frame.count # d.count
    \/ d.index \in DOMAIN frame.fragments

(* Another shape or another payload in the same place: the frame is given  *)
(* up with its reservation.                                                *)
Conflicts(frame, d) ==
    \/ frame.frame_len # d.frame_len \/ frame.count # d.count
    \/ d.index \in DOMAIN frame.fragments /\ frame.fragments[d.index] # d.payload

(* Mutant: the conflicting frame goes, its reservation stays.              *)
PushConflictLeaks(source, d) ==
    /\ Admitted(source, d)
    /\ Conflicts(PlaceOf(source, d), d)
    /\ partial' = Keep(Live \ {<<source, d.digest>>})
    /\ reserved_bytes' = LiveReserved
    /\ output' = NoFrame

PushConflict(source, d) ==
    /\ Admitted(source, d)
    /\ Conflicts(PlaceOf(source, d), d)
    /\ Rest(Live \ {<<source, d.digest>>})

PushRepeated(source, d) ==
    /\ Admitted(source, d)
    /\ d.index \in DOMAIN PlaceOf(source, d).fragments
    /\ ~Conflicts(PlaceOf(source, d), d)
    /\ Rest(Live)

(* The bytes of the fragments in order.  push checked that each payload    *)
(* has the length its place calls for, so that they fill n bytes and the   *)
(* length of the whole needs no second look.                               *)
Joined(fragments, n) ==
    [b \in 1..n |-> fragments[(b - 1) \div FragmentBytes][((b - 1) % FragmentBytes) + 1]]

(* A whole that is not what its digest says is dropped.                    *)
Reassembled(fragments, d) ==
    IF Joined(fragments, d.frame_len) = d.digest THEN d.digest ELSE NoFrame

PushNew(source, d) ==
    LET key       == <<source, d.digest>>
        place     == PlaceOf(source, d)
        fragments == [i \in DOMAIN place.fragments \cup {d.index} |->
                         IF i = d.index THEN d.payload ELSE place.fragments[i]]
        complete  == Cardinality(DOMAIN fragments) = d.count
    IN  /\ Admitted(source, d)
        /\ ~Conflicts(place, d)
        /\ d.index \notin DOMAIN place.fragments
        /\ partial' = IF complete THEN Keep(Live \ {key})
                      ELSE [k \in Live \cup {key} |->
                               IF k = key THEN [place EXCEPT !.fragments = fragments]
                               ELSE partial[k]]
        /\ reserved_bytes' = LiveReserved + (IF key \in Live THEN 0 ELSE d.frame_len)
                             - (IF complete THEN d.frame_len ELSE 0)
        /\ output' = IF complete THEN Reassembled(fragments, d) ELSE NoFrame

(* A datagram that bears the watched digest: a fragment of the frame, or   *)
(* something that spoils it (damage that passes the checks of push, a      *)
(* refusal at the limit, a fragment that comes too late).                  *)
WatchPush(source, d) ==
    LET genuine == d \in Cut(watch.frame)
        spoils  == WellFormed(d) /\ (~genuine \/ ~Admitted(source, d) \/ watch.left = 0)
    IN  watch' = IF <<source, d.digest>> # <<watch.source, watch.frame>> THEN watch
                 ELSE [watch EXCEPT !.got = IF genuine THEN @ \cup {d.index} ELSE @,
                                    !.spoiled = IF spoils THEN TRUE ELSE @,
                                    !.out = IF output' = NoFrame THEN @ ELSE output']

Push(source, d) ==
    /\ \/ PushMalformed(source, d) \/ PushRefused(source, d) \/ PushConflict(source, d)
       \/ PushRepeated(source, d) \/ PushNew(source, d)
    /\ WatchPush(source, d)

FragmentsTick ==
    /\ \E k \in PartialKeys : partial[k].ticks_left > 0
    /\ partial' = [k \in PartialKeys |->
          [partial[k] EXCEPT !.ticks_left = IF @ > 0 THEN @ - 1 ELSE 0]]
    /\ output' = NoFrame
    /\ watch' = [watch EXCEPT !.left = IF watch.got # {} /\ @ > 0 THEN @ - 1 ELSE @]
    /\ UNCHANGED reserved_bytes

FragmentsNext ==
    \/ \E source \in Sources, d \in Datagrams : Push(source, d)
    \/ FragmentsTick

FragmentsSpec == FragmentsInit /\ [][FragmentsNext]_fragmentVars

---------------------------------------------------------------------------
(* Properties.                                                             *)

(* However the fragments of frames and neighbours are reordered, repeated, *)
(* damaged and interleaved: what push returns for a digest is the frame it *)
(* is of, and only after that neighbour sent every fragment of it; and a   *)
(* frame whose fragments all arrive within the timeout of the first comes  *)
(* out, unless a limit refused one of them or damage bore its digest.      *)
ReassemblyFaithful ==
    LET all == 0..(DivCeil(Len(watch.frame), FragmentBytes) - 1)
    IN  /\ watch.out # NoFrame => watch.out = watch.frame /\ watch.got = all
        /\ watch.got = all /\ ~watch.spoiled => watch.out # NoFrame

(* Memory is accounted for exactly, through every way a partial frame can  *)
(* end (completed, conflicting, expired): the reservation is what the      *)
(* partial frames will need, so that it cannot leak away until nothing is  *)
(* admitted any more.                                                      *)
ReservationExact ==
    /\ reserved_bytes = ReservedBy(PartialKeys)
    /\ Cardinality(PartialKeys) <= MaxFrames

===========================================================================
