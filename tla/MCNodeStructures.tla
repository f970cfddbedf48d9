------------------------- MODULE MCNodeStructures -------------------------
(***************************************************************************)
(* Three structures of a node that share no state, checked side by side:   *)
(* the replay cache, the fragment reassembler and the tunnel hub.  Each    *)
(* behaviour drives one of them.                                           *)
(***************************************************************************)
EXTENDS ReplayWindowSpec, OverlayFragments, HttpTunnel, TLC

VARIABLE running

(* Two epochs, one with two sources; windows of two words of two bits, so  *)
(* that shifts cross a word boundary.                                      *)
Key(e, s) == [topology_epoch |-> e, source |-> s]
MCKeys == {Key(1, "a"), Key(1, "b"), Key(2, "a")}

(* A frame of two and one of three fragments with a common first fragment, *)
(* and what damage can make of a fragment: another payload, another shape, *)
(* another digest, nothing at all.                                         *)
MCFrames == {<<1, 2, 3, 4>>, <<1, 2, 3, 5, 6>>}
MCDamaged ==
    {[Fragment(<<1, 2, 3, 4>>, 1) EXCEPT !.payload = <<3, 9>>],
     [Fragment(<<1, 2, 3, 4>>, 1) EXCEPT !.count = 3, !.frame_len = 5],
     [Fragment(<<1, 2, 3, 5, 6>>, 1) EXCEPT !.digest = <<1, 2, 3, 4>>],
     [Fragment(<<1, 2, 3, 4>>, 0) EXCEPT !.payload = <<>>]}

(* Opens of three scopes compete for two sessions.                         *)
SymmetricTunnels == Permutations(Slots) \cup Permutations(Scopes)

MCInit ==
    /\ Init /\ FragmentsInit /\ TunnelInit
    /\ running \in {"replay", "fragments", "tunnel"}
    /\ running = "fragments" \/ watch = Watched("n1", <<1, 2, 3, 4>>)

MCNext ==
    \/ /\ running = "replay" /\ Next
       /\ UNCHANGED <<running, fragmentVars, tunnelVars>>
    \/ /\ running = "fragments" /\ FragmentsNext
       /\ UNCHANGED <<running, vars, tunnelVars>>
    \/ /\ running = "tunnel" /\ TunnelNext
       /\ UNCHANGED <<running, vars, fragmentVars>>

MCSpec == MCInit /\ [][MCNext]_<<running, vars, fragmentVars, tunnelVars>>

===========================================================================
