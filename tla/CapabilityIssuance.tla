------------------------ MODULE CapabilityIssuance ------------------------
(***************************************************************************)
(* What the admin signers promise to the control planes that check their   *)
(* capabilities: threshold-signed claims come into existence only while    *)
(* they are valid by the clock of one of the signers.  The requester can   *)
(* present them at any later time and any number of times.                 *)
(***************************************************************************)
EXTENDS QuorumClaims

VARIABLE issued      \* signed claims, with the real time of the signature

issuanceVars == <<now, issued>>

Signed == {i.claims : i \in issued}

IssuanceInit == now = 0 /\ issued = {}

Issue(c) ==
    /\ c \notin Signed
    /\ \E t \in Readings : ValidLifetime(c, t)
    /\ issued' = issued \cup {[claims |-> c, at |-> now]}
    /\ UNCHANGED now

Tick ==
    /\ now < MaxTime
    /\ now' = now + 1
    /\ UNCHANGED issued

IssuanceNext == Tick \/ \E c \in Claims : Issue(c)

IssuanceSpec == IssuanceInit /\ [][IssuanceNext]_issuanceVars
=============================================================================
