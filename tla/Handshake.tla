------------------------------ MODULE Handshake ------------------------------
(***************************************************************************)
(* What the connection handshake promises, whatever the network does: a    *)
(* session is established at the host that accepted it only after the host *)
(* that offered it has validated it, and validated only after it was       *)
(* accepted.  A key is <<host that offers, host that accepts, session>>.   *)
(***************************************************************************)
CONSTANT Keys

VARIABLES offered, accepted, validated, established

vars == <<offered, accepted, validated, established>>

Init == offered = {} /\ accepted = {} /\ validated = {} /\ established = {}

Offer(k) ==
    /\ offered' = offered \union {k}
    /\ UNCHANGED <<accepted, validated, established>>

Accept(k) ==
    /\ k \in offered
    /\ accepted' = accepted \union {k}
    /\ UNCHANGED <<offered, validated, established>>

Validate(k) ==
    /\ k \in accepted
    /\ validated' = validated \union {k}
    /\ UNCHANGED <<offered, accepted, established>>

Establish(k) ==
    /\ k \in validated
    /\ established' = established \union {k}
    /\ UNCHANGED <<offered, accepted, validated>>

Next == \E k \in Keys : Offer(k) \/ Accept(k) \/ Validate(k) \/ Establish(k)

Spec == Init /\ [][Next]_vars
=============================================================================
