----------------------------- MODULE MCReconnect ----------------------------
(* Two uses of a pair of hosts, one at a time: part says which.              *)
(*   twice:      alice connects, closes and connects again                   *)
(*   configured: alice connects once, and both may set the packet throttle   *)
(*               to another value whenever they have a client                *)
EXTENDS MCXudpConnection

VARIABLE part

Configured == INSTANCE XudpConnection WITH
    Sessions <- OneDialer, Configurations <- {1}, Uses <- Configure, MaxAcks <- 1

PartInit == Init /\ part \in {"twice", "configured"}

Lives(p) == part = p /\ part' = part

PartNext ==
    \/ Lives("twice") /\ Next
    \/ Lives("configured") /\ Configured!Next

PartSpec == PartInit /\ [][PartNext]_<<vars, part>>
=============================================================================
