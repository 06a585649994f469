--------------------------- MODULE MCTransmission ---------------------------
(* What a client sends, and the endpoints of a host: part says which of the  *)
(* two modules lives.                                                        *)
EXTENDS Transmission, EndPoints

CONSTANTS home, near, far    \* a host, two multicast groups of one address

SomeAddresses == [r \in {home, near, far} |-> IF r = home THEN home ELSE near]

VARIABLE part

BothInit ==
    /\ part \in {"sending", "endpoints"}
    /\ Init /\ (part = "endpoints" => window = Min(Windows))
    /\ EndInit

BothNext ==
    /\ UNCHANGED part
    /\ \/ part = "sending" /\ Next /\ UNCHANGED endVars
       \/ part = "endpoints" /\ EndNext /\ FewAreLost /\ UNCHANGED vars

BothSpec == BothInit /\ [][BothNext]_<<vars, endVars, part>>
=============================================================================
