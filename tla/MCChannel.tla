------------------------------ MODULE MCChannel ------------------------------
(* Constants for the runs of Channel: 5-bit sequence numbers, of which the   *)
(* upper eighth is the high end and the lower eighth the low end.            *)
EXTENDS Channel
Ordinary == {"reliable", "fragmented", "unreliable"}
Reliables == {"reliable", "fragmented"}
AllKinds == Ordinary \union {"unsequenced"}
=============================================================================
