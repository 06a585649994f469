--------------------------- MODULE MCXudpConnection --------------------------
(* Constants for the runs of XudpConnection: a host that connects and one    *)
(* that waits.                                                              *)
EXTENDS XudpConnection

CONSTANTS alice, bob

\* Only alice connects.
OneDialer == [h \in Hosts |-> IF h = alice THEN <<1>> ELSE <<>>]

\* alice connects twice, to two sessions.
TwoCalls == [h \in Hosts |-> IF h = alice THEN <<1, 2>> ELSE <<>>]

\* Both hosts connect; rand() is seeded nowhere and returns the same to both.
SameDraw == [h \in Hosts |-> <<1>>]

\* Which calls the applications make, besides connect and poll.
AliceCloses == [h \in Hosts |-> IF h = alice THEN {"graceful"} ELSE {}]
BothClose == [h \in Hosts |-> IF h = alice THEN {"graceful"} ELSE {"graceful", "destroy"}]
BobCloses == [h \in Hosts |-> IF h = alice THEN {"send"} ELSE {"graceful", "now", "destroy"}]
Configure == [h \in Hosts |-> IF h = alice THEN {"throttle", "graceful"} ELSE {"throttle"}]
Talk == [h \in Hosts |-> IF h = alice THEN {"send", "ping", "throttle", "later", "flush"} ELSE {}]
Sends == [h \in Hosts |-> IF h = alice THEN {"send"} ELSE {}]

\* Handlers touch nothing but their own host: while one has messages to handle,
\* the others can wait.
HandlersFirst == \A h \in Hosts : rx[h] # NoDatagram => rx'[h] # rx[h]
=============================================================================
