SPECIFICATION Spec
CONSTANTS
    alice = alice
    bob = bob
    Hosts = {alice, bob}
    Nobody = Nobody
    Sessions <- SameDraw
    MaxControl = 2
    MaxData = 1
    MaxAcks = 2
    MaxNet = 3
    Configurations = {0}
    Sinks = {TRUE, FALSE}
    Uses <- BobCloses
ACTION_CONSTRAINT HandlersFirst
CHECK_DEADLOCK FALSE
INVARIANTS TypeOK ConnectedIsTold
