SPECIFICATION Spec
CONSTANTS
    alice = alice
    bob = bob
    Hosts = {alice, bob}
    Nobody = Nobody
    Sessions <- OneDialer
    MaxControl = 2
    MaxData = 0
    MaxAcks = 2
    MaxNet = 4
    Configurations = {0}
    Sinks = {TRUE}
    Uses <- AliceCloses
ACTION_CONSTRAINT HandlersFirst
CHECK_DEADLOCK FALSE
INVARIANT ReceiveLoopEnds
