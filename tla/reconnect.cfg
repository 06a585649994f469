SPECIFICATION PartSpec
CONSTANTS
    alice = alice
    bob = bob
    Hosts = {alice, bob}
    Nobody = Nobody
    Sessions <- TwoCalls
    MaxControl = 2
    MaxData = 0
    MaxAcks = 2
    MaxNet = 4
    Configurations = {0}
    Sinks = {TRUE}
    Uses <- BothClose
ACTION_CONSTRAINT HandlersFirst
CHECK_DEADLOCK FALSE
INVARIANTS WaitsForAnAnswer ConnectIsRepeated
PROPERTY HandshakeKept
