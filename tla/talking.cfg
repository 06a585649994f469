SPECIFICATION FairSpec
CONSTANTS
    alice = alice
    bob = bob
    Hosts = {alice, bob}
    Nobody = Nobody
    Sessions <- OneDialer
    MaxControl = 2
    MaxData = 1
    MaxAcks = 2
    MaxNet = 3
    Configurations = {0}
    Sinks = {TRUE}
    Uses <- Talk
ACTION_CONSTRAINT HandlersFirst
CHECK_DEADLOCK FALSE
INVARIANT AcksNameOneMessage
PROPERTY NoWaitIsForEver
