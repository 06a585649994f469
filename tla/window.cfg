SPECIFICATION BothSpec
CONSTANTS
    Mtu = 4
    MaxPerDatagram = 3
    Windows = {4, 5}
    Rtos = {1}
    TimeoutLimit = 4
    MinTimeout = 2
    MaxTimeout = 3
    ThrottleScale = 4
    ThrottleStep = 3
    Lengths = {1, 4}
    Datagrams = {1}
    MaxIds = 4
    MaxUnrel = 1
    MaxAcks = 1
    MaxTime = 2
    Throttles = {2}

    home = home
    near = near
    far = far
    Hosts = {home}
    GroupNames = {near, far}
    AddressOf <- SomeAddresses
    SlotCount = 2
    MaxEvents = 1
    MaxEndPoints = 3
    MaxAddresses = 3
    MaxLost = 1
    MaxQueued = 1
    Nobody = Nobody
CHECK_DEADLOCK FALSE
INVARIANTS InTransitIsSent LeavesInOrder DelayedCloseIsDue ReferencesAreCounted SenderIsKnown
PROPERTIES WindowIsKept PassEnds
