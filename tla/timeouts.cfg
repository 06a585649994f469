SPECIFICATION TimeSpec
CONSTANTS
    Mtu = 4
    MaxPerDatagram = 3
    Windows = {4}
    Rtos = {1, 5}
    TimeoutLimit = 2
    MinTimeout = 4
    MaxTimeout = 5
    ThrottleScale = 4
    ThrottleStep = 3
    Lengths = {1}
    Datagrams = {}
    MaxIds = 3
    MaxUnrel = 0
    MaxAcks = 0
    MaxTime = 16
    Throttles = {4}

    PeerCount = 3
    ChannelCount = 1
    MaxWaiting = 1
    MaxInbox = 1
    PollDay = 2
    Timeouts <- SomeTimeouts
    MaxElapsed = 2

    ClientCount = 2
    BandWord = 1024
    BandDay = 400
    Second = 2
    BandScale = 8
    Sinks = {TRUE, FALSE}
    HostRates = {5, 12}
    PeerRates <- SomeRates
    Amounts = {8}
    Clock = 2
    BandSteps = {1, 255}
    MaxSteps = 6
CHECK_DEADLOCK FALSE
INVARIANTS SilenceIsNoticed TurnsAreFair NothingIsLeft FaultIsOverflow SharesFit
PROPERTIES RateFits GivenUpForSilence
