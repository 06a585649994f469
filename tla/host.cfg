SPECIFICATION HostSpec
CONSTANTS
    Word = 256
    Short = 64
    Day = 100
    DefaultRtt = 16
    Scale = 4
    Clocks = {240}
    Steps = {9, 30}
    Lags = {0, 9, 31}
    Settings <- SomeSettings
    MaxTicks = 5

    Modulus = 32
    High = 28
    Low = 4
    WindowWords = 2
    Bits = 4
    Starts = {6, 29, 30}
    Fragments = 2
    Kinds <- AllKinds
    MaxSent = 3
    Window = 4
    MaxQueue = 6

    BlockCount = 2
    Holders = {h1, h2}
    Free = Free
    Used = Used
    Acks = Acks
    Messages = Messages
    Junk = Junk
    Nowhere = Nowhere
    Shifted = Shifted
    Chunk = Chunk
    Wild = Wild
    Stale = Stale
    Null = Null

    Names = {"idn", "tables", "log"}
    Tables <- SomeTables
    MaxStarts = 3

CHECK_DEADLOCK FALSE
INVARIANTS TypeOK EstimatesAreMeasured TripIsTrue ReliableInOrder PacketsAreWhole UnreliableInPlace QueueInOrder ListsAreSound HeldOnce QueuesAreTheirs ModulesAreHeld
PROPERTIES EpochIsRenewed ReliableArrives
