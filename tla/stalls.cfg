SPECIFICATION ChannelSpec
CONSTANTS
    Modulus = 32
    High = 28
    Low = 4
    WindowWords = 2
    Bits = 4
    Starts = {29}
    Fragments = 2
    Kinds <- Reliables
    MaxSent = 4
    Window = 4
    MaxQueue = 6
CHECK_DEADLOCK FALSE
INVARIANT WrappedIsGreater
