SPECIFICATION FairSpec
CONSTANTS
    Guests = {"a", "b"}
    Server = "server"
    HeaderSize = 2
    MTU = 4
    DEFAULT_SIZE_BUFFER = 3
    Sizes = {2, 4, 5}
    Overtake = FALSE
    MaxFrames = 2
    Capacity = 2
    MaxEnds = 1
INVARIANTS
    WireTypeOK
    BufferFits
    InStep
    FailedReadAddsNothing
PROPERTIES
    
    ServerComesBack
CHECK_DEADLOCK FALSE
