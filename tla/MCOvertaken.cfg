SPECIFICATION Spec
CONSTANTS
    Guests = {"a", "b"}
    Server = "server"
    HeaderSize = 2
    MTU = 4
    DEFAULT_SIZE_BUFFER = 3
    Sizes = {2, 4, 5}
    Overtake = TRUE
    MaxFrames = 2
    Capacity = 2
    MaxEnds = 1
INVARIANTS
    InStep
CHECK_DEADLOCK FALSE
