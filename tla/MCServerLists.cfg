CONSTANTS
    CID = {10, 20}
    Coo = {"o"}
    DefaultCoo = "o"
    Names = {"n"}
    DefaultName = "n"
    Scales = {1}
    MaxFd = 5
    ListenFd <- MCListenFd
    MaxDeconnected <- MCMaxDeconnected
    PortsOf <- MCPortsSpy
    LossOption = {FALSE}
    OrderTypes = {}
    Takeover = TRUE
    MaxBacklog = 1
    MaxUnread = 1
    MaxOrders = 1
SPECIFICATION Spec
INVARIANTS TypeOK Aligned SchedulerExact AcceptNeverBlocks EveryReadyServed
PROPERTY ReadOnce
