CONSTANTS
    CID = {2, 10, 20}
    Coo = {"o", "a"}
    DefaultCoo = "o"
    Names = {"n", "m"}
    DefaultName = "n"
    Scales = {1}
    MaxFd = 5
    ListenFd <- MCListenFd
    MaxDeconnected <- MCMaxDeconnectedOne
    PortsOf <- MCPortsRegistry
    LossOption = {FALSE}
    OrderTypes = {"coordinate", "name", "close"}
    Takeover = FALSE
    MaxBacklog = 1
    MaxUnread = 0
    MaxOrders = 1
SPECIFICATION Spec
INVARIANTS DistinctDescriptors ReadyMeansInput OneEntryPerGuest
PROPERTIES PlaceSurvivesReconnect ImplementsRegistry
