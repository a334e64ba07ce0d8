CONSTANTS
    CID = {10}
    Coo = {"o", "a"}
    DefaultCoo = "o"
    Names = {"n"}
    DefaultName = "n"
    Scales = {1}
    MaxFd = 6
    ListenFd <- MCListenFd
    MaxDeconnected <- MCMaxDeconnectedOne
    PortsOf <- MCPortsOneTcp
    LossOption = {FALSE}
    OrderTypes = {"coordinate"}
    Takeover = TRUE
    MaxBacklog = 1
    MaxUnread = 1
    MaxOrders = 1
SPECIFICATION Spec
PROPERTY PlaceSurvivesReconnect
