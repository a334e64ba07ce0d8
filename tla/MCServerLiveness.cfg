CONSTANTS
    CID = {10}
    Coo = {"o"}
    DefaultCoo = "o"
    Names = {"n"}
    DefaultName = "n"
    Scales = {1}
    MaxFd = 5
    ListenFd <- MCListenFd
    MaxDeconnected <- MCMaxDeconnectedOne
    PortsOf <- MCPortsOneTcp
    LossOption = {FALSE}
    OrderTypes = {"no", "list", "status", "show", "distance", "loss", "scale", "close"}
    Takeover = TRUE
    MaxBacklog = 1
    MaxUnread = 1
    MaxOrders = 1
SPECIFICATION FairSpec
PROPERTIES EventuallyAccepted EventuallyObeyed EventuallyRead
