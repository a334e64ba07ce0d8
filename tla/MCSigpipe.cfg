CONSTANTS
    CID = {10, 20}
    Coo = {"o"}
    DefaultCoo = "o"
    Names = {"n"}
    DefaultName = "n"
    Scales = {1}
    MaxFd = 6
    ListenFd <- MCListenFd
    MaxDeconnected <- MCMaxDeconnectedOne
    PortsOf <- MCPortsTcp
    LossOption = {FALSE}
    OrderTypes = {}
    Takeover = FALSE
    MaxBacklog = 1
    MaxUnread = 1
    MaxOrders = 1
SPECIFICATION Spec
PROPERTY ForwardSurvives
