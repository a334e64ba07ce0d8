CONSTANTS
    MaxFd = 2
    DriverAtStart = {TRUE, FALSE}
    PermAddrSockets = FALSE
    NetlinkMayFail = FALSE
    MaxUnread = 1
    MaxCrashes = 2
    MaxReloads = 0
    MaxSigint = 1
SPECIFICATION FairSpec
INVARIANTS ReconnectedIsHeard
PROPERTIES EventuallyReconnected  StopWhileRetrying
CHECK_DEADLOCK FALSE
