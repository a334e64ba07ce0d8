CONSTANTS
    MaxFd = 2
    DriverAtStart = {TRUE}
    PermAddrSockets = FALSE
    NetlinkMayFail = FALSE
    MaxUnread = 0
    MaxCrashes = 1
    MaxReloads = 0
    MaxSigint = 1
SPECIFICATION FairSpec
PROPERTIES StopStops
CHECK_DEADLOCK FALSE
