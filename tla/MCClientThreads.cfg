CONSTANTS
    MaxFd = 2
    DriverAtStart = {TRUE}
    PermAddrSockets = TRUE
    NetlinkMayFail = TRUE
    MaxUnread = 0
    MaxCrashes = 1
    MaxReloads = 1
    MaxSigint = 1
SPECIFICATION Spec
INVARIANTS ClientTypeOK  StopWaitsForAll
CHECK_DEADLOCK FALSE
