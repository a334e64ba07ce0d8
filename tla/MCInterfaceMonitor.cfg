CONSTANTS
    N = 2
    Names = {"wlan0", "wlan1"}
    Wlan = {"wlan0", "wlan1"}
    MaxValue = 2
    NameReuse = FALSE
    Overlap = FALSE
    LateStart = FALSE
    MaxEvents = 1
    MaxReplies = 3
    MaxFailures = 1
SPECIFICATION FairSpec
INVARIANTS MonitorTypeOK AnswerWaits UpdateDrains CleanedUnused ListedExist
PROPERTIES EventuallyListed MonitorEnds
