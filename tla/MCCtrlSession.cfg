CONSTANTS
    Requests <- MCRequests
    Lists <- MCLists
    ENABLE_VHOST = TRUE
    MAX_SIZE_NAME = 3
    MaxShort = 1
    MaxGarbage = 1
    CtrlMayStop = TRUE
SPECIFICATION FairSpec
INVARIANTS AnswerIsTrue OrderIsWhole
PROPERTIES SessionEnds ServerFree
