SPECIFICATION FairSpec
CONSTANTS
    data = data
    blobs = blobs
    timerFlush = timerFlush
    Closing = Closing
    Logs <- MCLogs
    MaxLen <- MCMaxLen
    Background = {timerFlush}
    MaxFaults = 1
CHECK_DEADLOCK FALSE
INVARIANTS CloseLeavesCopy ClosedHasNoTimer
PROPERTIES WritesReachFolder EntriesSettle CloseReturns
