SPECIFICATION Spec
CONSTANTS
    timer = timer
    closing = closing
    Flushers = {timer, closing}
    MaxName = 99
    MaxLen = 2
    MaxFaults = 0
PROPERTIES RunningCallsKeepFiles
