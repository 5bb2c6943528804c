SPECIFICATION FairSpec
CONSTANTS
    timer = timer
    closing = closing
    Flushers = {timer}
    MaxName = 99
    MaxLen = 2
    MaxFaults = 1
INVARIANTS DownloadedRangeCovered CaptureWithinFolder CopyValid
PROPERTIES SettledFilesStay FlushReturns FolderSpec
