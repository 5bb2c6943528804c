SPECIFICATION FairSpec
CONSTANTS
    MaxCalls = 3
    MaxWs = 2
    MaxLen = 1
CHECK_DEADLOCK FALSE
INVARIANTS AnswersAreOwn LengthFollows WatcherStops ExitFlushesAll
PROPERTIES CallsSettle
