SPECIFICATION FairSpec
CONSTANTS
    log1 = log1
    NoLog = NoLog
    Logs = {log1}
    MaxCalls = 4
    MaxBlocks = 1
CHECK_DEADLOCK FALSE
INVARIANTS AppendsNumberBlocks LengthSettles
PROPERTIES CallsSettle
