SPECIFICATION FairRuntime
CONSTANTS
    c1 = c1
    t1 = t1
    d1 = d1
    d2 = d2
    l1 = l1
    l2 = l2
    None = None
    Conns = {c1}
    Topics = {t1}
    Own = t1
    Discoveries = {d1, d2}
    Leavers = {l1, l2}
CHECK_DEADLOCK FALSE
INVARIANTS OnlyMembersReplicate CountIsCurrent TopicsAgree StatusTold
PROPERTIES ClosedIsForgotten GateDecides
