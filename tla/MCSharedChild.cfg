SPECIFICATION Spec
CONSTANTS
    a1 = a1
    a2 = a2
    t1 = t1
    t2 = t2
    t3 = t3
    None = None
    Callers = {a1, a2}
    Transports = {t1, t2, t3}
SYMMETRY Interchangeable
CHECK_DEADLOCK FALSE
INVARIANTS NoSpawnRefused EndIsNoticed SpawningIsUnderWay
