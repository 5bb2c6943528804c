SPECIFICATION BlobsSpec
CONSTANTS
    w1 = w1
    w2 = w2
    k0 = k0
    k1 = k1
    NoRef = NoRef
    Contents <- Files
    ChunkBytes = 2
    MaxBytes = 4
    Keys = {k0, k1}
    K0 = k0
    Slots = {w1, w2}
    MaxBlocks = 5
    MaxCrashes = 1
SYMMETRY WriteSymmetry
CHECK_DEADLOCK FALSE
INVARIANTS RefsReadBack
