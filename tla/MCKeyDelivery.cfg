SPECIFICATION DeliverySpec
CONSTANTS
    m1 = m1
    m2 = m2
    Members = {m1, m2}
    MaxBlocks = 2
CHECK_DEADLOCK FALSE
INVARIANTS DeliveriesFound
PROPERTIES DeliveryArrives
