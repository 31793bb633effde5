SPECIFICATION Spec
CONSTANTS
    Subscribers = {iot, host}
    MaxSlots = 10
    Size = 5
    Reserve = 3
    Heap = 4
    Burst = 2
    MaxPoints = 6
    None = None
INVARIANTS TypeOK NeverBlocks BlocksConserved LatestKept
CHECK_DEADLOCK FALSE
