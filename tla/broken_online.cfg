SPECIFICATION Spec
CONSTANTS
    MaxStarts = 1
    MaxLost = 1
    MaxMaster = 0
    Capacity = 4
INVARIANTS
    ActiveIsOnline
CHECK_DEADLOCK FALSE
