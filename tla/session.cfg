SPECIFICATION Spec
CONSTANTS
    MaxStarts = 2
    MaxLost = 2
    MaxMaster = 1
    Capacity = 4
INVARIANTS
    InitialStateSubscribed
    ReachedWhenIdle
    NeverLeftOnline
    TrackedLatest
CHECK_DEADLOCK FALSE
