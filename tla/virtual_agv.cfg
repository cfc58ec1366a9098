SPECIFICATION FairSpecCut
CONSTANTS
    ActionId = {"e", "o", "p", "q", "s"}
    Type <- FlowTypes
    Scope <- FlowScopes
    Duration = 1
    Distance = 3
    FullCharge = 2
    LowCharge = 1
    Margin = 1
    Blocking = {"p"}
INVARIANTS
    StandsStill
    ReportsVehicle
PROPERTIES
    PauseHolds
    ActionsEndUnlessCut
CHECK_DEADLOCK FALSE
