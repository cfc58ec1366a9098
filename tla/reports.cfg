SPECIFICATION FairSpec
CONSTANTS
    ActionId = {"i1", "i2", "i3"}
    Messages <- ReportMessages
    PublishCount = 4
    Patient = TRUE
    MaxLost = 1
    MaxOffline = 1
    Capacity = 2
INVARIANTS
    OutcomeHeard
    HeardOnce
    RightError

    
