SPECIFICATION FairSpec
CONSTANTS
    ActionId = {"c1", "h1", "h2", "n1", "n2", "n3", "p1", "p2", "r1"}
    NoAction = NoAction
    Messages <- FlowMessages
    SyncEnds = {"h1"}
    Refusable = {"n1"}
INVARIANTS
    HardInstantAlone
    TriggersAll
    BegunInOrder
PROPERTIES
    InstantActionsEnd
