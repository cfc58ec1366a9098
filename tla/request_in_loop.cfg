SPECIFICATION Spec
CONSTANTS
    ActionId = {"h1", "r1", "n1"}
    NoAction = NoAction
    Messages <- RequestMessages
    SyncEnds = {}
    Refusable = {}
INVARIANTS
    TriggersAll
