SPECIFICATION Spec
CONSTANTS
    NodeId = {"n1", "n2"}
    ActionId = {}
    OrderId = {}
    NoOrder = NoOrder
    Messages <- Candidates
INVARIANTS
    VerdictRight
    AcceptedWellFormed
CHECK_DEADLOCK FALSE
