SPECIFICATION FairSpec
CONSTANTS
    NodeId = {"n1", "n2", "n3"}
    ActionId = {"a1", "a2", "a3", "a4", "a5", "a6", "a7", "a8"}
    OrderId = {"A", "B"}
    NoNode = NoNode
    NoOrder = NoOrder
    Orders <- FlowOrders
    Instants = {"cancelOrder"}
    Adapter = {}
    Lasting = {}
    VehicleRefuses = TRUE
INVARIANTS
    HardRunsAlone
    StandsWhileBlocked
    OneTraversal
    IdleIsQuiet
    StopsLast
    NeverHangs
    CancelFindsActions
PROPERTIES
    NoNodeSkipped
    StatusMovesForward
    OrderCompletes
    ImplementsFairLifecycle
