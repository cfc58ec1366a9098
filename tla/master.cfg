SPECIFICATION Spec
CONSTANTS
    NodeId = {"n1", "n2", "n3"}
    ActionId = {"a1", "a2", "a3", "a4"}
    OrderId = {"A", "B"}
    NoNode = NoNode
    NoOrder = NoOrder
    Orders <- MasterOrders
    Instants = {"cancelOrder"}
    Adapter = {}
    Lasting = {}
    VehicleRefuses = TRUE
    MaxAssigned = 3
    MaxLost = 1
    Capacity = 3
INVARIANTS
    ActiveOrderCached
    NoOrderForgotten
PROPERTIES
    SilentWhenProcessed
    NodesInOrder
    ProcessedRight
