SPECIFICATION Spec
CONSTANTS
    NodeId = {"n1", "n2", "n3"}
    ActionId = {"a1", "a2", "a3", "a4", "a5", "a6", "a7", "a8"}
    OrderId = {"A", "B"}
    NoNode = NoNode
    NoOrder = NoOrder
    Orders <- FlowOrders
    Instants = {"pause"}
    Adapter = {"lateStart", "button"}
    Lasting = {}
    VehicleRefuses = TRUE
INVARIANTS
    NeverHangs
    RouteAhead
PROPERTIES
    ImplementsLifecycle
