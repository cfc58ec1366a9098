SPECIFICATION Spec
CONSTANTS
    NodeId = {"n1", "n2", "n3"}
    ActionId = {"a1", "a2"}
    OrderId = {"A", "B"}
    NoNode = NoNode
    NoOrder = NoOrder
    Orders <- AppendOrders
    Instants = {}
    Adapter = {}
    Lasting = {}
    VehicleRefuses = FALSE
INVARIANT
    NeverHangs
