SPECIFICATION FairSpec
CONSTANTS
    SubscriptionId = {"id1", "id2", "id3"}
    Manufacturer = {"m1"}
    SerialNumber = {"s1"}
    Topic = {"state"}
    Any = Any
    Placeholders <- FullTopic
INVARIANTS
    Forwarded
    NoneSuperfluous
PROPERTIES
    ServedAtLast
