SPECIFICATION Spec
CONSTANTS
    Producers = {p1, p2}
    Consumer = Consumer
    Master = Master
    MaxBuffer = 2
    MaxSends = 2
INVARIANTS
    ConsumerPortsInv
    HasNextIsKept
PROPERTIES
    ItemsComeInOrder
    DeactivateEndsWaits
