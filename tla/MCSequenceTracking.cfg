SPECIFICATION Spec
CONSTANTS
    Half = 3
    AckBits = 2
    Rounds = 3
    MaxNumber = 13
INVARIANTS
    TypeOK
    ProcessedAtMostOnce
    AckBitsSound
    AckBitsComplete
    IInv
PROPERTIES
    OrderedAreNewest
    ImplementsUniqueDelivery
