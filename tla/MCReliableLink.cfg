SPECIFICATION Spec
CONSTANTS
    Half = 10
    AckBits = 2
    Rounds = 4
    MaximumPacketSize = 6
    BufferSize = 6
    Exchanged = 18
    Scripts <- SafetyScripts
    MaxLosses = 1
    MaxDuplicates = 1
    MaxSilences = 1
    Reach = 2
    Counting = TRUE
INVARIANTS
    TypeOK
    ProcessedOnce
    ReliablesKept
    SequencesDistinct
    OrderedInOrder
    NumbersInWindow
PROPERTIES
    ImplementsReliableChannel
CHECK_DEADLOCK FALSE
