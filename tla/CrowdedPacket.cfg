SPECIFICATION Spec
CONSTANTS
    Half = 4
    AckBits = 2
    Rounds = 4
    MaximumPacketSize = 8
    BufferSize = 8
    Exchanged = 0
    Scripts <- CrowdedScripts
    MaxLosses = 0
    MaxDuplicates = 0
    MaxSilences = 4
    Reach = 1
    Counting = TRUE
INVARIANTS
    ProcessedOnce
CHECK_DEADLOCK FALSE
