SPECIFICATION FairSpec
CONSTANTS
    Half = 2
    AckBits = 1
    Rounds = 2
    MaximumPacketSize = 6
    BufferSize = 6
    Exchanged = 0
    Scripts <- LargeScripts
    MaxLosses = 1
    MaxDuplicates = 0
    MaxSilences = 0
    Reach = 1
    Counting = FALSE
PROPERTIES
    ReliablesArrive
CHECK_DEADLOCK FALSE
