SPECIFICATION FairSpec
CONSTANTS
    Half = 4
    AckBits = 2
    Rounds = 2
    MaximumPacketSize = 6
    BufferSize = 6
    Exchanged = 6
    Scripts <- LiveScripts
    MaxLosses = 2
    MaxDuplicates = 0
    MaxSilences = 0
    Reach = 1
    Counting = FALSE
PROPERTIES
    ReliablesArrive
CHECK_DEADLOCK FALSE
