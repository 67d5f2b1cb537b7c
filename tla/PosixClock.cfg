SPECIFICATION Spec
CONSTANTS
    Half = 8
    AckBits = 2
    Rounds = 2
    MaximumPacketSize = 4
    BufferSize = 6
    Platform = "posix"
    NanosPerSecond = 12
    Multiplier = 6
    Word = 1048576
    HalfWord = 65536
    ConnectionTimeout = 10
    MaxWithoutAcks = 2
    SendTime = 1
    FrameTime = 2
    MinDelay = 1
    MaxDelay = 4
    MaxFrames = 20
    Scenarios <- QuietScenarios
INVARIANTS
    TimedOutInTime
CHECK_DEADLOCK FALSE
