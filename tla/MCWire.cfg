SPECIFICATION Spec
CONSTANTS
    Half = 8
    AckBits = 2
    Rounds = 2
    SendBufferSize = 48
    BytesBehind <- AnyByte
    MessageFields <- Fields
    Packets <- AllPackets
    MaxErrors = 1
INVARIANTS
    TypeOK
    ParsedAsWritten
    LostBySize
    CorruptDropped
PROPERTIES
    ParsingEnds
CHECK_DEADLOCK FALSE
