SPECIFICATION FairSpec
CONSTANTS
    Half = 4
    AckBits = 2
    Rounds = 2
    MaximumPacketSize = 4
    BufferSize = 6
    server = server
    other = other
    alice = alice
    bob = bob
    Servers <- OneServer
    Clients <- TwoClients
    Budgets <- HandshakeBudgets
    DisconnectAmount = 2
    Batch = 2
    Reach = 2
PROPERTIES
    HandshakeCompletes
    ConnectingEnds
CHECK_DEADLOCK FALSE
