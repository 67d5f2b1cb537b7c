SPECIFICATION Spec
CONSTANTS
    Half = 8
    AckBits = 2
    Rounds = 2
    MaximumPacketSize = 4
    BufferSize = 6
    server = server
    other = other
    alice = alice
    bob = bob
    Servers <- OneServer
    Clients <- TwoClients
    Budgets <- AskTwiceBudgets
    DisconnectAmount = 2
    Batch = 1
    Reach = 2
INVARIANTS
    SameID
CHECK_DEADLOCK FALSE
