SPECIFICATION Spec
CONSTANTS
    Half = 8
    AckBits = 2
    Rounds = 2
    MaximumPacketSize = 4
    BufferSize = 6
    server = server
    other = other
    alice = alice
    bob = bob
    Servers <- TwoServers
    Clients <- OneClient
    Budgets <- DiscoveryBudgets
    DisconnectAmount = 2
    Batch = 2
    Reach = 2
INVARIANTS
    OneConnection
CHECK_DEADLOCK FALSE
