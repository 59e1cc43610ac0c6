SPECIFICATION FairSpec
CONSTANTS
    server = server
    client = client
    Peers <- MCPeers
    Other <- MCOther
    Lengths <- MCLengths
    Capacity = 3
    Chunk = 2
    Endless = 99
INVARIANTS StreamInOrder
PROPERTIES ImplementsChannel WrittenIsDelivered
CHECK_DEADLOCK FALSE
