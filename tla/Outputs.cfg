SPECIFICATION Spec
CONSTANTS
    Clients = {client1, client2, client3}
    client3 = client3
    client1 = client1
    client2 = client2
    MAXCLIENTS = 2
    ENTRIES = 2
    StreamCounts = {0, 3}
    MaxChanges = 2
    MaxFails = 1
INVARIANTS Decodable OwnSlot
PROPERTIES Served
CHECK_DEADLOCK FALSE
