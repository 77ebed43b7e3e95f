\* A camera that sends more packets at once than the broadcast retains.
SPECIFICATION RelaySpec
CHECK_DEADLOCK FALSE
CONSTANTS
    Players = {"p1"}
    RelayCapacity = 2
    MaxPackets = 4
INVARIANT SourceIsForwarded
