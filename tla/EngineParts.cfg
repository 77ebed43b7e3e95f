\* The parts of the engine, one at a time.  Calls may stop, workers end and
\* bounds are reached: some parts have a last state.
SPECIFICATION PartsSpec
CHECK_DEADLOCK FALSE
CONSTANTS
    t1 = t1
    t2 = t2
    t3 = t3
    cam = cam
    cam_sub = cam_sub
    Threads <- MCThreads
    SpinLimit = 1
    Producers <- MCThreads
    MaxPermits = 2
    Parkers <- MCPair
    Unparkers = {"u1", "u2"}
    Keys = {"key"}
    MaxParks = 2
    ConfigThreads <- MCThreads
    MaxBoxes = 3
    Callers <- MCPair
    FailureThreshold = 2
    SuccessThreshold = 2
    Cooldown = 2
    ChannelBound = 2
    MaxBridged = 4
    Handles <- MCPair
    MailboxCapacity = 2
    MaxRecords = 3
    Csids = {3, 4}
    Types = {"video"}
    MaxLength = 3
    ChunkSizes = {1, 3}
    DefaultChunkSize = 2
    Outputs <- MCOutputs
    MaxRead = 5
    Viewers <- MCPair
    StreamIds <- MCStreamIds
    SubOf <- MCSubOf
    Retries = 2
    MaxGateways = 1
    MaxWorkers = 2
    Players = {"p1", "p2"}
    RelayCapacity = 2
    MaxPackets = 4
INVARIANTS
    SemaphoreSound
    ParkedAreNotForgotten
    EachBoxFreedOnce
    BridgeKeepsOrder
    Reassembles
    SplitIgnoresReads
    GapsOnlyForLaggards
PROPERTIES
    ImplementsLock
    OpenIsProbed
    AskedAfterTold
    CountsMatchViewers
