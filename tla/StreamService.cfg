SPECIFICATION FairSpec
CONSTANTS
    i1 = i1
    i2 = i2
    cam = cam
    seed = seed
    http = http
    sync = sync
    NoSession = NoSession
    Sessions <- MCSessions
    Callers <- MCCallers
    StreamIds <- MCStreamIds
    Sources <- MCSources
    Sync <- sync
    Seed <- seed
INVARIANTS
    StreamsAreIngested
PROPERTIES
    DatabaseIsMirrored
