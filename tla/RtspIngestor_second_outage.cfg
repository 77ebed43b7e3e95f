\* One session of a camera that answers, breaks off, comes back, and breaks off.
SPECIFICATION IngestSpec
CONSTANTS
    i1 = i1
    i2 = i2
    cam = cam
    p1 = p1
    p2 = p2
    NoSession = NoSession
    Sessions <- MCSessions
    Callers <- MCCallers
    StreamIds <- MCStreamIds
    Sources <- MCSources
INVARIANT OutagesAreTold
