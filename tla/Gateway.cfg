\* Clients share only the peer list and its ids.  Two retained messages and three
\* frames: a session can be overrun.  Two ids: the client can come back.  When
\* the gateway is down and the client gone, nothing is left to do.
SPECIFICATION FairSpec
CONSTANTS
    c1 = c1
    websocket = websocket
    webrtc = webrtc
    Clients <- MCClients
    Bits <- MCBits
    Interest <- MCInterest
    Masks <- MCMasks
    Capacity = 2
    MaxFrames = 3
    MaxClientIds = 2
INVARIANTS
    StartsFromFreshKeyframe
    ClosedWhenDrained
PROPERTIES
    ImplementsFeed
    RetainedFramesArrive
    ShutdownEndsSessions
CHECK_DEADLOCK FALSE
