\* Waiters do not affect each other: one is enough.  Two slots and three frames:
\* the third reuses the slot of the first.  A waiter that touched a dropped
\* payload is not followed further: such an execution ends.
SPECIFICATION FairSpec
CONSTANTS
    w1 = w1
    websocket = websocket
    webrtc = webrtc
    Waiters <- MCWaiters
    Bits <- MCBits
    Interest <- MCInterest
    Capacity = 2
    MaxFrames = 3
INVARIANTS
    SoundUnlessLapped
PROPERTIES
    ImplementsFeed
    CloseReleasesSleepers
CHECK_DEADLOCK FALSE
