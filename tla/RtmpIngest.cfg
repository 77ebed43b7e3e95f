\* Two publishers, three publish commands: either may publish again, under the
\* same id or another.  Two runs of the process: one finds the files of the
\* other.  A connection that has ended does not come back, so all may end.
SPECIFICATION Spec
CONSTANTS
    p1 = p1
    p2 = p2
    Connections <- MCConnections
    StreamIds <- MCStreamIds
    MaxPublishes = 3
    MaxFiles = 2
    MaxFrames = 1
    MaxLives = 2
INVARIANTS
    NewestStaysRegistered
    CleanEndLeavesNothing
    NoFileWithoutWriter
    SolePublisherIsFound
SYMMETRY MCSymmetry
CHECK_DEADLOCK FALSE
