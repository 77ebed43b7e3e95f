\* Two slots: frame 3 laps a read of frame 1.  Three futex values: the word wraps.
SPECIFICATION FairSpec
CONSTANTS
    r1 = r1
    r2 = r2
    c1 = c1
    c2 = c2
    Readers <- MCReaders
    PyReaders <- MCPyReaders
    Slots = 2
    Cells <- MCCells
    MaxFrames = 3
    NotifyWord = 3
INVARIANTS
    IntactUnlessLapped
    SleepersWillBeWoken
PROPERTIES
    ImplementsFeed
    PublishReachesSleepers
