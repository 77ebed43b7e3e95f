SPECIFICATION Spec
CONSTANTS
    r1 = r1
    r2 = r2
    c1 = c1
    c2 = c2
    Readers <- MCRustReader
    PyReaders = {}
    Slots = 2
    Cells <- MCCells
    MaxFrames = 3
    NotifyWord = 8
INVARIANT HandsOverOneFrame
