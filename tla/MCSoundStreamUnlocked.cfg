SPECIFICATION Spec
CONSTANTS
    Samples = 2
    Reserve = 1
    Chunk = 2
    FifoFrames = 6
    ClockBase = 2
    Word = 16
    MaxClock = 8
    MaxCallbacks = 3
    MaxEpoch = 2
INVARIANTS
    PlayedOnce
