CONSTANTS
    c1 = c1
    c2 = c2
    Chunks <- MCChunks
    ClientFrames <- MCClientFrames
    MaxFrames = 4
    AllocLimit = 1
SPECIFICATION Spec
CHECK_DEADLOCK FALSE
INVARIANT NoHeapCorruption
