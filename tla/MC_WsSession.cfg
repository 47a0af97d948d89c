CONSTANTS
    c1 = c1
    c2 = c2
    Chunks <- MCChunks
    ClientFrames <- MCClientFrames
    MaxFrames = 4
    AllocLimit = 1
SPECIFICATION Spec
\* A session ends (pc "done" or a dead worker) and nothing follows it.
CHECK_DEADLOCK FALSE
INVARIANT TypeOK
INVARIANT PongsMatchPings
PROPERTY Termination
