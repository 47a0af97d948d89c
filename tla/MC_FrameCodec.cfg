CONSTANTS
    Frames <- MCFrames
    Keys <- MCKeys
    MaxFrames = 2
    MemLimit = 65536
    RequireMasked = TRUE
SPECIFICATION Spec
\* The session ends when read_dataframe fails; nothing follows it.
CHECK_DEADLOCK FALSE
INVARIANT DeliversAcceptedFrames
INVARIANT HeaderAsSpecified
PROPERTY ReaderDrains
