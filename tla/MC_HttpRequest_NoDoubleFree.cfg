CONSTANTS
    FS <- MCFS
    Dot <- MCDot
    DotDot <- MCDotDot
    MaxLinks = 2
    StaticDir <- MCStaticDir
    IndexName <- MCIndexName
    Uris <- MCUris
    UpgradeValues <- MCUpgradeValues
    ExpectValues <- MCExpectValues
    Absent = Absent
    ContentLengths <- MCContentLengths
    BodyMax = 2
SPECIFICATION Spec
CHECK_DEADLOCK FALSE
INVARIANT NoDoubleFree
