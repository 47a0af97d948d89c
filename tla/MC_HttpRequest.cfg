CONSTANTS
    FS <- MCFS
    Dot <- MCDot
    DotDot <- MCDotDot
    MaxLinks = 2
    StaticDir <- MCStaticDir
    IndexName <- MCIndexName
    Uris <- MCUris
    UpgradeValues <- MCUpgradeValues
    ExpectValues <- MCExpectValues
    Absent = Absent
    ContentLengths <- MCContentLengths
    BodyMax = 2
SPECIFICATION Spec
\* A request ends: the worker returns, hands over to the WebSocket
\* session, or dies.
CHECK_DEADLOCK FALSE
INVARIANT TypeOK
INVARIANT StatusAsSpecified
INVARIANT BodyAsAnnounced
INVARIANT HeaderPredicatesAsSpecified
PROPERTY Termination
