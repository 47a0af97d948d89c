CONSTANTS
    c1 = c1
    c2 = c2
    c3 = c3
    Clients <- MCClients
    Argvs <- MCArgvsExit
    Dirs <- MCDirs
    Slash <- MCSlash
    DefaultDir <- MCDefault
SPECIFICATION ServerSpec
\* The process ends: main returns, or the listener exits or returns.
CHECK_DEADLOCK FALSE
INVARIANT ExitStatusAsSpecified
