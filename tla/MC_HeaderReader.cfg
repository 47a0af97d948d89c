CONSTANTS
    Lines <- MCLines
    MaxLines = 3
    N = 7
    NHash = 1021
SPECIFICATION Spec
CHECK_DEADLOCK FALSE
INVARIANT TypeOK ReaderAsSpecified LastValueWins OneEntryPerName
