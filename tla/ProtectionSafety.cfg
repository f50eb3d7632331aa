CONSTANTS
    Amount = 3
    Protected = 2
    MinExec = 2
    MaxGen = 3
    MaxCrashes = 1
    HistoryGaps = TRUE
SPECIFICATION Spec
INVARIANTS OneObligation NoOversell NoRepeatedPost ImportsAreExecutions ClosedIsSettled DustIsFinal StrippedPositionBlocks
PROPERTIES ImplementsPosition
