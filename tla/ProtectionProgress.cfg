CONSTANTS
    Amount = 2
    Protected = 2
    MinExec = 2
    MaxGen = 3
    MaxCrashes = 1
    HistoryGaps = FALSE
SPECIFICATION FairSpec
PROPERTIES ExitsReachTrade BarePositionRecovers ClosedIsAcknowledged
