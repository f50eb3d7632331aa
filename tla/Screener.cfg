CONSTANTS
    b1 = b1
    Bases = {b1}
    Requests <- MCRequests
    ScanAll = ScanAll
    Decisions = {d1}
    Verdicts = {"proposal"}
    Actor <- MCActor
    Daily = 2  Reserve = 1  PerBase = 2  PerActor = 1
    IdleMaxAttempts = 2
    ApprovedDays = 2
    Days = 2
    MaxScans = 2
    MaxUpsets = 1
    None = None
SPECIFICATION FairSpec
INVARIANTS ScreenerTypeOK QuotaHolds ApprovalIsExact
PROPERTIES FinishedScanCloses SuppressedAnswered RunningEnds
