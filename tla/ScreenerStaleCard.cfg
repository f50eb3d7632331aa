CONSTANTS
    b1 = b1
    Bases = {b1}
    Requests <- MCRequests
    ScanAll = ScanAll
    Decisions = {d1}
    Verdicts = {"proposal", "stop"}
    Actor <- MCActor
    Daily = 2  Reserve = 1  PerBase = 2  PerActor = 1
    IdleMaxAttempts = 2
    ApprovedDays = 2
    Days = 2
    MaxScans = 2
    MaxUpsets = 1
    None = None
SPECIFICATION ScreenerSpec
INVARIANT NewVerdictBlocks
