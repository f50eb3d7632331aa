CONSTANTS
    e1 = e1  e2 = e2  e3 = e3  l1 = l1  l2 = l2  l3 = l3  l4 = l4
    Writers = {w1, w2}
    Events = {e1, e2, e3}
    RawLines = {l1, l2, l3, l4}
    Parsed <- MCParsed
    LegacyFiles <- MCLegacyFiles
    Malformed = Malformed  Unencodable = Unencodable  Debris = Debris  NoWriter = NoWriter  NoEvent = NoEvent
    BatchLimit = 2
    MaxFaults = 2
    ConnectTimeout = 5  RecvTimeout = 3  PongTimeout = 2  FreshFor = 7
    MaxStreamFaults = 3
    Pairs = {p1, p2}
    Verification = Verification
    EvidenceFor = 3  RestPeriod = 2  ScanTime = 1
    MaxLapses = 2
SPECIFICATION ServicesSpec
INVARIANTS
    ProjectionFaithful LegacyEventsSurvive
    FreshMeansAlive SessionStaysFresh
    ApprovalSeesInventory AlarmHolds
PROPERTIES
    EventReachesFileLive StreamRecoversLive ApprovalReturnsLive
