CONSTANTS
    a = a
    f = f
    c1 = c1
    c2 = c2
    d1 = d1
    d2 = d2
    d3 = d3
    p1 = p1
    p2 = p2
    r1 = r1
    r2 = r2
    r3 = r3
    NoSecret = NoSecret
    Absent = Absent
    NoConn = NoConn
    NoRequest = NoRequest
    Key <- AgentKeys
    AgentKey <- AgentKeys
    Stamp <- Stamps
    Caller <- OneCaller
    Secret <- OneSecret
    Response <- OneSecret
    TTL = 2
    TicketLifetime = 2
    MaxKeys = 2
    MaxCallers = 2
    MaxTickets = 4
    Request <- Requests
    KeyOf <- AgentForAll
    CallerOf <- SameCaller
    Verified <- Requests
    Cacheable <- Requests
    Bus <- TwoDevices
    AtStart <- FirstDevice
    Anonymous <- None
    Failing <- None
    MaxNow = 0
    MaxChanges = 0
    MaxForgets = 1
    MaxPresses <- FirstOnce
    MaxRefresh <- Never
    MayCancel <- None
SPECIFICATION Spec
INVARIANTS
    ServiceInv
    OnlyVerifiedPinReturned
    HardwareSerialized
    RejectedNeverRetried
    CachedWasDelivered
PROPERTIES
    NothingUsefulDiscarded
