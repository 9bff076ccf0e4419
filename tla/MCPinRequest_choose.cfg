CONSTANTS
    a = a
    f = f
    c1 = c1
    c2 = c2
    d1 = d1
    d2 = d2
    d3 = d3
    p1 = p1
    p2 = p2
    r1 = r1
    r2 = r2
    r3 = r3
    NoSecret = NoSecret
    Absent = Absent
    NoConn = NoConn
    NoRequest = NoRequest
    Key <- FileKeys
    AgentKey <- None
    Stamp <- Stamps
    Caller <- OneCaller
    Secret <- OneSecret
    Response <- SecretOrNothing
    TTL = 2
    TicketLifetime = 2
    MaxKeys = 2
    MaxCallers = 2
    MaxTickets = 4
    Request <- OneRequest
    KeyOf <- FileForAll
    CallerOf <- SameCaller
    Verified <- OneRequest
    Cacheable <- OneRequest
    Bus <- ThreeDevices
    AtStart <- AllDevices
    Anonymous <- ThirdDevice
    Failing <- None
    MaxNow = 0
    MaxChanges = 1
    MaxForgets = 0
    MaxPresses <- Twice
    MaxRefresh <- Never
    MayCancel <- OneRequest
SPECIFICATION Spec
INVARIANTS
    CachedWasDelivered
    OneUnlessDisturbed
    SelectedAsConfirmed
    CancelHeard
