CONSTANTS
    a = a
    f = f
    c1 = c1
    c2 = c2
    s1 = s1
    s2 = s2
    p1 = p1
    p2 = p2
    Key <- Keys
    AgentKey <- AgentKeys
    Stamp <- Stamps
    Caller <- Callers
    Secret <- OneSecret
    NoSecret = NoSecret
    Absent = Absent
    TTL = 1
    TicketLifetime = 2
    MaxKeys = 2
    MaxCallers = 2
    MaxTickets = 2
    MaxNow = 2
    MaxSeq = 5
SYMMETRY Symmetry
SPECIFICATION Spec
INVARIANTS
    StoreInv
    NoSecondCandidate
PROPERTIES
    OnlyCommitChanges
    ImplementsLease
