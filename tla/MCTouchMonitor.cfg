CONSTANTS
    p1 = p1
    p2 = p2
    c1 = c1
    c2 = c2
    Broadcast = Broadcast
    NoPath = NoPath
    Channel <- TwoChannels
    MaxChannels = 1
    StaleAfter = 1
    Path <- TwoPaths
    MaxDevices = 1
    Kinds <- FirstVaries
    Talks <- SecondSingle
    Delayed <- Second
    ScanEvery = 1
    MaxBurst = 1
    Failures = TRUE
    Contents <- SomeContents
    MaxStack = 1
    MaxNesting = 2
    Descriptors <- SomeDescriptors
SPECIFICATION FairSpec
INVARIANTS
    MonitorInv
    CoveredMeansWatched
    DescriptorsUnderstood
PROPERTIES
    NotClosedEarly
    SilentIsForgotten
    WaitingIsReported
