CONSTANTS
    a = a
    b = b
    h1 = h1
    h2 = h2
    h3 = h3
    NoKey = NoKey
    Key <- LinkAndFile
    Movable <- Link
    Handler <- Handlers
    MaxConnections = 2
    MaxWaiting = 1
    AcceptFails = TRUE
SPECIFICATION FairSpec
PROPERTIES
    ShutdownCompletes
