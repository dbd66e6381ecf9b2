CONSTANTS
    p1 = p1
    Players <- OnePlayer
    Size = 4
    Window = 2
    MaxSeq = 5
    NoChild = NoChild
    Children <- OneChild
    SubStreamNum = 2
    MaxSessions = 1
    MaxLinks = 1
    MaxFreezes = 0
SPECIFICATION RelaySpec
INVARIANTS
    NeverAhead
    InOrder
    QueuedIntact
    QueuedOnce
    RelayIntact
PROPERTIES
    NoneOverwritten
    PassedOverOnlyLate
CHECK_DEADLOCK FALSE
