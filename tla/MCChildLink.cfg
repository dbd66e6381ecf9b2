CONSTANTS
    NoChild = NoChild
    Children <- TwoChildren
    SubStreamNum = 1
    MaxSessions = 2
    MaxLinks = 2
SPECIFICATION LinkFairSpec
INVARIANTS
    QueueFound
    RecordOwned
PROPERTIES
    RecordsSpec
    SessionsKeepSelected
    SessionsEnd
    InvitedSettled
    BrokenForgotten
    OrphansClosed
CHECK_DEADLOCK FALSE
