CONSTANTS
    NoChild = NoChild
    Children <- TwoChildren
    SubStreamNum = 1
    MaxSessions = 2
    MaxLinks = 2
SPECIFICATION LinkSpec
INVARIANT QueueInfoFound
CHECK_DEADLOCK FALSE
